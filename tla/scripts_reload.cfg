SPECIFICATION Spec
CONSTANTS
  p = p
  q = q
  Preview = {p, q}
  Port = {1, 2, 3}
  Api = 99
  Failures = {"reload", "promote"}
SYMMETRY Symmetry
INVARIANTS
  PortsDisjoint
  StartFindsPortFree
