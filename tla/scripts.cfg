SPECIFICATION Spec
CONSTANTS
  p = p
  q = q
  Preview = {p, q}
  Port = {1, 2, 3}
  Api = 99
  Failures = {"build", "start", "kill"}
SYMMETRY Symmetry
INVARIANTS
  TypeOK
  UrlStaysOwn
  ActiveIsLive
PROPERTIES
  OnlyStoppedByItself
