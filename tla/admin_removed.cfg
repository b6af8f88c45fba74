SPECIFICATION AccountsSpec
CONSTANTS
  Email = {"e1", "e2"}
  MaxAccounts = 2
  UserCaller = {"c1", "c2"}
INVARIANTS
  AdminRemains
