SPECIFICATION Spec
CONSTANTS
  c1 = c1
  c2 = c2
  Calls = {c1, c2}
  Roles = {"committee", "box"}
  Deleters = {"committee", "box"}
  Hasty = {"create", "load", "start", "delete"}
  Failures = {"create", "load", "restore", "self", "init", "wipe"}
  MaxEvents = 4
  MaxLoops = 3
INVARIANTS
  TypeOK
  StartedHasServices
  StoredIsShown
SYMMETRY CallSymmetry
CHECK_DEADLOCK FALSE
