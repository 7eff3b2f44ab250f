SPECIFICATION FairSpec
CONSTANTS
  c1 = c1
  c2 = c2
  Calls = {c1, c2}
  Roles = {"committee", "box"}
  Deleters = {"committee"}
  Hasty = {"start"}
  Failures = {"create", "load", "self", "init"}
  MaxEvents = 5
  MaxLoops = 4
INVARIANTS
  StoredIsRestorable
PROPERTIES
  StartEnds
  ElectionResumes
CHECK_DEADLOCK FALSE
