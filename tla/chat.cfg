SPECIFICATION FairSpec
CONSTANTS
  Nodes = {"IB", "EC"}
  Texts = {"more ballots"}
  Passwords = {"k1", "k2"}
  password <- MCPassword
  Times = {1, 2}
  Calls = {1, 2}
  MaxWrites = 2
  MaxEvents = 1
INVARIANTS
  TypeOK
  WrittenIsReadable
PROPERTIES
  PagesConverge
CHECK_DEADLOCK FALSE
