SPECIFICATION FairSpec
CONSTANTS
  IB = IB
  IC = IC
  Boxes <- MCBoxes
  Committee = Committee
  BoxLists <- MCBoxLists
  Aborts = TRUE
  MaxRuns = 2
  MaxEvents = 1
INVARIANTS
  TypeOK
  RunRepairs
  ArchivesWork
PROPERTIES
  StartedIsReachable
CHECK_DEADLOCK FALSE
