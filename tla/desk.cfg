SPECIFICATION FairDeskSpec
CONSTANTS
  IB = IB
  EC = EC
  s1 = s1
  hIB = hIB
  hIB2 = hIB2
  Committee = EC
  UnlistedBox = UnlistedBox
  NoBox = NoBox
  BallotBoxes = {IB}
  Handlers <- MCHandlers
  NodeOf <- MCNodeOf
  Operations <- MCOperations
  Students = {s1}
  Afternoons = {TRUE}
  Weekdays = {1}
  Faults = {"crash"}
  Concurrency = "any"
  MaxSteps = 3
INVARIANTS
  VoteCountsUnlessOverlapped
  StepIsLabel
PROPERTIES
  PressEnds
