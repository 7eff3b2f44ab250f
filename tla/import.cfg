SPECIFICATION FairImportSpec
CONSTANTS
  IB = IB
  IC = IC
  EC = EC
  s0 = s0
  s1 = s1
  t1 = t1
  t2 = t2
  h1 = h1
  h2 = h2
  Committee = EC
  UnlistedBox = UnlistedBox
  NoBox = NoBox
  BallotBoxes <- MCBallotBoxes
  Handlers = {h1, h2}
  NodeOf <- MCNodeOf
  Operations <- MCOperations
  Students = {s0, s1}
  Afternoons = {TRUE}
  Weekdays = {1}
  Faults = {"read", "crash"}
  Concurrency = "any"
  MaxSteps = 0
  Files <- MCFiles
  BadId = BadId
  Zero = s0
  Tools = {t1, t2}
  Kinds <- MCKinds
  HandlerOf <- MCHandlerOf
INVARIANTS
  ImportTypeOK
  FinishedImportIsComplete
  FirstRowCounts
  VotersNeverOvercounted
PROPERTIES
  ToolsEnd
CHECK_DEADLOCK FALSE
