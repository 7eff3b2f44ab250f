SPECIFICATION Spec
CONSTANTS
  IB = IB
  IC = IC
  EC = EC
  s1 = s1
  s2 = s2
  hIB = hIB
  hIC = hIC
  hEC = hEC
  Committee = EC
  UnlistedBox = UnlistedBox
  NoBox = NoBox
  BallotBoxes <- MCBallotBoxes
  Handlers <- MCHandlers
  NodeOf <- MCNodeOf
  Operations <- MCElection
  Students = {s1}
  Afternoons = {TRUE}
  Weekdays = {0, 1}
  Faults = {"read", "write", "crash"}
  Concurrency = "any"
  MaxSteps = 3
INVARIANTS
  TypeOK
  StatsAddUp
  VotedHadBallot
  RowsNameHomeBox
