SPECIFICATION FairSpec
CONSTANTS
  IB = IB
  IC = IC
  EC = EC
  s1 = s1
  s2 = s2
  hIB = hIB
  hIC = hIC
  hEC = hEC
  Committee = EC
  UnlistedBox = UnlistedBox
  NoBox = NoBox
  BallotBoxes <- MCBallotBoxes
  Handlers <- MCHandlers
  NodeOf <- MCNodeOf
  Operations <- MCElection
  Students = {s1, s2}
  Afternoons = {FALSE, TRUE}
  Weekdays = {1, 5}
  Faults = {}
  Concurrency = "serial"
  MaxSteps = 3
INVARIANTS
  StatsExact
PROPERTIES
  VotedIsCounted
  ApiStaysUp
