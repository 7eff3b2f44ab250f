SPECIFICATION Spec
CONSTANTS
  IB = IB
  IC = IC
  EC = EC
  s1 = s1
  s2 = s2
  hIB = hIB
  hIC = hIC
  hEC = hEC
  Committee = EC
  UnlistedBox = UnlistedBox
  NoBox = NoBox
  BallotBoxes <- MCBallotBoxes
  Handlers <- MCHandlers
  NodeOf <- MCNodeOf
  Operations <- MCCommitteeCallsAll
  Students = {s1}
  Afternoons = {TRUE}
  Weekdays = {0, 1}
  Faults = {"read", "crash"}
  Concurrency = "voter"
  MaxSteps = 4
INVARIANTS
  AtMostOneVote
  AcceptedIsRecorded
  VotesNeverOvercounted
PROPERTIES
  VotedIsFinal
  DirectorySpec
