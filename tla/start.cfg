SPECIFICATION FairSpec
CONSTANTS
  IB = IB
  EC = EC
  c1 = c1
  c2 = c2
  lEC1 = lEC1
  lEC2 = lEC2
  lIB = lIB
  Committee = EC
  BallotBoxes <- MCBallotBoxes
  Loops <- MCLoops
  NodeOf <- MCNodeOf
  Columns <- MCColumns
  OldColumns <- MCOldColumns
  MaxEvents = 1
INVARIANTS
  TypeOK
PROPERTIES
  SetupCompletes
  EveryNodeServes
