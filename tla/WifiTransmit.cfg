SPECIFICATION FairSpec
CONSTANTS
  Reader = Reader
  User = User
  Timer = Timer
  None = None
  SeqMod = 4
  Credits = 2
  MaxQueue = 2
  MaxFrames = 3
  MaxCmds = 1
  MaxJoins = 0
  MaxFlow = 1
  MaxDeauth = 0
  MaxRoam = 0
  MaxGarbled = 0
INVARIANTS WireOrder
PROPERTIES  NoLostFlowStart
CHECK_DEADLOCK FALSE
