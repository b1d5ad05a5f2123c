SPECIFICATION Spec
CONSTANTS
  Reader = Reader
  User = User
  Timer = Timer
  None = None
  SeqMod = 4
  Credits = 2
  MaxQueue = 1
  MaxFrames = 0
  MaxCmds = 1
  MaxJoins = 2
  MaxFlow = 0
  MaxDeauth = 1
  MaxRoam = 1
  MaxGarbled = 1
INVARIANTS OneExchange ConnectedMeansLinkUp
CHECK_DEADLOCK FALSE
