SPECIFICATION StorageSpec
CONSTANTS
  None = None
  BlockWords = 3
  FifoWords = 2
  Burst = 2
  Starts = {1}
  Counts = {1, 2}
  PowerRetries = 2
  CidRetries = 1
  MaxReads = 2
  MaxFaults = 2
  Blocks = {0, 1, 2, 3}
  SectorBytes = 2
  OpStarts = {2}
  OpCounts = {1, 2}
  Tries = 1
  MaxOps = 2
  FatPerSector = 2
  EntriesPerSector = 4
  Eoc = 268435455
  Bad = 268435447
  MaxCalls = 1
  MaxInits = 2
  MaxFails = 2
  MaxClk = 250000000
  MaxCdiv = 2047
  EmmcBase = 41666667
  MaxDivisor = 1023
  Wanted = {0, 99999, 100000, 122010, 122011, 400000, 20833333, 25000000, 41666667, 124999999, 125000000}
INVARIANTS StandardCardsByAddress
CHECK_DEADLOCK FALSE
