SPECIFICATION BootSpec
CONSTANTS
  None = None
  Sbwsize = 8
  Bsize = 4
  MaxBlocks = 4
  Uploadsz = 12
  FwLen = 18
  MaxConfig = 4
  RamSize = 40
  MaxFaults = 1
  ChipFaults = 2
  MaxCommands = 3
INVARIANTS ChipBroughtUp UploadExact ControlConsistent
PROPERTIES BootEnds ScansRestart
CHECK_DEADLOCK FALSE
