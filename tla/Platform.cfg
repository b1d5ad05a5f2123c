SPECIFICATION PlatformSpec
CONSTANTS
  Tasks = {t1, t2}
  AddrSpace = 64
  Base = 8
  Size = 17
  PageReserve = 1
  BlockReserve = 2
  Header = 1
  Buckets = {2, 4}
  Requests = {1, 4, 5}
  Null = Null
  MaxAllocs = 4
  WordBits = 2
  TotalFrames = 12
  KernelFrames = 3
  FrameRequests = {1, 2, 3}
  Stale = {9, 10}
  AfterArray = {{}, {12, 13, 14, 15, 16, 17, 18, 19, 20, 21, 22, 23}}
  Sender = Sender
  Reader = Reader
  NoTask = NoTask
  MaxFrames = 4
  None = None
  NumIrqs = 2
  MaxDepth = 3
  MaxRaised = 4
  Word = 4
  MaxCount = 9
  PerSecond = 2
  Delays = {1, 5}
  Timeout = 2
  PtSize = 20
  MaxTags = 2
  MaxRequests = 2
  MaxOther = 1
  Full = 1
  Nodes = {n1, n2, n3}
  Data = {a, b}
  MaxSteps = 6
  Heap = 8
  MaxPackets = 3
  KeyLen = 3
  MinKeyLen = 1
  MaxKeyLen = 3
  LongWidth = 256
  WordWidth = 16
  MaxKeys = 2
  Wide = 64
  Reserve = 3
  MaxOps = 1
INVARIANTS HeapExact  QueueExact IrqsHandled TimerExact AnswersOwn ListHolds FramesDelivered TextConverted
CONSTRAINT Sound
CHECK_DEADLOCK FALSE
