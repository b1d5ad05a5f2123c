SPECIFICATION Spec
CONSTANTS
  Tasks = {t1}
  AddrSpace = 1048576
  Base = 544
  Size = 200
  PageReserve = 1024
  BlockReserve = 64
  Header = 1
  Buckets = {16, 64, 128}
  Requests = {16, 64, 100}
  Null = Null
  MaxAllocs = 4
INVARIANTS HeapContained
CHECK_DEADLOCK FALSE
