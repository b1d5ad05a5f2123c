SPECIFICATION FairSpec
CONSTANTS
  Entries = {e1, e2, e3}
  Null = Null
  Frames = {f1, f2}
  BadFrames = {fb}
  Empty = Empty
  MaxCalls = 4
INVARIANTS QueueInv
PROPERTIES FifoSpec Drains
