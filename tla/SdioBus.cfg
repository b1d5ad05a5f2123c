SPECIFICATION FairSpec
CONSTANTS
  Reader = Reader
  User = User
  None = None
  Late = Late
  LateAck = LateAck
  Retries = 2
  MaxRare = 1
INVARIANTS OwnTransfer
PROPERTIES LockReturned 
