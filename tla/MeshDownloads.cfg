SPECIFICATION FairSpec
CONSTANTS
  Connection = {c1, c2, c3}
  MaxWorkers = 2
  Size = {1, 2}
  MaxBytes = 3
  Ttl = 2
  None = None
INVARIANTS
  SlotsAccounted
  BytesBounded
  NewestIsWhole
PROPERTIES
  RequestsEnd
