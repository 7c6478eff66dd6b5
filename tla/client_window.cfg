SPECIFICATION Spec
CONSTANTS
  m1 = m1
  m2 = m2
  m3 = m3
  c1 = c1
  c2 = c2
  NoMsg = NoMsg
  Client = {c1}
  Msg = {m1, m2, m3}
  Batch <- LongBatches
  BindMode <- OneTrx
  Total <- LongTotal
  Part <- LongPart
  Empty = {}
  Unencodable = {}
  Window = 1
  Stoppable = {}
  MaxFaults <- NoFaults
  MaxRequests = 0
  MaxPdus = 2
INVARIANTS WindowBound
PROPERTIES LongSmContiguous
