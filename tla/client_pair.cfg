SPECIFICATION Spec
CONSTANTS
  m1 = m1
  m2 = m2
  m3 = m3
  c1 = c1
  c2 = c2
  NoMsg = NoMsg
  Client = {c1, c2}
  Msg = {m1}
  Batch <- OneBatch
  BindMode <- TxRx
  Total <- ShortTotal
  Part <- ShortTotal
  Empty = {}
  Unencodable = {}
  Window = 1
  Stoppable = {}
  MaxFaults <- NetFaults
  MaxRequests = 0
  MaxPdus = 2
PROPERTIES ImplementsLifecycle
