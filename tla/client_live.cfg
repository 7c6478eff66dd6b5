SPECIFICATION FairSpec
CONSTANTS
  m1 = m1
  m2 = m2
  m3 = m3
  c1 = c1
  c2 = c2
  NoMsg = NoMsg
  Client = {c1}
  Msg = {m1}
  Batch <- OneBatch
  BindMode <- OneTrx
  Total <- ShortTotal
  Part <- ShortTotal
  Empty = {}
  Unencodable = {}
  Window = 1
  Stoppable = {}
  MaxFaults <- MostFaults
  MaxRequests = 1
  MaxPdus = 2
INVARIANTS MessageInv
PROPERTIES EveryMessageEnds
