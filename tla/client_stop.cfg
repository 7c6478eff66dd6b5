SPECIFICATION FairSpec
CONSTANTS
  m1 = m1
  m2 = m2
  m3 = m3
  c1 = c1
  c2 = c2
  NoMsg = NoMsg
  Client = {c1}
  Msg = {m1, m2}
  Batch <- BothAtOnce
  BindMode <- OneTrx
  Total <- ShortTotal
  Part <- ShortTotal
  Empty = {}
  Unencodable = {m2}
  Window = 1
  Stoppable = {c1}
  MaxFaults <- StopFaults
  MaxRequests = 0
  MaxPdus = 2
PROPERTIES ImplementsLifecycle StopReturns
CHECK_DEADLOCK FALSE
