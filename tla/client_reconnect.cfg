SPECIFICATION Spec
CONSTANTS
  m1 = m1
  m2 = m2
  m3 = m3
  c1 = c1
  c2 = c2
  NoMsg = NoMsg
  Client = {c1}
  Msg = {m1, m2}
  Batch <- TwoBatches
  BindMode <- OneTrx
  Total <- ShortTotal
  Part <- ShortTotal
  Empty = {m2}
  Unencodable = {}
  Window = 1
  Stoppable = {}
  MaxFaults <- RefuseFaults
  MaxRequests = 0
  MaxPdus = 2
INVARIANTS TypeOK OnePlace InFlightRegistered ReportedWasSent
PROPERTIES SubmittedOnce NoAckMissed DlrFollowsAck
