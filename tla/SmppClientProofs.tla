-------------------------- MODULE SmppClientProofs --------------------------
(* Proofs about the client, for every value of the constants.              *)
EXTENDS SmppClientProperties, FiniteSetTheorems, TLAPS

USE NoMsgAssumption

LEMMA PduFacts ==
  /\ NoPdu \in Pdu
  /\ \A t \in PlainTypes : Plain(t) \in Pdu
  /\ \A t \in MessageTypes, m \in Msg : Carry(t, m) \in Pdu
  /\ \A ok \in BOOLEAN : Answer("BindResp", NoMsg, ok) \in Pdu
  /\ \A m \in Msg, ok \in BOOLEAN : Answer("SubmitSmResp", m, ok) \in Pdu
  /\ \A p \in Pdu : p.ok \in BOOLEAN /\ p.sm \in Msg \union {NoMsg}
  /\ \A p \in Pdu : p.type = "SubmitSm" => p.sm \in Msg
BY DEF NoPdu, Pdu, Plain, Carry, Answer, PlainTypes, MessageTypes

\* The variables an action leaves alone keep their types.
LEMMA UnchangedTypes ==
  ASSUME TypeOK
  PROVE  /\ UNCHANGED dsVars => DsTypeOK'
         /\ UNCHANGED appVars => AppTypeOK'
         /\ UNCHANGED workerVars => WorkerTypeOK'
         /\ UNCHANGED receiverVars => ReceiverTypeOK'
         /\ UNCHANGED ackVars => AckTypeOK'
         /\ UNCHANGED <<connected, bound>> => FlagTypeOK'
         /\ UNCHANGED linkVars => LinkTypeOK'
         /\ UNCHANGED serverVars => ServerTypeOK'
         /\ UNCHANGED stopVars => StopTypeOK'
         /\ UNCHANGED history => HistoryTypeOK'
<1>1. UNCHANGED dsVars => DsTypeOK'
  BY DEF TypeOK, dsVars, DsTypeOK
<1>2. UNCHANGED appVars => AppTypeOK'
  BY DEF TypeOK, appVars, AppTypeOK
<1>3. UNCHANGED workerVars => WorkerTypeOK'
  BY DEF TypeOK, workerVars, WorkerTypeOK
<1>4. UNCHANGED receiverVars => ReceiverTypeOK'
  BY DEF TypeOK, receiverVars, ReceiverTypeOK
<1>5. UNCHANGED ackVars => AckTypeOK'
  BY DEF TypeOK, ackVars, AckTypeOK
<1>6. UNCHANGED <<connected, bound>> => FlagTypeOK'
  BY DEF TypeOK, FlagTypeOK
<1>7. UNCHANGED linkVars => LinkTypeOK'
  BY DEF TypeOK, linkVars, LinkTypeOK
<1>8. UNCHANGED serverVars => ServerTypeOK'
  BY DEF TypeOK, serverVars, ServerTypeOK
<1>9. UNCHANGED stopVars => StopTypeOK'
  BY DEF TypeOK, stopVars, StopTypeOK
<1>10. UNCHANGED history => HistoryTypeOK'
  BY DEF TypeOK, history, HistoryTypeOK
<1>. QED
  BY <1>1, <1>2, <1>3, <1>4, <1>5, <1>6, <1>7, <1>8, <1>9, <1>10

LEMMA CloseSocketType ==
  ASSUME LinkTypeOK, NEW c \in Client, CloseSocket(c) \/ DropSocket(c)
  PROVE  LinkTypeOK'
<1>1. \/ UNCHANGED <<link, c2s, s2c, session>>
      \/ /\ link' = [link EXCEPT ![c] = "closed"]
         /\ c2s' = [c2s EXCEPT ![c] = << >>]
         /\ s2c' = [s2c EXCEPT ![c] = << >>]
         /\ session' = [session EXCEPT ![c] = "none"]
  BY Zenon DEF CloseSocket, DropSocket, linkVars
<1>2. << >> \in Seq(Pdu)
  OBVIOUS
<1>3. CASE UNCHANGED <<link, c2s, s2c, session>>
  BY <1>3 DEF LinkTypeOK
<1>4. CASE /\ link' = [link EXCEPT ![c] = "closed"]
           /\ c2s' = [c2s EXCEPT ![c] = << >>]
           /\ s2c' = [s2c EXCEPT ![c] = << >>]
           /\ session' = [session EXCEPT ![c] = "none"]
  <2>1. link' \in [Client -> {"up", "silent", "reset", "closed"}]
    BY <1>4 DEF LinkTypeOK
  <2>2. c2s' \in [Client -> Seq(Pdu)] /\ s2c' \in [Client -> Seq(Pdu)]
    BY <1>2, <1>4 DEF LinkTypeOK
  <2>3. session' \in [Client -> {"none", "open", "bound"}]
    BY <1>4 DEF LinkTypeOK
  <2>. QED
    BY <2>1, <2>2, <2>3 DEF LinkTypeOK
<1>. QED
  BY <1>1, <1>3, <1>4

LEMMA SendsType ==
  ASSUME LinkTypeOK, NEW c \in Client, NEW p \in Pdu, Sends(c, p),
         UNCHANGED <<link, s2c, session>>
  PROVE  LinkTypeOK'
<1>1. c2s' = [c2s EXCEPT ![c] = Append(@, p)] \/ c2s' = c2s
  BY Zenon DEF Sends
<1>2. c2s' \in [Client -> Seq(Pdu)]
  <2>1. c2s \in [Client -> Seq(Pdu)] /\ Append(c2s[c], p) \in Seq(Pdu)
    BY DEF LinkTypeOK
  <2>. QED
    BY <1>1, <2>1
<1>. QED
  BY <1>2 DEF LinkTypeOK

LEMMA GivesType ==
  ASSUME LinkTypeOK, NEW c \in Client, NEW p \in Pdu, Gives(c, p)
  PROVE  s2c' \in [Client -> Seq(Pdu)]
BY DEF LinkTypeOK, Gives

LEMMA TakesType ==
  ASSUME LinkTypeOK, NEW c \in Client, NEW t, Takes(c, t)
  PROVE  /\ c2s' \in [Client -> Seq(Pdu)]
         /\ Head(c2s[c]) \in Pdu /\ Head(c2s[c]).type = t
BY DEF LinkTypeOK, Takes

LEMMA UseFaultType ==
  ASSUME faults \in [FaultKinds -> Nat], NEW k \in FaultKinds, UseFault(k)
  PROVE  faults' \in [FaultKinds -> Nat]
BY DEF UseFault

LEMMA ReportType ==
  ASSUME DsTypeOK, NEW S \in SUBSET Msg, NEW s \in Statuses, Report(S, s)
  PROVE  delivered' \subseteq Msg /\ status' \in [Msg -> Statuses]
BY DEF DsTypeOK, Report

LEMMA InitTypeOK == Init => TypeOK
<1>. SUFFICES ASSUME Init PROVE TypeOK
  OBVIOUS
<1>1. DsTypeOK
  BY DEF Init, DsInit, DsTypeOK, Statuses, Ages
<1>2. ServerTypeOK
  BY BoundAssumption DEF Init, ServerTypeOK
<1>3. WorkerTypeOK /\ ReceiverTypeOK
  BY PduFacts DEF Init, WorkerTypeOK, ReceiverTypeOK, WorkerPcs, ReceiverPcs
<1>4. AckTypeOK /\ FlagTypeOK /\ LinkTypeOK
  BY DEF Init, AckTypeOK, FlagTypeOK, LinkTypeOK
<1>5. AppTypeOK /\ StopTypeOK /\ HistoryTypeOK
  BY DEF Init, AppTypeOK, StopTypeOK, HistoryTypeOK, StopPcs
<1>. QED
  BY <1>1, <1>2, <1>3, <1>4, <1>5 DEF TypeOK

LEMMA WorkerStepTypeOK ==
  ASSUME TypeOK, NEW c \in Client, Worker(c)
  PROVE  TypeOK'
<1>. USE UnchangedTypes DEF TypeOK
<1>1. CASE Connect(c)
  <2>1. CASE /\ wpc' = [wpc EXCEPT ![c] = "bind"]
             /\ connected' = [connected EXCEPT ![c] = TRUE]
             /\ link' = [link EXCEPT ![c] = "up"]
             /\ c2s' = [c2s EXCEPT ![c] = << >>]
             /\ s2c' = [s2c EXCEPT ![c] = << >>]
             /\ session' = [session EXCEPT ![c] = "open"]
    <3>1. LinkTypeOK' /\ FlagTypeOK'
      BY <1>1, <2>1 DEF Connect, FlagTypeOK, LinkTypeOK
    <3>2. WorkerTypeOK'
      BY <1>1, <2>1 DEF Connect, WorkerTypeOK, WorkerPcs
    <3>. QED
      BY <1>1, <3>1, <3>2 DEF Connect
  <2>2. CASE DropSocket(c) /\ UNCHANGED <<wpc, connected>>
    BY <1>1, <2>2 DEF Connect, DropSocket, WorkerTypeOK, FlagTypeOK, LinkTypeOK
  <2>. QED
    BY <1>1, <2>1, <2>2 DEF Connect
<1>2. CASE Bind(c)
  BY <1>2, CloseSocketType, SendsType, PduFacts DEF Bind, WorkerAt,
     WorkerTypeOK, WorkerPcs, Disconnecting, PlainTypes
<1>3. CASE BindAcknowledged(c)
  BY <1>3 DEF BindAcknowledged, WorkerAt, WorkerTypeOK, WorkerPcs
<1>4. CASE GiveUpBinding(c)
  BY <1>4, CloseSocketType, UseFaultType DEF GiveUpBinding, WorkerAt,
     WorkerTypeOK, WorkerPcs, Disconnecting, FreshSmi, Hand, ServerTypeOK,
     serverVars, FaultKinds, HistoryTypeOK
<1>5. CASE DlrTimeouts(c)
  BY <1>5, ReportType DEF DlrTimeouts, WorkerAt, WorkerTypeOK, WorkerPcs,
     ProcessWaitingDlrTimeout, DsTypeOK, Statuses
<1>6. CASE WaitingTimeouts(c)
  BY <1>6 DEF WaitingTimeouts, WorkerAt, WorkerTypeOK, WorkerPcs,
     ASmisWaitingAckTimeout, AckTypeOK
<1>7. CASE AckTimeouts(c)
  BY <1>7, ReportType DEF AckTimeouts, WorkerAt, WorkerTypeOK, WorkerPcs,
     SubmitFailed, Expired, DsTypeOK, Statuses, AckTypeOK
<1>8. CASE Fetch(c)
  BY <1>8 DEF Fetch, WorkerAt, WorkerTypeOK, WorkerPcs, GetToSubmit,
     DsTypeOK
<1>9. CASE PickNothing(c)
  BY <1>9 DEF PickNothing, WorkerAt, WorkerTypeOK, WorkerPcs
<1>10. CASE EncodingFails(c)
  BY <1>10 DEF EncodingFails, WorkerAt, WorkerTypeOK, WorkerPcs,
     HistoryTypeOK
<1>11. CASE Register(c)
  BY <1>11 DEF Register, WorkerAt, WorkerTypeOK, WorkerPcs, AddWaitingAck,
     Stamp, AckTypeOK, DsTypeOK, Ages
<1>12. CASE WriteSubmit(c)
  <2>1. ServerTypeOK'
    BY <1>12, UseFaultType DEF WriteSubmit, ServerTypeOK, FaultKinds
  <2>. QED
    BY <1>12, <2>1, SendsType, PduFacts DEF WriteSubmit, WorkerAt, WorkerTypeOK,
       WorkerPcs, ClearContent, MessageTypes, linkVars, history, HistoryTypeOK
<1>13. CASE Unregister(c)
  BY <1>13, CloseSocketType DEF Unregister, WorkerAt, WorkerTypeOK,
     WorkerPcs, Disconnecting, RemoveWaitingAck, AckTypeOK, HistoryTypeOK
<1>14. CASE NoHeartbeat(c)
  BY <1>14 DEF NoHeartbeat, WorkerAt, WorkerTypeOK, WorkerPcs
<1>15. CASE Heartbeat(c)
  BY <1>15, CloseSocketType DEF Heartbeat, WorkerAt, WorkerTypeOK,
     WorkerPcs, Disconnecting
<1>16. CASE WorkerDisconnected(c)
  BY <1>16 DEF WorkerDisconnected, WorkerAt, WorkerTypeOK, WorkerPcs,
     ClearConnected, FlagTypeOK
<1>17. CASE WorkerExit(c)
  BY <1>17 DEF WorkerExit, WorkerAt, WorkerTypeOK, WorkerPcs, LoopHeads,
     Hand, FreshSmi, HistoryTypeOK
<1>. QED
  BY <1>1, <1>2, <1>3, <1>4, <1>5, <1>6, <1>7, <1>8, <1>9, <1>10, <1>11,
     <1>12, <1>13, <1>14, <1>15, <1>16, <1>17 DEF Worker

LEMMA ReceiverStepTypeOK ==
  ASSUME TypeOK, NEW c \in Client, Receiver(c)
  PROVE  TypeOK'
<1>. USE UnchangedTypes DEF TypeOK
<1>1. CASE Listen(c)
  BY <1>1 DEF Listen, ReceiverAt, ReceiverTypeOK, ReceiverPcs
<1>2. CASE ReadResp(c)
  BY <1>2 DEF ReadResp, ReceiverAt, ReceiverTypeOK, ReceiverPcs, LinkTypeOK
<1>13. CASE ReadShort(c)
  BY <1>13 DEF ReadShort, ReceiverAt, ReceiverTypeOK, ReceiverPcs, LinkTypeOK
<1>3. CASE ReadTooLong(c)
  BY <1>3, CloseSocketType, UseFaultType DEF ReadTooLong, ReceiverAt,
     ReceiverTypeOK, ReceiverPcs, Disconnecting, ServerTypeOK, FaultKinds
<1>4. CASE BindRespReceived(c)
  BY <1>4, PduFacts DEF BindRespReceived, ReceiverAt, ReceiverTypeOK,
     ReceiverPcs, Handles, FlagTypeOK
<1>5. CASE GetWaitingAck(c)
  BY <1>5 DEF GetWaitingAck, ReceiverAt, ReceiverTypeOK, ReceiverPcs,
     Handles, AckTypeOK
<1>6. CASE GetAckTimeout(c)
  <2>1. CASE FoundLate(c, pdu[c].sm)
    BY <1>6, <2>1 DEF GetAckTimeout, FoundLate, ReceiverAt, ReceiverTypeOK,
       ReceiverPcs, AckTypeOK
  <2>2. CASE ~FoundLate(c, pdu[c].sm)
    BY <1>6, <2>2, PduFacts DEF GetAckTimeout, ReceiverAt, ReceiverTypeOK,
       ReceiverPcs, AckTypeOK
  <2>. QED
    BY <2>1, <2>2
<1>7. CASE Acknowledge(c)
  <2>1. rsmi[c] \in Msg /\ {rsmi[c]} \in SUBSET Msg
    BY <1>7 DEF Acknowledge, ReceiverAt, ReceiverTypeOK
  <2>2. \/ SmIsDelivering(rsmi[c])
        \/ SubmitFailed({rsmi[c]}, "rejected")
    BY <1>7 DEF Acknowledge
  <2>3. DsTypeOK'
    BY <2>1, <2>2, ReportType DEF SmIsDelivering, SubmitFailed, Stamp,
       DsTypeOK, Statuses, Ages
  <2>4. ReceiverTypeOK'
    BY <1>7, PduFacts DEF Acknowledge, ReceiverAt, ReceiverTypeOK, ReceiverPcs
  <2>. QED
    BY <1>7, <2>3, <2>4 DEF Acknowledge
<1>8. CASE DlrReceived(c)
  BY <1>8, ReportType DEF DlrReceived, ReceiverAt, ReceiverTypeOK,
     ReceiverPcs, Handles, SmIsDelivered, DsTypeOK, Statuses
<1>9. CASE RequestReceived(c)
  BY <1>9 DEF RequestReceived, ReceiverAt, ReceiverTypeOK, ReceiverPcs,
     Handles
<1>10. CASE Respond(c)
  BY <1>10, CloseSocketType, PduFacts DEF Respond, ReceiverAt,
     ReceiverTypeOK, ReceiverPcs, Disconnecting
<1>11. CASE UnbindRespReceived(c)
  BY <1>11, CloseSocketType, PduFacts DEF UnbindRespReceived, ReceiverAt,
     ReceiverTypeOK, ReceiverPcs, Handles, FlagTypeOK
<1>12. CASE ReceiverDisconnected(c)
  BY <1>12 DEF ReceiverDisconnected, ReceiverAt, ReceiverTypeOK,
     ReceiverPcs, ClearConnected, FlagTypeOK
<1>. QED
  BY <1>1, <1>2, <1>3, <1>4, <1>5, <1>6, <1>7, <1>8, <1>9, <1>10, <1>11,
     <1>12, <1>13 DEF Receiver

LEMMA StopStepTypeOK ==
  ASSUME TypeOK, NEW c \in Client, Stop(c)
  PROVE  TypeOK'
<1>. USE UnchangedTypes DEF TypeOK
<1>1. CASE StopUnbind(c)
  BY <1>1, CloseSocketType, SendsType, PduFacts DEF StopUnbind, StopAt,
     StopTypeOK, StopPcs, Disconnecting, PlainTypes
<1>2. CASE StopDisconnected(c)
  BY <1>2 DEF StopDisconnected, StopAt, StopTypeOK, StopPcs, ClearConnected,
     FlagTypeOK
<1>3. CASE StopFinish(c)
  BY <1>3 DEF StopFinish, StopAt, StopTypeOK, StopPcs
<1>4. CASE StopJoined(c)
  <2>1. LinkTypeOK'
    BY <1>4, CloseSocketType DEF StopJoined
  <2>2. FlagTypeOK'
    BY <1>4 DEF StopJoined, ClearConnected, FlagTypeOK
  <2>3. AckTypeOK' /\ HistoryTypeOK'
    BY <1>4 DEF StopJoined, AckTypeOK, HistoryTypeOK
  <2>4. StopTypeOK'
    BY <1>4 DEF StopJoined, StopAt, StopTypeOK, StopPcs
  <2>. QED
    BY <1>4, <2>1, <2>2, <2>3, <2>4 DEF StopJoined
<1>. QED
  BY <1>1, <1>2, <1>3, <1>4 DEF Stop

LEMMA EnvironmentStepTypeOK ==
  ASSUME TypeOK, NEW c \in Client, Environment(c)
  PROVE  TypeOK'
<1>. USE UnchangedTypes DEF TypeOK, envUnchanged
<1>1. CASE ServerBind(c)
  BY <1>1, TakesType, GivesType, UseFaultType, PduFacts DEF ServerBind,
     LinkTypeOK, ServerTypeOK, FaultKinds
<1>2. CASE ServerSubmit(c)
  <2>1. Head(c2s[c]).sm \in Msg
    BY <1>2, TakesType, PduFacts DEF ServerSubmit
  <2>2. c2s' \in [Client -> Seq(Pdu)]
    BY <1>2, TakesType DEF ServerSubmit
  <2>3. s2c' \in [Client -> Seq(Pdu)]
    BY <1>2, <2>1, GivesType, PduFacts DEF ServerSubmit, MessageTypes, LinkTypeOK
  <2>4. ServerTypeOK'
    BY <1>2, <2>1, UseFaultType DEF ServerSubmit, ServerTypeOK, FaultKinds
  <2>. QED
    BY <1>2, <2>2, <2>3, <2>4 DEF ServerSubmit, LinkTypeOK
<1>3. CASE ServerUnbind(c)
  BY <1>3, TakesType, GivesType, PduFacts DEF ServerUnbind, LinkTypeOK,
     ServerTypeOK, PlainTypes
<1>4. CASE ServerDlr(c)
  BY <1>4, GivesType, PduFacts DEF ServerDlr, LinkTypeOK, ServerTypeOK,
     MessageTypes
<1>5. CASE ServerRequest(c)
  BY <1>5, GivesType, PduFacts DEF ServerRequest, LinkTypeOK, ServerTypeOK,
     PlainTypes
<1>6. CASE PeerGone(c)
  BY <1>6, UseFaultType DEF PeerGone, LinkTypeOK, ServerTypeOK, FaultKinds
<1>7. CASE PeerReset(c)
  BY <1>7 DEF PeerReset, LinkTypeOK, ServerTypeOK
<1>8. CASE PeerIdle(c)
  BY <1>8 DEF PeerIdle, LinkTypeOK, ServerTypeOK
<1>. QED
  BY <1>1, <1>2, <1>3, <1>4, <1>5, <1>6, <1>7, <1>8 DEF Environment, Answers

LEMMA StepTypeOK == TypeOK /\ [Next]_vars => TypeOK'
<1>. SUFFICES ASSUME TypeOK, [Next]_vars PROVE TypeOK'
  OBVIOUS
<1>. USE UnchangedTypes DEF TypeOK
<1>1. ASSUME NEW b \in Batch, SubmitSmis(b) PROVE TypeOK'
  BY <1>1, BatchAssumption DEF SubmitSmis, AddSmis, AppTypeOK, DsTypeOK
<1>2. CASE GetStatuses
  BY <1>2 DEF GetStatuses, GetGlobalStatus, AppTypeOK, DsTypeOK
<1>3. ASSUME NEW c \in Client, Worker(c) \/ Receiver(c) \/ Stop(c) \/ Environment(c)
      PROVE  TypeOK'
  BY <1>3, WorkerStepTypeOK, ReceiverStepTypeOK, StopStepTypeOK,
     EnvironmentStepTypeOK
<1>4. ASSUME NEW m \in Msg, Tick(m) PROVE TypeOK'
  BY <1>4 DEF Tick, DsTypeOK, Ages
<1>5. CASE UNCHANGED vars
  BY <1>5 DEF vars
<1>. QED
  BY <1>1, <1>2, <1>3, <1>4, <1>5 DEF Next

\* Type correctness of the client under every interleaving of its threads,
\* the application, the server and the network.
THEOREM TypeCorrect == Spec => []TypeOK
<1>1. Init => TypeOK
  BY InitTypeOK
<1>2. TypeOK /\ [Next]_vars => TypeOK'
  BY StepTypeOK
<1>. QED
  BY <1>1, <1>2, PTL DEF Spec

-----------------------------------------------------------------------------
(***************************************************************************)
(* The window and the parts of long messages, for a data source that one   *)
(* client takes messages from.  A second one could take the next part, and *)
(* the first would then pass its window with the message behind it.        *)
(***************************************************************************)
\* No two clients of the data source transmit.
OneSender == \A c, d \in Client : TxAble(c) /\ TxAble(d) => c = d

\* Every part but the last has the next one behind it, and every part but
\* the first the one before it in front of it, unless that was taken already.
Linked(q) ==
  /\ \A i \in DOMAIN q : IsLongSmAndNotLast(q[i]) =>
                           i < Len(q) /\ NextPart(q[i + 1], q[i])
  /\ \A i \in DOMAIN q : Part[q[i]] > 1 /\ i > 1 => NextPart(q[i], q[i - 1])

\* The application submits whole texts, as cb_client_format_sms makes them.
WholeBatches ==
  /\ \A m \in Msg : IF Total[m] > 1 THEN Part[m] \in 1 .. Total[m] ELSE Part[m] <= 1
  /\ \A b \in Batch : Linked(b) /\ (b # << >> => Part[b[1]] <= 1)

\* The part that the worker goes on with is first in the queue, and a part
\* that is first in the queue is one to go on with.
RestQueued ==
  /\ \A c \in Client : IsLongSmAndNotLast(smi[c]) =>
       to_submit # << >> /\ NextPart(to_submit[1], smi[c])
  /\ to_submit # << >> /\ Part[to_submit[1]] > 1 =>
       \A c \in Client : TxAble(c) =>
         \/ NextPart(to_submit[1], smi[c])
         \/ smi[c] = NoMsg /\ \E m \in sent \union lost : NextPart(to_submit[1], m)

\* Where the message is that the worker took last, before it is forgotten.
TakenKnown ==
  \A c \in Client :
    smi[c] = NoMsg \/ smi[c] \in sent \union lost \union Hand(c) \/ Writing(c)

OnlySenderTakes ==
  \A c \in Client : ~TxAble(c) =>
    /\ smi[c] = NoMsg /\ waiting_ack[c] = {}
    /\ wpc[c] \notin {"submit", "write", "unregister"}

\* The place of a message among the parts that may go out together.
Level(m) == IF Total[m] > 1 THEN Part[m] ELSE 1

\* Of the messages other than the last taken, less than a window waits, and
\* the earlier parts.
WaitingBound ==
  \A c \in Client :
    /\ IsFiniteSet(waiting_ack[c])
    /\ smi[c] # NoMsg =>
         Cardinality(waiting_ack[c] \ {smi[c]}) + 2 <= Window + Level(smi[c])

WindowInv ==
  /\ TypeOK /\ Linked(to_submit) /\ RestQueued /\ TakenKnown
  /\ OnlySenderTakes /\ WaitingBound /\ WindowBound

\* The parameters are natural numbers.
LEMMA LevelFacts ==
  ASSUME WholeBatches
  PROVE  /\ Window \in Nat \ {0}
         /\ \A m \in Msg : /\ Total[m] \in Nat /\ Part[m] \in Nat
                           /\ Level(m) \in Nat \ {0}
                           /\ \E n \in {1} \union {Total[k] : k \in Msg} : n \in Nat /\ Level(m) <= n
         /\ \A m, n \in Msg : NextPart(n, m) => Level(n) = Level(m) + 1
<1>1. Window \in Nat \ {0} /\ \A m \in Msg : Total[m] \in Nat /\ Part[m] \in Nat
  BY BoundAssumption, PartAssumption
<1>2. ASSUME NEW m \in Msg
      PROVE  /\ Level(m) \in Nat \ {0}
             /\ \E n \in {1} \union {Total[k] : k \in Msg} : n \in Nat /\ Level(m) <= n
  <2>1. CASE Total[m] > 1
    BY <1>1, <2>1 DEF WholeBatches, Level
  <2>2. CASE ~(Total[m] > 1)
    BY <1>1, <2>2 DEF Level
  <2>. QED
    BY <2>1, <2>2
<1>3. ASSUME NEW m \in Msg, NEW n \in Msg, NextPart(n, m)
      PROVE  Level(n) = Level(m) + 1
  BY <1>1, <1>3 DEF NextPart, IsLongSmAndNotLast, Level
<1>. QED
  BY <1>1, <1>2, <1>3

\* A smaller set of messages waits, and it is about the same message.
LEMMA FewerWait ==
  ASSUME NEW S, NEW T, IsFiniteSet(S), T \subseteq S
  PROVE  IsFiniteSet(T) /\ Cardinality(T) \in Nat /\ Cardinality(S) \in Nat
         /\ Cardinality(T) <= Cardinality(S)
BY FS_Subset, FS_CardinalityType

LEMMA OneMore ==
  ASSUME NEW S, NEW m, IsFiniteSet(S)
  PROVE  /\ IsFiniteSet(S \ {m}) /\ Cardinality(S \ {m}) \in Nat
         /\ Cardinality(S) \in Nat /\ Cardinality(S) <= Cardinality(S \ {m}) + 1
<1>1. /\ IsFiniteSet(S \ {m})
      /\ Cardinality(S \ {m}) = IF m \in S THEN Cardinality(S) - 1 ELSE Cardinality(S)
  BY FS_RemoveElement
<1>2. Cardinality(S) \in Nat /\ Cardinality(S \ {m}) \in Nat
  BY <1>1, FS_CardinalityType
<1>. QED
  BY <1>1, <1>2

\* A whole batch behind linked messages; the first of them taken away.
LEMMA LinkedConcat ==
  ASSUME NEW q \in Seq(Msg), NEW b \in Seq(Msg), Linked(q), Linked(b),
         b # << >> => Part[b[1]] <= 1
  PROVE  Linked(q \o b)
<1>. DEFINE t == q \o b
<1>1. /\ Len(t) = Len(q) + Len(b) /\ Len(q) \in Nat /\ Len(b) \in Nat
      /\ \A i \in 1 .. Len(q) : t[i] = q[i]
      /\ \A i \in 1 .. Len(b) : t[Len(q) + i] = b[i]
      /\ DOMAIN t = 1 .. Len(q) + Len(b) /\ DOMAIN q = 1 .. Len(q) /\ DOMAIN b = 1 .. Len(b)
  OBVIOUS
<1>2. ASSUME NEW i \in DOMAIN t
      PROVE  i \in 1 .. Len(q) \/ \E k \in 1 .. Len(b) : i = Len(q) + k
  <2>1. i \in 1 .. Len(q) \/ i - Len(q) \in 1 .. Len(b)
    BY <1>1
  <2>. QED
    BY <1>1, <2>1
<1>. HIDE DEF t
<1>3. ASSUME NEW i \in DOMAIN t, IsLongSmAndNotLast(t[i])
      PROVE  i < Len(t) /\ NextPart(t[i + 1], t[i])
  <2>1. CASE i \in 1 .. Len(q)
    <3>1. i < Len(q) /\ NextPart(q[i + 1], q[i])
      BY <1>1, <1>3, <2>1 DEF Linked
    <3>. QED
      BY <1>1, <2>1, <3>1
  <2>2. CASE \E k \in 1 .. Len(b) : i = Len(q) + k
    <3>1. PICK k \in 1 .. Len(b) : i = Len(q) + k
      BY <2>2
    <3>2. k < Len(b) /\ NextPart(b[k + 1], b[k])
      BY <1>1, <1>3, <3>1 DEF Linked
    <3>3. k + 1 \in 1 .. Len(b) /\ i + 1 = Len(q) + (k + 1) /\ i < Len(t)
      BY <1>1, <3>1, <3>2
    <3>. QED
      BY <1>1, <3>1, <3>2, <3>3
  <2>. QED
    BY <1>2, <2>1, <2>2
<1>4. ASSUME NEW i \in DOMAIN t, Part[t[i]] > 1, i > 1
      PROVE  NextPart(t[i], t[i - 1])
  <2>1. CASE i \in 1 .. Len(q)
    <3>1. NextPart(q[i], q[i - 1]) /\ i - 1 \in 1 .. Len(q)
      BY <1>1, <1>4, <2>1 DEF Linked
    <3>. QED
      BY <1>1, <2>1, <3>1
  <2>2. CASE \E k \in 1 .. Len(b) : i = Len(q) + k
    <3>1. PICK k \in 1 .. Len(b) : i = Len(q) + k
      BY <2>2
    <3>2. b[k] \in Msg /\ Part[b[k]] > 1 /\ b # << >>
      BY <1>1, <1>4, <3>1
    <3>3. k # 1
      <4>1. Part[b[k]] \in Nat
        BY <3>2, PartAssumption
      <4>. QED
        BY <3>2, <4>1
    <3>4. k > 1 /\ k - 1 \in 1 .. Len(b) /\ i - 1 = Len(q) + (k - 1)
      BY <1>1, <3>1, <3>3
    <3>5. NextPart(b[k], b[k - 1])
      BY <1>1, <3>1, <3>2, <3>4 DEF Linked
    <3>. QED
      BY <1>1, <3>1, <3>4, <3>5
  <2>. QED
    BY <1>2, <2>1, <2>2
<1>. QED
  BY <1>3, <1>4 DEF Linked, t

LEMMA LinkedTail ==
  ASSUME NEW q \in Seq(Msg), q # << >>, Linked(q)
  PROVE  /\ Linked(Tail(q)) /\ Head(q) = q[1] /\ q[1] \in Msg
         /\ IsLongSmAndNotLast(q[1]) =>
              Tail(q) # << >> /\ NextPart(Tail(q)[1], q[1])
         /\ Tail(q) # << >> /\ Part[Tail(q)[1]] > 1 => NextPart(Tail(q)[1], q[1])
<1>. DEFINE t == Tail(q)
<1>1. /\ Len(q) \in Nat \ {0} /\ DOMAIN q = 1 .. Len(q)
      /\ Len(t) = Len(q) - 1 /\ DOMAIN t = 1 .. Len(q) - 1
      /\ \A i \in 1 .. Len(q) - 1 : t[i] = q[i + 1]
      /\ t = << >> <=> Len(q) = 1
      /\ Head(q) = q[1] /\ q[1] \in Msg
  <2>1. Len(q) \in Nat \ {0} /\ DOMAIN q = 1 .. Len(q) /\ Head(q) = q[1] /\ q[1] \in Msg
    OBVIOUS
  <2>2. t \in Seq(Msg) /\ Len(t) = Len(q) - 1 /\ DOMAIN t = 1 .. Len(t)
    BY <2>1
  <2>3. \A i \in 1 .. Len(q) - 1 : t[i] = q[i + 1]
    BY <2>1
  <2>4. t = << >> <=> Len(t) = 0
    BY <2>2
  <2>. QED
    BY <2>1, <2>2, <2>3, <2>4
<1>. HIDE DEF t
<1>2. ASSUME NEW i \in DOMAIN t, IsLongSmAndNotLast(t[i])
      PROVE  i < Len(t) /\ NextPart(t[i + 1], t[i])
  <2>1. i + 1 < Len(q) /\ NextPart(q[(i + 1) + 1], q[i + 1])
    BY <1>1, <1>2 DEF Linked
  <2>. QED
    BY <1>1, <2>1
<1>3. ASSUME NEW i \in DOMAIN t, Part[t[i]] > 1, i > 1
      PROVE  NextPart(t[i], t[i - 1])
  <2>1. NextPart(q[i + 1], q[(i + 1) - 1]) /\ (i + 1) - 1 = (i - 1) + 1 /\ i - 1 \in 1 .. Len(q) - 1
    BY <1>1, <1>3 DEF Linked
  <2>. QED
    BY <1>1, <2>1
<1>4. IsLongSmAndNotLast(q[1]) => t # << >> /\ NextPart(t[1], q[1])
  BY <1>1 DEF Linked
<1>5. t # << >> /\ Part[t[1]] > 1 => NextPart(t[1], q[1])
  <2>1. SUFFICES ASSUME t # << >>, Part[t[1]] > 1 PROVE NextPart(t[1], q[1])
    OBVIOUS
  <2>2. t[1] = q[2] /\ 2 \in DOMAIN q
    BY <1>1, <2>1
  <2>3. NextPart(q[2], q[2 - 1])
    BY <2>1, <2>2 DEF Linked
  <2>. QED
    BY <2>2, <2>3
<1>. QED
  BY <1>1, <1>2, <1>3, <1>4, <1>5 DEF Linked, t


UsesMessage == {"submit", "write", "unregister"}

TakenAt(c) ==
  smi[c] = NoMsg \/ smi[c] \in sent \union lost \union Hand(c) \/ Writing(c)

\* No message is taken, registered or forgotten.
Calm ==
  /\ UNCHANGED <<to_submit, smi>>
  /\ \A c \in Client : waiting_ack'[c] \subseteq waiting_ack[c]
  /\ sent \subseteq sent' /\ lost \subseteq lost'
  /\ \A c \in Client : TakenAt(c) => TakenAt(c)'
  /\ \A c \in Client : wpc'[c] \in UsesMessage => wpc[c] \in UsesMessage \/ TxAble(c)

LEMMA CalmWindow ==
  ASSUME WholeBatches, WindowInv, TypeOK', Calm
  PROVE  WindowInv'
<1>1. /\ to_submit' = to_submit /\ smi' = smi /\ smi \in [Client -> Msg \union {NoMsg}]
      /\ \A c \in Client : waiting_ack'[c] \subseteq waiting_ack[c]
  BY DEF Calm, WindowInv, TypeOK, WorkerTypeOK
<1>2. Linked(to_submit)'
  BY <1>1 DEF WindowInv
<1>3. RestQueued'
  <2>1. sent \union lost \subseteq sent' \union lost'
    BY DEF Calm
  <2>. QED
    BY <1>1, <2>1 DEF WindowInv, RestQueued
<1>4. TakenKnown'
  BY DEF WindowInv, TakenKnown, Calm, TakenAt
<1>5. OnlySenderTakes'
  <2>. SUFFICES ASSUME NEW c \in Client, ~TxAble(c)
                PROVE  smi'[c] = NoMsg /\ waiting_ack'[c] = {} /\ wpc'[c] \notin UsesMessage
    BY DEF OnlySenderTakes, UsesMessage
  <2>1. smi[c] = NoMsg /\ waiting_ack[c] = {} /\ wpc[c] \notin UsesMessage
    BY DEF WindowInv, OnlySenderTakes, UsesMessage
  <2>. QED
    BY <1>1, <2>1 DEF Calm
<1>6. WaitingBound'
  <2>. SUFFICES ASSUME NEW c \in Client
                PROVE  /\ IsFiniteSet(waiting_ack'[c])
                       /\ smi'[c] # NoMsg =>
                            Cardinality(waiting_ack'[c] \ {smi'[c]}) + 2 <= Window + Level(smi'[c])
    BY DEF WaitingBound
  <2>1. IsFiniteSet(waiting_ack[c])
    BY DEF WindowInv, WaitingBound
  <2>2. IsFiniteSet(waiting_ack'[c])
    BY <1>1, <2>1, FewerWait
  <2>3. ASSUME smi[c] # NoMsg
        PROVE  Cardinality(waiting_ack'[c] \ {smi[c]}) + 2 <= Window + Level(smi[c])
    <3>1. Cardinality(waiting_ack[c] \ {smi[c]}) + 2 <= Window + Level(smi[c])
      BY <2>3 DEF WindowInv, WaitingBound
    <3>2. /\ IsFiniteSet(waiting_ack[c] \ {smi[c]})
          /\ waiting_ack'[c] \ {smi[c]} \subseteq waiting_ack[c] \ {smi[c]}
      BY <1>1, <2>1, OneMore
    <3>3. /\ Cardinality(waiting_ack'[c] \ {smi[c]}) <= Cardinality(waiting_ack[c] \ {smi[c]})
          /\ Cardinality(waiting_ack'[c] \ {smi[c]}) \in Nat
          /\ Cardinality(waiting_ack[c] \ {smi[c]}) \in Nat
      BY <3>2, FewerWait
    <3>4. Window + Level(smi[c]) \in Nat
      BY <1>1, <2>3, LevelFacts
    <3>. QED
      BY <3>1, <3>3, <3>4
  <2>. QED
    BY <1>1, <2>2, <2>3
<1>7. WindowBound'
  <2>. SUFFICES ASSUME NEW c \in Client
                PROVE  \E n \in {1} \union {Total[m] : m \in Msg} :
                         Cardinality(waiting_ack'[c]) <= Window - 1 + n
    BY DEF WindowBound
  <2>1. PICK n \in {1} \union {Total[m] : m \in Msg} :
          Cardinality(waiting_ack[c]) <= Window - 1 + n
    BY DEF WindowInv, WindowBound
  <2>2. n \in Nat /\ Window \in Nat
    BY LevelFacts
  <2>3. /\ Cardinality(waiting_ack'[c]) <= Cardinality(waiting_ack[c])
        /\ Cardinality(waiting_ack'[c]) \in Nat /\ Cardinality(waiting_ack[c]) \in Nat
    BY <1>1, FewerWait DEF WindowInv, WaitingBound
  <2>4. Cardinality(waiting_ack'[c]) <= Window - 1 + n
    BY <2>1, <2>2, <2>3
  <2>. QED
    BY <2>4
<1>. QED
  BY <1>2, <1>3, <1>4, <1>5, <1>6, <1>7 DEF WindowInv

\* smi is declared anew: what it held is sent, or lost.
LEMMA ForgetWindow ==
  ASSUME WindowInv, TypeOK', NEW c \in Client, FreshSmi(c),
         NEW from \in {"wait", "top", "dlr_timeout"}, NEW to \in {"top", "disc", "done"},
         WorkerAt(c, from, to), lost' = lost \union Hand(c),
         UNCHANGED <<to_submit, waiting_ack, sent>>
  PROVE  WindowInv'
<1>1. /\ smi \in [Client -> Msg \union {NoMsg}] /\ content \in [Client -> BOOLEAN]
      /\ wpc \in [Client -> WorkerPcs]
  BY DEF WindowInv, TypeOK, WorkerTypeOK
<1>2. /\ smi'[c] = NoMsg /\ wpc[c] = from /\ wpc'[c] = to /\ ~Writing(c)
      /\ \A e \in Client \ {c} : smi'[e] = smi[e] /\ content'[e] = content[e] /\ wpc'[e] = wpc[e]
  BY <1>1 DEF FreshSmi, WorkerAt, Writing
<1>3. smi[c] = NoMsg \/ smi[c] \in sent' \union lost'
  BY <1>2 DEF WindowInv, TakenKnown
<1>4. RestQueued'
  <2>1. ASSUME NEW e \in Client, IsLongSmAndNotLast(smi'[e])
        PROVE  to_submit' # << >> /\ NextPart(to_submit'[1], smi'[e])
    <3>1. e # c
      BY <1>2, <2>1 DEF IsLongSmAndNotLast
    <3>. QED
      BY <1>2, <2>1, <3>1 DEF WindowInv, RestQueued
  <2>2. ASSUME to_submit' # << >>, Part[to_submit'[1]] > 1, NEW e \in Client, TxAble(e)
        PROVE  \/ NextPart(to_submit'[1], smi'[e])
               \/ smi'[e] = NoMsg /\ \E m \in sent' \union lost' : NextPart(to_submit'[1], m)
    <3>1. \/ NextPart(to_submit[1], smi[e])
          \/ smi[e] = NoMsg /\ \E m \in sent \union lost : NextPart(to_submit[1], m)
      BY <2>2 DEF WindowInv, RestQueued
    <3>2. CASE e = c
      <4>1. NextPart(to_submit[1], smi[c]) => smi[c] # NoMsg
        BY DEF NextPart, IsLongSmAndNotLast
      <4>. QED
        BY <1>2, <1>3, <3>1, <3>2, <4>1
    <3>3. CASE e # c
      BY <1>2, <3>1, <3>3
    <3>. QED
      BY <3>2, <3>3
  <2>. QED
    BY <2>1, <2>2 DEF RestQueued
<1>5. TakenKnown'
  <2>1. ASSUME NEW e \in Client, e # c PROVE TakenAt(e)'
    BY <1>2, <2>1 DEF WindowInv, TakenKnown, TakenAt, Hand, Writing
  <2>. QED
    BY <1>2, <2>1 DEF TakenKnown, TakenAt
<1>6. OnlySenderTakes'
  BY <1>2 DEF WindowInv, OnlySenderTakes
<1>7. WaitingBound'
  BY <1>2 DEF WindowInv, WaitingBound
<1>. QED
  BY <1>4, <1>5, <1>6, <1>7 DEF WindowInv, WindowBound

LEMMA FetchWindow ==
  ASSUME OneSender, WholeBatches, WindowInv, TypeOK', NEW c \in Client, Fetch(c)
  PROVE  /\ WindowInv'
         /\ \A e \in Client \ {c} : smi'[e] = smi[e]
         /\ \/ NextPart(smi'[c], smi[c])
            \/ /\ ~IsLongSmAndNotLast(smi[c])
               /\ Part[smi'[c]] > 1 => /\ smi[c] = NoMsg
                                       /\ \E m \in sent \union lost : NextPart(smi'[c], m)
<1>. DEFINE m == to_submit[1]
<1>1. /\ smi \in [Client -> Msg \union {NoMsg}] /\ wpc \in [Client -> WorkerPcs]
      /\ content \in [Client -> BOOLEAN] /\ to_submit \in Seq(Msg)
  BY DEF WindowInv, TypeOK, WorkerTypeOK, DsTypeOK
<1>2. /\ to_submit # << >> /\ to_submit' = Tail(to_submit) /\ TxAble(c) /\ MayFetch(c)
      /\ UNCHANGED <<waiting_ack, sent, lost>>
  BY DEF Fetch, GetToSubmit, ackVars, history
<1>3. /\ Linked(Tail(to_submit)) /\ Head(to_submit) = m /\ m \in Msg
      /\ IsLongSmAndNotLast(m) => Tail(to_submit) # << >> /\ NextPart(Tail(to_submit)[1], m)
      /\ Tail(to_submit) # << >> /\ Part[Tail(to_submit)[1]] > 1 => NextPart(Tail(to_submit)[1], m)
  BY <1>1, <1>2, LinkedTail DEF WindowInv
<1>. HIDE DEF m
<1>4. /\ smi'[c] = m /\ wpc'[c] = "submit" /\ m # NoMsg
      /\ \A e \in Client \ {c} : smi'[e] = smi[e] /\ content'[e] = content[e] /\ wpc'[e] = wpc[e]
  BY <1>1, <1>3 DEF Fetch, WorkerAt
<1>5. \A e \in Client \ {c} : ~TxAble(e) /\ smi[e] = NoMsg /\ waiting_ack[e] = {}
  BY <1>2 DEF OneSender, WindowInv, OnlySenderTakes
<1>6. RestQueued'
  <2>1. ~IsLongSmAndNotLast(NoMsg)
    BY DEF IsLongSmAndNotLast
  <2>2. ASSUME NEW e \in Client, IsLongSmAndNotLast(smi'[e])
        PROVE  to_submit' # << >> /\ NextPart(to_submit'[1], smi'[e])
    BY <1>2, <1>3, <1>4, <1>5, <2>1, <2>2
  <2>3. ASSUME to_submit' # << >>, Part[to_submit'[1]] > 1, NEW e \in Client, TxAble(e)
        PROVE  NextPart(to_submit'[1], smi'[e])
    BY <1>2, <1>3, <1>4, <1>5, <2>3
  <2>. QED
    BY <2>2, <2>3 DEF RestQueued
<1>7. TakenKnown'
  <2>1. m \in Hand(c)'
    BY <1>4 DEF Hand
  <2>. QED
    BY <1>4, <1>5, <2>1 DEF TakenKnown
<1>8. OnlySenderTakes'
  BY <1>2, <1>4, <1>5 DEF WindowInv, OnlySenderTakes
<1>9. smi[c] # NoMsg /\ IsLongSmAndNotLast(smi[c]) => NextPart(m, smi[c])
  BY DEF WindowInv, RestQueued, m
<1>10. IsFiniteSet(waiting_ack[c]) /\ IsFiniteSet(waiting_ack[c] \ {m})
       /\ Cardinality(waiting_ack[c]) \in Nat /\ Cardinality(waiting_ack[c] \ {m}) \in Nat
       /\ Cardinality(waiting_ack[c] \ {m}) <= Cardinality(waiting_ack[c])
  <2>1. IsFiniteSet(waiting_ack[c])
    BY DEF WindowInv, WaitingBound
  <2>. QED
    BY <2>1, FewerWait
<1>11. Cardinality(waiting_ack[c]) + 2 <= Window + Level(m)
  <2>1. Window \in Nat /\ Level(m) \in Nat \ {0}
    BY <1>3, LevelFacts
  <2>2. CASE ~TooManyWaiting(c)
    BY <1>10, <2>1, <2>2 DEF TooManyWaiting
  <2>3. CASE TooManyWaiting(c)
    <3>1. IsLongSmAndNotLast(smi[c]) /\ smi[c] # NoMsg /\ smi[c] \in Msg
      BY <1>1, <1>2, <2>3 DEF MayFetch, IsLongSmAndNotLast
    <3>2. Level(m) = Level(smi[c]) + 1 /\ Level(smi[c]) \in Nat
      BY <1>3, <1>9, <3>1, LevelFacts
    <3>3. Cardinality(waiting_ack[c] \ {smi[c]}) + 2 <= Window + Level(smi[c])
      BY <3>1 DEF WindowInv, WaitingBound
    <3>4. /\ Cardinality(waiting_ack[c]) <= Cardinality(waiting_ack[c] \ {smi[c]}) + 1
          /\ Cardinality(waiting_ack[c] \ {smi[c]}) \in Nat
      BY <1>10, OneMore
    <3>. QED
      BY <1>10, <2>1, <3>2, <3>3, <3>4
  <2>. QED
    BY <2>2, <2>3
<1>12. WaitingBound'
  <2>1. Cardinality(waiting_ack[c] \ {m}) + 2 <= Window + Level(m)
    BY <1>3, <1>10, <1>11, LevelFacts
  <2>. QED
    BY <1>2, <1>4, <1>5, <1>10, <2>1 DEF WindowInv, WaitingBound
<1>13. \/ NextPart(m, smi[c])
       \/ /\ ~IsLongSmAndNotLast(smi[c])
          /\ Part[m] > 1 => smi[c] = NoMsg /\ \E k \in sent \union lost : NextPart(m, k)
  <2>1. CASE IsLongSmAndNotLast(smi[c])
    BY <1>9, <2>1 DEF IsLongSmAndNotLast
  <2>2. CASE ~IsLongSmAndNotLast(smi[c])
    <3>1. Part[m] > 1 => \/ NextPart(m, smi[c])
                         \/ smi[c] = NoMsg /\ \E k \in sent \union lost : NextPart(m, k)
      BY <1>2 DEF WindowInv, RestQueued, m
    <3>. QED
      BY <2>2, <3>1
  <2>. QED
    BY <2>1, <2>2
<1>. QED
  BY <1>2, <1>3, <1>4, <1>6, <1>7, <1>8, <1>12, <1>13 DEF WindowInv, WindowBound

LEMMA RegisterWindow ==
  ASSUME WholeBatches, WindowInv, TypeOK', NEW c \in Client, Register(c)
  PROVE  WindowInv'
<1>1. /\ smi \in [Client -> Msg \union {NoMsg}] /\ wpc \in [Client -> WorkerPcs]
      /\ waiting_ack \in [Client -> SUBSET Msg]
  BY DEF WindowInv, TypeOK, WorkerTypeOK, AckTypeOK
<1>2. /\ wpc[c] = "submit" /\ wpc'[c] = "write"
      /\ waiting_ack'[c] = waiting_ack[c] \union {smi[c]}
      /\ \A e \in Client \ {c} : waiting_ack'[e] = waiting_ack[e] /\ wpc'[e] = wpc[e]
      /\ UNCHANGED <<to_submit, smi, content, sent, lost>>
  BY <1>1 DEF Register, WorkerAt, AddWaitingAck, history
<1>3. smi[c] \in Msg /\ smi[c] # NoMsg /\ TxAble(c)
  BY <1>2 DEF WindowInv, TypeOK, WorkerTypeOK, OnlySenderTakes
<1>4. TakenKnown'
  <2>1. ASSUME NEW e \in Client, e # c PROVE TakenAt(e)'
    BY <1>2, <2>1 DEF WindowInv, TakenKnown, TakenAt, Hand, Writing
  <2>2. TakenAt(c)'
    BY <1>2 DEF TakenAt, Writing
  <2>. QED
    BY <2>1, <2>2 DEF TakenKnown, TakenAt
<1>5. OnlySenderTakes'
  BY <1>2, <1>3 DEF WindowInv, OnlySenderTakes
<1>6. RestQueued'
  BY <1>2 DEF WindowInv, RestQueued
<1>7. /\ waiting_ack'[c] \ {smi[c]} = waiting_ack[c] \ {smi[c]}
      /\ IsFiniteSet(waiting_ack'[c])
  <2>1. IsFiniteSet(waiting_ack[c])
    BY DEF WindowInv, WaitingBound
  <2>. QED
    BY <1>2, <2>1, FS_AddElement
<1>8. WaitingBound'
  BY <1>2, <1>7 DEF WindowInv, WaitingBound
<1>9. \E n \in {1} \union {Total[k] : k \in Msg} : Cardinality(waiting_ack'[c]) <= Window - 1 + n
  <2>1. PICK n \in {1} \union {Total[k] : k \in Msg} : n \in Nat /\ Level(smi[c]) <= n
    BY <1>3, LevelFacts
  <2>2. Cardinality(waiting_ack[c] \ {smi[c]}) + 2 <= Window + Level(smi[c])
    BY <1>3 DEF WindowInv, WaitingBound
  <2>3. /\ Cardinality(waiting_ack'[c]) <= Cardinality(waiting_ack[c] \ {smi[c]}) + 1
        /\ Cardinality(waiting_ack'[c]) \in Nat
        /\ Cardinality(waiting_ack[c] \ {smi[c]}) \in Nat
    BY <1>7, OneMore
  <2>4. Window \in Nat /\ Level(smi[c]) \in Nat
    BY <1>3, LevelFacts
  <2>5. Cardinality(waiting_ack'[c]) <= Window - 1 + n
    BY <2>1, <2>2, <2>3, <2>4
  <2>. QED
    BY <2>5
<1>10. WindowBound'
  BY <1>2, <1>9 DEF WindowInv, WindowBound
<1>. QED
  BY <1>2, <1>4, <1>5, <1>6, <1>8, <1>10 DEF WindowInv

LEMMA SubmitSmisWindow ==
  ASSUME WholeBatches, WindowInv, TypeOK', NEW b \in Batch, SubmitSmis(b)
  PROVE  WindowInv'
<1>1. /\ to_submit' = to_submit \o b /\ to_submit \in Seq(Msg) /\ b \in Seq(Msg)
      /\ UNCHANGED <<smi, content, wpc, waiting_ack, sent, lost>>
  BY BatchAssumption DEF SubmitSmis, AddSmis, WindowInv, TypeOK, DsTypeOK, workerVars, ackVars, history
<1>2. Linked(to_submit)'
  BY <1>1, LinkedConcat DEF WindowInv, WholeBatches
<1>3. to_submit # << >> => to_submit' # << >> /\ to_submit'[1] = to_submit[1]
  BY <1>1
<1>4. to_submit = << >> => to_submit' = b
  BY <1>1
<1>5. b # << >> => ~(Part[b[1]] > 1)
  <2>1. b # << >> => b[1] \in Msg
    BY <1>1
  <2>2. b # << >> => Part[b[1]] \in Nat /\ Part[b[1]] <= 1
    BY <2>1, PartAssumption DEF WholeBatches
  <2>. QED
    BY <2>2
<1>6. RestQueued'
  <2>1. CASE to_submit # << >>
    BY <1>1, <1>3, <2>1 DEF WindowInv, RestQueued
  <2>2. CASE to_submit = << >>
    BY <1>1, <1>4, <1>5, <2>2 DEF WindowInv, RestQueued
  <2>. QED
    BY <2>1, <2>2
<1>7. TakenKnown' /\ OnlySenderTakes' /\ WaitingBound' /\ WindowBound'
  BY <1>1 DEF WindowInv, TakenKnown, Hand, Writing, OnlySenderTakes, WaitingBound, WindowBound
<1>. QED
  BY <1>2, <1>6, <1>7 DEF WindowInv


\* A step of the worker of c that moves it on and takes nothing.
LEMMA WorkerCalmIs ==
  ASSUME WindowInv, NEW c \in Client, NEW from, NEW to, WorkerAt(c, from, to),
         UNCHANGED <<to_submit, smi>>,
         \A e \in Client : waiting_ack'[e] \subseteq waiting_ack[e],
         \A e \in Client \ {c} : content'[e] = content[e],
         sent \subseteq sent', lost \subseteq lost',
         TakenAt(c) => TakenAt(c)',
         to \in UsesMessage => from \in UsesMessage \/ TxAble(c)
  PROVE  Calm
<1>1. wpc[c] = from /\ wpc'[c] = to /\ \A e \in Client \ {c} : wpc'[e] = wpc[e]
  BY DEF WorkerAt, WindowInv, TypeOK, WorkerTypeOK
<1>2. ASSUME NEW e \in Client, e # c, TakenAt(e) PROVE TakenAt(e)'
  BY <1>1, <1>2 DEF TakenAt, Hand, Writing
<1>. QED
  BY <1>1, <1>2 DEF Calm

\* The other threads, the application and the environment; an attempt to
\* connect that fails.
LEMMA OthersCalm ==
  ASSUME UNCHANGED <<to_submit, smi, content, wpc>>, sent = sent', lost \subseteq lost',
         \A e \in Client : waiting_ack'[e] \subseteq waiting_ack[e]
  PROVE  Calm
<1>1. ASSUME NEW e \in Client, TakenAt(e) PROVE TakenAt(e)'
  BY <1>1 DEF TakenAt, Hand, Writing
<1>. QED
  BY <1>1 DEF Calm

LEMMA WorkerWindow ==
  ASSUME WindowInv, NEW c \in Client, Worker(c)
  PROVE  \/ Calm \/ Fetch(c) \/ Register(c)
         \/ FreshSmi(c) /\ (GiveUpBinding(c) \/ WorkerExit(c))
<1>1. ASSUME NEW from \in WorkerPcs \ UsesMessage, NEW to \in WorkerPcs \ {"write", "unregister"},
             WorkerAt(c, from, to), UNCHANGED <<to_submit, smi, content, sent, lost>>,
             \A e \in Client : waiting_ack'[e] \subseteq waiting_ack[e],
             to = "submit" => TxAble(c)
      PROVE  Calm
  <2>1. wpc[c] = from /\ wpc'[c] = to
    BY <1>1 DEF WorkerAt, WindowInv, TypeOK, WorkerTypeOK
  <2>2. TakenAt(c) => TakenAt(c)'
    BY <1>1, <2>1 DEF TakenAt, Hand, Writing, UsesMessage
  <2>3. to \in UsesMessage => TxAble(c)
    BY <1>1 DEF UsesMessage
  <2>. QED
    BY <1>1, <2>2, <2>3, WorkerCalmIs
<1>2. Disconnecting(c, "top") \in {"top", "disc"}
  BY DEF Disconnecting
<1>3. ASSUME Connect(c) \/ BindAcknowledged(c) \/ NoHeartbeat(c) \/ WorkerDisconnected(c)
      PROVE  Calm
  <2>1. CASE UNCHANGED wpc
    BY <1>3, <2>1, OthersCalm DEF Connect, BindAcknowledged, NoHeartbeat, WorkerDisconnected,
       dsVars, workerVars, ackVars, history
  <2>2. CASE wpc' # wpc
    BY <1>1, <1>3, <2>2 DEF Connect, BindAcknowledged, NoHeartbeat, WorkerDisconnected, dsVars,
       ackVars, history, WorkerAt, WorkerPcs, UsesMessage
  <2>. QED
    BY <2>1, <2>2
<1>4. ASSUME Bind(c) PROVE Calm
  BY <1>1, <1>2, <1>4 DEF Bind, dsVars, ackVars, history, WorkerPcs, UsesMessage
<1>5. ASSUME Heartbeat(c) PROVE Calm
  BY <1>1, <1>2, <1>5 DEF Heartbeat, dsVars, ackVars, history, WorkerPcs, UsesMessage
<1>6. ASSUME DlrTimeouts(c) PROVE Calm
  BY <1>1, <1>6 DEF DlrTimeouts, ProcessWaitingDlrTimeout, ackVars, history, WorkerPcs, UsesMessage
<1>7. ASSUME WaitingTimeouts(c) PROVE Calm
  <2>1. \A e \in Client : waiting_ack'[e] \subseteq waiting_ack[e]
    BY <1>7 DEF WaitingTimeouts, WindowInv, TypeOK, AckTypeOK
  <2>. QED
    BY <1>1, <1>7, <2>1 DEF WaitingTimeouts, dsVars, history, WorkerPcs, UsesMessage
<1>8. ASSUME AckTimeouts(c) PROVE Calm
  BY <1>1, <1>8 DEF AckTimeouts, SubmitFailed, history, WorkerPcs, UsesMessage
<1>9. ASSUME PickNothing(c) PROVE Calm
  <2>1. UNCHANGED <<to_submit, smi, content, sent, lost, waiting_ack>>
    BY <1>9 DEF PickNothing, dsVars, ackVars, history
  <2>2. \/ WorkerAt(c, "pick", "submit") /\ TxAble(c)
        \/ WorkerAt(c, "pick", "beat") \/ WorkerAt(c, "pick", "dlr_timeout")
    BY <1>9 DEF PickNothing
  <2>. QED
    BY <1>1, <2>1, <2>2 DEF WorkerPcs, UsesMessage
<1>10. ASSUME EncodingFails(c) PROVE Calm
  <2>1. /\ WorkerAt(c, "submit", "top") /\ UNCHANGED <<to_submit, smi, content, sent, waiting_ack>>
        /\ lost \subseteq lost' /\ (~content[c] => smi[c] \in lost')
    BY <1>10 DEF EncodingFails, dsVars, ackVars
  <2>2. wpc'[c] = "top"
    BY <2>1 DEF WorkerAt, WindowInv, TypeOK, WorkerTypeOK
  <2>3. TakenAt(c)'
    BY <2>1, <2>2 DEF TakenAt, Hand
  <2>. QED
    BY <2>1, <2>3, WorkerCalmIs DEF UsesMessage
<1>11. ASSUME WriteSubmit(c) PROVE Calm
  <2>1. /\ UNCHANGED <<to_submit, smi, lost, waiting_ack>> /\ sent \subseteq sent'
        /\ \A e \in Client \ {c} : content'[e] = content[e]
    BY <1>11 DEF WriteSubmit, dsVars, ackVars, ClearContent, WindowInv, TypeOK, WorkerTypeOK
  <2>2. CASE WorkerAt(c, "write", "beat") /\ sent' = sent \union {smi[c]}
    <3>1. TakenAt(c)'
      BY <2>1, <2>2 DEF TakenAt
    <3>. QED
      BY <2>1, <2>2, <3>1, WorkerCalmIs DEF UsesMessage
  <2>3. CASE WorkerAt(c, "write", "unregister")
    <3>1. wpc'[c] = "unregister"
      BY <2>3 DEF WorkerAt, WindowInv, TypeOK, WorkerTypeOK
    <3>2. TakenAt(c)'
      BY <3>1 DEF TakenAt, Writing
    <3>. QED
      BY <2>1, <2>3, <3>2, WorkerCalmIs DEF UsesMessage
  <2>. QED
    BY <1>11, <2>2, <2>3 DEF WriteSubmit
<1>12. ASSUME Unregister(c) PROVE Calm
  <2>1. /\ WorkerAt(c, "unregister", Disconnecting(c, "top"))
        /\ UNCHANGED <<to_submit, smi, content, sent>>
        /\ lost \subseteq lost' /\ (~content[c] => smi[c] \in lost')
    BY <1>12 DEF Unregister, dsVars
  <2>2. \A e \in Client : waiting_ack'[e] \subseteq waiting_ack[e]
    BY <1>12 DEF Unregister, RemoveWaitingAck, WindowInv, TypeOK, AckTypeOK
  <2>3. wpc'[c] \in {"top", "disc"}
    BY <1>2, <2>1 DEF WorkerAt, WindowInv, TypeOK, WorkerTypeOK
  <2>4. TakenAt(c)'
    BY <2>1, <2>3 DEF TakenAt, Hand
  <2>. QED
    BY <1>2, <2>1, <2>2, <2>4, WorkerCalmIs DEF UsesMessage
<1>13. ASSUME GiveUpBinding(c) \/ WorkerExit(c) PROVE FreshSmi(c)
  BY <1>13 DEF GiveUpBinding, WorkerExit
<1>. QED
  BY <1>3, <1>4, <1>5, <1>6, <1>7, <1>8, <1>9, <1>10, <1>11, <1>12, <1>13 DEF Worker

LEMMA ThreadsCalm ==
  ASSUME WindowInv, NEW c \in Client, Receiver(c) \/ Stop(c) \/ Environment(c)
  PROVE  Calm
<1>1. ASSUME Receiver(c) PROVE Calm
  <2>1. CASE GetWaitingAck(c)
    <3>1. \A e \in Client : waiting_ack'[e] \subseteq waiting_ack[e]
      BY <2>1 DEF GetWaitingAck, WindowInv, TypeOK, AckTypeOK
    <3>. QED
      BY <2>1, <3>1, OthersCalm DEF GetWaitingAck, dsVars, workerVars, history
  <2>2. CASE Acknowledge(c)
    BY <2>2, OthersCalm DEF Acknowledge, SmIsDelivering, SubmitFailed, workerVars, ackVars, history
  <2>3. CASE DlrReceived(c)
    BY <2>3, OthersCalm DEF DlrReceived, SmIsDelivered, workerVars, ackVars, history
  <2>4. CASE Listen(c) \/ ReadResp(c) \/ ReadShort(c) \/ ReadTooLong(c) \/ BindRespReceived(c)
             \/ RequestReceived(c) \/ Respond(c) \/ UnbindRespReceived(c) \/ ReceiverDisconnected(c)
    <3>1. UNCHANGED <<dsVars, workerVars, ackVars, history>>
      BY <2>4 DEF Listen, ReadResp, ReadShort, ReadTooLong, BindRespReceived, RequestReceived, Respond,
         UnbindRespReceived, ReceiverDisconnected
    <3>. QED
      BY <3>1, OthersCalm DEF dsVars, workerVars, ackVars, history
  <2>5. CASE GetAckTimeout(c)
    BY <2>5, OthersCalm DEF GetAckTimeout, dsVars, workerVars, history
  <2>. QED
    BY <1>1, <2>1, <2>2, <2>3, <2>4, <2>5 DEF Receiver
<1>2. ASSUME Stop(c) PROVE Calm
  <2>1. CASE StopJoined(c)
    <3>1. \A e \in Client : waiting_ack'[e] \subseteq waiting_ack[e]
      BY <2>1 DEF StopJoined, WindowInv, TypeOK, AckTypeOK
    <3>. QED
      BY <2>1, <3>1, OthersCalm DEF StopJoined, dsVars, workerVars
  <2>2. CASE StopUnbind(c) \/ StopDisconnected(c) \/ StopFinish(c)
    BY <2>2, OthersCalm DEF StopUnbind, StopDisconnected, StopFinish, dsVars, workerVars, ackVars, history
  <2>. QED
    BY <1>2, <2>1, <2>2 DEF Stop
<1>3. ASSUME Environment(c) PROVE Calm
  <2>1. UNCHANGED <<dsVars, workerVars, ackVars, history>>
    <3>1. CASE ServerBind(c)
      BY <3>1 DEF ServerBind, envUnchanged
    <3>2. CASE ServerSubmit(c)
      BY <3>2 DEF ServerSubmit, envUnchanged
    <3>3. CASE ServerUnbind(c)
      BY <3>3 DEF ServerUnbind, envUnchanged
    <3>4. CASE ServerDlr(c) \/ ServerRequest(c)
      BY <3>4 DEF ServerDlr, ServerRequest, envUnchanged
    <3>5. CASE PeerGone(c) \/ PeerReset(c) \/ PeerIdle(c)
      BY <3>5 DEF PeerGone, PeerReset, PeerIdle, envUnchanged
    <3>. QED
      BY <1>3, <3>1, <3>2, <3>3, <3>4, <3>5 DEF Environment, Answers
  <2>2. UNCHANGED <<to_submit, smi, content, wpc, sent, lost, waiting_ack>>
    BY <2>1 DEF dsVars, workerVars, ackVars, history
  <2>. QED
    BY <2>2, OthersCalm
<1>. QED
  BY <1>1, <1>2, <1>3

LEMMA StepWindow ==
  ASSUME OneSender, WholeBatches, WindowInv, [Next]_vars
  PROVE  WindowInv'
<1>1. TypeOK'
  BY StepTypeOK DEF WindowInv
<1>2. ASSUME NEW b \in Batch, SubmitSmis(b) PROVE WindowInv'
  BY <1>1, <1>2, SubmitSmisWindow
<1>3. ASSUME GetStatuses PROVE Calm
  BY <1>3, OthersCalm DEF GetStatuses, GetGlobalStatus, workerVars, ackVars, history
<1>4. ASSUME NEW c \in Client, Worker(c) PROVE WindowInv'
  <2>1. CASE GiveUpBinding(c)
    <3>1. /\ WorkerAt(c, "wait", Disconnecting(c, "top")) /\ FreshSmi(c)
          /\ lost' = lost \union Hand(c) /\ UNCHANGED <<to_submit, waiting_ack, sent>>
      BY <2>1 DEF GiveUpBinding, dsVars, ackVars
    <3>2. Disconnecting(c, "top") \in {"top", "disc"}
      BY DEF Disconnecting
    <3>. QED
      BY <1>1, <3>1, <3>2, ForgetWindow
  <2>2. CASE WorkerExit(c)
    <3>1. PICK from \in {"top", "dlr_timeout"} : WorkerAt(c, from, "done")
      BY <2>2 DEF WorkerExit, LoopHeads
    <3>2. FreshSmi(c) /\ lost' = lost \union Hand(c) /\ UNCHANGED <<to_submit, waiting_ack, sent>>
      BY <2>2 DEF WorkerExit, dsVars, ackVars
    <3>. QED
      BY <1>1, <3>1, <3>2, ForgetWindow
  <2>. QED
    BY <1>1, <1>4, <2>1, <2>2, WorkerWindow, CalmWindow, FetchWindow, RegisterWindow
<1>5. ASSUME NEW c \in Client, Receiver(c) \/ Stop(c) \/ Environment(c) PROVE Calm
  BY <1>5, ThreadsCalm
<1>6. ASSUME NEW m \in Msg, Tick(m) PROVE Calm
  BY <1>6, OthersCalm DEF Tick, workerVars, ackVars, history
<1>7. CASE UNCHANGED vars
  BY <1>1, <1>7, OthersCalm, CalmWindow DEF vars, dsVars, workerVars, ackVars, history
<1>. QED
  BY <1>1, <1>2, <1>3, <1>4, <1>5, <1>6, <1>7, CalmWindow DEF Next


\* Only the worker that fetches puts another message into its smi.
LEMMA StepTakes ==
  ASSUME WindowInv, [Next]_vars, NEW c \in Client, smi'[c] # smi[c], smi'[c] # NoMsg
  PROVE  \E e \in Client : Fetch(e)
<1>1. smi' # smi /\ ~Calm
  BY DEF Calm
<1>2. \A e \in Client : ~FreshSmi(e)
  <2>1. ASSUME NEW e \in Client, FreshSmi(e) PROVE FALSE
    BY <2>1 DEF FreshSmi, WindowInv, TypeOK, WorkerTypeOK
  <2>. QED
    BY <2>1
<1>3. \E e \in Client : Worker(e)
  <2>1. ASSUME NEW b \in Batch, SubmitSmis(b) PROVE FALSE
    BY <1>1, <2>1 DEF SubmitSmis, workerVars
  <2>2. CASE GetStatuses
    BY <1>1, <2>2 DEF GetStatuses, workerVars
  <2>3. ASSUME NEW e \in Client, Receiver(e) \/ Stop(e) \/ Environment(e) PROVE FALSE
    BY <1>1, <2>3, ThreadsCalm
  <2>4. ASSUME NEW m \in Msg, Tick(m) PROVE FALSE
    BY <1>1, <2>4 DEF Tick, workerVars
  <2>5. CASE UNCHANGED vars
    BY <1>1, <2>5 DEF vars, workerVars
  <2>. QED
    BY <2>1, <2>2, <2>3, <2>4, <2>5 DEF Next
<1>4. ASSUME NEW e \in Client, Worker(e) PROVE Fetch(e)
  <2>1. ~Register(e)
    BY <1>1 DEF Register
  <2>. QED
    BY <1>1, <1>2, <1>4, <2>1, WorkerWindow
<1>. QED
  BY <1>3, <1>4

LEMMA InitWindow ==
  ASSUME Init
  PROVE  WindowInv
<1>1. TypeOK
  BY InitTypeOK
<1>2. /\ to_submit = << >> /\ \A c \in Client : smi[c] = NoMsg /\ wpc[c] = "top"
      /\ \A c \in Client : waiting_ack[c] = {}
  BY DEF Init, DsInit
<1>3. Linked(to_submit) /\ RestQueued /\ TakenKnown /\ OnlySenderTakes
  BY <1>2 DEF Linked, RestQueued, TakenKnown, OnlySenderTakes, IsLongSmAndNotLast
<1>4. IsFiniteSet({}) /\ Cardinality({}) = 0
  BY FS_EmptySet
<1>5. WaitingBound
  BY <1>2, <1>4 DEF WaitingBound
<1>6. 0 <= Window - 1 + 1
  BY BoundAssumption
<1>7. WindowBound
  BY <1>2, <1>4, <1>6 DEF WindowBound
<1>. QED
  BY <1>1, <1>3, <1>5, <1>7 DEF WindowInv

LEMMA WindowInvariant ==
  ASSUME OneSender, WholeBatches
  PROVE  Spec => []WindowInv
<1>1. Init => WindowInv
  BY InitWindow
<1>2. WindowInv /\ [Next]_vars => WindowInv'
  BY StepWindow
<1>. QED
  BY <1>1, <1>2, PTL DEF Spec

\* However many acks are late, timed out or lost, and however often the worker
\* resends: never more than the window waits for an ack in one client, the
\* further parts of the long message that filled it excepted.
THEOREM WindowBoundHolds ==
  ASSUME OneSender, WholeBatches
  PROVE  Spec => []WindowBound
<1>1. WindowInv => WindowBound
  BY DEF WindowInv
<1>. QED
  BY <1>1, WindowInvariant, PTL

\* The worker takes the parts of a long message one after the other, across
\* resends, reconnects and binds that fail, and takes nothing in between.
THEOREM LongSmContiguousHolds ==
  ASSUME OneSender, WholeBatches
  PROVE  Spec => LongSmContiguous
<1>1. WindowInv /\ [Next]_vars =>
        [\A c \in Client :
           smi'[c] # smi[c] /\ smi'[c] # NoMsg =>
             \/ NextPart(smi'[c], smi[c])
             \/ /\ ~IsLongSmAndNotLast(smi[c])
                /\ Part[smi'[c]] > 1 => /\ smi[c] = NoMsg
                                       /\ \E m \in sent \union lost : NextPart(smi'[c], m)]_vars
  <2>. SUFFICES ASSUME WindowInv, [Next]_vars, NEW c \in Client,
                       smi'[c] # smi[c], smi'[c] # NoMsg
                PROVE  \/ NextPart(smi'[c], smi[c])
                       \/ /\ ~IsLongSmAndNotLast(smi[c])
                          /\ Part[smi'[c]] > 1 =>
                               smi[c] = NoMsg /\ \E m \in sent \union lost : NextPart(smi'[c], m)
    OBVIOUS
  <2>1. \E e \in Client : Fetch(e)
    BY StepTakes
  <2>2. TypeOK'
    BY StepTypeOK DEF WindowInv
  <2>. QED
    BY <2>1, <2>2, FetchWindow
<1>2. Spec => []WindowInv
  BY WindowInvariant
<1>. QED
  BY <1>1, <1>2, PTL DEF Spec, LongSmContiguous

=============================================================================
