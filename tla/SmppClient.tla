----------------------------- MODULE SmppClient -----------------------------
(***************************************************************************)
(* The SMPP client: for every smppclient object a worker thread (binds,    *)
(* submits, times out, sends heartbeats), a receiver thread (reads PDUs    *)
(* and handles them) and the thread that calls stop(), all three sharing   *)
(* one sync_tcp_client, and the data source that the clients of one        *)
(* system id share.  The server and the network are the environment.       *)
(*                                                                         *)
(* A step is one critical section, one socket call or one access to a      *)
(* shared flag.  disconnect() takes two steps, since it closes the socket  *)
(* before it clears connected_ and is guarded by no lock.                  *)
(***************************************************************************)
EXTENDS ClientDataSource, FiniteSets

CONSTANTS
  Client,               \* the smppclient objects of one system id
  NoMsg,                \* a cb_sm_information without a message
  Batch,                \* what the application submits: sequences of messages
  BindMode,             \* configer_.bind_mode of each client: "TX", "RX", "TRX"
  Total, Part,          \* udhi_total_parts and udhi_part_index of each message
  Empty,                \* messages whose content is the empty string
  Unencodable,          \* messages the PDU encoder refuses (Smpp::Error)
  Window,               \* the 8 of too_many_waiting_ack_smis
  Stoppable,            \* clients that the application may stop
  MaxFaults,            \* bound on the faults of each kind
  MaxRequests,          \* bound on the requests the server starts itself
  MaxPdus               \* bound on the PDUs in flight in one direction

FaultKinds == {"net", "length", "refuse", "late", "reject", "noack", "partial"}

ASSUME ClientAssumption == Client # {}
ASSUME NoMsgAssumption == NoMsg \notin Msg
ASSUME BatchAssumption ==
  \A b \in Batch : /\ b \in Seq(Msg)
                   /\ \A i, j \in DOMAIN b : b[i] = b[j] => i = j
ASSUME PartAssumption == Total \in [Msg -> Nat] /\ Part \in [Msg -> Nat]
ASSUME ModeAssumption == BindMode \in [Client -> {"TX", "RX", "TRX"}]
ASSUME BoundAssumption ==
  /\ Window \in Nat \ {0} /\ MaxPdus \in Nat \ {0} /\ MaxRequests \in Nat
  /\ MaxFaults \in [FaultKinds -> Nat]

VARIABLES
  unseen, fetched,      \* messages not yet submitted; reports already fetched
  wpc,                  \* control point of each worker
  smi, content,         \* its local smi, and whether smi.content is non-empty
  rpc, pdu, rsmi,       \* each receiver's control point, PDU and smi in hand
  waiting_ack,          \* waiting_ack_smis_ of each client
  ack_timeout,          \* ack_timeout_smis_ of each client
  connected,            \* connected_ of each client
  bound,                \* is_protocol_connected_ of each client
  link,                 \* state of the TCP connection behind socket_ptr_
  c2s, s2c,             \* PDUs in flight on it, per direction
  session,              \* the server's side of it
  accepted,             \* messages the server still owes a DLR
  faults, requests,     \* what is left of MaxFaults and MaxRequests
  spc, finished,        \* the thread in stop(), and finished_
  sent, lost            \* history: complete SubmitSm PDUs; messages dropped

appVars == <<unseen, fetched>>
workerVars == <<wpc, smi, content>>
receiverVars == <<rpc, pdu, rsmi>>
ackVars == <<waiting_ack, ack_timeout>>
linkVars == <<link, c2s, s2c, session>>
serverVars == <<accepted, faults, requests>>
stopVars == <<spc, finished>>
history == <<sent, lost>>
vars == <<dsVars, appVars, workerVars, receiverVars, ackVars, connected,
          bound, linkVars, serverVars, stopVars, history>>

PlainTypes == {"None", "Bind", "BindResp", "Request", "Unbind", "UnbindResp"}
MessageTypes == {"SubmitSm", "SubmitSmResp", "Dlr"}
Pdu == [type : PlainTypes, sm : {NoMsg}, ok : BOOLEAN]
         \union [type : MessageTypes, sm : Msg, ok : BOOLEAN]
NoPdu == [type |-> "None", sm |-> NoMsg, ok |-> TRUE]
Plain(t) == [type |-> t, sm |-> NoMsg, ok |-> TRUE]
Carry(t, m) == [type |-> t, sm |-> m, ok |-> TRUE]
Answer(t, m, ok) == [type |-> t, sm |-> m, ok |-> ok]

WorkerPcs == {"top", "bind", "wait", "dlr_timeout", "waiting_timeout", "ack_timeout",
              "pick", "submit", "write", "unregister", "beat", "disc", "done"}
ReceiverPcs == {"idle", "read", "process", "late_ack", "ack", "respond",
                "disc", "disc_clean", "done"}
StopPcs == {"run", "disc", "unbound", "joining", "stopped"}

Init ==
  /\ DsInit
  /\ unseen = Msg /\ fetched = {}
  /\ wpc = [c \in Client |-> "top"]
  /\ smi = [c \in Client |-> NoMsg]
  /\ content = [c \in Client |-> FALSE]
  /\ rpc = [c \in Client |-> "idle"]
  /\ pdu = [c \in Client |-> NoPdu]
  /\ rsmi = [c \in Client |-> NoMsg]
  /\ waiting_ack = [c \in Client |-> {}]
  /\ ack_timeout = [c \in Client |-> {}]
  /\ connected = [c \in Client |-> FALSE]
  /\ bound = [c \in Client |-> FALSE]
  /\ link = [c \in Client |-> "closed"]
  /\ c2s = [c \in Client |-> << >>]
  /\ s2c = [c \in Client |-> << >>]
  /\ session = [c \in Client |-> "none"]
  /\ accepted = {}
  /\ faults = MaxFaults
  /\ requests = MaxRequests
  /\ spc = [c \in Client |-> "run"]
  /\ finished = [c \in Client |-> FALSE]
  /\ sent = {} /\ lost = {}

-----------------------------------------------------------------------------
(* sync_tcp_client                                                         *)

\* write(): on a silent connection the bytes are accepted and go nowhere.
Sends(c, p) ==
  /\ connected[c]
  /\ \/ /\ link[c] = "up"
        /\ Len(c2s[c]) < MaxPdus
        /\ c2s' = [c2s EXCEPT ![c] = Append(@, p)]
     \/ link[c] = "silent" /\ UNCHANGED c2s

\* write() of a PDU that the server answers with nothing this client uses.
SendsPlain(c) == connected[c] /\ link[c] \in {"up", "silent"}

CannotSend(c) == ~connected[c] \/ link[c] \in {"reset", "closed"}

\* The socket is shut down and closed: what was in flight is gone.
DropSocket(c) ==
  /\ link' = [link EXCEPT ![c] = "closed"]
  /\ c2s' = [c2s EXCEPT ![c] = << >>]
  /\ s2c' = [s2c EXCEPT ![c] = << >>]
  /\ session' = [session EXCEPT ![c] = "none"]

\* disconnect(), first half: it closes the socket only if connected_.
CloseSocket(c) == IF connected[c] THEN DropSocket(c) ELSE UNCHANGED linkVars

\* disconnect(), second half; connection_interrupted() only without an error.
ClearConnected(c, error) ==
  /\ connected' = [connected EXCEPT ![c] = FALSE]
  /\ IF error THEN UNCHANGED bound ELSE bound' = [bound EXCEPT ![c] = FALSE]

Disconnecting(c, then) == IF connected[c] THEN "disc" ELSE then

UseFault(k) == faults[k] > 0 /\ faults' = [faults EXCEPT ![k] = @ - 1]

-----------------------------------------------------------------------------
(* The application                                                         *)

SubmitSmis(b) ==
  /\ Range(b) \subseteq unseen
  /\ AddSmis(b)
  /\ unseen' = unseen \ Range(b)
  /\ UNCHANGED <<fetched, workerVars, receiverVars, ackVars, connected, bound,
                 linkVars, serverVars, stopVars, history>>

GetStatuses ==
  /\ \E got \in SUBSET delivered :
       GetGlobalStatus(got) /\ fetched' = fetched \union got
  /\ UNCHANGED <<unseen, workerVars, receiverVars, ackVars, connected, bound,
                 linkVars, serverVars, stopVars, history>>

-----------------------------------------------------------------------------
(* The worker thread                                                       *)

TxAble(c) == BindMode[c] \in {"TX", "TRX"}
RxAble(c) == BindMode[c] \in {"RX", "TRX"}

WorkerAt(c, from, to) == wpc[c] = from /\ wpc' = [wpc EXCEPT ![c] = to]

\* connect_for(): a new socket takes the place of what was left of the last
\* one.  If nobody answers, the worker sleeps and tries again
\* (smppclient.cpp:155-159), and no timeout runs meanwhile.
Connect(c) ==
  /\ wpc[c] = "top" /\ ~finished[c] /\ ~connected[c]
  /\ \/ /\ wpc' = [wpc EXCEPT ![c] = "bind"]
        /\ connected' = [connected EXCEPT ![c] = TRUE]
        /\ link' = [link EXCEPT ![c] = "up"]
        /\ c2s' = [c2s EXCEPT ![c] = << >>]
        /\ s2c' = [s2c EXCEPT ![c] = << >>]
        /\ session' = [session EXCEPT ![c] = "open"]
     \/ DropSocket(c) /\ UNCHANGED <<wpc, connected>>
  /\ UNCHANGED <<dsVars, appVars, smi, content, receiverVars, ackVars, bound,
                 serverVars, stopVars, history>>

\* bind(), at once after connect_for() or on a connection that is still up.
Bind(c) ==
  /\ \E from \in {"top", "bind"} :
       /\ from = "top" => ~finished[c] /\ connected[c]
       /\ \/ /\ WorkerAt(c, from, "wait")
             /\ Sends(c, Plain("Bind"))
             /\ UNCHANGED <<link, s2c, session>>
          \/ /\ WorkerAt(c, from, Disconnecting(c, "top"))
             /\ CannotSend(c)
             /\ CloseSocket(c)
  /\ UNCHANGED <<dsVars, appVars, smi, content, receiverVars, ackVars,
                 connected, bound, serverVars, stopVars, history>>

BindAcknowledged(c) ==
  /\ WorkerAt(c, "wait", "dlr_timeout")
  /\ bound[c]
  /\ UNCHANGED <<dsVars, appVars, smi, content, receiverVars, ackVars,
                 connected, bound, linkVars, serverVars, stopVars, history>>

\* A bind response is still to come and the receiver will read it, so the 30
\* seconds are not over unless the server is slow (the fault "late").
AnswerComing(c) ==
  \/ /\ connected[c] \/ rpc[c] = "read"
     /\ \/ link[c] = "up" /\ session[c] = "open" /\ c2s[c] # << >>
        \/ \E i \in DOMAIN s2c[c] : s2c[c][i].type = "BindResp" /\ s2c[c][i].ok
  \/ rpc[c] = "process" /\ pdu[c].type = "BindResp" /\ pdu[c].ok

\* The unsent message in the worker's hands: smi, not yet registered.
Hand(c) ==
  IF smi[c] # NoMsg /\ \/ wpc[c] = "submit"
                       \/ content[c] /\ wpc[c] \notin {"write", "unregister"}
  THEN {smi[c]} ELSE {}

\* Leaving the middle loop declares smi anew; its constructor empties it.
FreshSmi_KeepsContent(c) ==
  smi' = [smi EXCEPT ![c] = NoMsg] /\ UNCHANGED content
FreshSmi(c) ==
  /\ smi' = [smi EXCEPT ![c] = NoMsg]
  /\ content' = [content EXCEPT ![c] = FALSE]

\* The bind timed out, or stop() ends the wait: disconnect and leave the
\* middle loop, so that smi is declared anew.
GiveUpBinding(c) ==
  /\ WorkerAt(c, "wait", Disconnecting(c, "top"))
  /\ ~bound[c]
  /\ \/ finished[c] /\ UNCHANGED faults
     \/ ~finished[c] /\ ~AnswerComing(c) /\ UNCHANGED faults
     \/ ~finished[c] /\ AnswerComing(c) /\ UseFault("late")
  /\ CloseSocket(c)
  /\ lost' = lost \union Hand(c)
  /\ FreshSmi(c)
  /\ UNCHANGED <<dsVars, appVars, receiverVars, ackVars, connected, bound,
                 accepted, requests, stopVars, sent>>

DlrTimeouts(c) ==
  /\ WorkerAt(c, "dlr_timeout", "waiting_timeout")
  /\ ~finished[c]
  /\ ProcessWaitingDlrTimeout
  /\ UNCHANGED <<appVars, smi, content, receiverVars, ackVars, connected,
                 bound, linkVars, serverVars, stopVars, history>>

\* a_smis_waiting_ack_timeout, for all messages of S.
ASmisWaitingAckTimeout_Drops(c, S) == UNCHANGED ack_timeout
ASmisWaitingAckTimeout(c, S) ==
  ack_timeout' = [ack_timeout EXCEPT ![c] = @ \union S]

\* process_waiting_ack_smis: it takes the second lock while it holds the
\* first, so no message is ever in neither list.
WaitingTimeouts(c) ==
  LET late == {m \in waiting_ack[c] : age[m] >= 1}
  IN  /\ WorkerAt(c, "waiting_timeout", "ack_timeout")
      /\ waiting_ack' = [waiting_ack EXCEPT ![c] = @ \ late]
      /\ ASmisWaitingAckTimeout(c, late)
      /\ UNCHANGED <<dsVars, appVars, smi, content, receiverVars, connected,
                     bound, linkVars, serverVars, stopVars, history>>

Expired_Never(c) == {m \in ack_timeout[c] : age[m] > 2}
Expired(c) == {m \in ack_timeout[c] : age[m] = 2}

AckTimeouts(c) ==
  /\ WorkerAt(c, "ack_timeout", "pick")
  /\ ack_timeout' = [ack_timeout EXCEPT ![c] = @ \ Expired(c)]
  /\ SubmitFailed(Expired(c), "submit_timeout")
  /\ UNCHANGED <<appVars, smi, content, receiverVars, waiting_ack, connected,
                 bound, linkVars, serverVars, stopVars, history>>

TooManyWaiting_OneMore(c) == Cardinality(waiting_ack[c]) > Window
TooManyWaiting(c) == Cardinality(waiting_ack[c]) >= Window

IsLongSmAndNotLast(m) == m # NoMsg /\ Total[m] > 1 /\ Total[m] # Part[m]

MayFetch(c) ==
  ~content[c] /\ (TooManyWaiting(c) => IsLongSmAndNotLast(smi[c]))

Fetch(c) ==
  /\ WorkerAt(c, "pick", "submit")
  /\ TxAble(c) /\ MayFetch(c)
  /\ GetToSubmit
  /\ smi' = [smi EXCEPT ![c] = Head(to_submit)]
  /\ content' = [content EXCEPT ![c] = Head(to_submit) \notin Empty]
  /\ UNCHANGED <<appVars, receiverVars, ackVars, connected, bound, linkVars,
                 serverVars, stopVars, history>>

\* The other outcomes of the choice: resend, nothing to send, a full window
\* (which goes round without a heartbeat) or a client that cannot transmit.
PickNothing(c) ==
  /\ \/ WorkerAt(c, "pick", "submit") /\ TxAble(c) /\ content[c]
     \/ /\ WorkerAt(c, "pick", "beat")
        /\ TxAble(c) => MayFetch(c) /\ to_submit = << >>
     \/ /\ WorkerAt(c, "pick", "dlr_timeout")
        /\ TxAble(c) /\ ~content[c] /\ ~MayFetch(c)
  /\ UNCHANGED <<dsVars, appVars, smi, content, receiverVars, ackVars,
                 connected, bound, linkVars, serverVars, stopVars, history>>

\* submit(), the encoder throws: the connection stays as it is.
EncodingFails(c) ==
  /\ WorkerAt(c, "submit", "top")
  /\ smi[c] \in Unencodable
  /\ lost' = IF content[c] THEN lost ELSE lost \union {smi[c]}
  /\ UNCHANGED <<dsVars, appVars, smi, content, receiverVars, ackVars,
                 connected, bound, linkVars, serverVars, stopVars, sent>>

AddWaitingAck_Missing(c, m) == UNCHANGED waiting_ack
AddWaitingAck(c, m) ==
  waiting_ack' = [waiting_ack EXCEPT ![c] = @ \union {m}]

RemoveWaitingAck_Missing(c, m) == UNCHANGED waiting_ack
RemoveWaitingAck(c, m) == waiting_ack' = [waiting_ack EXCEPT ![c] = @ \ {m}]

\* submit(), add_waiting_ack_smi before the write.
Register(c) ==
  /\ WorkerAt(c, "submit", "write")
  /\ smi[c] \notin Unencodable
  /\ AddWaitingAck(c, smi[c])
  /\ Stamp(smi[c])
  /\ UNCHANGED <<to_submit, delivering, delivered, status, appVars, smi,
                 content, receiverVars, ack_timeout, connected, bound,
                 linkVars, serverVars, stopVars, history>>

\* submit() returned true: smi.content = "".
ClearContent_Missing(c) == UNCHANGED content
ClearContent(c) == content' = [content EXCEPT ![c] = FALSE]

\* write_some() may also take a part of the PDU only: the write has failed,
\* and the server never gets the rest.
WriteSubmit(c) ==
  /\ \/ /\ WorkerAt(c, "write", "beat")
        /\ Sends(c, Carry("SubmitSm", smi[c]))
        /\ sent' = sent \union {smi[c]}
        /\ ClearContent(c)
        /\ UNCHANGED faults
     \/ /\ WorkerAt(c, "write", "unregister")
        /\ \/ CannotSend(c) /\ UNCHANGED faults
           \/ connected[c] /\ link[c] = "up" /\ UseFault("partial")
        /\ UNCHANGED <<c2s, sent, content>>
  /\ UNCHANGED <<dsVars, appVars, smi, receiverVars, ackVars, connected,
                 bound, link, s2c, session, accepted, requests, stopVars, lost>>

\* submit(), the write failed: remove_waiting_ack_smi, then disconnect(true).
Unregister(c) ==
  /\ WorkerAt(c, "unregister", Disconnecting(c, "top"))
  /\ RemoveWaitingAck(c, smi[c])
  /\ CloseSocket(c)
  /\ lost' = IF content[c] THEN lost ELSE lost \union {smi[c]}
  /\ UNCHANGED <<dsVars, appVars, smi, content, receiverVars, ack_timeout,
                 connected, bound, serverVars, stopVars, sent>>

NoHeartbeat(c) ==
  /\ WorkerAt(c, "beat", "dlr_timeout")
  /\ UNCHANGED <<dsVars, appVars, smi, content, receiverVars, ackVars,
                 connected, bound, linkVars, serverVars, stopVars, history>>

\* The heartbeat is due: enquire_link().
Heartbeat(c) ==
  /\ \/ WorkerAt(c, "beat", "dlr_timeout") /\ SendsPlain(c) /\ UNCHANGED linkVars
     \/ /\ WorkerAt(c, "beat", Disconnecting(c, "top"))
        /\ CannotSend(c)
        /\ CloseSocket(c)
  /\ UNCHANGED <<dsVars, appVars, smi, content, receiverVars, ackVars,
                 connected, bound, serverVars, stopVars, history>>

WorkerDisconnected(c) ==
  /\ WorkerAt(c, "disc", "top")
  /\ ClearConnected(c, TRUE)
  /\ UNCHANGED <<dsVars, appVars, smi, content, receiverVars, ackVars,
                 linkVars, serverVars, stopVars, history>>

\* Every loop of the worker ends at finished_; its local smi goes with it.
LoopHeads_OuterOnly == {"top"}
LoopHeads == {"top", "dlr_timeout"}

WorkerExit(c) ==
  /\ \E from \in LoopHeads : WorkerAt(c, from, "done")
  /\ finished[c]
  /\ lost' = lost \union Hand(c)
  /\ FreshSmi(c)
  /\ UNCHANGED <<dsVars, appVars, receiverVars, ackVars, connected, bound,
                 linkVars, serverVars, stopVars, sent>>

Worker(c) ==
  \/ Connect(c) \/ Bind(c) \/ BindAcknowledged(c) \/ GiveUpBinding(c)
  \/ DlrTimeouts(c) \/ WaitingTimeouts(c) \/ AckTimeouts(c)
  \/ Fetch(c) \/ PickNothing(c) \/ EncodingFails(c) \/ Register(c)
  \/ WriteSubmit(c) \/ Unregister(c) \/ NoHeartbeat(c) \/ Heartbeat(c)
  \/ WorkerDisconnected(c) \/ WorkerExit(c)

-----------------------------------------------------------------------------
(* The receiver thread                                                     *)

ReceiverAt(c, from, to) == rpc[c] = from /\ rpc' = [rpc EXCEPT ![c] = to]

\* The receiver has the PDU p in hand and goes on to the control point to.
Handles(c, t, to) == ReceiverAt(c, "process", to) /\ pdu[c].type = t

Listen(c) ==
  /\ \/ ReceiverAt(c, "idle", "read") /\ ~finished[c] /\ connected[c]
     \/ ReceiverAt(c, "idle", "done") /\ finished[c]
     \/ ReceiverAt(c, "read", "idle") /\ link[c] \in {"reset", "closed"}
  /\ UNCHANGED <<dsVars, appVars, workerVars, pdu, rsmi, ackVars, connected,
                 bound, linkVars, serverVars, stopVars, history>>

ReadResp(c) ==
  /\ ReceiverAt(c, "read", "process")
  /\ link[c] \in {"up", "silent"}
  /\ s2c[c] # << >>
  /\ pdu' = [pdu EXCEPT ![c] = Head(s2c[c])]
  /\ s2c' = [s2c EXCEPT ![c] = Tail(@)]
  /\ UNCHANGED <<dsVars, appVars, workerVars, rsmi, ackVars, connected, bound,
                 link, c2s, session, serverVars, stopVars, history>>

\* read() takes what one read_some() returns.  Of a header or a body that
\* comes in two TCP segments it drops the first part, and what follows is read
\* out of step and dropped as well: the PDU is lost, the connection stays.
ReadShort(c) ==
  /\ ReceiverAt(c, "read", "idle")
  /\ link[c] \in {"up", "silent"}
  /\ s2c[c] # << >>
  /\ s2c' = [s2c EXCEPT ![c] = Tail(@)]
  /\ UNCHANGED <<dsVars, appVars, workerVars, pdu, rsmi, ackVars, connected, bound,
                 link, c2s, session, serverVars, stopVars, history>>

\* A header with an impossible length, from the server or from reading out of
\* step: disconnect(true).
ReadTooLong(c) ==
  /\ ReceiverAt(c, "read", Disconnecting(c, "idle"))
  /\ link[c] = "up"
  /\ UseFault("length")
  /\ CloseSocket(c)
  /\ UNCHANGED <<dsVars, appVars, workerVars, pdu, rsmi, ackVars, connected,
                 bound, accepted, requests, stopVars, history>>

BindRespReceived(c) ==
  /\ Handles(c, "BindResp", "idle")
  /\ bound' = [bound EXCEPT ![c] = pdu[c].ok]
  /\ pdu' = [pdu EXCEPT ![c] = NoPdu]
  /\ UNCHANGED <<dsVars, appVars, workerVars, rsmi, ackVars, connected,
                 linkVars, serverVars, stopVars, history>>

\* set_ack(): get_waiting_ack_smi.
GetWaitingAck(c) ==
  LET m == pdu[c].sm
  IN  /\ IF m \in waiting_ack[c]
         THEN /\ Handles(c, "SubmitSmResp", "ack")
              /\ waiting_ack' = [waiting_ack EXCEPT ![c] = @ \ {m}]
              /\ rsmi' = [rsmi EXCEPT ![c] = m]
         ELSE /\ Handles(c, "SubmitSmResp", "late_ack")
              /\ UNCHANGED <<waiting_ack, rsmi>>
      /\ UNCHANGED <<dsVars, appVars, workerVars, pdu, ack_timeout, connected,
                     bound, linkVars, serverVars, stopVars, history>>

FoundLate_Never(c, m) == FALSE
FoundLate(c, m) == m \in ack_timeout[c]

\* set_ack(): get_ack_timeout_smi; an unknown sn is only logged.
GetAckTimeout(c) ==
  LET m == pdu[c].sm
  IN  /\ IF FoundLate(c, m)
         THEN /\ ReceiverAt(c, "late_ack", "ack")
              /\ ack_timeout' = [ack_timeout EXCEPT ![c] = @ \ {m}]
              /\ rsmi' = [rsmi EXCEPT ![c] = m]
              /\ UNCHANGED pdu
         ELSE /\ ReceiverAt(c, "late_ack", "idle")
              /\ pdu' = [pdu EXCEPT ![c] = NoPdu]
              /\ UNCHANGED <<ack_timeout, rsmi>>
      /\ UNCHANGED <<dsVars, appVars, workerVars, waiting_ack, connected,
                     bound, linkVars, serverVars, stopVars, history>>

\* set_ack(): the message goes to the data source.
Acknowledge(c) ==
  /\ ReceiverAt(c, "ack", "idle")
  /\ IF pdu[c].ok
     THEN SmIsDelivering(rsmi[c])
     ELSE SubmitFailed({rsmi[c]}, "rejected")
  /\ rsmi' = [rsmi EXCEPT ![c] = NoMsg]
  /\ pdu' = [pdu EXCEPT ![c] = NoPdu]
  /\ UNCHANGED <<appVars, workerVars, ackVars, connected, bound, linkVars,
                 serverVars, stopVars, history>>

\* deliversm_received() of a DLR.
DlrReceived(c) ==
  /\ Handles(c, "Dlr", "respond")
  /\ SmIsDelivered(pdu[c].sm)
  /\ UNCHANGED <<appVars, workerVars, pdu, rsmi, ackVars, connected, bound,
                 linkVars, serverVars, stopVars, history>>

\* deliversm_received() of an MO, or process_enquirelink(): only the answer
\* matters here.
RequestReceived(c) ==
  /\ Handles(c, "Request", "respond")
  /\ UNCHANGED <<dsVars, appVars, workerVars, pdu, rsmi, ackVars, connected,
                 bound, linkVars, serverVars, stopVars, history>>

Respond(c) ==
  /\ \/ ReceiverAt(c, "respond", "idle") /\ SendsPlain(c) /\ UNCHANGED linkVars
     \/ /\ ReceiverAt(c, "respond", Disconnecting(c, "idle"))
        /\ CannotSend(c)
        /\ CloseSocket(c)
  /\ pdu' = [pdu EXCEPT ![c] = NoPdu]
  /\ UNCHANGED <<dsVars, appVars, workerVars, rsmi, ackVars, connected, bound,
                 serverVars, stopVars, history>>

UnbindRespReceived(c) ==
  /\ Handles(c, "UnbindResp", IF connected[c] THEN "disc_clean" ELSE "idle")
  /\ bound' = [bound EXCEPT ![c] = FALSE]
  /\ CloseSocket(c)
  /\ pdu' = [pdu EXCEPT ![c] = NoPdu]
  /\ UNCHANGED <<dsVars, appVars, workerVars, rsmi, ackVars, connected,
                 serverVars, stopVars, history>>

ReceiverDisconnected(c) ==
  /\ \E from \in {"disc", "disc_clean"} :
       /\ ReceiverAt(c, from, "idle")
       /\ ClearConnected(c, from = "disc")
  /\ UNCHANGED <<dsVars, appVars, workerVars, pdu, rsmi, ackVars, linkVars,
                 serverVars, stopVars, history>>

Receiver(c) ==
  \/ Listen(c) \/ ReadResp(c) \/ ReadShort(c) \/ ReadTooLong(c) \/ BindRespReceived(c)
  \/ GetWaitingAck(c) \/ GetAckTimeout(c) \/ Acknowledge(c) \/ DlrReceived(c)
  \/ RequestReceived(c) \/ Respond(c) \/ UnbindRespReceived(c)
  \/ ReceiverDisconnected(c)

-----------------------------------------------------------------------------
(* stop(), and the destruction of the client by stop_all                   *)

StopAt(c, from, to) == spc[c] = from /\ spc' = [spc EXCEPT ![c] = to]

StopUnbind(c) ==
  /\ c \in Stoppable
  /\ \/ /\ StopAt(c, "run", "unbound")
        /\ Sends(c, Plain("Unbind"))
        /\ UNCHANGED <<link, s2c, session>>
     \/ /\ StopAt(c, "run", Disconnecting(c, "unbound"))
        /\ CannotSend(c)
        /\ CloseSocket(c)
  /\ UNCHANGED <<dsVars, appVars, workerVars, receiverVars, ackVars,
                 connected, bound, serverVars, finished, history>>

StopDisconnected(c) ==
  /\ StopAt(c, "disc", "unbound")
  /\ ClearConnected(c, TRUE)
  /\ UNCHANGED <<dsVars, appVars, workerVars, receiverVars, ackVars,
                 linkVars, serverVars, finished, history>>

StopFinish(c) ==
  /\ StopAt(c, "unbound", "joining")
  /\ finished' = [finished EXCEPT ![c] = TRUE]
  /\ UNCHANGED <<dsVars, appVars, workerVars, receiverVars, ackVars,
                 connected, bound, linkVars, serverVars, history>>

\* Both threads are joined, stop_all drops the client, the destructor clears
\* its two lists.  The last owner of socket_ptr_ goes with it, which closes
\* the connection whatever connected_ says; the disconnect(false) of
\* ~sync_tcp_client no longer reaches smppclient's connection_interrupted().
StopJoined(c) ==
  /\ StopAt(c, "joining", "stopped")
  /\ wpc[c] = "done" /\ rpc[c] = "done"
  /\ lost' = lost \union waiting_ack[c] \union ack_timeout[c]
  /\ waiting_ack' = [waiting_ack EXCEPT ![c] = {}]
  /\ ack_timeout' = [ack_timeout EXCEPT ![c] = {}]
  /\ DropSocket(c)
  /\ ClearConnected(c, TRUE)
  /\ UNCHANGED <<dsVars, appVars, workerVars, receiverVars, serverVars,
                 finished, sent>>

Stop(c) == StopUnbind(c) \/ StopDisconnected(c) \/ StopFinish(c) \/ StopJoined(c)

-----------------------------------------------------------------------------
(* The environment: server, network, clock                                 *)

Takes(c, t) ==
  /\ link[c] = "up"
  /\ c2s[c] # << >> /\ Head(c2s[c]).type = t
  /\ c2s' = [c2s EXCEPT ![c] = Tail(@)]

Gives(c, p) ==
  /\ Len(s2c[c]) < MaxPdus
  /\ s2c' = [s2c EXCEPT ![c] = Append(@, p)]

envUnchanged == <<dsVars, appVars, workerVars, receiverVars, ackVars,
                  connected, bound, stopVars, history>>

\* A bind outside the open state gets a generic_nack, which the client only
\* logs.
ServerBind(c) ==
  /\ Takes(c, "Bind")
  /\ \/ /\ session[c] = "open"
        /\ session' = [session EXCEPT ![c] = "bound"]
        /\ Gives(c, Answer("BindResp", NoMsg, TRUE))
        /\ UNCHANGED faults
     \/ /\ session[c] = "open" /\ UseFault("refuse")
        /\ Gives(c, Answer("BindResp", NoMsg, FALSE))
        /\ UNCHANGED session
     \/ session[c] # "open" /\ UNCHANGED <<session, s2c, faults>>
  /\ UNCHANGED <<link, accepted, requests, envUnchanged>>

\* A submit outside the bound state gets a generic_nack as well.
ServerSubmit(c) ==
  /\ Takes(c, "SubmitSm")
  /\ LET m == Head(c2s[c]).sm
     IN  \/ /\ session[c] = "bound"
            /\ accepted' = accepted \union {m}
            /\ \/ Gives(c, Answer("SubmitSmResp", m, TRUE)) /\ UNCHANGED faults
               \/ UseFault("noack") /\ UNCHANGED s2c
         \/ /\ session[c] = "bound" /\ UseFault("reject")
            /\ Gives(c, Answer("SubmitSmResp", m, FALSE))
            /\ UNCHANGED accepted
         \/ session[c] # "bound" /\ UNCHANGED <<s2c, accepted, faults>>
  /\ UNCHANGED <<link, session, requests, envUnchanged>>

ServerUnbind(c) ==
  /\ Takes(c, "Unbind")
  /\ IF session[c] = "bound"
     THEN /\ Gives(c, Plain("UnbindResp"))
          /\ session' = [session EXCEPT ![c] = "none"]
     ELSE UNCHANGED <<s2c, session>>
  /\ UNCHANGED <<link, serverVars, envUnchanged>>

ServerDlr(c) ==
  /\ link[c] = "up" /\ session[c] = "bound" /\ RxAble(c)
  /\ \E m \in accepted :
       Gives(c, Carry("Dlr", m)) /\ accepted' = accepted \ {m}
  /\ UNCHANGED <<link, c2s, session, faults, requests, envUnchanged>>

ServerRequest(c) ==
  /\ link[c] = "up" /\ session[c] = "bound"
  /\ requests > 0 /\ requests' = requests - 1
  /\ Gives(c, Plain("Request"))
  /\ UNCHANGED <<link, c2s, session, accepted, faults, envUnchanged>>

\* The connection dies: first nothing arrives any more, then writes fail.
PeerGone(c) ==
  /\ link[c] = "up" /\ UseFault("net")
  /\ link' = [link EXCEPT ![c] = "silent"]
  /\ c2s' = [c2s EXCEPT ![c] = << >>]
  /\ session' = [session EXCEPT ![c] = "none"]
  /\ UNCHANGED <<s2c, accepted, requests, envUnchanged>>

PeerReset(c) ==
  /\ link[c] = "silent"
  /\ link' = [link EXCEPT ![c] = "reset"]
  /\ s2c' = [s2c EXCEPT ![c] = << >>]
  /\ UNCHANGED <<c2s, session, serverVars, envUnchanged>>

\* The server drops a connection on which, after a bind, nothing comes any
\* more (its enquire_link_timer).
PeerIdle(c) ==
  /\ link[c] = "up" /\ wpc[c] = "done" /\ c2s[c] = << >>
  /\ link' = [link EXCEPT ![c] = "reset"]
  /\ s2c' = [s2c EXCEPT ![c] = << >>]
  /\ session' = [session EXCEPT ![c] = "none"]
  /\ UNCHANGED <<c2s, serverVars, envUnchanged>>

Answers(c) == ServerBind(c) \/ ServerSubmit(c) \/ ServerUnbind(c)

Environment(c) ==
  \/ Answers(c) \/ ServerDlr(c) \/ ServerRequest(c)
  \/ PeerGone(c) \/ PeerReset(c) \/ PeerIdle(c)

Waiting == UNION {waiting_ack[c] : c \in Client}
TimedOut == UNION {ack_timeout[c] : c \in Client}

\* Time passes for a message that something is waiting for.
Tick(m) ==
  /\ \/ m \in Waiting \union TimedOut /\ age[m] < 2
     \/ m \in delivering /\ age[m] < 1
  /\ age' = [age EXCEPT ![m] = @ + 1]
  /\ UNCHANGED <<to_submit, delivering, delivered, status, appVars,
                 workerVars, receiverVars, ackVars, connected, bound,
                 linkVars, serverVars, stopVars, history>>

-----------------------------------------------------------------------------
Next ==
  \/ \E b \in Batch : SubmitSmis(b)
  \/ GetStatuses
  \/ \E c \in Client : Worker(c) \/ Receiver(c) \/ Stop(c) \/ Environment(c)
  \/ \E m \in Msg : Tick(m)

Spec == Init /\ [][Next]_vars

(***************************************************************************)
(* Fairness: the threads run, the server answers what it reads, a dead     *)
(* connection is eventually noticed by a write, time passes, and a worker  *)
(* that keeps reaching the heartbeat test keeps finding it due.  No        *)
(* attempt to connect has to succeed.                                      *)
(***************************************************************************)
Fairness ==
  /\ \A c \in Client :
       /\ WF_vars(Worker(c) /\ ~Connect(c)) /\ SF_vars(Heartbeat(c))
       /\ WF_vars(Receiver(c))
       /\ WF_vars(Answers(c)) /\ WF_vars(PeerReset(c)) /\ WF_vars(PeerIdle(c))
       /\ WF_vars(StopDisconnected(c) \/ StopFinish(c) \/ StopJoined(c))
  /\ \A m \in Msg : WF_vars(Tick(m))

FairSpec == Spec /\ Fairness

=============================================================================
