----------------------- MODULE SmppClientProperties -----------------------
(* What the client promises: invariants, action properties, liveness.      *)
EXTENDS SmppClient

AppTypeOK == unseen \subseteq Msg /\ fetched \subseteq Msg

WorkerTypeOK ==
  /\ wpc \in [Client -> WorkerPcs]
  /\ smi \in [Client -> Msg \union {NoMsg}]
  /\ content \in [Client -> BOOLEAN]
  /\ \A c \in Client : wpc[c] \in {"submit", "write", "unregister"} \/ content[c]
                        => smi[c] \in Msg

ReceiverTypeOK ==
  /\ rpc \in [Client -> ReceiverPcs]
  /\ pdu \in [Client -> Pdu]
  /\ rsmi \in [Client -> Msg \union {NoMsg}]
  /\ \A c \in Client : rpc[c] = "ack" <=> rsmi[c] \in Msg

AckTypeOK ==
  /\ waiting_ack \in [Client -> SUBSET Msg]
  /\ ack_timeout \in [Client -> SUBSET Msg]

FlagTypeOK ==
  /\ connected \in [Client -> BOOLEAN]
  /\ bound \in [Client -> BOOLEAN]

LinkTypeOK ==
  /\ link \in [Client -> {"up", "silent", "reset", "closed"}]
  /\ c2s \in [Client -> Seq(Pdu)]
  /\ s2c \in [Client -> Seq(Pdu)]
  /\ session \in [Client -> {"none", "open", "bound"}]

ServerTypeOK ==
  /\ accepted \subseteq Msg
  /\ faults \in [FaultKinds -> Nat]
  /\ requests \in Nat

StopTypeOK ==
  /\ spc \in [Client -> StopPcs]
  /\ finished \in [Client -> BOOLEAN]

HistoryTypeOK == sent \subseteq Msg /\ lost \subseteq Msg

\* Every variable stays in its range, and a control point that uses a
\* message in hand has one.
TypeOK ==
  /\ DsTypeOK /\ AppTypeOK /\ WorkerTypeOK /\ ReceiverTypeOK /\ AckTypeOK
  /\ FlagTypeOK /\ LinkTypeOK /\ ServerTypeOK /\ StopTypeOK /\ HistoryTypeOK

(***************************************************************************)
(* Where a message is: the shared lists and the application's sides of     *)
(* them, and for each client the worker's hand, the two lists of messages  *)
(* waiting for an ack, and the receiver's hand.                            *)
(***************************************************************************)
Reported == delivered \union fetched

SharedPlaces == {"unseen", "to_submit", "delivering", "delivered", "fetched", "lost"}
ClientPlaces == {"hand", "waiting", "late", "acking"}
Places == SharedPlaces \union ClientPlaces

At(p, c) ==
  CASE p = "unseen" -> unseen
    [] p = "to_submit" -> Range(to_submit)
    [] p = "delivering" -> delivering
    [] p = "delivered" -> delivered
    [] p = "fetched" -> fetched
    [] p = "lost" -> lost
    [] p = "hand" -> Hand(c)
    [] p = "waiting" -> waiting_ack[c]
    [] p = "late" -> ack_timeout[c]
    [] p = "acking" -> {rsmi[c]} \ {NoMsg}

\* The same place: the client matters only where each client has its own.
SamePlace(p, c, q, d) == p = q /\ (p \in ClientPlaces => c = d)

Somewhere == \A m \in Msg : \E p \in Places, c \in Client : m \in At(p, c)

NowhereElse ==
  \A p, q \in Places : \A c, d \in Client :
    At(p, c) \intersect At(q, d) # {} => SamePlace(p, c, q, d)

QueuedOnce == \A i, j \in DOMAIN to_submit : to_submit[i] = to_submit[j] => i = j

\* Conservation: whatever the threads of all clients are doing, every
\* message is in exactly one place, and once in the queue.  So no message
\* disappears except on the paths that drop it, none is handled by two
\* threads, and none is reported twice.
OnePlace == Somewhere /\ NowhereElse /\ QueuedOnce

\* A PDU in flight, or in the receiver's hands, that concerns a message of c.
AckUnderway(c, m) ==
  \/ \E i \in DOMAIN c2s[c] : c2s[c][i] = Carry("SubmitSm", m)
  \/ \E i \in DOMAIN s2c[c] : s2c[c][i].type = "SubmitSmResp" /\ s2c[c][i].sm = m
  \/ rpc[c] \in {"process", "late_ack"} /\ pdu[c].type = "SubmitSmResp"
       /\ pdu[c].sm = m

\* submit() registers a message before it writes it and takes it back only
\* when the write failed, so as long as an answer to it can come, set_ack
\* finds it in one of its two lists, or its timeout has been reported.
InFlightRegistered ==
  \A c \in Client, m \in Msg :
    AckUnderway(c, m) => \/ m \in waiting_ack[c] \union ack_timeout[c]
                         \/ status[m] = "submit_timeout"

\* The window of unacknowledged messages is exceeded only by the further
\* parts of one long message.
WindowBound ==
  \A c \in Client :
    \E n \in {1} \union {Total[m] : m \in Msg} :
      Cardinality(waiting_ack[c]) <= Window - 1 + n

\* Only a message whose SubmitSm left the client complete is reported, and
\* it is reported with a status.
ReportedWasSent ==
  \A m \in Msg : /\ m \in Reported => m \in sent
                 /\ m \in Reported <=> status[m] # "none"

(***************************************************************************)
(* Why messages stay in one place and go out once, as an inductive         *)
(* invariant: what is being written is registered and was not sent yet,    *)
(* every answer is about a message that was sent, and everything past the  *)
(* write was sent.                                                         *)
(***************************************************************************)
Writing(c) == wpc[c] \in {"write", "unregister"}

RegisteredFirst == \A c \in Client : Writing(c) => smi[c] \in waiting_ack[c]

NotYetSent ==
  /\ (unseen \union Range(to_submit)) \intersect sent = {}
  /\ \A c \in Client : Hand(c) \intersect sent = {}
  /\ \A c \in Client : Writing(c) => smi[c] \notin sent

AnswersSent(p) == p.type \in {"SubmitSm", "SubmitSmResp"} => p.sm \in sent

AnswersWereSent ==
  \A c \in Client :
    /\ \A i \in DOMAIN c2s[c] : AnswersSent(c2s[c][i])
    /\ \A i \in DOMAIN s2c[c] : AnswersSent(s2c[c][i])
    /\ AnswersSent(pdu[c])

HandledWasSent ==
  /\ delivering \union Reported \subseteq sent
  /\ \A c \in Client :
       /\ ack_timeout[c] \subseteq sent
       /\ rsmi[c] \in sent \union {NoMsg}
       /\ \A m \in waiting_ack[c] : m \in sent \/ (Writing(c) /\ m = smi[c])

ReportedHasStatus == \A m \in Msg : m \in Reported <=> status[m] # "none"

\* The inductive invariant: the conjunction of the above.
MessageInv ==
  /\ TypeOK /\ OnePlace /\ RegisteredFirst /\ NotYetSent
  /\ AnswersWereSent /\ HandledWasSent /\ ReportedHasStatus

\* A reconnect resends what was not written, and never what was: no message
\* goes out twice.
SubmittedOnce ==
  [][\A c \in Client :
       wpc[c] = "write" /\ wpc'[c] = "beat" => smi[c] \notin sent]_vars

\* set_ack gives up on an ack ("sn not found") only if the message has been
\* reported as timed out: moving a message between the two lists never hides
\* it from the receiver, which looks into one after the other.
NoAckMissed ==
  [][\A c \in Client :
       rpc[c] = "late_ack" /\ rpc'[c] = "idle" => pdu[c].sm \in Reported]_vars

\* n is the part of a long message behind m.
NextPart(n, m) ==
  IsLongSmAndNotLast(m) /\ Total[n] = Total[m] /\ Part[n] = Part[m] + 1

\* The parts of a long message are taken one after the other with nothing in
\* between.  A bind that fails makes the worker forget which part it took
\* last, but the next message is still the part behind one that was taken.
LongSmContiguous ==
  [][\A c \in Client :
       smi'[c] # smi[c] /\ smi'[c] # NoMsg =>
         \/ NextPart(smi'[c], smi[c])
         \/ /\ ~IsLongSmAndNotLast(smi[c])
            /\ Part[smi'[c]] > 1 => /\ smi[c] = NoMsg
                                   /\ \E m \in sent \union lost : NextPart(smi'[c], m)]_vars

-----------------------------------------------------------------------------
(* The abstract promise, and where a message stands in it                  *)

Unwritten == {smi[c] : c \in {d \in Client : wpc[d] \in {"write", "unregister"}}}

InFlight ==
  (Waiting \union TimedOut \union {rsmi[c] : c \in Client}) \ Unwritten

\* A DLR is never handled while the answer to its message is still to come on
\* the connection.  So it finds the message in the delivering list or already
\* reported; or the answer was lost, and the message still waits for it, where
\* a timeout reports it; or a client went away with its lists.
DlrFollowsAck ==
  [][\A c \in Client :
       rpc[c] = "process" /\ rpc'[c] = "respond" /\ pdu[c].type = "Dlr" =>
         \/ pdu[c].sm \in delivering \union Reported
         \/ pdu[c].sm \in InFlight /\ ~AckUnderway(c, pdu[c].sm)
         \/ \E d \in Client : spc[d] = "stopped"]_vars

Stage(m) ==
  CASE m \in unseen -> "unseen"
    [] m \in Range(to_submit) -> "queued"
    [] m \in Unwritten \union UNION {Hand(c) : c \in Client} /\ m \notin sent
         -> "taken"
    [] m \in InFlight -> "in_flight"
    [] m \in delivering -> "delivering"
    [] m \in Reported -> status[m]
    [] OTHER -> "lost"

Lifecycle == INSTANCE MessageLifecycle WITH stage <- [m \in Msg |-> Stage(m)]

\* The threads, lists and connections of the clients implement the life
\* cycle: every step moves messages forward along it or leaves them.
ImplementsLifecycle == Lifecycle!Spec

-----------------------------------------------------------------------------
(* Liveness                                                                *)

\* Every submitted message is reported or dropped, as long as the workers keep
\* coming back to their bound loops, where the three timeouts run: whatever
\* else happens to connections, answers and reports, one of the timeouts ends
\* the wait.  A server that can never be reached again, or refuses every bind,
\* keeps a worker in the loops outside, and then nothing ends a message.
EveryMessageEnds ==
  (\A c \in Client : []<>(wpc[c] = "dlr_timeout")) =>
    \A m \in Msg : m \notin unseen ~> m \in Reported \union lost

\* stop() returns: both threads see finished_ and are joined.
StopReturns ==
  \A c \in Client : spc[c] # "run" ~> spc[c] = "stopped"

=============================================================================
