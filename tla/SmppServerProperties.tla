------------------------ MODULE SmppServerProperties ------------------------
(***************************************************************************)
(* What must hold of the SMPP server.                                      *)
(***************************************************************************)
EXTENDS SmppServer

ReadItem == [from : Conn, req : Request]

DsTypeOK ==
  /\ received_smis \in Seq(Smi) /\ wait_dlr_list \in Seq(Smi)
  /\ dlr_list \in Seq(DlrEntry)
  /\ sending \in Seq(Smi) /\ reporting \in Seq(Smi)

ConnTypeOK ==
  /\ sock \in [Conn -> Socks] /\ connections \subseteq Conn
  /\ working \in [Conn -> BOOLEAN]
  /\ todo \in [Conn -> Seq(Request)]
  /\ arriving \in Seq([from : Conn, req : Request, queue : SysId \union {NoSysId}])

SessionTypeOK ==
  /\ state \in [Conn -> States] /\ flag \in [Conn -> SysId \union {NoSysId}]
  /\ bind_errors \in [Conn -> 0..Tolerance]
  /\ other_errors \in [Conn -> 0..Tolerance]
  /\ error_occured \in [Conn -> BOOLEAN]
  /\ timer \in [Conn -> Timers]
  /\ \A c \in Conn : flag[c] = NoSysId <=> state[c] = "OPEN"

QueueTypeOK ==
  /\ private_in \in [Conn -> Seq(ReadItem)] /\ in_queue \in [SysId -> Seq(ReadItem)]
  /\ private_out \in [Conn -> Seq(Out)]
  /\ out_A \in [SysId -> Seq(Out)] /\ out_B \in [SysId -> Seq(Out)]
  /\ written \in [Conn -> Seq(Out)]

ThreadTypeOK ==
  /\ tpc \in [Thread -> ThreadPcs]
  /\ at \in [Thread -> Conn \union {NoConn}]
  /\ req \in [Thread -> Request \union {NoReq}]
  /\ \A t \in Thread :
       /\ at[t] = NoConn <=> tpc[t] = "idle"
       /\ req[t] # NoReq <=> tpc[t] \in {"process", "store"}

\* Types, and what each thread holds at each control point: a thread that is
\* idle has no connection, and one that processes or stores has a request.
TypeOK == DsTypeOK /\ ConnTypeOK /\ SessionTypeOK /\ QueueTypeOK /\ ThreadTypeOK

(***************************************************************************)
(* At most one task thread works on a connection, although all of them     *)
(* look for work at once and the io thread removes connections under       *)
(* them: is_working_ is set exactly while some thread has the connection.  *)
(***************************************************************************)
OneWorker ==
  /\ \A t, u \in Thread : at[t] = at[u] /\ at[t] # NoConn => t = u
  /\ \A c \in Conn : working[c] <=> \E t \in Thread : at[t] = c

-----------------------------------------------------------------------------
Submits(c, m) == \E i \in DOMAIN Script[c] :
                   Script[c][i].type = "SubmitSm" /\ Script[c][i].sm = m

Has(q, type, m) == \E i \in DOMAIN q : q[i].type = type /\ q[i].sm = m
Holds(q, m) == \E i \in DOMAIN q : q[i].sm = m

Acked(m) == \/ \E s \in SysId : Has(out_A[s], "SubmitSmResp", m)
            \/ \E c \in Conn : Has(written[c], "SubmitSmResp", m)

\* Where the server keeps an accepted message until its report is answered.
Keepers(m) ==
  {t \in Thread : tpc[t] = "store" /\ req[t].sm = m}
    \union {k \in {"received", "sending", "waiting", "reporting", "dlr"} :
              CASE k = "received" -> Holds(received_smis, m)
                [] k = "sending" -> Holds(sending, m)
                [] k = "waiting" -> Holds(wait_dlr_list, m)
                [] k = "reporting" -> Holds(reporting, m)
                [] k = "dlr" -> Holds(dlr_list, m)}

Pushed(m) == \/ \E s \in SysId : Has(out_B[s], "Dlr", m)
             \/ \E c \in Conn : Has(written[c], "Dlr", m)

(***************************************************************************)
(* The threads of the vendor and the task threads hand an accepted message *)
(* on from list to list without ever holding two locks: it is never in two *)
(* places, and once its ack is on its way it is somewhere, until it is     *)
(* dropped for want of a destination or its report has gone out.           *)
(***************************************************************************)
AcceptedKept ==
  \A m \in Sm :
    /\ Cardinality(Keepers(m)) <= 1
    /\ Acked(m) /\ Keepers(m) = {} => m \in NoDst \/ Pushed(m)

Occurrences(q, type, m) == Cardinality({i \in DOMAIN q : q[i].type = type /\ q[i].sm = m})

(***************************************************************************)
(* However many threads and sessions of a system id look for reports, and  *)
(* get() looks without taking the connection, a report is queued and       *)
(* written at most once, and a report not yet marked never was.            *)
(***************************************************************************)
DlrOnce ==
  \A m \in Sm :
    /\ \A s \in SysId : Occurrences(out_B[s], "Dlr", m) <= 1
    /\ \A c \in Conn : Occurrences(written[c], "Dlr", m) <= 1
    /\ Cardinality({s \in SysId : Has(out_B[s], "Dlr", m)}
                     \union {c \in Conn : Has(written[c], "Dlr", m)}) <= 1
    /\ \A i \in DOMAIN dlr_list :
         dlr_list[i].sm = m /\ dlr_list[i].state = "DELIVERIED" => ~Pushed(m)

(***************************************************************************)
(* Sessions of one system id share queues and take each other's requests,  *)
(* acks and reports, but never those of another system id: a shared queue  *)
(* holds only requests of connections bound under its system id, and acks  *)
(* and reports are only written to connections of the same system id.      *)
(***************************************************************************)
AccountsApart ==
  /\ \A s \in SysId : \A i \in DOMAIN in_queue[s] :
       LET c == in_queue[s][i].from IN state[c] # "OPEN" /\ flag[c] = s
  /\ \A c, d \in Conn, m \in Sm :
       /\ Submits(d, m)
       /\ Has(written[c], "SubmitSmResp", m) \/ Has(written[c], "Dlr", m)
       => flag[c] = flag[d]

-----------------------------------------------------------------------------
\* The session of the connection c as its client sees it.
Wrote(c, type) == {i \in DOMAIN written[c] : written[c][i].type = type}
PhaseOf(c) == IF Wrote(c, "UnbindResp") # {} THEN "unbound"
              ELSE IF \E i \in Wrote(c, "BindResp") : written[c][i].ok THEN "bound"
              ELSE "open"

\* The connection that submits; KeepsSession is for scripts with one.
Lone == CHOOSE c \in Conn : \E m \in Sm : Submits(c, m)

Session == INSTANCE SmscSession WITH
  phase <- PhaseOf(Lone),
  acked <- [m \in Sm |-> Occurrences(written[Lone], "SubmitSmResp", m)],
  reported <- [m \in Sm |-> Occurrences(written[Lone], "Dlr", m)]

\* The requests, acks and reports of a session pass through five queues and
\* any of the task threads; what is written to a transceiver that is the only
\* session of its system id is what SmscSession promises.
KeepsSession == Session!Spec

(***************************************************************************)
(* A connection on which too many binds failed or too many other errors    *)
(* occurred, or a sequence number was invalid, is closed, whichever thread *)
(* found out and whatever the others are doing with it.                    *)
(***************************************************************************)
ErrorEndsConnection ==
  \A c \in Conn :
    (\/ error_occured[c]
     \/ bind_errors[c] >= Tolerance \/ other_errors[c] >= Tolerance)
      ~> sock[c] = "closed"

\* Dlrs answer nothing, and these requests get no answer: a QuerySm does not
\* although smpp_protocol_impl.hpp:25-26 gives every request a response.
Answered(c) == Cardinality({i \in DOMAIN written[c] : written[c][i].type # "Dlr"})
Silent(c) == {i \in DOMAIN Script[c] :
  Script[c][i].type \in {"QuerySm", "DeliverSmResp", "MalformedResp", "BadSequence"}}

(***************************************************************************)
(* Every request of a lone session that the code answers at all is         *)
(* answered once it has been read, also those left in the session's own    *)
(* queue when the bind switched to the shared one, unless the connection   *)
(* is closed first.                                                        *)
(***************************************************************************)
EveryRequestAnswered ==
  \A c \in Conn :
    <>(sock[c] = "closed" \/ Answered(c) + Cardinality(Silent(c)) >= Len(Script[c]))

(***************************************************************************)
(* Every accepted message that has a destination is reported to a client   *)
(* of its system id that can receive, though the session that accepted it  *)
(* cannot, and though the session that queues the report may not be the    *)
(* one that writes it.  Nothing is promised once a receiving session has   *)
(* closed: a report that its thread had marked PUSHING and then wrote to   *)
(* the closed socket is not queued again, for no session of that system    *)
(* id, as long as the server runs.                                         *)
(***************************************************************************)
Receiving(c) == RxAble(state[c]) /\ sock[c] = "open"
ReceiverGone(c) == RxAble(state[c]) /\ sock[c] = "closed"

EveryMessageReported ==
  \A m \in Sm \ NoDst :
    Acked(m) ~> \/ \E c \in Conn : Has(written[c], "Dlr", m)
                \/ \A c \in Conn : ~Receiving(c)
                \/ \E c \in Conn : ReceiverGone(c)

=============================================================================
