----------------------------- MODULE SmppServer -----------------------------
(***************************************************************************)
(* The SMPP server: the io thread accepts connections and reads PDUs, a    *)
(* pool of task threads takes connections that have work, one thread per   *)
(* connection at a time, processes what was read and writes what is to be  *)
(* sent.  Before a bind a session uses queues of its own; after it, what   *)
(* it reads and its acks and delivery reports go through queues that all   *)
(* sessions of one system id share.                                        *)
(*                                                                         *)
(* A step is one critical section.  Only the thread that works on a        *)
(* session changes its state.                                              *)
(***************************************************************************)
EXTENDS ServerDataSource, SessionTimer, FiniteSets, Naturals

CONSTANTS
  Conn,                 \* connections, each used once
  Thread,               \* the task threads
  NoSysId, NoConn, NoReq,
  Script,               \* the requests that arrive on each connection, in order
  Leaving,              \* connections that their client may close
  Patient,              \* connections on which the timers never expire
  Tolerance,            \* OTHER_ERROR_TOLERANCE and BIND_ERROR_TOLERANCE
  MaxClients            \* MAX_SUPPORT_CLIENTS

Modes == {"TX", "RX", "TRX"}
PlainRequests ==
  {"EnquireLink", "Unbind", "QuerySm", "Unsupported", "Malformed",
   "MalformedResp", "BadSequence"}
Request == [type : {"Bind"}, mode : Modes, sysid : SysId, ok : BOOLEAN]
             \union [type : {"SubmitSm", "DeliverSmResp"}, sm : Sm]
             \union [type : PlainRequests]

ASSUME NamesAssumption == NoSysId \notin SysId /\ NoConn \notin Conn /\ NoReq \notin Request
ASSUME ScriptAssumption == Script \in [Conn -> Seq(Request)]
\* A message is one submission: a client that sends the same text again sends
\* another message.
ASSUME SubmissionsAssumption ==
  \A c, d \in Conn : \A i \in DOMAIN Script[c], j \in DOMAIN Script[d] :
    /\ Script[c][i].type = "SubmitSm" /\ Script[d][j].type = "SubmitSm"
    /\ Script[c][i].sm = Script[d][j].sm
    => c = d /\ i = j
ASSUME LimitAssumption == Tolerance \in Nat \ {0} /\ MaxClients \in Nat

VARIABLES
  sock,                 \* socket of each connection
  connections,          \* connections_ of the connections_manager
  working,              \* is_working_ of each connection
  todo,                 \* what is still to arrive on each connection
  arriving,             \* what the io thread is about to queue, and where
  state,                \* current_session_state_
  flag,                 \* data_source_flag_, which is also sysid_
  bind_errors, other_errors, error_occured,
  timer,                \* timer_manager_ and the read timer
  private_in, private_out,   \* private_data_source_
  in_queue, out_A, out_B,    \* the queues of each system id
  tpc, at, req,         \* each thread's control point, connection and request
  written               \* history: what each client was sent

connVars == <<sock, connections, todo, arriving>>
sessionVars == <<state, flag, bind_errors, other_errors, error_occured>>
inVars == <<private_in, in_queue>>
outVars == <<private_out, out_A, out_B>>
vars == <<dsVars, connVars, working, sessionVars, timer, inVars, outVars,
          tpc, at, req, written>>

Out == [type : {"BindResp"}, ok : BOOLEAN]
         \union [type : {"SubmitSmResp", "Dlr"}, sm : Sm]
         \union [type : {"UnbindResp", "EnquireLinkResp", "Nack"}]

Socks == {"none", "open", "closed"}
States == {"OPEN", "BOUND_TX", "BOUND_RX", "BOUND_TRX", "CLOSED"}
ThreadPcs == {"idle", "need_send", "send", "send_B", "receive", "process",
              "store", "reply", "reply_B", "need_send_again", "send_again",
              "send_again_B", "check", "free"}

Init ==
  /\ DsInit
  /\ sock = [c \in Conn |-> "none"]
  /\ connections = {}
  /\ working = [c \in Conn |-> FALSE]
  /\ todo = Script
  /\ arriving = << >>
  /\ state = [c \in Conn |-> "OPEN"]
  /\ flag = [c \in Conn |-> NoSysId]
  /\ bind_errors = [c \in Conn |-> 0]
  /\ other_errors = [c \in Conn |-> 0]
  /\ error_occured = [c \in Conn |-> FALSE]
  /\ timer = [c \in Conn |-> "reading"]
  /\ private_in = [c \in Conn |-> << >>]
  /\ private_out = [c \in Conn |-> << >>]
  /\ in_queue = [s \in SysId |-> << >>]
  /\ out_A = [s \in SysId |-> << >>]
  /\ out_B = [s \in SysId |-> << >>]
  /\ tpc = [t \in Thread |-> "idle"]
  /\ at = [t \in Thread |-> NoConn]
  /\ req = [t \in Thread |-> NoReq]
  /\ written = [c \in Conn |-> << >>]

-----------------------------------------------------------------------------
(* smpp_pdu_context and the timers                                         *)

IsBound(st) == st \in {"BOUND_TX", "BOUND_RX", "BOUND_TRX"}
TxAble(st) == st \in {"BOUND_TX", "BOUND_TRX"}
RxAble(st) == st \in {"BOUND_RX", "BOUND_TRX"}
BoundIn(mode) == CASE mode = "TX" -> "BOUND_TX"
                   [] mode = "RX" -> "BOUND_RX"
                   [] mode = "TRX" -> "BOUND_TRX"

\* Requests that the session handles in the state st.
Valid(st, type) ==
  \/ type = "Bind" /\ st = "OPEN"
  \/ type \in {"Unbind", "DeliverSmResp", "MalformedResp"} /\ IsBound(st)
  \/ type = "SubmitSm" /\ TxAble(st)
  \/ type = "QuerySm" /\ RxAble(st)
  \/ type = "EnquireLink" /\ (IsBound(st) \/ st = "OPEN")

\* A timer of the session or the read timer has expired.
Timeout(c) == TimedOut(timer[c])

UpdateTimers(c) == timer' = [timer EXCEPT ![c] = Updated(@)]
BeginTimers(c) == timer' = [timer EXCEPT ![c] = Begun(@)]

-----------------------------------------------------------------------------
(* The connections manager                                                 *)

\* The last reference to a removed connection goes: clear_resource().
ClearResource(c, unused) ==
  IF unused
  THEN /\ private_in' = [private_in EXCEPT ![c] = << >>]
       /\ private_out' = [private_out EXCEPT ![c] = << >>]
  ELSE UNCHANGED <<private_in, private_out>>

\* remove(): close the socket and drop the connection, if it is still there.
RemoveConnection(c) ==
  /\ connections' = connections \ {c}
  /\ sock' = [sock EXCEPT ![c] = "closed"]

SetWorking_Missing(c) == UNCHANGED working
SetWorking(c) == working' = [working EXCEPT ![c] = TRUE]

-----------------------------------------------------------------------------
(* The io thread                                                           *)

Accept(c) ==
  /\ sock[c] = "none" /\ arriving = << >>
  /\ IF Cardinality(connections) > MaxClients
     THEN /\ sock' = [sock EXCEPT ![c] = "closed"]
          /\ UNCHANGED connections
     ELSE /\ sock' = [sock EXCEPT ![c] = "open"]
          /\ connections' = connections \union {c}
  /\ UNCHANGED <<dsVars, working, todo, arriving, sessionVars, timer, inVars,
                 outVars, tpc, at, req, written>>

\* The client answers a delivery report once it has one.
ClientSends(c, r) ==
  r.type = "DeliverSmResp" =>
    \E i \in DOMAIN written[c] : written[c][i] = [type |-> "Dlr", sm |-> r.sm]

\* add_to_in_queue(), first half: a request has arrived, and the flag decides
\* which queue it is for.
Read(c) ==
  /\ sock[c] = "open" /\ arriving = << >> /\ todo[c] # << >>
  /\ ClientSends(c, Head(todo[c]))
  /\ todo' = [todo EXCEPT ![c] = Tail(@)]
  /\ arriving' = <<[from |-> c, req |-> Head(todo[c]), queue |-> flag[c]]>>
  /\ UNCHANGED <<dsVars, sock, connections, working, sessionVars, timer, inVars,
                 outVars, tpc, at, req, written>>

\* Second half, and read_header() again, which cancels the read timer for good,
\* since nothing waits for it a second time.
Arrive ==
  /\ arriving # << >>
  /\ LET a == arriving[1]
         item == [from |-> a.from, req |-> a.req]
     IN  /\ IF a.queue = NoSysId
            THEN /\ private_in' = [private_in EXCEPT ![a.from] = Append(@, item)]
                 /\ UNCHANGED in_queue
            ELSE /\ in_queue' = [in_queue EXCEPT ![a.queue] = Append(@, item)]
                 /\ UNCHANGED private_in
         /\ timer' = [timer EXCEPT ![a.from] = Arrived(@)]
  /\ arriving' = << >>
  /\ UNCHANGED <<dsVars, sock, connections, todo, working, sessionVars, outVars,
                 tpc, at, req, written>>

\* The client closes the connection, and async_read reports it.
PeerClosed(c) ==
  /\ c \in Leaving /\ sock[c] = "open" /\ arriving = << >>
  /\ RemoveConnection(c)
  /\ ClearResource(c, ~working[c])
  /\ UNCHANGED <<dsVars, working, todo, arriving, sessionVars, timer, in_queue,
                 out_A, out_B, tpc, at, req, written>>

\* A timer of the connection expires.
Elapse(c) ==
  /\ c \notin Patient /\ sock[c] = "open"
  /\ timer[c] \in {"reading", "running"}
  /\ timer' = [timer EXCEPT ![c] = Elapsed(@)]
  /\ UNCHANGED <<dsVars, connVars, working, sessionVars, inVars, outVars,
                 tpc, at, req, written>>

IoThread == Arrive \/ \E c \in Conn : Accept(c) \/ Read(c) \/ PeerClosed(c)

-----------------------------------------------------------------------------
(* What a session has to process and to send                               *)

NeedProcess_OneQueue(c) ==
  IF flag[c] = NoSysId THEN private_in[c] # << >> ELSE in_queue[flag[c]] # << >>
NeedProcess(c) ==
  \/ private_in[c] # << >>
  \/ flag[c] # NoSysId /\ in_queue[flag[c]] # << >>

\* send_delivery_sm(): mark one report and put its DeliverSm into queue B.  (It
\* can be encoded: its addresses come from a SubmitSm that was decoded.)
SendDeliverySm(c) ==
  IF IsBound(state[c]) /\ ToPush(flag[c]) # {}
  THEN \E i \in DOMAIN dlr_list :
         /\ IsNextToPush(flag[c], i)
         /\ dlr_list' = Marked(i)
         /\ out_B' = [out_B EXCEPT ![flag[c]] =
                        Append(@, [type |-> "Dlr", sm |-> dlr_list[i].sm])]
  ELSE UNCHANGED <<dlr_list, out_B>>

\* need_send() after its call of send_delivery_sm().
SomethingToSend_NoReports(c, B) ==
  \/ private_out[c] # << >>
  \/ TxAble(state[c]) /\ out_A[flag[c]] # << >>
SomethingToSend(c, B) ==
  \/ private_out[c] # << >>
  \/ TxAble(state[c]) /\ out_A[flag[c]] # << >>
  \/ RxAble(state[c]) /\ B[flag[c]] # << >>

\* write(): on a socket that is closed by now the PDU is lost.
Write(c, p) ==
  written' = IF sock[c] = "open" THEN [written EXCEPT ![c] = Append(@, p)] ELSE written

Answer(c, p) == private_out' = [private_out EXCEPT ![c] = Append(@, p)]
AnswerShared(c, p) == out_A' = [out_A EXCEPT ![flag[c]] = Append(@, p)]

\* generate_and_send_nack()
Nack(c) ==
  IF flag[c] = NoSysId
  THEN Answer(c, [type |-> "Nack"]) /\ UNCHANGED out_A
  ELSE AnswerShared(c, [type |-> "Nack"]) /\ UNCHANGED private_out

\* other_error_occur() and bind_error_occur(); a count stays at the tolerance.
OneMore(n) == IF n < Tolerance THEN n + 1 ELSE n

OtherErrorOccur_NeverTooMany(c) ==
  /\ other_errors' = [other_errors EXCEPT ![c] = OneMore(@)]
  /\ UNCHANGED error_occured
OtherErrorOccur(c) ==
  /\ other_errors' = [other_errors EXCEPT ![c] = OneMore(@)]
  /\ error_occured' = [error_occured EXCEPT ![c] = @ \/ other_errors'[c] >= Tolerance]

BindErrorOccur(c) ==
  /\ bind_errors' = [bind_errors EXCEPT ![c] = OneMore(@)]
  /\ error_occured' = [error_occured EXCEPT ![c] = @ \/ bind_errors'[c] >= Tolerance]

-----------------------------------------------------------------------------
(* The task threads                                                        *)

\* get(): look at one connection that nobody works on.  Looking calls
\* need_send() and so may push a report, even if the connection is not taken.
Examine(t, c) ==
  /\ tpc[t] = "idle" /\ c \in connections /\ ~working[c]
  /\ \/ NeedProcess(c) /\ UNCHANGED <<dlr_list, out_B>>
     \/ ~NeedProcess(c) /\ SendDeliverySm(c)
  /\ IF \/ NeedProcess(c) \/ SomethingToSend(c, out_B')
        \/ error_occured[c] \/ Timeout(c)
     THEN /\ SetWorking(c)
          /\ at' = [at EXCEPT ![t] = c]
          /\ tpc' = [tpc EXCEPT ![t] = "need_send"]
     ELSE UNCHANGED <<working, at, tpc>>
  /\ UNCHANGED <<received_smis, wait_dlr_list, sending, reporting, connVars,
                 sessionVars, timer, inVars, private_out, out_A, req, written>>

ThreadAt(t, from, to) == tpc[t] = from /\ tpc' = [tpc EXCEPT ![t] = to]

Looks == {"need_send", "need_send_again"}
ThenSend == [need_send |-> "send", need_send_again |-> "send_again"]
ElseGoOn == [need_send |-> "receive", need_send_again |-> "check"]

\* need_send() in task_runner, before do_process() and after it.
NeedSend(t) ==
  /\ tpc[t] \in Looks
  /\ SendDeliverySm(at[t])
  /\ tpc' = [tpc EXCEPT ![t] = IF SomethingToSend(at[t], out_B')
                               THEN ThenSend[@] ELSE ElseGoOn[@]]
  /\ UNCHANGED <<received_smis, wait_dlr_list, sending, reporting, connVars,
                 working, sessionVars, timer, inVars, private_out, out_A, at,
                 req, written>>

Drains == {"send", "reply", "send_again"}
DrainB == [send |-> "send_B", reply |-> "reply_B", send_again |-> "send_again_B"]
AfterDrain == [send |-> "receive", reply |-> "receive", send_again |-> "check"]

\* do_send(): the session's own queue first, then queue A of its system id.
Send(t) ==
  /\ tpc[t] \in Drains
  /\ LET c == at[t]  A == IF TxAble(state[c]) THEN out_A[flag[c]] ELSE << >> IN
     \/ /\ private_out[c] # << >>
        /\ Write(c, Head(private_out[c]))
        /\ private_out' = [private_out EXCEPT ![c] = Tail(@)]
        /\ UNCHANGED <<out_A, tpc>>
     \/ /\ private_out[c] = << >> /\ A # << >>
        /\ Write(c, Head(A))
        /\ out_A' = [out_A EXCEPT ![flag[c]] = Tail(A)]
        /\ UNCHANGED <<private_out, tpc>>
     \/ /\ private_out[c] = << >> /\ A = << >>
        /\ tpc' = [tpc EXCEPT ![t] = IF RxAble(state[c]) THEN DrainB[@] ELSE AfterDrain[@]]
        /\ UNCHANGED <<private_out, out_A, written>>
  /\ UNCHANGED <<dsVars, connVars, working, sessionVars, timer, inVars,
                 out_B, at, req>>

\* do_send() when the first two queues were empty: queue B.
SendB(t) ==
  \E d \in Drains :
    /\ tpc[t] = DrainB[d]
    /\ LET c == at[t]  B == out_B[flag[c]] IN
       \/ /\ B # << >>
          /\ ThreadAt(t, DrainB[d], d)
          /\ Write(c, Head(B))
          /\ out_B' = [out_B EXCEPT ![flag[c]] = Tail(B)]
       \/ /\ B = << >>
          /\ ThreadAt(t, DrainB[d], AfterDrain[d])
          /\ UNCHANGED <<out_B, written>>
    /\ UNCHANGED <<dsVars, connVars, working, sessionVars, timer, inVars,
                   private_out, out_A, at, req>>

\* do_process(): get_from_in_queue().
Receive(t) ==
  /\ tpc[t] = "receive"
  /\ LET c == at[t]
         shared == IF flag[c] = NoSysId THEN << >> ELSE in_queue[flag[c]]
     IN  \/ /\ private_in[c] # << >>
            /\ ThreadAt(t, "receive", "process")
            /\ req' = [req EXCEPT ![t] = Head(private_in[c]).req]
            /\ private_in' = [private_in EXCEPT ![c] = Tail(@)]
            /\ UNCHANGED in_queue
         \/ /\ private_in[c] = << >> /\ shared # << >>
            /\ ThreadAt(t, "receive", "process")
            /\ req' = [req EXCEPT ![t] = Head(shared).req]
            /\ in_queue' = [in_queue EXCEPT ![flag[c]] = Tail(@)]
            /\ UNCHANGED private_in
         \/ /\ private_in[c] = << >> /\ shared = << >>
            /\ ThreadAt(t, "receive", "need_send_again")
            /\ UNCHANGED <<req, inVars>>
  /\ UNCHANGED <<dsVars, connVars, working, sessionVars, timer, outVars,
                 at, written>>

-----------------------------------------------------------------------------
(* process(), by the type of the request                                   *)

\* The thread handles a request of this type and goes on to send.
Processes(t, type) ==
  /\ ThreadAt(t, "process", "reply")
  /\ req[t].type = type
  /\ req' = [req EXCEPT ![t] = NoReq]

processUnchanged == <<connVars, working, inVars, out_B, at, written>>

\* An invalid sequence number ends the connection, without an answer.
ProcessBadSequence(t) ==
  /\ Processes(t, "BadSequence")
  /\ error_occured' = [error_occured EXCEPT ![at[t]] = TRUE]
  /\ UNCHANGED <<dsVars, state, flag, bind_errors, other_errors, timer,
                 private_out, out_A, processUnchanged>>

\* The context is invalid, the body is malformed or nothing handles the type.
ProcessInvalid(t) ==
  /\ ThreadAt(t, "process", "reply")
  /\ req[t].type # "BadSequence" /\ ~Valid(state[at[t]], req[t].type)
  /\ req' = [req EXCEPT ![t] = NoReq]
  /\ Nack(at[t])
  /\ OtherErrorOccur(at[t])
  /\ UNCHANGED <<dsVars, state, flag, bind_errors, timer, processUnchanged>>

\* The flag after a bind.
NewFlag_BeforeCheck(c, bind) == bind.sysid
NewFlag(c, bind) == IF bind.ok THEN bind.sysid ELSE flag[c]

\* A bind; ok says whether its system id, password and address are in order.
\* The flag and the state are set in one step, for nobody else looks at the
\* session in between but the io thread, at the flag.
ProcessBind(t) ==
  LET c == at[t] IN
  /\ Processes(t, "Bind") /\ Valid(state[c], "Bind")
  /\ BeginTimers(c)
  /\ flag' = [flag EXCEPT ![c] = NewFlag(c, req[t])]
  /\ IF req[t].ok
     THEN /\ state' = [state EXCEPT ![c] = BoundIn(req[t].mode)]
          /\ UNCHANGED <<bind_errors, error_occured>>
     ELSE BindErrorOccur(c) /\ UNCHANGED state
  /\ Answer(c, [type |-> "BindResp", ok |-> req[t].ok])
  /\ UNCHANGED <<dsVars, other_errors, out_A, processUnchanged>>

\* process_submitsm(), first half: the ack goes into queue A.
ProcessSubmitSm(t) ==
  /\ ThreadAt(t, "process", "store")
  /\ req[t].type = "SubmitSm" /\ Valid(state[at[t]], "SubmitSm")
  /\ UpdateTimers(at[t])
  /\ AnswerShared(at[t], [type |-> "SubmitSmResp", sm |-> req[t].sm])
  /\ UNCHANGED <<dsVars, sessionVars, private_out, req, processUnchanged>>

\* process_submitsm(), second half: smi_received().
Store(t) ==
  /\ ThreadAt(t, "store", "reply")
  /\ SmiReceived(req[t].sm, flag[at[t]])
  /\ req' = [req EXCEPT ![t] = NoReq]
  /\ UNCHANGED <<wait_dlr_list, dlr_list, sending, reporting, sessionVars,
                 timer, private_out, out_A, processUnchanged>>

ProcessUnbind(t) ==
  /\ Processes(t, "Unbind") /\ Valid(state[at[t]], "Unbind")
  /\ state' = [state EXCEPT ![at[t]] = "CLOSED"]
  /\ Answer(at[t], [type |-> "UnbindResp"])
  /\ UNCHANGED <<dsVars, flag, bind_errors, other_errors, error_occured, timer,
                 out_A, processUnchanged>>

ProcessEnquireLink(t) ==
  /\ Processes(t, "EnquireLink") /\ Valid(state[at[t]], "EnquireLink")
  /\ UpdateTimers(at[t])
  /\ Answer(at[t], [type |-> "EnquireLinkResp"])
  /\ UNCHANGED <<dsVars, sessionVars, out_A, processUnchanged>>

\* A query is accepted and never answered.
ProcessQuerySm(t) ==
  /\ Processes(t, "QuerySm") /\ Valid(state[at[t]], "QuerySm")
  /\ UNCHANGED <<dsVars, sessionVars, timer, private_out, out_A, processUnchanged>>

ProcessDeliverSmResp(t) ==
  /\ Processes(t, "DeliverSmResp") /\ Valid(state[at[t]], "DeliverSmResp")
  /\ RemoveDlr(req[t].sm)
  /\ UNCHANGED <<received_smis, wait_dlr_list, sending, reporting, sessionVars,
                 timer, private_out, out_A, processUnchanged>>

\* A DeliverSmResp that cannot be decoded is an error but not nacked.
ProcessMalformedResp(t) ==
  /\ Processes(t, "MalformedResp") /\ Valid(state[at[t]], "MalformedResp")
  /\ OtherErrorOccur(at[t])
  /\ UNCHANGED <<dsVars, state, flag, bind_errors, timer, private_out, out_A,
                 processUnchanged>>

Process(t) ==
  \/ ProcessBadSequence(t) \/ ProcessInvalid(t) \/ ProcessBind(t)
  \/ ProcessSubmitSm(t) \/ Store(t) \/ ProcessUnbind(t)
  \/ ProcessEnquireLink(t) \/ ProcessQuerySm(t) \/ ProcessDeliverSmResp(t)
  \/ ProcessMalformedResp(t)

-----------------------------------------------------------------------------
\* force_shutdown() of a connection with an error or a timeout.
MustShutDown(c) == error_occured[c] \/ Timeout(c)

Check(t) ==
  /\ ThreadAt(t, "check", "free")
  /\ IF MustShutDown(at[t])
     THEN RemoveConnection(at[t]) ELSE UNCHANGED <<connections, sock>>
  /\ UNCHANGED <<dsVars, working, todo, arriving, sessionVars, timer, inVars,
                 outVars, at, req, written>>

Free(t) ==
  /\ ThreadAt(t, "free", "idle")
  /\ working' = [working EXCEPT ![at[t]] = FALSE]
  /\ at' = [at EXCEPT ![t] = NoConn]
  /\ ClearResource(at[t], at[t] \notin connections)
  /\ UNCHANGED <<dsVars, connVars, sessionVars, timer, in_queue, out_A, out_B,
                 req, written>>

TaskThread(t) ==
  \/ \E c \in Conn : Examine(t, c)
  \/ NeedSend(t) \/ Send(t) \/ SendB(t) \/ Receive(t) \/ Process(t)
  \/ Check(t) \/ Free(t)

Vendor(step) ==
  /\ step
  /\ UNCHANGED <<connVars, working, sessionVars, timer, inVars, outVars, tpc,
                 at, req, written>>

Next ==
  \/ IoThread \/ \E c \in Conn : Elapse(c)
  \/ \E t \in Thread : TaskThread(t)
  \/ Vendor(Sender) \/ Vendor(Reporter)

Spec == Init /\ [][Next]_vars

(***************************************************************************)
(* Fairness: every thread runs, what a client sent arrives, and time       *)
(* passes.                                                                 *)
(***************************************************************************)
Fairness ==
  /\ WF_vars(Arrive)
  /\ \A c \in Conn : SF_vars(Accept(c)) /\ SF_vars(Read(c)) /\ WF_vars(Elapse(c))
  /\ \A t \in Thread : WF_vars(TaskThread(t))
  /\ WF_vars(Vendor(Sender)) /\ WF_vars(Vendor(Reporter))

FairSpec == Spec /\ Fairness

=============================================================================
