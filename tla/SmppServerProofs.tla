--------------------------- MODULE SmppServerProofs ---------------------------
(***************************************************************************)
(* Proofs about the server's task threads, for every number of threads and *)
(* connections, every script of requests and every limit.                  *)
(***************************************************************************)
EXTENDS SmppServerProperties, SequenceTheorems, WellFoundedInduction, TLAPS

USE NamesAssumption

\* What connects the threads, the connections they have and is_working_.
Claims ==
  /\ at \in [Thread -> Conn \union {NoConn}]
  /\ working \in [Conn -> BOOLEAN]
  /\ \A t \in Thread : at[t] = NoConn <=> tpc[t] = "idle"
  /\ tpc \in [Thread -> ThreadPcs]

\* The invariant is inductive only together with OneWorker itself.
WorkInvariant == Claims /\ OneWorker

\* A step that moves a thread which has a connection, and no connection
\* changes hands.
Moves(t) ==
  /\ UNCHANGED <<at, working>>
  /\ tpc[t] # "idle"
  /\ \E pc \in ThreadPcs \ {"idle"} : tpc' = [tpc EXCEPT ![t] = pc]

LEMMA MoveKeeps ==
  ASSUME WorkInvariant, NEW t \in Thread,
         Moves(t) \/ UNCHANGED <<at, working, tpc>>
  PROVE  WorkInvariant'
<1>1. CASE UNCHANGED <<at, working, tpc>>
  BY <1>1 DEF WorkInvariant, Claims, OneWorker
<1>2. CASE Moves(t)
  <2>1. PICK pc \in ThreadPcs \ {"idle"} : tpc' = [tpc EXCEPT ![t] = pc]
    BY <1>2 DEF Moves
  <2>2. Claims'
    BY <1>2, <2>1 DEF WorkInvariant, Claims, Moves
  <2>3. OneWorker'
    BY <1>2 DEF WorkInvariant, OneWorker, Moves
  <2>. QED
    BY <2>2, <2>3 DEF WorkInvariant
<1>. QED
  BY <1>1, <1>2

\* get(): the connection was free, so no thread had it.
LEMMA ExamineKeeps ==
  ASSUME WorkInvariant, NEW t \in Thread, NEW c \in Conn, Examine(t, c)
  PROVE  WorkInvariant'
<1>1. /\ tpc[t] = "idle" /\ ~working[c]
      /\ \/ /\ working' = [working EXCEPT ![c] = TRUE]
            /\ at' = [at EXCEPT ![t] = c]
            /\ tpc' = [tpc EXCEPT ![t] = "need_send"]
         \/ UNCHANGED <<working, at, tpc>>
  BY DEF Examine, SetWorking
<1>2. CASE UNCHANGED <<working, at, tpc>>
  BY <1>2, MoveKeeps
<1>3. CASE /\ working' = [working EXCEPT ![c] = TRUE]
           /\ at' = [at EXCEPT ![t] = c]
           /\ tpc' = [tpc EXCEPT ![t] = "need_send"]
  <2>1. \A u \in Thread : at[u] # c
    BY <1>1 DEF WorkInvariant, OneWorker
  <2>2. Claims'
    BY <1>3 DEF WorkInvariant, Claims, ThreadPcs
  <2>3. OneWorker'
    BY <1>1, <1>3, <2>1 DEF WorkInvariant, Claims, OneWorker
  <2>. QED
    BY <2>2, <2>3 DEF WorkInvariant
<1>. QED
  BY <1>1, <1>2, <1>3

\* free(): only this thread had the connection.
LEMMA FreeKeeps ==
  ASSUME WorkInvariant, NEW t \in Thread, Free(t)
  PROVE  WorkInvariant'
<1>1. /\ tpc[t] = "free" /\ tpc' = [tpc EXCEPT ![t] = "idle"]
      /\ working' = [working EXCEPT ![at[t]] = FALSE]
      /\ at' = [at EXCEPT ![t] = NoConn]
  BY DEF Free, ThreadAt
<1>2. at[t] \in Conn
  BY <1>1 DEF WorkInvariant, Claims
<1>3. Claims'
  BY <1>1, <1>2 DEF WorkInvariant, Claims, ThreadPcs
<1>4. OneWorker'
  BY <1>1, <1>2 DEF WorkInvariant, Claims, OneWorker
<1>. QED
  BY <1>3, <1>4 DEF WorkInvariant

\* Every other step of a thread goes on with the connection it has.
LEMMA OtherStepsMove ==
  ASSUME WorkInvariant, NEW t \in Thread,
         \/ NeedSend(t) \/ Send(t) \/ SendB(t) \/ Receive(t) \/ Process(t)
         \/ Check(t)
  PROVE  Moves(t) \/ UNCHANGED <<at, working, tpc>>
<1>. USE DEF Moves, ThreadAt, ThreadPcs
<1>1. CASE NeedSend(t)
  <2>1. PICK pc : pc = IF SomethingToSend(at[t], out_B')
                       THEN ThenSend[tpc[t]] ELSE ElseGoOn[tpc[t]]
    OBVIOUS
  <2>2. tpc[t] \in Looks /\ tpc' = [tpc EXCEPT ![t] = pc] /\ UNCHANGED <<at, working>>
    BY <1>1, <2>1 DEF NeedSend
  <2>3. pc \in {"send", "receive", "send_again", "check"}
    BY <2>1, <2>2 DEF Looks, ThenSend, ElseGoOn
  <2>. QED
    BY <2>2, <2>3 DEF Looks
<1>2. CASE Send(t)
  BY <1>2 DEF Send, Drains, DrainB, AfterDrain
<1>3. CASE SendB(t)
  BY <1>3 DEF SendB, Drains, DrainB, AfterDrain
<1>4. CASE Receive(t)
  BY <1>4 DEF Receive
<1>5. CASE Process(t)
  BY <1>5 DEF Process, Processes, processUnchanged, ProcessBadSequence,
     ProcessInvalid, ProcessBind, ProcessSubmitSm, Store, ProcessUnbind,
     ProcessEnquireLink, ProcessQuerySm, ProcessDeliverSmResp,
     ProcessMalformedResp
<1>6. CASE Check(t)
  BY <1>6 DEF Check
<1>. QED
  BY <1>1, <1>2, <1>3, <1>4, <1>5, <1>6

LEMMA WorkInvariantStep ==
  ASSUME WorkInvariant, [Next]_vars
  PROVE  WorkInvariant'
<1>1. CASE UNCHANGED vars
  BY <1>1 DEF WorkInvariant, Claims, OneWorker, vars
<1>2. CASE IoThread \/ \E c \in Conn : Elapse(c)
  <2>1. UNCHANGED <<at, working, tpc>>
    BY <1>2 DEF IoThread, Arrive, Accept, Read, PeerClosed, Elapse
  <2>. QED
    BY <2>1 DEF WorkInvariant, Claims, OneWorker
<1>3. ASSUME NEW t \in Thread, TaskThread(t)
      PROVE  WorkInvariant'
  BY <1>3, ExamineKeeps, FreeKeeps, OtherStepsMove, MoveKeeps DEF TaskThread
<1>4. CASE Vendor(Sender) \/ Vendor(Reporter)
  <2>1. UNCHANGED <<at, working, tpc>>
    BY <1>4 DEF Vendor
  <2>. QED
    BY <2>1 DEF WorkInvariant, Claims, OneWorker
<1>. QED
  BY <1>1, <1>2, <1>3, <1>4 DEF Next

(***************************************************************************)
(* At most one task thread works on a connection: is_working_, set under   *)
(* the lock of the connections manager by get() and reset by free(), keeps *)
(* them apart, however many there are and whatever the io thread does to   *)
(* the connection meanwhile.                                               *)
(***************************************************************************)
THEOREM OneWorkerHolds == Spec => []OneWorker
<1>1. Init => WorkInvariant
  BY DEF Init, WorkInvariant, Claims, OneWorker, ThreadPcs
<1>2. WorkInvariant /\ [Next]_vars => WorkInvariant'
  BY WorkInvariantStep
<1>3. WorkInvariant => OneWorker
  BY DEF WorkInvariant
<1>. QED
  BY <1>1, <1>2, <1>3, PTL DEF Spec

-----------------------------------------------------------------------------
(***************************************************************************)
(* Types.  That a thread finds what it needs when it goes on, a queue of   *)
(* the session's system id or the message to store, depends on a state     *)
(* that it looked at a step earlier; no other thread has changed it, since *)
(* only one works on the connection.                                       *)
(***************************************************************************)
QueueBPcs == {"send_B", "reply_B", "send_again_B"}

StillAble ==
  \A t \in Thread :
    /\ tpc[t] = "store" => req[t].type = "SubmitSm" /\ TxAble(state[at[t]])
    /\ tpc[t] \in QueueBPcs => RxAble(state[at[t]])

TypeInv == TypeOK /\ WorkInvariant /\ StillAble

LEMMA RequestFacts ==
  /\ \A r \in Request : r.type = "Bind" => r.mode \in Modes /\ r.sysid \in SysId /\ r.ok \in BOOLEAN
  /\ \A r \in Request : r.type \in {"SubmitSm", "DeliverSmResp"} => r.sm \in Sm
BY DEF Request, PlainRequests

LEMMA TimerFacts ==
  \A x \in Timers : /\ Arrived(x) \in Timers /\ Updated(x) \in Timers
                    /\ Begun(x) \in Timers /\ Elapsed(x) \in Timers
BY DEF Timers, Arrived, Updated, Begun, Elapsed

LEMMA StateFacts ==
  /\ \A st : TxAble(st) => IsBound(st)
  /\ \A st : RxAble(st) => IsBound(st)
  /\ \A st : IsBound(st) => st \in States \ {"OPEN"}
  /\ \A mode \in Modes : IsBound(BoundIn(mode))
BY DEF TxAble, RxAble, IsBound, States, BoundIn, Modes

\* A session that is bound has a system id.
LEMMA BoundHasSysId ==
  ASSUME SessionTypeOK, NEW c \in Conn, IsBound(state[c])
  PROVE  flag[c] \in SysId
BY StateFacts DEF SessionTypeOK

LEMMA OneMoreType ==
  ASSUME NEW n \in 0..Tolerance
  PROVE  OneMore(n) \in 0..Tolerance
BY LimitAssumption DEF OneMore

LEMMA AppendType ==
  ASSUME NEW I, NEW S, NEW f \in [I -> Seq(S)], NEW i \in I, NEW x \in S
  PROVE  [f EXCEPT ![i] = Append(@, x)] \in [I -> Seq(S)]
OBVIOUS

LEMMA TailType ==
  ASSUME NEW I, NEW S, NEW f \in [I -> Seq(S)], NEW i \in I, f[i] # << >>
  PROVE  /\ Head(f[i]) \in S
         /\ [f EXCEPT ![i] = Tail(@)] \in [I -> Seq(S)]
         /\ [f EXCEPT ![i] = Tail(f[i])] \in [I -> Seq(S)]
OBVIOUS

\* send_delivery_sm() keeps the types.
LEMMA SendDeliverySmType ==
  ASSUME TypeOK, NEW c \in Conn, SendDeliverySm(c)
  PROVE  /\ dlr_list' \in Seq(DlrEntry)
         /\ out_B' \in [SysId -> Seq(Out)]
<1>1. CASE UNCHANGED <<dlr_list, out_B>>
  BY <1>1 DEF TypeOK, DsTypeOK, QueueTypeOK
<1>2. CASE ~UNCHANGED <<dlr_list, out_B>>
  <2>1. IsBound(state[c]) /\ flag[c] \in SysId
    BY <1>2, BoundHasSysId DEF SendDeliverySm, TypeOK
  <2>2. PICK i \in DOMAIN dlr_list :
          /\ dlr_list' = Marked(i)
          /\ out_B' = [out_B EXCEPT ![flag[c]] =
                         Append(@, [type |-> "Dlr", sm |-> dlr_list[i].sm])]
    BY <1>2 DEF SendDeliverySm
  <2>3. dlr_list[i] \in DlrEntry
    BY DEF TypeOK, DsTypeOK
  <2>4. [type |-> "Dlr", sm |-> dlr_list[i].sm] \in Out
    BY <2>3 DEF Out, DlrEntry
  <2>5. out_B' \in [SysId -> Seq(Out)]
    BY <2>1, <2>2, <2>4, AppendType DEF TypeOK, QueueTypeOK
  <2>6. [dlr_list[i] EXCEPT !.state = "PUSHING"] \in DlrEntry
    BY <2>3 DEF DlrEntry, DlrState
  <2>7. dlr_list' \in Seq(DlrEntry)
    BY <2>2, <2>6 DEF Marked, TypeOK, DsTypeOK
  <2>. QED
    BY <2>5, <2>7
<1>. QED
  BY <1>1, <1>2

\* The variables a step leaves alone keep their types.
LEMMA SameTypes ==
  ASSUME TypeOK
  PROVE  /\ UNCHANGED dsVars => DsTypeOK'
         /\ UNCHANGED <<connVars, working>> => ConnTypeOK'
         /\ UNCHANGED <<sessionVars, timer>> => SessionTypeOK'
         /\ UNCHANGED <<inVars, outVars, written>> => QueueTypeOK'
         /\ UNCHANGED <<tpc, at, req>> => ThreadTypeOK'
<1>. USE DEF TypeOK
<1>1. UNCHANGED dsVars => DsTypeOK'
  BY DEF dsVars, DsTypeOK
<1>2. UNCHANGED <<connVars, working>> => ConnTypeOK'
  BY DEF connVars, ConnTypeOK
<1>3. UNCHANGED <<sessionVars, timer>> => SessionTypeOK'
  BY DEF sessionVars, SessionTypeOK
<1>4. UNCHANGED <<inVars, outVars, written>> => QueueTypeOK'
  BY DEF inVars, outVars, QueueTypeOK
<1>5. UNCHANGED <<tpc, at, req>> => ThreadTypeOK'
  BY DEF ThreadTypeOK
<1>. QED
  BY <1>1, <1>2, <1>3, <1>4, <1>5

\* clear_resource() keeps the types, and so does write().
LEMMA ClearResourceType ==
  ASSUME TypeOK, NEW c \in Conn, NEW unused, ClearResource(c, unused)
  PROVE  /\ private_in' \in [Conn -> Seq(ReadItem)]
         /\ private_out' \in [Conn -> Seq(Out)]
<1>1. << >> \in Seq(ReadItem) /\ << >> \in Seq(Out)
  OBVIOUS
<1>2. CASE unused
  BY <1>1, <1>2 DEF ClearResource, TypeOK, QueueTypeOK
<1>3. CASE ~unused
  BY <1>3 DEF ClearResource, TypeOK, QueueTypeOK
<1>. QED
  BY <1>2, <1>3

LEMMA WriteType ==
  ASSUME TypeOK, NEW c \in Conn, NEW p \in Out, Write(c, p)
  PROVE  written' \in [Conn -> Seq(Out)]
BY AppendType DEF Write, TypeOK, QueueTypeOK

-----------------------------------------------------------------------------
(* One lemma per thread: what a step does to the types.                    *)

LEMMA IoThreadType ==
  ASSUME TypeOK, IoThread \/ \E c \in Conn : Elapse(c)
  PROVE  TypeOK'
<1>. USE SameTypes
<1>1. ASSUME NEW c \in Conn, Accept(c) PROVE TypeOK'
  <2>1. ConnTypeOK'
    BY <1>1 DEF Accept, TypeOK, ConnTypeOK, Socks
  <2>. QED
    BY <1>1, <2>1 DEF Accept, TypeOK
<1>2. ASSUME NEW c \in Conn, Read(c) PROVE TypeOK'
  <2>1. Head(todo[c]) \in Request /\ todo' \in [Conn -> Seq(Request)]
    BY <1>2, TailType DEF Read, TypeOK, ConnTypeOK
  <2>2. ConnTypeOK'
    BY <1>2, <2>1 DEF Read, TypeOK, ConnTypeOK, SessionTypeOK
  <2>. QED
    BY <1>2, <2>2 DEF Read, TypeOK, outVars, inVars
<1>3. ASSUME NEW c \in Conn, PeerClosed(c) PROVE TypeOK'
  <2>1. ConnTypeOK'
    BY <1>3 DEF PeerClosed, RemoveConnection, TypeOK, ConnTypeOK, Socks
  <2>2. QueueTypeOK'
    BY <1>3, ClearResourceType DEF PeerClosed, TypeOK, QueueTypeOK
  <2>. QED
    BY <1>3, <2>1, <2>2 DEF PeerClosed, TypeOK
<1>4. ASSUME Arrive PROVE TypeOK'
  <2>. DEFINE a == arriving[1]
              item == [from |-> a.from, req |-> a.req]
              Arriving == [from : Conn, req : Request, queue : SysId \union {NoSysId}]
  <2>0. a \in Arriving
    <3>. HIDE DEF Arriving
    <3>1. arriving \in Seq(Arriving) /\ arriving # << >>
      BY <1>4 DEF Arrive, TypeOK, ConnTypeOK, Arriving
    <3>. QED
      BY <3>1
  <2>1. a.from \in Conn /\ item \in ReadItem /\ a.queue \in SysId \union {NoSysId}
    BY <2>0 DEF ReadItem
  <2>2. QueueTypeOK'
    <3>1. PICK c \in Conn, x \in ReadItem, s \in SysId \union {NoSysId} :
            IF s = NoSysId
            THEN /\ private_in' = [private_in EXCEPT ![c] = Append(@, x)]
                 /\ UNCHANGED in_queue
            ELSE /\ in_queue' = [in_queue EXCEPT ![s] = Append(@, x)]
                 /\ UNCHANGED private_in
      BY <1>4, <2>1 DEF Arrive
    <3>2. UNCHANGED <<outVars, written>>
      BY <1>4 DEF Arrive
    <3>3. /\ private_in \in [Conn -> Seq(ReadItem)]
          /\ in_queue \in [SysId -> Seq(ReadItem)]
      BY DEF TypeOK, QueueTypeOK
    <3>4. CASE s = NoSysId
      <4>1. private_in' = [private_in EXCEPT ![c] = Append(@, x)] /\ UNCHANGED in_queue
        BY <3>1, <3>4
      <4>2. private_in' \in [Conn -> Seq(ReadItem)]
        BY <4>1, <3>3
      <4>. QED
        BY <3>2, <4>1, <4>2 DEF TypeOK, QueueTypeOK, outVars
    <3>5. CASE s # NoSysId
      <4>1. in_queue' = [in_queue EXCEPT ![s] = Append(@, x)] /\ UNCHANGED private_in
        BY <3>1, <3>5
      <4>2. in_queue' \in [SysId -> Seq(ReadItem)]
        BY <4>1, <3>3, <3>5
      <4>. QED
        BY <3>2, <4>1, <4>2 DEF TypeOK, QueueTypeOK, outVars
    <3>. QED
      BY <3>4, <3>5
  <2>3. SessionTypeOK'
    BY <1>4, <2>1, TimerFacts DEF Arrive, TypeOK, SessionTypeOK, sessionVars
  <2>4. ConnTypeOK'
    BY <1>4 DEF Arrive, TypeOK, ConnTypeOK
  <2>. QED
    BY <1>4, <2>2, <2>3, <2>4 DEF Arrive, TypeOK
<1>5. ASSUME NEW c \in Conn, Elapse(c) PROVE TypeOK'
  <2>1. SessionTypeOK'
    BY <1>5, TimerFacts DEF Elapse, TypeOK, SessionTypeOK, sessionVars
  <2>. QED
    BY <1>5, <2>1 DEF Elapse, TypeOK
<1>. QED
  BY <1>1, <1>2, <1>3, <1>4, <1>5 DEF IoThread

LEMMA VendorType ==
  ASSUME TypeOK, Vendor(Sender) \/ Vendor(Reporter)
  PROVE  TypeOK'
<1>1. DsTypeOK'
  <2>. USE DEF TypeOK, DsTypeOK
  <2>1. CASE SenderTakes
    BY <2>1 DEF SenderTakes
  <2>2. CASE SenderAdds
    BY <2>2 DEF SenderAdds
  <2>3. CASE ReporterTakes
    BY <2>3 DEF ReporterTakes, Erased
  <2>4. CASE ReporterAdds
    <3>1. reporting[1] \in Smi
      BY <2>4 DEF ReporterAdds
    <3>2. [sm |-> reporting[1].sm, sysid |-> reporting[1].sysid,
           state |-> "DELIVERIED"] \in DlrEntry
      BY <3>1 DEF Smi, DlrEntry, DlrState
    <3>. QED
      BY <2>4, <3>2 DEF ReporterAdds
  <2>. QED
    BY <2>1, <2>2, <2>3, <2>4 DEF Vendor, Sender, Reporter
<1>. QED
  BY <1>1, SameTypes DEF Vendor, TypeOK

\* A thread goes on to the control point pc, with a request or without.
LEMMA GoOnType ==
  ASSUME TypeOK, NEW t \in Thread, tpc[t] # "idle",
         NEW pc \in ThreadPcs \ {"idle"}, tpc' = [tpc EXCEPT ![t] = pc],
         UNCHANGED at,
         \/ /\ UNCHANGED req
            /\ tpc[t] \in {"process", "store"} <=> pc \in {"process", "store"}
         \/ /\ \E r \in Request : req' = [req EXCEPT ![t] = r]
            /\ pc \in {"process", "store"}
         \/ /\ req' = [req EXCEPT ![t] = NoReq]
            /\ pc \notin {"process", "store"}
  PROVE  ThreadTypeOK'
BY DEF TypeOK, ThreadTypeOK

\* A thread that is not idle has a connection.
LEMMA HasConn ==
  ASSUME ThreadTypeOK, NEW t \in Thread, tpc[t] # "idle"
  PROVE  at[t] \in Conn
BY DEF ThreadTypeOK

LEMMA LookingType ==
  ASSUME TypeInv, NEW t \in Thread,
         NeedSend(t) \/ \E c \in Conn : Examine(t, c)
  PROVE  TypeOK'
<1>. USE SameTypes DEF TypeInv
<1>1. ASSUME NEW c \in Conn, Examine(t, c) PROVE TypeOK'
  <2>1. dlr_list' \in Seq(DlrEntry) /\ out_B' \in [SysId -> Seq(Out)]
    BY <1>1, SendDeliverySmType DEF Examine, TypeOK, DsTypeOK, QueueTypeOK
  <2>2. DsTypeOK' /\ QueueTypeOK'
    BY <1>1, <2>1 DEF Examine, TypeOK, DsTypeOK, QueueTypeOK, inVars
  <2>3. ConnTypeOK'
    BY <1>1 DEF Examine, SetWorking, TypeOK, ConnTypeOK, connVars
  <2>4. ThreadTypeOK'
    BY <1>1 DEF Examine, TypeOK, ThreadTypeOK, ThreadPcs
  <2>. QED
    BY <1>1, <2>2, <2>3, <2>4 DEF Examine, TypeOK
<1>2. CASE NeedSend(t)
  <2>1. tpc[t] \in Looks /\ at[t] \in Conn
    BY <1>2, HasConn DEF NeedSend, Looks, TypeOK
  <2>2. dlr_list' \in Seq(DlrEntry) /\ out_B' \in [SysId -> Seq(Out)]
    BY <1>2, <2>1, SendDeliverySmType DEF NeedSend
  <2>3. DsTypeOK' /\ QueueTypeOK'
    BY <1>2, <2>2 DEF NeedSend, TypeOK, DsTypeOK, QueueTypeOK, inVars
  <2>4. \E pc \in {"send", "receive", "send_again", "check"} :
          tpc' = [tpc EXCEPT ![t] = pc]
    <3>1. PICK pc : pc = IF SomethingToSend(at[t], out_B')
                         THEN ThenSend[tpc[t]] ELSE ElseGoOn[tpc[t]]
      OBVIOUS
    <3>2. tpc' = [tpc EXCEPT ![t] = pc]
      BY <1>2, <3>1 DEF NeedSend
    <3>3. pc \in {"send", "receive", "send_again", "check"}
      BY <2>1, <3>1 DEF Looks, ThenSend, ElseGoOn
    <3>. QED
      BY <3>2, <3>3
  <2>5. ThreadTypeOK'
    BY <1>2, <2>1, <2>4, GoOnType DEF NeedSend, Looks, ThreadPcs
  <2>. QED
    BY <1>2, <2>3, <2>5 DEF NeedSend, TypeOK
<1>. QED
  BY <1>1, <1>2

LEMMA SendingType ==
  ASSUME TypeInv, NEW t \in Thread, Send(t) \/ SendB(t)
  PROVE  TypeOK'
<1>. USE SameTypes DEF TypeInv
<1>1. CASE Send(t)
  <2>. DEFINE c == at[t]
              A == IF TxAble(state[c]) THEN out_A[flag[c]] ELSE << >>
  <2>1. tpc[t] \in Drains /\ c \in Conn
    BY <1>1, HasConn DEF Send, Drains, TypeOK
  <2>2. A # << >> => flag[c] \in SysId /\ A = out_A[flag[c]]
    BY <2>1, StateFacts, BoundHasSysId DEF TypeOK
  <2>3. CASE /\ private_out[c] # << >>
             /\ Write(c, Head(private_out[c]))
             /\ private_out' = [private_out EXCEPT ![c] = Tail(@)]
             /\ UNCHANGED <<out_A, tpc>>
    <3>1. Head(private_out[c]) \in Out /\ private_out' \in [Conn -> Seq(Out)]
      BY <2>1, <2>3, TailType DEF TypeOK, QueueTypeOK
    <3>2. written' \in [Conn -> Seq(Out)]
      BY <2>1, <2>3, <3>1, WriteType
    <3>3. QueueTypeOK'
      BY <1>1, <2>3, <3>1, <3>2 DEF Send, TypeOK, QueueTypeOK, inVars
    <3>. QED
      BY <1>1, <2>3, <3>3 DEF Send, TypeOK
  <2>4. CASE /\ A # << >>
             /\ Write(c, Head(A))
             /\ out_A' = [out_A EXCEPT ![flag[c]] = Tail(A)]
             /\ UNCHANGED <<private_out, tpc>>
    <3>1. Head(A) \in Out /\ out_A' \in [SysId -> Seq(Out)]
      BY <2>2, <2>4, TailType DEF TypeOK, QueueTypeOK
    <3>2. written' \in [Conn -> Seq(Out)]
      BY <2>1, <2>4, <3>1, WriteType
    <3>3. QueueTypeOK'
      BY <1>1, <2>4, <3>1, <3>2 DEF Send, TypeOK, QueueTypeOK, inVars
    <3>. QED
      BY <1>1, <2>4, <3>3 DEF Send, TypeOK
  <2>5. CASE /\ \E pc \in {"send_B", "reply_B", "send_again_B", "receive", "check"} :
                  tpc' = [tpc EXCEPT ![t] = pc]
             /\ UNCHANGED <<private_out, out_A, written>>
    <3>1. ThreadTypeOK'
      <4>1. PICK pc \in {"send_B", "reply_B", "send_again_B", "receive", "check"} :
              tpc' = [tpc EXCEPT ![t] = pc]
        BY <2>5
      <4>2. UNCHANGED <<at, req>>
        BY <1>1 DEF Send
      <4>. QED
        BY <2>1, <4>1, <4>2, GoOnType DEF Drains, ThreadPcs
    <3>2. QueueTypeOK'
      BY <1>1, <2>5 DEF Send, outVars
    <3>. QED
      BY <1>1, <3>1, <3>2 DEF Send, TypeOK
  <2>6. \A d \in Drains : /\ DrainB[d] \in {"send_B", "reply_B", "send_again_B"}
                          /\ AfterDrain[d] \in {"receive", "check"}
    BY DEF Drains, DrainB, AfterDrain
  <2>. QED
    BY <1>1, <2>1, <2>3, <2>4, <2>5, <2>6 DEF Send
<1>2. CASE SendB(t)
  <2>. DEFINE c == at[t]
              B == out_B[flag[c]]
  <2>1. PICK d \in Drains :
          /\ tpc[t] = DrainB[d]
          /\ \/ /\ B # << >>
                /\ ThreadAt(t, DrainB[d], d)
                /\ Write(c, Head(B))
                /\ out_B' = [out_B EXCEPT ![flag[c]] = Tail(B)]
             \/ /\ B = << >>
                /\ ThreadAt(t, DrainB[d], AfterDrain[d])
                /\ UNCHANGED <<out_B, written>>
          /\ UNCHANGED <<dsVars, connVars, working, sessionVars, timer, inVars,
                         private_out, out_A, at, req>>
    BY <1>2 DEF SendB
  <2>2. tpc[t] \in QueueBPcs /\ c \in Conn
    BY <2>1, HasConn DEF Drains, DrainB, QueueBPcs, TypeOK
  <2>3. flag[c] \in SysId
    BY <2>2, StateFacts, BoundHasSysId DEF StillAble, TypeOK
  <2>4. \E pc \in {"send", "reply", "send_again", "receive", "check"} :
          tpc' = [tpc EXCEPT ![t] = pc]
    BY <2>1 DEF ThreadAt, Drains, DrainB, AfterDrain
  <2>5. ThreadTypeOK'
    BY <2>1, <2>2, <2>4, GoOnType DEF QueueBPcs, ThreadPcs
  <2>6. out_B' \in [SysId -> Seq(Out)] /\ written' \in [Conn -> Seq(Out)]
    <3>1. CASE B # << >>
      <4>1. Head(B) \in Out /\ [out_B EXCEPT ![flag[c]] = Tail(B)] \in [SysId -> Seq(Out)]
        BY <2>3, <3>1, TailType DEF TypeOK, QueueTypeOK
      <4>. QED
        BY <2>1, <2>2, <3>1, <4>1, WriteType
    <3>2. CASE B = << >>
      BY <2>1, <3>2 DEF TypeOK, QueueTypeOK
    <3>. QED
      BY <3>1, <3>2
  <2>7. QueueTypeOK'
    BY <2>1, <2>6 DEF TypeOK, QueueTypeOK, inVars
  <2>. QED
    BY <2>1, <2>5, <2>7 DEF TypeOK
<1>. QED
  BY <1>1, <1>2

LEMMA ReceiveType ==
  ASSUME TypeInv, NEW t \in Thread, Receive(t)
  PROVE  TypeOK'
<1>. USE SameTypes DEF TypeInv
<1>. DEFINE c == at[t]
            shared == IF flag[c] = NoSysId THEN << >> ELSE in_queue[flag[c]]
<1>1. tpc[t] = "receive" /\ c \in Conn
  BY HasConn DEF Receive, ThreadAt, TypeOK
<1>2. flag[c] \in SysId \union {NoSysId}
  BY <1>1 DEF TypeOK, SessionTypeOK
<1>3. CASE /\ private_in[c] # << >>
           /\ ThreadAt(t, "receive", "process")
           /\ req' = [req EXCEPT ![t] = Head(private_in[c]).req]
           /\ private_in' = [private_in EXCEPT ![c] = Tail(@)]
           /\ UNCHANGED in_queue
  <2>1. Head(private_in[c]) \in ReadItem /\ private_in' \in [Conn -> Seq(ReadItem)]
    BY <1>1, <1>3, TailType DEF TypeOK, QueueTypeOK
  <2>2. Head(private_in[c]).req \in Request
    BY <2>1 DEF ReadItem
  <2>3. ThreadTypeOK'
    BY <1>1, <1>3, <2>2, GoOnType DEF Receive, ThreadAt, ThreadPcs
  <2>4. QueueTypeOK'
    BY <1>3, <2>1 DEF Receive, TypeOK, QueueTypeOK, outVars
  <2>. QED
    BY <2>3, <2>4 DEF Receive, TypeOK
<1>4. CASE /\ private_in[c] = << >> /\ shared # << >>
           /\ ThreadAt(t, "receive", "process")
           /\ req' = [req EXCEPT ![t] = Head(shared).req]
           /\ in_queue' = [in_queue EXCEPT ![flag[c]] = Tail(@)]
           /\ UNCHANGED private_in
  <2>1. flag[c] \in SysId /\ shared = in_queue[flag[c]]
    BY <1>2, <1>4
  <2>2. Head(shared) \in ReadItem /\ in_queue' \in [SysId -> Seq(ReadItem)]
    BY <1>4, <2>1, TailType DEF TypeOK, QueueTypeOK
  <2>3. Head(shared).req \in Request
    BY <2>2 DEF ReadItem
  <2>4. ThreadTypeOK'
    BY <1>1, <1>4, <2>3, GoOnType DEF Receive, ThreadAt, ThreadPcs
  <2>5. QueueTypeOK'
    BY <1>4, <2>2 DEF Receive, TypeOK, QueueTypeOK, outVars
  <2>. QED
    BY <2>4, <2>5 DEF Receive, TypeOK
<1>5. CASE ThreadAt(t, "receive", "need_send_again") /\ UNCHANGED <<req, inVars>>
  <2>1. ThreadTypeOK'
    BY <1>1, <1>5, GoOnType DEF Receive, ThreadAt, ThreadPcs
  <2>. QED
    BY <1>5, <2>1 DEF Receive, TypeOK
<1>. QED
  BY <1>3, <1>4, <1>5 DEF Receive

\* An answer into the session's own queue, or into queue A of its system id.
LEMMA AnswerType ==
  ASSUME TypeOK, NEW c \in Conn, NEW p \in Out
  PROVE  /\ Answer(c, p) => private_out' \in [Conn -> Seq(Out)]
         /\ AnswerShared(c, p) /\ flag[c] # NoSysId => out_A' \in [SysId -> Seq(Out)]
<1>1. flag[c] # NoSysId => flag[c] \in SysId
  BY DEF TypeOK, SessionTypeOK
<1>2. /\ private_out \in [Conn -> Seq(Out)]
      /\ out_A \in [SysId -> Seq(Out)]
  BY DEF TypeOK, QueueTypeOK
<1>3. Answer(c, p) => private_out' \in [Conn -> Seq(Out)]
  BY <1>2, AppendType DEF Answer
<1>4. AnswerShared(c, p) /\ flag[c] # NoSysId => out_A' \in [SysId -> Seq(Out)]
  BY <1>1, <1>2, AppendType DEF AnswerShared
<1>. QED
  BY <1>3, <1>4

LEMMA OutFacts ==
  /\ \A ok \in BOOLEAN : [type |-> "BindResp", ok |-> ok] \in Out
  /\ \A m \in Sm : [type |-> "SubmitSmResp", sm |-> m] \in Out
  /\ [type |-> "UnbindResp"] \in Out /\ [type |-> "EnquireLinkResp"] \in Out
  /\ [type |-> "Nack"] \in Out
BY DEF Out

\* The queues after a request has been processed.
LEMMA ProcessedQueues ==
  ASSUME TypeOK, UNCHANGED processUnchanged,
         private_out' \in [Conn -> Seq(Out)], out_A' \in [SysId -> Seq(Out)]
  PROVE  QueueTypeOK' /\ ConnTypeOK'
BY SameTypes DEF TypeOK, QueueTypeOK, processUnchanged, inVars

LEMMA ErrorType ==
  ASSUME TypeOK, NEW c \in Conn, UNCHANGED <<state, flag, timer>>,
         \/ OtherErrorOccur(c) /\ UNCHANGED bind_errors
         \/ BindErrorOccur(c) /\ UNCHANGED other_errors
         \/ UNCHANGED <<bind_errors, other_errors>>
            /\ error_occured' = [error_occured EXCEPT ![c] = TRUE]
  PROVE  SessionTypeOK'
<1>. USE OneMoreType DEF TypeOK, SessionTypeOK
<1>1. CASE OtherErrorOccur(c) /\ UNCHANGED bind_errors
  BY <1>1 DEF OtherErrorOccur
<1>2. CASE BindErrorOccur(c) /\ UNCHANGED other_errors
  BY <1>2 DEF BindErrorOccur
<1>3. CASE /\ UNCHANGED <<bind_errors, other_errors>>
           /\ error_occured' = [error_occured EXCEPT ![c] = TRUE]
  BY <1>3
<1>. QED
  BY <1>1, <1>2, <1>3

\* remove_dlr() keeps the type of the list.
LEMMA MinIsLeast ==
  ASSUME NEW S \in SUBSET Nat, S # {}
  PROVE  Min(S) \in S /\ \A i \in S : Min(S) <= i
<1>. DEFINE Less == {ss \in Nat \X Nat : ss[1] < ss[2]}
<1>1. IsWellFoundedOn(Less, Nat)
  BY NatLessThanWellFounded DEF OpToRel
<1>2. PICK i \in S : \A j \in S : <<j, i>> \notin Less
  <2>. HIDE DEF Less
  <2>. QED
    BY <1>1, WFMin
<1>3. ASSUME NEW j \in S PROVE i <= j
  <2>1. \A p \in Nat \X Nat : p[1] < p[2] => p \in Less
    OBVIOUS
  <2>2. <<j, i>> \in Nat \X Nat /\ <<j, i>>[1] = j /\ <<j, i>>[2] = i
    OBVIOUS
  <2>3. ~ j < i
    <3>. HIDE DEF Less
    <3>. QED
      BY <1>2, <2>1, <2>2
  <2>. QED
    BY <2>3
<1>. QED
  BY <1>3 DEF Min

\* What remove_dlr() does to the list: nothing, or one entry of m goes.
LEMMA RemoveDlrFacts ==
  ASSUME DsTypeOK, NEW m, RemoveDlr(m)
  PROVE  \/ /\ \A i \in DOMAIN dlr_list : dlr_list[i].sm # m
            /\ UNCHANGED dlr_list
         \/ \E k \in 1..Len(dlr_list) :
              /\ dlr_list[k].sm = m
              /\ dlr_list' = SubSeq(dlr_list, 1, k - 1)
                               \o SubSeq(dlr_list, k + 1, Len(dlr_list))
<1>1. CASE \E i \in DOMAIN dlr_list : dlr_list[i].sm = m
  <2>. DEFINE I == {i \in 1..Len(dlr_list) : dlr_list[i].sm = m}
  <2>1. I # {} /\ I \in SUBSET Nat
    BY <1>1 DEF DsTypeOK
  <2>2. Min(I) \in I
    BY <2>1, MinIsLeast
  <2>3. dlr_list' = RemoveAt(dlr_list, Min(I))
    BY <1>1, <2>1 DEF RemoveDlr, SelectInSeq
  <2>. QED
    BY <2>2, <2>3 DEF RemoveAt
<1>2. CASE ~ \E i \in DOMAIN dlr_list : dlr_list[i].sm = m
  BY <1>2 DEF RemoveDlr
<1>. QED
  BY <1>1, <1>2

\* A sequence without its k-th element.
LEMMA JoinedFacts ==
  ASSUME NEW S, NEW s \in Seq(S), NEW k \in 1..Len(s),
         NEW p \in Seq(S), Len(p) = k - 1, \A i \in 1..(k - 1) : p[i] = s[i],
         NEW q \in Seq(S), Len(q) = Len(s) - k,
         \A i \in 1..(Len(s) - k) : q[i] = s[k + i]
  PROVE  /\ p \o q \in Seq(S) /\ Len(p \o q) = Len(s) - 1
         /\ \A i \in 1..(Len(s) - 1) :
              (p \o q)[i] = IF i < k THEN s[i] ELSE s[i + 1]
<1>1. /\ p \o q \in Seq(S) /\ Len(p \o q) = Len(s) - 1
      /\ \A i \in 1..(Len(s) - 1) :
           (p \o q)[i] = IF i <= Len(p) THEN p[i] ELSE q[i - Len(p)]
  BY ConcatProperties
<1>2. ASSUME NEW i \in 1..(Len(s) - 1), i < k PROVE (p \o q)[i] = s[i]
  BY <1>1, <1>2
<1>3. ASSUME NEW i \in 1..(Len(s) - 1), ~ i < k PROVE (p \o q)[i] = s[i + 1]
  <2>1. i - (k - 1) \in 1..(Len(s) - k) /\ k + (i - (k - 1)) = i + 1
    BY <1>3
  <2>. QED
    BY <1>1, <1>3, <2>1
<1>. QED
  BY <1>1, <1>2, <1>3

LEMMA WithoutFacts ==
  ASSUME NEW S, NEW s \in Seq(S), NEW k \in 1..Len(s)
  PROVE  \A u : u = SubSeq(s, 1, k - 1) \o SubSeq(s, k + 1, Len(s)) =>
           /\ u \in Seq(S) /\ Len(u) = Len(s) - 1
           /\ \A i \in 1..(Len(s) - 1) : u[i] = IF i < k THEN s[i] ELSE s[i + 1]
<1>1. PICK p : p = SubSeq(s, 1, k - 1)
  OBVIOUS
<1>2. PICK q : q = SubSeq(s, k + 1, Len(s))
  OBVIOUS
<1>3. /\ p \in Seq(S) /\ Len(p) = k - 1
      /\ \A i \in 1..(k - 1) : p[i] = s[i]
      /\ q \in Seq(S) /\ Len(q) = Len(s) - k
      /\ \A i \in 1..(Len(s) - k) : q[i] = s[k + i]
  BY <1>1, <1>2
<1>4. /\ p \o q \in Seq(S) /\ Len(p \o q) = Len(s) - 1
      /\ \A i \in 1..(Len(s) - 1) :
           (p \o q)[i] = IF i < k THEN s[i] ELSE s[i + 1]
  BY <1>3, JoinedFacts
<1>5. p \o q = SubSeq(s, 1, k - 1) \o SubSeq(s, k + 1, Len(s))
  BY <1>1, <1>2, Zenon
<1>. QED
  BY <1>4, <1>5, Zenon

LEMMA RemoveDlrType ==
  ASSUME DsTypeOK, NEW m, RemoveDlr(m)
  PROVE  dlr_list' \in Seq(DlrEntry)
BY RemoveDlrFacts, WithoutFacts DEF DsTypeOK

LEMMA ProcessType ==
  ASSUME TypeInv, NEW t \in Thread, Process(t)
  PROVE  TypeOK'
<1>. USE SameTypes DEF TypeInv
<1>. DEFINE c == at[t]
            r == req[t]
<1>1. /\ c \in Conn /\ r \in Request
      /\ tpc[t] \in {"process", "store"} /\ UNCHANGED <<at, processUnchanged>>
  <2>1. tpc[t] \in {"process", "store"} /\ UNCHANGED <<at, processUnchanged>>
    BY DEF Process, Processes, ThreadAt, ProcessBadSequence, ProcessInvalid,
       ProcessBind, ProcessSubmitSm, Store, ProcessUnbind, ProcessEnquireLink,
       ProcessQuerySm, ProcessDeliverSmResp, ProcessMalformedResp, processUnchanged
  <2>. QED
    BY <2>1, HasConn DEF TypeOK, ThreadTypeOK
<1>2. /\ Processes(t, r.type) => ThreadTypeOK'
      /\ ThreadAt(t, "store", "reply") /\ req' = [req EXCEPT ![t] = NoReq]
           => ThreadTypeOK'
  BY <1>1, GoOnType DEF Processes, ThreadAt, ThreadPcs
<1>3. /\ private_out \in [Conn -> Seq(Out)] /\ out_A \in [SysId -> Seq(Out)]
  BY DEF TypeOK, QueueTypeOK
<1>4. CASE ProcessBadSequence(t)
  <2>1. SessionTypeOK'
    BY <1>1, <1>4, ErrorType DEF ProcessBadSequence
  <2>. QED
    BY <1>1, <1>2, <1>3, <1>4, <2>1, ProcessedQueues DEF ProcessBadSequence, TypeOK, Processes
<1>5. CASE ProcessInvalid(t)
  <2>1. SessionTypeOK'
    BY <1>1, <1>5, ErrorType DEF ProcessInvalid
  <2>2. private_out' \in [Conn -> Seq(Out)] /\ out_A' \in [SysId -> Seq(Out)]
    BY <1>1, <1>3, <1>5, AnswerType, OutFacts DEF ProcessInvalid, Nack
  <2>3. ThreadTypeOK'
    BY <1>1, <1>5, GoOnType DEF ProcessInvalid, ThreadAt, ThreadPcs
  <2>. QED
    BY <1>1, <1>5, <2>1, <2>2, <2>3, ProcessedQueues DEF ProcessInvalid, TypeOK
<1>6. CASE ProcessBind(t)
  <2>1. r.mode \in Modes /\ r.sysid \in SysId /\ r.ok \in BOOLEAN
    BY <1>1, <1>6, RequestFacts DEF ProcessBind, Processes
  <2>2. SessionTypeOK'
    <3>1. timer' \in [Conn -> Timers]
      BY <1>1, <1>6, TimerFacts DEF ProcessBind, BeginTimers, TypeOK, SessionTypeOK
    <3>2. CASE r.ok
      BY <1>1, <1>6, <2>1, <3>1, <3>2, StateFacts
         DEF ProcessBind, NewFlag, TypeOK, SessionTypeOK
    <3>3. CASE ~r.ok
      <4>1. /\ UNCHANGED <<state, other_errors>> /\ BindErrorOccur(c)
            /\ flag' = [flag EXCEPT ![c] = flag[c]]
        BY <1>6, <3>3 DEF ProcessBind, NewFlag
      <4>2. UNCHANGED flag
        BY <4>1 DEF TypeOK, SessionTypeOK
      <4>. QED
        BY <1>1, <3>1, <4>1, <4>2, OneMoreType DEF BindErrorOccur, TypeOK, SessionTypeOK
    <3>. QED
      BY <3>2, <3>3
  <2>3. private_out' \in [Conn -> Seq(Out)] /\ UNCHANGED out_A
    BY <1>1, <1>6, <2>1, AnswerType, OutFacts DEF ProcessBind
  <2>. QED
    BY <1>1, <1>2, <1>3, <1>6, <2>2, <2>3, ProcessedQueues
       DEF ProcessBind, TypeOK, Processes
<1>7. CASE ProcessSubmitSm(t)
  <2>1. SessionTypeOK'
    BY <1>1, <1>7, TimerFacts DEF ProcessSubmitSm, UpdateTimers, TypeOK, SessionTypeOK, sessionVars
  <2>2. r.sm \in Sm /\ flag[c] # NoSysId
    BY <1>1, <1>7, RequestFacts, StateFacts, BoundHasSysId, NamesAssumption
       DEF ProcessSubmitSm, Valid, TypeOK
  <2>3. private_out' \in [Conn -> Seq(Out)] /\ out_A' \in [SysId -> Seq(Out)]
    BY <1>1, <1>3, <1>7, <2>2, AnswerType, OutFacts DEF ProcessSubmitSm
  <2>4. ThreadTypeOK'
    BY <1>1, <1>7, GoOnType DEF ProcessSubmitSm, ThreadAt, ThreadPcs
  <2>. QED
    BY <1>1, <1>7, <2>1, <2>3, <2>4, ProcessedQueues DEF ProcessSubmitSm, TypeOK
<1>8. CASE Store(t)
  <2>1. r.type = "SubmitSm" /\ TxAble(state[c])
    BY <1>8 DEF Store, ThreadAt, StillAble
  <2>2. r.sm \in Sm /\ flag[c] \in SysId
    BY <1>1, <2>1, RequestFacts, StateFacts, BoundHasSysId DEF TypeOK
  <2>3. [sm |-> r.sm, sysid |-> flag[c]] \in Smi
    BY <2>2 DEF Smi
  <2>4. DsTypeOK'
    BY <1>8, <2>3 DEF Store, SmiReceived, TypeOK, DsTypeOK
  <2>. QED
    BY <1>1, <1>2, <1>3, <1>8, <2>4, ProcessedQueues DEF Store, TypeOK
<1>9. CASE ProcessUnbind(t)
  <2>1. SessionTypeOK'
    BY <1>1, <1>9, StateFacts DEF ProcessUnbind, Valid, TypeOK, SessionTypeOK, States
  <2>2. private_out' \in [Conn -> Seq(Out)]
    BY <1>1, <1>9, AnswerType, OutFacts DEF ProcessUnbind
  <2>. QED
    BY <1>1, <1>2, <1>3, <1>9, <2>1, <2>2, ProcessedQueues DEF ProcessUnbind, TypeOK, Processes
<1>10. CASE ProcessEnquireLink(t)
  <2>1. SessionTypeOK'
    BY <1>1, <1>10, TimerFacts DEF ProcessEnquireLink, UpdateTimers, TypeOK, SessionTypeOK, sessionVars
  <2>2. private_out' \in [Conn -> Seq(Out)]
    BY <1>1, <1>10, AnswerType, OutFacts DEF ProcessEnquireLink
  <2>. QED
    BY <1>1, <1>2, <1>3, <1>10, <2>1, <2>2, ProcessedQueues DEF ProcessEnquireLink, TypeOK, Processes
<1>11. CASE ProcessQuerySm(t)
  BY <1>1, <1>2, <1>3, <1>11, ProcessedQueues DEF ProcessQuerySm, TypeOK, Processes
<1>12. CASE ProcessDeliverSmResp(t)
  <2>1. DsTypeOK'
    BY <1>12, RemoveDlrType DEF ProcessDeliverSmResp, TypeOK, DsTypeOK
  <2>. QED
    BY <1>1, <1>2, <1>3, <1>12, <2>1, ProcessedQueues DEF ProcessDeliverSmResp, TypeOK, Processes
<1>13. CASE ProcessMalformedResp(t)
  <2>1. SessionTypeOK'
    BY <1>1, <1>13, ErrorType DEF ProcessMalformedResp
  <2>. QED
    BY <1>1, <1>2, <1>3, <1>13, <2>1, ProcessedQueues DEF ProcessMalformedResp, TypeOK, Processes
<1>. QED
  BY <1>4, <1>5, <1>6, <1>7, <1>8, <1>9, <1>10, <1>11, <1>12, <1>13 DEF Process

LEMMA LeavingType ==
  ASSUME TypeInv, NEW t \in Thread, Check(t) \/ Free(t)
  PROVE  TypeOK'
<1>. USE SameTypes DEF TypeInv
<1>1. CASE Check(t)
  <2>1. at[t] \in Conn
    BY <1>1, HasConn DEF Check, ThreadAt, TypeOK
  <2>2. ConnTypeOK'
    BY <1>1, <2>1 DEF Check, RemoveConnection, TypeOK, ConnTypeOK, Socks
  <2>3. ThreadTypeOK'
    BY <1>1, GoOnType DEF Check, ThreadAt, ThreadPcs
  <2>. QED
    BY <1>1, <2>2, <2>3 DEF Check, TypeOK, outVars, inVars
<1>2. CASE Free(t)
  <2>1. at[t] \in Conn
    BY <1>2, HasConn DEF Free, ThreadAt, TypeOK
  <2>2. ConnTypeOK'
    BY <1>2, <2>1 DEF Free, TypeOK, ConnTypeOK, connVars
  <2>3. ThreadTypeOK'
    BY <1>2 DEF Free, ThreadAt, TypeOK, ThreadTypeOK, ThreadPcs
  <2>4. QueueTypeOK'
    BY <1>2, <2>1, ClearResourceType DEF Free, TypeOK, QueueTypeOK
  <2>. QED
    BY <1>2, <2>2, <2>3, <2>4 DEF Free, TypeOK
<1>. QED
  BY <1>1, <1>2

\* The thread t goes where it needs nothing of the state of its session,
\* which only the thread that has a connection changes.
ForgetsState(t) ==
  /\ \/ UNCHANGED state
     \/ UNCHANGED at /\ at[t] \in Conn /\ \E st : state' = [state EXCEPT ![at[t]] = st]
  /\ \A u \in Thread \ {t} : at'[u] = at[u] /\ tpc'[u] = tpc[u] /\ req'[u] = req[u]
  /\ tpc'[t] \notin QueueBPcs \union {"store"}

LEMMA OthersStillAble ==
  ASSUME TypeInv, NEW t \in Thread, ForgetsState(t)
  PROVE  StillAble'
<1>. USE DEF ForgetsState
<1>1. ASSUME NEW u \in Thread \ {t}, tpc[u] \in QueueBPcs \union {"store"}
      PROVE  state'[at[u]] = state[at[u]]
  <2>1. at[u] \in Conn /\ at[u] # at[t]
    BY <1>1, HasConn DEF TypeInv, TypeOK, WorkInvariant, OneWorker, QueueBPcs, ThreadTypeOK
  <2>. QED
    BY <2>1 DEF TypeInv, TypeOK, SessionTypeOK
<1>. QED
  BY <1>1 DEF TypeInv, StillAble

LEMMA StillAbleStep ==
  ASSUME TypeInv, NEW t \in Thread, TaskThread(t)
  PROVE  StillAble'
<1>0. tpc \in [Thread -> ThreadPcs] /\ at \in [Thread -> Conn \union {NoConn}]
      /\ req \in [Thread -> Request \union {NoReq}]
  BY DEF TypeInv, TypeOK, ThreadTypeOK
<1>1. ASSUME NEW c \in Conn, Examine(t, c) PROVE StillAble'
  BY <1>0, <1>1, OthersStillAble DEF ForgetsState, Examine, QueueBPcs, sessionVars
<1>2. CASE NeedSend(t)
  <2>1. PICK pc : pc = IF SomethingToSend(at[t], out_B')
                       THEN ThenSend[tpc[t]] ELSE ElseGoOn[tpc[t]]
    OBVIOUS
  <2>2. tpc[t] \in Looks /\ tpc' = [tpc EXCEPT ![t] = pc] /\ UNCHANGED <<at, req, state>>
    BY <1>2, <2>1 DEF NeedSend, sessionVars
  <2>3. pc \notin QueueBPcs \union {"store"}
    BY <2>1, <2>2 DEF Looks, ThenSend, ElseGoOn, QueueBPcs
  <2>. QED
    BY <1>0, <2>2, <2>3, OthersStillAble DEF ForgetsState
<1>3. CASE Send(t)
  <2>1. UNCHANGED <<at, req, state>> /\ tpc[t] \in Drains
    BY <1>3 DEF Send, sessionVars
  <2>2. CASE UNCHANGED tpc
    BY <2>1, <2>2 DEF TypeInv, StillAble
  <2>3. CASE /\ ~RxAble(state[at[t]])
             /\ tpc' = [tpc EXCEPT ![t] = AfterDrain[tpc[t]]]
    BY <1>0, <2>1, <2>3, OthersStillAble DEF ForgetsState, Drains, AfterDrain, QueueBPcs
  <2>4. CASE /\ RxAble(state[at[t]])
             /\ tpc' = [tpc EXCEPT ![t] = DrainB[tpc[t]]]
    BY <1>0, <2>1, <2>4 DEF Drains, DrainB, TypeInv, StillAble
  <2>. QED
    BY <1>3, <2>2, <2>3, <2>4 DEF Send
<1>4. CASE SendB(t)
  <2>1. PICK d \in Drains :
          /\ tpc' = [tpc EXCEPT ![t] = d] \/ tpc' = [tpc EXCEPT ![t] = AfterDrain[d]]
          /\ UNCHANGED <<at, req, state>>
    BY <1>4 DEF SendB, ThreadAt, sessionVars
  <2>. QED
    BY <1>0, <2>1, OthersStillAble DEF ForgetsState, Drains, AfterDrain, QueueBPcs
<1>5. CASE Receive(t)
  <2>1. /\ UNCHANGED <<at, state>>
        /\ \E pc \in {"process", "need_send_again"} : tpc' = [tpc EXCEPT ![t] = pc]
        /\ \A u \in Thread \ {t} : req'[u] = req[u]
    BY <1>0, <1>5 DEF Receive, ThreadAt, sessionVars
  <2>. QED
    BY <1>0, <2>1, OthersStillAble DEF ForgetsState, QueueBPcs
<1>6. CASE ProcessSubmitSm(t)
  <2>1. /\ UNCHANGED <<at, req, state>> /\ tpc' = [tpc EXCEPT ![t] = "store"]
        /\ req[t].type = "SubmitSm" /\ TxAble(state[at[t]])
    BY <1>6 DEF ProcessSubmitSm, ThreadAt, sessionVars, processUnchanged, Valid
  <2>. QED
    BY <1>0, <2>1 DEF TypeInv, StillAble, QueueBPcs
<1>7. CASE Process(t) /\ ~ProcessSubmitSm(t)
  <2>1. /\ UNCHANGED at
        /\ tpc' = [tpc EXCEPT ![t] = "reply"] /\ req' = [req EXCEPT ![t] = NoReq]
        /\ UNCHANGED state \/ \E st : state' = [state EXCEPT ![at[t]] = st]
    BY <1>7 DEF Process, Processes, ThreadAt, ProcessBadSequence, ProcessInvalid,
       ProcessBind, Store, ProcessUnbind, ProcessEnquireLink, ProcessQuerySm,
       ProcessDeliverSmResp, ProcessMalformedResp, processUnchanged, sessionVars
  <2>2. at[t] \in Conn
    BY <1>7, HasConn DEF Process, Processes, ThreadAt, ProcessBadSequence, ProcessInvalid,
       ProcessBind, Store, ProcessUnbind, ProcessEnquireLink, ProcessQuerySm,
       ProcessDeliverSmResp, ProcessMalformedResp, TypeInv, TypeOK
  <2>. QED
    BY <1>0, <2>1, <2>2, OthersStillAble DEF ForgetsState, QueueBPcs
<1>8. CASE Check(t)
  BY <1>0, <1>8, OthersStillAble DEF ForgetsState, Check, ThreadAt, QueueBPcs, sessionVars
<1>9. CASE Free(t)
  BY <1>0, <1>9, OthersStillAble DEF ForgetsState, Free, ThreadAt, QueueBPcs, sessionVars
<1>. QED
  BY <1>1, <1>2, <1>3, <1>4, <1>5, <1>6, <1>7, <1>8, <1>9 DEF TaskThread

LEMMA InitTypeInv == Init => TypeInv
<1>. SUFFICES ASSUME Init PROVE TypeInv
  OBVIOUS
<1>1. DsTypeOK
  BY DEF Init, DsInit, DsTypeOK
<1>2. ConnTypeOK
  BY ScriptAssumption DEF Init, ConnTypeOK, Socks
<1>3. SessionTypeOK
  BY LimitAssumption DEF Init, SessionTypeOK, States, Timers
<1>4. QueueTypeOK
  BY DEF Init, QueueTypeOK
<1>5. ThreadTypeOK
  BY DEF Init, ThreadTypeOK, ThreadPcs
<1>6. WorkInvariant
  BY DEF Init, WorkInvariant, Claims, OneWorker, ThreadPcs
<1>7. StillAble
  BY DEF Init, StillAble, QueueBPcs
<1>. QED
  BY <1>1, <1>2, <1>3, <1>4, <1>5, <1>6, <1>7 DEF TypeInv, TypeOK

LEMMA TypeInvStep ==
  ASSUME TypeInv, [Next]_vars
  PROVE  TypeInv'
<1>1. WorkInvariant'
  BY WorkInvariantStep DEF TypeInv
<1>2. CASE UNCHANGED vars
  BY <1>1, <1>2, SameTypes DEF vars, connVars, sessionVars, inVars, outVars, TypeInv, TypeOK, StillAble
<1>3. CASE IoThread \/ (\E c \in Conn : Elapse(c))
  <2>1. UNCHANGED <<at, tpc, req, state>>
    BY <1>3 DEF IoThread, Arrive, Accept, Read, PeerClosed, Elapse, sessionVars
  <2>. QED
    BY <1>1, <1>3, <2>1, IoThreadType DEF TypeInv, StillAble
<1>4. CASE Vendor(Sender) \/ Vendor(Reporter)
  <2>1. UNCHANGED <<at, tpc, req, state>>
    BY <1>4 DEF Vendor, sessionVars
  <2>. QED
    BY <1>1, <1>4, <2>1, VendorType DEF TypeInv, StillAble
<1>5. ASSUME NEW t \in Thread, TaskThread(t) PROVE TypeInv'
  BY <1>1, <1>5, StillAbleStep, LookingType, SendingType, ReceiveType,
     ProcessType, LeavingType DEF TaskThread, TypeInv
<1>. QED
  BY <1>2, <1>3, <1>4, <1>5 DEF Next

(***************************************************************************)
(* The variables of the server keep their types, for every script of       *)
(* requests and any number of threads and connections: a thread never uses *)
(* the queues of a session that has no system id, and what it stores is a  *)
(* message of its account.                                                 *)
(***************************************************************************)
THEOREM TypesHold == Spec => []TypeOK
<1>1. TypeInv => TypeOK
  BY DEF TypeInv
<1>. QED
  BY <1>1, InitTypeInv, TypeInvStep, PTL DEF Spec

(***************************************************************************)
(* Whose a message is: whatever the server holds for a system id comes     *)
(* from a connection that is bound under it, for every number of threads,  *)
(* connections and system ids and every script of requests.                *)
(***************************************************************************)
USE NoDstAssumption

-----------------------------------------------------------------------------
(* Whose a message is                                                      *)

\* Messages submitted on a connection that is bound under the system id s.
Owned(s) == {m \in Sm : s # NoSysId /\ \E d \in Conn : flag[d] = s /\ Submits(d, m)}

RequestsOf(c) == {Script[c][i] : i \in DOMAIN Script[c]}

ReadFor(s) == {x \in ReadItem : flag[x.from] = s /\ x.req \in RequestsOf(x.from)}
OwnedSmi == {x \in Smi : x.sm \in Owned(x.sysid)}
OwnedDlr == {e \in DlrEntry : e.sm \in Owned(e.sysid)}
SessionOut == {p \in Out : p.type \notin {"SubmitSmResp", "Dlr"}}
AccountAck(s) == {p \in Out : p.type # "Dlr" /\ (p.type = "SubmitSmResp" => p.sm \in Owned(s))}
AccountDlr(s) == {p \in Out : p.type = "Dlr" /\ p.sm \in Owned(s)}

ReadInv ==
  /\ \A c \in Conn : /\ todo[c] \in Seq(RequestsOf(c))
                     /\ private_in[c] \in Seq([from : {c}, req : RequestsOf(c)])
  /\ \A s \in SysId : in_queue[s] \in Seq(ReadFor(s))
  /\ \A i \in DOMAIN arriving :
       LET a == arriving[i]
       IN  a.req \in RequestsOf(a.from) /\ (a.queue # NoSysId => flag[a.from] = a.queue)

HasRequest(t) == tpc[t] \in {"process", "store"}

\* A thread has a request of its own connection, or of the same system id.
HandInv ==
  \A t \in Thread :
    tpc[t] \in {"process", "store"} /\ req[t].type = "SubmitSm" =>
      \/ Submits(at[t], req[t].sm)
      \/ req[t].sm \in Owned(flag[at[t]])

ListInv ==
  /\ received_smis \in Seq(OwnedSmi) /\ sending \in Seq(OwnedSmi)
  /\ wait_dlr_list \in Seq(OwnedSmi) /\ reporting \in Seq(OwnedSmi)
  /\ dlr_list \in Seq(OwnedDlr)

OutInv ==
  /\ \A c \in Conn : private_out[c] \in Seq(SessionOut)
  /\ \A s \in SysId : out_A[s] \in Seq(AccountAck(s)) /\ out_B[s] \in Seq(AccountDlr(s))
  /\ \A c \in Conn : written[c] \in Seq(SessionOut \union AccountAck(flag[c])
                                          \union AccountDlr(flag[c]))

Owners == ReadInv /\ HandInv /\ ListInv /\ OutInv

-----------------------------------------------------------------------------
(* Owners, step by step                                                    *)

LEMMA SeqFacts ==
  ASSUME NEW S, NEW q \in Seq(S)
  PROVE  /\ \A x \in S : Append(q, x) \in Seq(S)
         /\ q # << >> => Head(q) \in S /\ Tail(q) \in Seq(S)
         /\ \A T : S \subseteq T => q \in Seq(T)
OBVIOUS

\* As long as no flag changes, what a step leaves alone keeps its owner.
LEMMA SameOwners ==
  ASSUME Owners, UNCHANGED flag
  PROVE  /\ \A s : /\ Owned(s)' = Owned(s) /\ ReadFor(s)' = ReadFor(s)
                   /\ AccountAck(s)' = AccountAck(s) /\ AccountDlr(s)' = AccountDlr(s)
         /\ OwnedSmi' = OwnedSmi /\ OwnedDlr' = OwnedDlr
         /\ UNCHANGED <<todo, arriving, inVars>> => ReadInv'
         /\ UNCHANGED <<tpc, at, req>> => HandInv'
         /\ UNCHANGED dsVars => ListInv'
         /\ UNCHANGED <<outVars, written>> => OutInv'
<1>1. \A s : Owned(s)' = Owned(s)
  BY DEF Owned
<1>2. /\ \A s : /\ ReadFor(s)' = ReadFor(s)
                /\ AccountAck(s)' = AccountAck(s) /\ AccountDlr(s)' = AccountDlr(s)
      /\ OwnedSmi' = OwnedSmi /\ OwnedDlr' = OwnedDlr
  BY <1>1 DEF ReadFor, AccountAck, AccountDlr, OwnedSmi, OwnedDlr
<1>3. UNCHANGED <<todo, arriving, inVars>> => ReadInv'
  BY <1>2 DEF Owners, ReadInv, inVars
<1>4. UNCHANGED <<tpc, at, req>> => HandInv'
  BY <1>1 DEF Owners, HandInv
<1>5. UNCHANGED dsVars => ListInv'
  BY <1>2 DEF Owners, ListInv, dsVars
<1>6. UNCHANGED <<outVars, written>> => OutInv'
  BY <1>2 DEF Owners, OutInv, outVars
<1>. QED
  BY <1>1, <1>2, <1>3, <1>4, <1>5, <1>6

\* What must be shown of the queues that a step changes, if it changes no flag.
LEMMA ReadAfter ==
  ASSUME Owners, UNCHANGED flag,
         \A c \in Conn : \/ todo'[c] = todo[c]
                         \/ todo'[c] \in Seq(RequestsOf(c)),
         \A c \in Conn : \/ private_in'[c] = private_in[c]
                         \/ private_in'[c] \in Seq([from : {c}, req : RequestsOf(c)]),
         \A s \in SysId : in_queue'[s] = in_queue[s] \/ in_queue'[s] \in Seq(ReadFor(s)),
         \/ UNCHANGED arriving
         \/ \A i \in DOMAIN arriving' :
              /\ arriving'[i].req \in RequestsOf(arriving'[i].from)
              /\ arriving'[i].queue # NoSysId => flag[arriving'[i].from] = arriving'[i].queue
  PROVE  ReadInv'
<1>1. \A s : ReadFor(s)' = ReadFor(s)
  BY DEF ReadFor
<1>. QED
  BY <1>1 DEF Owners, ReadInv

LEMMA OutAfter ==
  ASSUME Owners, UNCHANGED flag,
         \A c \in Conn : \/ private_out'[c] = private_out[c]
                         \/ private_out'[c] \in Seq(SessionOut),
         \A s \in SysId : out_A'[s] = out_A[s] \/ out_A'[s] \in Seq(AccountAck(s)),
         \A s \in SysId : out_B'[s] = out_B[s] \/ out_B'[s] \in Seq(AccountDlr(s)),
         \A c \in Conn : \/ written'[c] = written[c]
                         \/ written'[c] \in Seq(SessionOut \union AccountAck(flag[c])
                                                    \union AccountDlr(flag[c]))
  PROVE  OutInv'
<1>1. \A s : AccountAck(s)' = AccountAck(s) /\ AccountDlr(s)' = AccountDlr(s)
  BY DEF AccountAck, AccountDlr, Owned
<1>. QED
  BY <1>1 DEF Owners, OutInv

LEMMA IoThreadOwners ==
  ASSUME TypeInv, Owners, IoThread \/ \E c \in Conn : Elapse(c)
  PROVE  Owners'
<1>. USE DEF TypeInv, TypeOK
<1>1. UNCHANGED <<flag, tpc, at, req, dsVars, out_A, out_B, written>>
  BY DEF IoThread, Accept, Read, Arrive, PeerClosed, Elapse, sessionVars, outVars
<1>2. HandInv' /\ ListInv'
  BY <1>1, SameOwners
<1>3. ASSUME NEW c \in Conn, Accept(c) \/ Elapse(c) PROVE Owners'
  BY <1>1, <1>2, <1>3, SameOwners DEF Accept, Elapse, connVars, Owners
<1>4. ASSUME NEW c \in Conn, Read(c) PROVE Owners'
  <2>1. /\ todo[c] # << >> /\ todo' = [todo EXCEPT ![c] = Tail(@)]
        /\ arriving' = <<[from |-> c, req |-> Head(todo[c]), queue |-> flag[c]]>>
        /\ UNCHANGED <<inVars, outVars>>
    BY <1>4 DEF Read
  <2>2. Head(todo[c]) \in RequestsOf(c) /\ Tail(todo[c]) \in Seq(RequestsOf(c))
    BY <2>1, SeqFacts DEF Owners, ReadInv
  <2>3. \A d \in Conn : todo'[d] \in Seq(RequestsOf(d))
    BY <2>1, <2>2 DEF Owners, ReadInv, ConnTypeOK
  <2>4. \A i \in DOMAIN arriving' :
          arriving'[i] = [from |-> c, req |-> Head(todo[c]), queue |-> flag[c]]
    BY <2>1
  <2>5. ReadInv'
    BY <1>1, <2>1, <2>2, <2>3, <2>4, ReadAfter DEF inVars
  <2>. QED
    BY <1>1, <1>2, <2>1, <2>5, SameOwners DEF Owners
<1>5. ASSUME NEW c \in Conn, PeerClosed(c) PROVE Owners'
  <2>1. /\ UNCHANGED <<todo, arriving, in_queue>>
        /\ \/ UNCHANGED <<private_in, private_out>>
           \/ /\ private_in' = [private_in EXCEPT ![c] = << >>]
              /\ private_out' = [private_out EXCEPT ![c] = << >>]
    BY <1>5 DEF PeerClosed, ClearResource
  <2>2. \A d \in Conn :
          /\ \/ private_in'[d] = private_in[d]
             \/ private_in'[d] \in Seq([from : {d}, req : RequestsOf(d)])
          /\ private_out'[d] = private_out[d] \/ private_out'[d] \in Seq(SessionOut)
    <3>1. ASSUME NEW d \in Conn
          PROVE  << >> \in Seq([from : {d}, req : RequestsOf(d)]) /\ << >> \in Seq(SessionOut)
      OBVIOUS
    <3>2. ASSUME NEW d \in Conn
          PROVE  /\ private_in'[d] \in {private_in[d], << >>}
                 /\ private_out'[d] \in {private_out[d], << >>}
      BY <2>1 DEF QueueTypeOK
    <3>. QED
      BY <3>1, <3>2
  <2>. HIDE DEF TypeInv, TypeOK
  <2>3. ReadInv'
    BY <1>1, <2>1, <2>2, ReadAfter
  <2>4. OutInv'
    BY <1>1, <2>2, OutAfter
  <2>. QED
    BY <1>2, <2>3, <2>4 DEF Owners
<1>6. ASSUME Arrive PROVE Owners'
  <2>. DEFINE Arriving == [from : Conn, req : Request, queue : SysId \union {NoSysId}]
  <2>1. arriving \in Seq(Arriving) /\ arriving # << >>
    BY <1>6 DEF Arrive, ConnTypeOK
  <2>2. arriving[1] \in Arriving /\ 1 \in DOMAIN arriving
    <3>. HIDE DEF Arriving
    <3>. QED
      BY <2>1
  <2>3. PICK c \in Conn, r \in Request, s \in SysId \union {NoSysId} :
          /\ arriving[1].from = c /\ arriving[1].req = r /\ arriving[1].queue = s
          /\ IF s = NoSysId
             THEN /\ private_in' = [private_in EXCEPT ![c] = Append(@, [from |-> c, req |-> r])]
                  /\ UNCHANGED in_queue
             ELSE /\ in_queue' = [in_queue EXCEPT ![s] = Append(@, [from |-> c, req |-> r])]
                  /\ UNCHANGED private_in
    BY <1>6, <2>2 DEF Arrive
  <2>4. r \in RequestsOf(c) /\ (s # NoSysId => flag[c] = s)
    BY <2>2, <2>3 DEF Owners, ReadInv
  <2>5. UNCHANGED <<todo, outVars>> /\ arriving' = << >>
    BY <1>6 DEF Arrive
  <2>6. CASE s = NoSysId
    <3>1. /\ private_in' = [private_in EXCEPT ![c] = Append(@, [from |-> c, req |-> r])]
          /\ UNCHANGED in_queue
      BY <2>3, <2>6
    <3>2. [from |-> c, req |-> r] \in [from : {c}, req : RequestsOf(c)]
      BY <2>4
    <3>3. Append(private_in[c], [from |-> c, req |-> r]) \in Seq([from : {c}, req : RequestsOf(c)])
      BY <3>2, SeqFacts DEF Owners, ReadInv
    <3>4. \A d \in Conn : private_in'[d] \in Seq([from : {d}, req : RequestsOf(d)])
      BY <3>1, <3>3 DEF Owners, ReadInv, QueueTypeOK
    <3>5. ReadInv'
      <4>1. UNCHANGED in_queue
        BY <3>1
      <4>. QED
        BY <1>1, <2>5, <3>4, <4>1, ReadAfter
    <3>. QED
      BY <1>1, <1>2, <2>5, <3>5, SameOwners DEF Owners
  <2>7. CASE s # NoSysId
    <3>1. /\ in_queue' = [in_queue EXCEPT ![s] = Append(@, [from |-> c, req |-> r])]
          /\ UNCHANGED private_in
      BY <2>3, <2>7
    <3>2. [from |-> c, req |-> r] \in ReadFor(s)
      BY <2>4, <2>7 DEF ReadFor, ReadItem
    <3>3. Append(in_queue[s], [from |-> c, req |-> r]) \in Seq(ReadFor(s))
      BY <2>7, <3>2, SeqFacts DEF Owners, ReadInv
    <3>4. \A z \in SysId : in_queue'[z] \in Seq(ReadFor(z))
      BY <3>1, <3>3 DEF Owners, ReadInv, QueueTypeOK
    <3>5. ReadInv'
      BY <1>1, <2>5, <3>1, <3>4, ReadAfter
    <3>. QED
      BY <1>1, <1>2, <2>5, <3>5, SameOwners DEF Owners
  <2>. QED
    BY <2>6, <2>7
<1>. QED
  BY <1>3, <1>4, <1>5, <1>6 DEF IoThread

LEMMA VendorOwners ==
  ASSUME TypeInv, Owners, Vendor(Sender) \/ Vendor(Reporter)
  PROVE  Owners'
<1>1. UNCHANGED <<flag, todo, arriving, inVars, tpc, at, req, outVars, written>>
  BY DEF Vendor, connVars, sessionVars
<1>2. OwnedSmi' = OwnedSmi /\ OwnedDlr' = OwnedDlr
  BY <1>1, SameOwners
<1>3. /\ received_smis \in Seq(OwnedSmi) /\ sending \in Seq(OwnedSmi)
      /\ wait_dlr_list \in Seq(OwnedSmi) /\ reporting \in Seq(OwnedSmi)
      /\ dlr_list \in Seq(OwnedDlr)
  BY DEF Owners, ListInv
<1>4. /\ received_smis' \in Seq(OwnedSmi) /\ sending' \in Seq(OwnedSmi)
      /\ wait_dlr_list' \in Seq(OwnedSmi) /\ reporting' \in Seq(OwnedSmi)
      /\ dlr_list' \in Seq(OwnedDlr)
  <2>1. CASE SenderTakes
    BY <1>3, <2>1 DEF SenderTakes
  <2>2. CASE SenderAdds
    BY <1>3, <2>2 DEF SenderAdds
  <2>3. CASE ReporterTakes
    BY <1>3, <2>3 DEF ReporterTakes, Erased
  <2>4. CASE ReporterAdds
    <3>1. reporting[1] \in OwnedSmi
      BY <1>3, <2>4 DEF ReporterAdds
    <3>2. [sm |-> reporting[1].sm, sysid |-> reporting[1].sysid,
           state |-> "DELIVERIED"] \in OwnedDlr
      BY <3>1 DEF OwnedSmi, OwnedDlr, Smi, DlrEntry, DlrState
    <3>. QED
      BY <1>3, <2>4, <3>2 DEF ReporterAdds
  <2>. QED
    BY <2>1, <2>2, <2>3, <2>4 DEF Vendor, Sender, Reporter
<1>5. ListInv'
  BY <1>2, <1>4 DEF ListInv
<1>. QED
  BY <1>1, <1>5, SameOwners DEF Owners

\* The other threads keep what they have.
LEMMA HandAfter ==
  ASSUME Owners, UNCHANGED flag, NEW t \in Thread,
         \A u \in Thread \ {t} : at'[u] = at[u] /\ tpc'[u] = tpc[u] /\ req'[u] = req[u],
         tpc'[t] \in {"process", "store"} /\ req'[t].type = "SubmitSm" =>
           \/ Submits(at'[t], req'[t].sm)
           \/ req'[t].sm \in Owned(flag[at'[t]])
  PROVE  HandInv'
<1>1. \A s : Owned(s)' = Owned(s)
  BY DEF Owned
<1>. QED
  BY <1>1 DEF Owners, HandInv, Submits

\* What a thread takes or queues for its session is of the session's account.
LEMMA LookingOwners ==
  ASSUME TypeInv, Owners, NEW c \in Conn, SendDeliverySm(c), UNCHANGED flag
  PROVE  /\ dlr_list' \in Seq(OwnedDlr)
         /\ \A s \in SysId : out_B'[s] \in Seq(AccountDlr(s))
<1>. USE DEF TypeInv, TypeOK
<1>1. CASE UNCHANGED <<dlr_list, out_B>>
  BY <1>1 DEF Owners, ListInv, OutInv
<1>2. CASE ~UNCHANGED <<dlr_list, out_B>>
  <2>1. flag[c] \in SysId
    BY <1>2, BoundHasSysId DEF SendDeliverySm
  <2>2. PICK i \in DOMAIN dlr_list :
          /\ dlr_list[i].sysid = flag[c]
          /\ dlr_list' = Marked(i)
          /\ out_B' = [out_B EXCEPT ![flag[c]] =
                         Append(@, [type |-> "Dlr", sm |-> dlr_list[i].sm])]
    BY <1>2 DEF SendDeliverySm, IsNextToPush, ToPush
  <2>3. dlr_list \in Seq(OwnedDlr) /\ dlr_list[i] \in OwnedDlr
    BY DEF Owners, ListInv
  <2>4. [type |-> "Dlr", sm |-> dlr_list[i].sm] \in AccountDlr(flag[c])
    BY <2>2, <2>3 DEF OwnedDlr, AccountDlr, Out, DlrEntry
  <2>5. [dlr_list[i] EXCEPT !.state = "PUSHING"] \in OwnedDlr
    BY <2>3 DEF OwnedDlr, DlrEntry, DlrState
  <2>6. dlr_list' \in Seq(OwnedDlr)
    BY <2>2, <2>3, <2>5 DEF Marked
  <2>7. Append(out_B[flag[c]], [type |-> "Dlr", sm |-> dlr_list[i].sm])
          \in Seq(AccountDlr(flag[c]))
    BY <2>1, <2>4, SeqFacts DEF Owners, OutInv
  <2>8. \A s \in SysId : out_B'[s] \in Seq(AccountDlr(s))
    BY <2>2, <2>7 DEF Owners, OutInv, QueueTypeOK
  <2>. QED
    BY <2>6, <2>8
<1>. QED
  BY <1>1, <1>2

LEMMA LookersOwners ==
  ASSUME TypeInv, Owners, NEW t \in Thread, NeedSend(t) \/ \E c \in Conn : Examine(t, c)
  PROVE  Owners'
<1>1. /\ UNCHANGED <<flag, todo, arriving, inVars, req, private_out, out_A, written,
                     received_smis, wait_dlr_list, sending, reporting>>
      /\ UNCHANGED <<dlr_list, out_B>> \/ \E c \in Conn : SendDeliverySm(c)
      /\ req[t] = NoReq \/ tpc[t] \notin {"process", "store"}
      /\ tpc'[t] \notin {"process", "store"}
      /\ \A u \in Thread \ {t} : at'[u] = at[u] /\ tpc'[u] = tpc[u]
  <2>0. tpc \in [Thread -> ThreadPcs] /\ at \in [Thread -> Conn \union {NoConn}]
    BY DEF TypeInv, TypeOK, ThreadTypeOK
  <2>1. ASSUME NEW c \in Conn, Examine(t, c)
        PROVE  /\ UNCHANGED <<dlr_list, out_B>> \/ SendDeliverySm(c)
               /\ tpc[t] = "idle" /\ tpc'[t] \in {"idle", "need_send"}
               /\ \A u \in Thread \ {t} : at'[u] = at[u] /\ tpc'[u] = tpc[u]
               /\ UNCHANGED <<flag, todo, arriving, inVars, req, private_out, out_A,
                     written, received_smis, wait_dlr_list, sending, reporting>>
    BY <2>0, <2>1 DEF Examine, connVars, sessionVars
  <2>2. ASSUME NeedSend(t)
        PROVE  /\ SendDeliverySm(at[t]) /\ at[t] \in Conn
               /\ tpc[t] \in Looks
               /\ tpc'[t] \in {"send", "receive", "send_again", "check"}
               /\ \A u \in Thread \ {t} : at'[u] = at[u] /\ tpc'[u] = tpc[u]
               /\ UNCHANGED <<flag, todo, arriving, inVars, req, private_out, out_A,
                     written, received_smis, wait_dlr_list, sending, reporting>>
    <3>1. PICK pc : pc = IF SomethingToSend(at[t], out_B')
                         THEN ThenSend[tpc[t]] ELSE ElseGoOn[tpc[t]]
      OBVIOUS
    <3>2. tpc[t] \in Looks /\ tpc' = [tpc EXCEPT ![t] = pc]
      BY <2>2, <3>1 DEF NeedSend
    <3>3. pc \in {"send", "receive", "send_again", "check"}
      BY <3>1, <3>2 DEF Looks, ThenSend, ElseGoOn
    <3>4. at[t] \in Conn
      BY <3>2, HasConn DEF Looks, TypeInv, TypeOK
    <3>. QED
      BY <2>0, <2>2, <3>2, <3>3, <3>4 DEF NeedSend, connVars, sessionVars
  <2>. QED
    BY <2>1, <2>2 DEF Looks
<1>2. /\ dlr_list' \in Seq(OwnedDlr)
      /\ \A s \in SysId : out_B'[s] \in Seq(AccountDlr(s))
  BY <1>1, LookingOwners DEF Owners, ListInv, OutInv
<1>3. ListInv'
  BY <1>1, <1>2, SameOwners DEF Owners, ListInv
<1>4. OutInv'
  BY <1>1, <1>2, OutAfter
<1>5. HandInv'
  BY <1>1, HandAfter
<1>6. ReadInv'
  BY <1>1, SameOwners
<1>. QED
  BY <1>3, <1>4, <1>5, <1>6 DEF Owners

\* What do_send() does, by the queue it takes from.
SendsOwn(c) ==
  /\ private_out[c] # << >> /\ Write(c, Head(private_out[c]))
  /\ private_out' = [private_out EXCEPT ![c] = Tail(@)]
  /\ UNCHANGED <<out_A, out_B>>
SendsA(c) ==
  /\ flag[c] \in SysId /\ out_A[flag[c]] # << >> /\ Write(c, Head(out_A[flag[c]]))
  /\ out_A' = [out_A EXCEPT ![flag[c]] = Tail(out_A[flag[c]])]
  /\ UNCHANGED <<private_out, out_B>>
SendsB(c) ==
  /\ flag[c] \in SysId /\ out_B[flag[c]] # << >> /\ Write(c, Head(out_B[flag[c]]))
  /\ out_B' = [out_B EXCEPT ![flag[c]] = Tail(out_B[flag[c]])]
  /\ UNCHANGED <<private_out, out_A>>

LEMMA SendFacts ==
  ASSUME TypeInv, NEW t \in Thread, Send(t) \/ SendB(t)
  PROVE  /\ at[t] \in Conn
         /\ UNCHANGED <<dsVars, connVars, working, sessionVars, timer, inVars, at, req>>
         /\ ~HasRequest(t) /\ ~HasRequest(t)'
         /\ \A u \in Thread \ {t} : tpc'[u] = tpc[u]
         /\ \/ SendsOwn(at[t]) \/ SendsA(at[t]) \/ SendsB(at[t])
            \/ UNCHANGED <<outVars, written>>
<1>. USE DEF TypeInv, TypeOK
<1>0. tpc \in [Thread -> ThreadPcs]
  BY DEF ThreadTypeOK
<1>. DEFINE Quiet == {"send", "reply", "send_again", "send_B", "reply_B", "send_again_B",
                      "receive", "check"}
<1>1. ASSUME UNCHANGED <<dsVars, connVars, working, sessionVars, timer, inVars, at, req>>,
             NEW pc \in Quiet, tpc' = [tpc EXCEPT ![t] = pc], tpc[t] \in Quiet,
             \/ SendsOwn(at[t]) \/ SendsA(at[t]) \/ SendsB(at[t])
             \/ UNCHANGED <<outVars, written>>
      PROVE  /\ at[t] \in Conn
             /\ UNCHANGED <<dsVars, connVars, working, sessionVars, timer, inVars, at, req>>
             /\ ~HasRequest(t) /\ ~HasRequest(t)'
             /\ \A u \in Thread \ {t} : tpc'[u] = tpc[u]
             /\ \/ SendsOwn(at[t]) \/ SendsA(at[t]) \/ SendsB(at[t])
                \/ UNCHANGED <<outVars, written>>
  BY <1>0, <1>1, HasConn DEF HasRequest
<1>2. CASE Send(t)
  <2>. DEFINE c == at[t]
              A == IF TxAble(state[c]) THEN out_A[flag[c]] ELSE << >>
  <2>1. tpc[t] \in Drains /\ c \in Conn
    BY <1>2, HasConn DEF Send, Drains
  <2>2. A # << >> => flag[c] \in SysId /\ A = out_A[flag[c]]
    BY <2>1, StateFacts, BoundHasSysId
  <2>3. tpc[t] \in Quiet
    BY <2>1 DEF Drains
  <2>4. DrainB[tpc[t]] \in Quiet /\ AfterDrain[tpc[t]] \in Quiet
    BY <2>1 DEF Drains, DrainB, AfterDrain
  <2>5. UNCHANGED <<dsVars, connVars, working, sessionVars, timer, inVars, out_B, at, req>>
    BY <1>2 DEF Send
  <2>6. CASE /\ private_out[c] # << >>
             /\ Write(c, Head(private_out[c]))
             /\ private_out' = [private_out EXCEPT ![c] = Tail(@)]
             /\ UNCHANGED <<out_A, tpc>>
    <3>1. SendsOwn(c) /\ tpc' = [tpc EXCEPT ![t] = tpc[t]]
      BY <1>0, <2>5, <2>6 DEF SendsOwn
    <3>. QED
      BY <1>1, <2>3, <2>5, <3>1
  <2>7. CASE /\ A # << >>
             /\ Write(c, Head(A))
             /\ out_A' = [out_A EXCEPT ![flag[c]] = Tail(A)]
             /\ UNCHANGED <<private_out, tpc>>
    <3>1. SendsA(c) /\ tpc' = [tpc EXCEPT ![t] = tpc[t]]
      BY <1>0, <2>2, <2>5, <2>7 DEF SendsA
    <3>. QED
      BY <1>1, <2>3, <2>5, <3>1
  <2>8. CASE /\ \E pc \in Quiet : tpc' = [tpc EXCEPT ![t] = pc]
             /\ UNCHANGED <<private_out, out_A, written>>
    BY <1>1, <2>3, <2>5, <2>8 DEF outVars
  <2>. QED
    BY <1>2, <2>4, <2>6, <2>7, <2>8 DEF Send
<1>3. CASE SendB(t)
  <2>. DEFINE c == at[t]
  <2>1. PICK d \in Drains :
          /\ tpc[t] = DrainB[d]
          /\ \/ /\ out_B[flag[c]] # << >>
                /\ ThreadAt(t, DrainB[d], d)
                /\ Write(c, Head(out_B[flag[c]]))
                /\ out_B' = [out_B EXCEPT ![flag[c]] = Tail(out_B[flag[c]])]
             \/ /\ ThreadAt(t, DrainB[d], AfterDrain[d])
                /\ UNCHANGED <<out_B, written>>
          /\ UNCHANGED <<dsVars, connVars, working, sessionVars, timer, inVars,
                         private_out, out_A, at, req>>
    BY <1>3 DEF SendB
  <2>2. tpc[t] \in QueueBPcs /\ c \in Conn
    BY <2>1, HasConn DEF Drains, DrainB, QueueBPcs
  <2>3. flag[c] \in SysId
    BY <2>2, StateFacts, BoundHasSysId DEF StillAble
  <2>4. d \in Quiet /\ AfterDrain[d] \in Quiet /\ tpc[t] \in Quiet
    BY <2>1 DEF Drains, DrainB, AfterDrain
  <2>5. \E pc \in Quiet : tpc' = [tpc EXCEPT ![t] = pc]
    BY <2>1, <2>4 DEF ThreadAt
  <2>6. SendsB(c) \/ UNCHANGED <<outVars, written>>
    BY <2>1, <2>3 DEF SendsB, outVars
  <2>. QED
    BY <1>1, <2>1, <2>4, <2>5, <2>6
<1>. QED
  BY <1>2, <1>3

LEMMA WriteOwners ==
  ASSUME TypeInv, Owners, NEW c \in Conn, NEW p, Write(c, p),
         p \in SessionOut \union AccountAck(flag[c]) \union AccountDlr(flag[c])
  PROVE  \A d \in Conn :
           written'[d] \in Seq(SessionOut \union AccountAck(flag[d])
                                 \union AccountDlr(flag[d]))
BY SeqFacts DEF Write, Owners, OutInv, TypeInv, TypeOK, QueueTypeOK

LEMMA SendingOwners ==
  ASSUME TypeInv, Owners, NEW t \in Thread, Send(t) \/ SendB(t)
  PROVE  Owners'
<1>. DEFINE c == at[t]
            Written(d) == SessionOut \union AccountAck(flag[d]) \union AccountDlr(flag[d])
<1>0. /\ c \in Conn /\ UNCHANGED <<flag, todo, arriving, inVars, dsVars, at, req>>
      /\ ~HasRequest(t)' /\ \A u \in Thread \ {t} : tpc'[u] = tpc[u]
  BY SendFacts DEF connVars, sessionVars
<1>1. ReadInv' /\ ListInv'
  BY <1>0, SameOwners
<1>2. HandInv'
  BY <1>0, HandAfter DEF HasRequest
<1>3. /\ private_out \in [Conn -> Seq(Out)]
      /\ out_A \in [SysId -> Seq(Out)] /\ out_B \in [SysId -> Seq(Out)]
  BY DEF TypeInv, TypeOK, QueueTypeOK
<1>4. CASE SendsOwn(c)
  <2>1. /\ Head(private_out[c]) \in SessionOut
        /\ \A d \in Conn : private_out'[d] \in Seq(SessionOut)
    BY <1>0, <1>3, <1>4, SeqFacts DEF SendsOwn, Owners, OutInv
  <2>2. \A d \in Conn : written'[d] \in Seq(Written(d))
    BY <1>0, <1>4, <2>1, WriteOwners DEF SendsOwn
  <2>3. UNCHANGED <<out_A, out_B>>
    BY <1>4 DEF SendsOwn
  <2>. QED
    BY <1>0, <1>1, <1>2, <2>1, <2>2, <2>3, OutAfter DEF Owners
<1>5. CASE SendsA(c)
  <2>1. /\ Head(out_A[flag[c]]) \in AccountAck(flag[c])
        /\ \A s \in SysId : out_A'[s] \in Seq(AccountAck(s))
    BY <1>3, <1>5, SeqFacts DEF SendsA, Owners, OutInv
  <2>2. \A d \in Conn : written'[d] \in Seq(Written(d))
    BY <1>0, <1>5, <2>1, WriteOwners DEF SendsA
  <2>3. UNCHANGED <<private_out, out_B>>
    BY <1>5 DEF SendsA
  <2>. QED
    BY <1>0, <1>1, <1>2, <2>1, <2>2, <2>3, OutAfter DEF Owners
<1>6. CASE SendsB(c)
  <2>1. /\ Head(out_B[flag[c]]) \in AccountDlr(flag[c])
        /\ \A s \in SysId : out_B'[s] \in Seq(AccountDlr(s))
    BY <1>3, <1>6, SeqFacts DEF SendsB, Owners, OutInv
  <2>2. \A d \in Conn : written'[d] \in Seq(Written(d))
    BY <1>0, <1>6, <2>1, WriteOwners DEF SendsB
  <2>3. UNCHANGED <<private_out, out_A>>
    BY <1>6 DEF SendsB
  <2>. QED
    BY <1>0, <1>1, <1>2, <2>1, <2>2, <2>3, OutAfter DEF Owners
<1>7. CASE UNCHANGED <<outVars, written>>
  BY <1>0, <1>1, <1>2, <1>7, SameOwners DEF Owners
<1>. QED
  BY <1>4, <1>5, <1>6, <1>7, SendFacts

\* What get_from_in_queue() does, by the queue it takes from.
TakesOwn(t) ==
  LET c == at[t] IN
  /\ private_in[c] # << >> /\ Head(private_in[c]) \in ReadItem
  /\ tpc'[t] = "process" /\ req'[t] = Head(private_in[c]).req
  /\ private_in' = [private_in EXCEPT ![c] = Tail(@)] /\ UNCHANGED in_queue
TakesShared(t) ==
  LET s == flag[at[t]] IN
  /\ s \in SysId /\ in_queue[s] # << >> /\ Head(in_queue[s]) \in ReadItem
  /\ tpc'[t] = "process" /\ req'[t] = Head(in_queue[s]).req
  /\ in_queue' = [in_queue EXCEPT ![s] = Tail(@)] /\ UNCHANGED private_in

LEMMA ReceiveFacts ==
  ASSUME TypeInv, NEW t \in Thread, Receive(t)
  PROVE  /\ at[t] \in Conn
         /\ UNCHANGED <<dsVars, connVars, working, sessionVars, timer, outVars, at, written>>
         /\ ~HasRequest(t)
         /\ \A u \in Thread \ {t} : tpc'[u] = tpc[u] /\ req'[u] = req[u]
         /\ \/ TakesOwn(t) \/ TakesShared(t)
            \/ ~HasRequest(t)' /\ UNCHANGED inVars
<1>. USE DEF TypeInv, TypeOK
<1>0. /\ tpc \in [Thread -> ThreadPcs] /\ req \in [Thread -> Request \union {NoReq}]
      /\ private_in \in [Conn -> Seq(ReadItem)] /\ in_queue \in [SysId -> Seq(ReadItem)]
      /\ \A c \in Conn : flag[c] \in SysId \union {NoSysId}
  BY DEF ThreadTypeOK, QueueTypeOK, SessionTypeOK
<1>1. /\ at[t] \in Conn /\ ~HasRequest(t)
      /\ UNCHANGED <<dsVars, connVars, working, sessionVars, timer, outVars, at, written>>
  BY HasConn DEF Receive, ThreadAt, HasRequest
<1>2. CASE /\ private_in[at[t]] # << >>
           /\ ThreadAt(t, "receive", "process")
           /\ req' = [req EXCEPT ![t] = Head(private_in[at[t]]).req]
           /\ private_in' = [private_in EXCEPT ![at[t]] = Tail(@)]
           /\ UNCHANGED in_queue
  <2>1. Head(private_in[at[t]]) \in ReadItem
    BY <1>0, <1>1, <1>2
  <2>. QED
    BY <1>0, <1>1, <1>2, <2>1 DEF TakesOwn, ThreadAt
<1>3. CASE /\ flag[at[t]] # NoSysId /\ in_queue[flag[at[t]]] # << >>
           /\ ThreadAt(t, "receive", "process")
           /\ req' = [req EXCEPT ![t] = Head(in_queue[flag[at[t]]]).req]
           /\ in_queue' = [in_queue EXCEPT ![flag[at[t]]] = Tail(@)]
           /\ UNCHANGED private_in
  <2>1. flag[at[t]] \in SysId
    BY <1>0, <1>1, <1>3
  <2>2. Head(in_queue[flag[at[t]]]) \in ReadItem
    BY <1>0, <1>3, <2>1
  <2>. QED
    BY <1>0, <1>1, <1>3, <2>1, <2>2 DEF TakesShared, ThreadAt
<1>4. CASE ThreadAt(t, "receive", "need_send_again") /\ UNCHANGED <<req, inVars>>
  BY <1>0, <1>1, <1>4 DEF ThreadAt, HasRequest
<1>. QED
  BY <1>2, <1>3, <1>4 DEF Receive

LEMMA ReceiveOwners ==
  ASSUME TypeInv, Owners, NEW t \in Thread, Receive(t)
  PROVE  Owners'
<1>. DEFINE c == at[t]
<1>0. /\ c \in Conn /\ UNCHANGED <<flag, todo, arriving, dsVars, at, outVars, written>>
      /\ \A u \in Thread \ {t} : tpc'[u] = tpc[u] /\ req'[u] = req[u]
  BY ReceiveFacts DEF connVars, sessionVars
<1>1. ListInv' /\ OutInv'
  BY <1>0, SameOwners
<1>2. /\ private_in \in [Conn -> Seq(ReadItem)] /\ in_queue \in [SysId -> Seq(ReadItem)]
  BY DEF TypeInv, TypeOK, QueueTypeOK
<1>3. CASE TakesOwn(t)
  <2>1. /\ Head(private_in[c]).req \in RequestsOf(c)
        /\ \A d \in Conn : \/ private_in'[d] = private_in[d]
                           \/ private_in'[d] \in Seq([from : {d}, req : RequestsOf(d)])
    <3>1. private_in[c] \in Seq([from : {c}, req : RequestsOf(c)]) /\ private_in[c] # << >>
      BY <1>0, <1>3 DEF TakesOwn, Owners, ReadInv
    <3>2. /\ Head(private_in[c]) \in [from : {c}, req : RequestsOf(c)]
          /\ Tail(private_in[c]) \in Seq([from : {c}, req : RequestsOf(c)])
      BY <3>1, SeqFacts
    <3>3. private_in' = [private_in EXCEPT ![c] = Tail(@)]
      BY <1>3 DEF TakesOwn
    <3>. QED
      BY <1>2, <3>2, <3>3
  <2>2. req'[t].type = "SubmitSm" => Submits(at'[t], req'[t].sm)
    BY <1>0, <1>3, <2>1 DEF TakesOwn, RequestsOf, Submits
  <2>3. UNCHANGED in_queue
    BY <1>3 DEF TakesOwn
  <2>4. ReadInv'
    BY <1>0, <2>1, <2>3, ReadAfter
  <2>5. HandInv'
    BY <1>0, <2>2, HandAfter
  <2>. QED
    BY <1>1, <2>4, <2>5 DEF Owners
<1>4. CASE TakesShared(t)
  <2>. DEFINE s == flag[c]
  <2>0. s \in SysId /\ in_queue[s] \in Seq(ReadFor(s)) /\ in_queue[s] # << >>
    BY <1>4 DEF TakesShared, Owners, ReadInv
  <2>1. /\ Head(in_queue[s]) \in ReadFor(s)
        /\ \A z \in SysId : in_queue'[z] = in_queue[z] \/ in_queue'[z] \in Seq(ReadFor(z))
    BY <1>2, <1>4, <2>0, SeqFacts DEF TakesShared
  <2>2. req'[t].type = "SubmitSm" => req'[t].sm \in Owned(flag[at'[t]])
    <3>1. PICK x \in ReadItem : x = Head(in_queue[s]) /\ flag[x.from] = s /\ x.req \in RequestsOf(x.from)
      BY <2>1 DEF ReadFor
    <3>2. x.from \in Conn /\ x.req \in Request /\ req'[t] = x.req
      BY <1>4, <3>1 DEF ReadItem, TakesShared
    <3>3. x.req.type = "SubmitSm" => Submits(x.from, x.req.sm) /\ x.req.sm \in Sm
      BY <3>1, <3>2, RequestFacts DEF RequestsOf, Submits
    <3>. QED
      BY <1>0, <2>0, <3>1, <3>2, <3>3, NamesAssumption DEF Owned
  <2>3. UNCHANGED private_in
    BY <1>4 DEF TakesShared
  <2>4. ReadInv'
    BY <1>0, <2>1, <2>3, ReadAfter
  <2>5. HandInv'
    BY <1>0, <2>2, HandAfter
  <2>. QED
    BY <1>1, <2>4, <2>5 DEF Owners
<1>5. CASE ~HasRequest(t)' /\ UNCHANGED inVars
  <2>1. HandInv'
    BY <1>0, <1>5, HandAfter DEF HasRequest
  <2>. QED
    BY <1>0, <1>1, <1>5, <2>1, SameOwners DEF Owners
<1>. QED
  BY <1>3, <1>4, <1>5, ReceiveFacts

LEMMA LeavingOwners ==
  ASSUME TypeInv, Owners, NEW t \in Thread, Check(t) \/ Free(t)
  PROVE  Owners'
<1>. USE DEF TypeInv, TypeOK
<1>0. tpc \in [Thread -> ThreadPcs] /\ at \in [Thread -> Conn \union {NoConn}]
  BY DEF ThreadTypeOK
<1>1. /\ UNCHANGED <<flag, todo, arriving, in_queue, dsVars, req, out_A, out_B, written>>
      /\ ~HasRequest(t)' /\ \A u \in Thread \ {t} : tpc'[u] = tpc[u] /\ at'[u] = at[u]
  BY <1>0 DEF Check, Free, ThreadAt, HasRequest, connVars, sessionVars, outVars, inVars
<1>2. \/ UNCHANGED <<private_in, private_out>>
      \/ \E c \in Conn : /\ private_in' = [private_in EXCEPT ![c] = << >>]
                         /\ private_out' = [private_out EXCEPT ![c] = << >>]
  <2>1. at[t] \in Conn
    BY HasConn DEF Check, Free, ThreadAt
  <2>. QED
    BY <2>1 DEF Check, Free, ClearResource, outVars, inVars
<1>3. \A d \in Conn :
          /\ \/ private_in'[d] = private_in[d]
             \/ private_in'[d] \in Seq([from : {d}, req : RequestsOf(d)])
          /\ private_out'[d] = private_out[d] \/ private_out'[d] \in Seq(SessionOut)
  <2>1. ASSUME NEW d \in Conn
        PROVE  << >> \in Seq([from : {d}, req : RequestsOf(d)]) /\ << >> \in Seq(SessionOut)
    OBVIOUS
  <2>2. ASSUME NEW d \in Conn
        PROVE  /\ private_in'[d] \in {private_in[d], << >>}
               /\ private_out'[d] \in {private_out[d], << >>}
    BY <1>2 DEF QueueTypeOK
  <2>. QED
    BY <2>1, <2>2
<1>. HIDE DEF TypeInv, TypeOK
<1>4. ReadInv'
  BY <1>1, <1>3, ReadAfter
<1>5. OutInv'
  BY <1>1, <1>3, OutAfter
<1>6. HandInv'
  BY <1>1, HandAfter DEF HasRequest
<1>. QED
  BY <1>1, <1>4, <1>5, <1>6, SameOwners DEF Owners

\* What process() does, by what matters of it here.
Answers(c) ==
  \/ \E p \in SessionOut : /\ private_out' = [private_out EXCEPT ![c] = Append(@, p)]
                           /\ UNCHANGED out_A
  \/ \E p \in SessionOut : /\ flag[c] \in SysId /\ UNCHANGED private_out
                           /\ out_A' = [out_A EXCEPT ![flag[c]] = Append(@, p)]
  \/ UNCHANGED <<private_out, out_A>>
Binds(t) ==
  /\ tpc[t] = "process" /\ ~HasRequest(t)'
  /\ flag[at[t]] = NoSysId /\ UNCHANGED dsVars
  /\ \E s \in SysId \union {NoSysId} : flag' = [flag EXCEPT ![at[t]] = s]
  /\ Answers(at[t]) /\ UNCHANGED out_A
Accepts(t) ==
  /\ tpc[t] = "process" /\ tpc'[t] = "store" /\ req'[t] = req[t]
  /\ flag[at[t]] \in SysId /\ req[t].type = "SubmitSm" /\ req[t].sm \in Sm
  /\ out_A' = [out_A EXCEPT ![flag[at[t]]] =
                 Append(@, [type |-> "SubmitSmResp", sm |-> req[t].sm])]
  /\ UNCHANGED <<dsVars, flag, private_out>>
Stores(t) ==
  /\ tpc[t] = "store" /\ ~HasRequest(t)'
  /\ flag[at[t]] \in SysId /\ req[t].type = "SubmitSm" /\ req[t].sm \in Sm
  /\ received_smis' = Append(received_smis, [sm |-> req[t].sm, sysid |-> flag[at[t]]])
  /\ UNCHANGED <<wait_dlr_list, dlr_list, sending, reporting, flag, private_out, out_A>>
Removes(t) ==
  /\ tpc[t] = "process" /\ ~HasRequest(t)' /\ req[t].type = "DeliverSmResp"
  /\ RemoveDlr(req[t].sm)
  /\ UNCHANGED <<received_smis, wait_dlr_list, sending, reporting, flag,
                 private_out, out_A>>
Refuses(t) ==
  /\ tpc[t] = "process" /\ ~HasRequest(t)' /\ Answers(at[t])
  /\ UNCHANGED <<dsVars, flag>>

LEMMA ProcessFacts ==
  ASSUME TypeInv, NEW t \in Thread, Process(t)
  PROVE  /\ at[t] \in Conn /\ HasRequest(t) /\ req[t] \in Request
         /\ UNCHANGED <<at, connVars, inVars, out_B, written>>
         /\ \A u \in Thread \ {t} : tpc'[u] = tpc[u] /\ req'[u] = req[u]
         /\ Binds(t) \/ Accepts(t) \/ Stores(t) \/ Removes(t) \/ Refuses(t)
<1>. USE DEF TypeInv, TypeOK
<1>0. /\ tpc \in [Thread -> ThreadPcs] /\ req \in [Thread -> Request \union {NoReq}]
      /\ flag \in [Conn -> SysId \union {NoSysId}]
  BY DEF ThreadTypeOK, SessionTypeOK
<1>1. /\ HasRequest(t) /\ UNCHANGED <<at, connVars, inVars, out_B, written>>
      /\ \A u \in Thread \ {t} : tpc'[u] = tpc[u] /\ req'[u] = req[u]
  BY <1>0 DEF Process, Processes, ThreadAt, ProcessBadSequence, ProcessInvalid,
     ProcessBind, ProcessSubmitSm, Store, ProcessUnbind, ProcessEnquireLink,
     ProcessQuerySm, ProcessDeliverSmResp, ProcessMalformedResp, processUnchanged,
     HasRequest
<1>2. at[t] \in Conn /\ req[t] \in Request
  BY <1>1, HasConn DEF HasRequest, ThreadTypeOK
<1>3. /\ \A type : Processes(t, type) => tpc[t] = "process" /\ ~HasRequest(t)'
      /\ ThreadAt(t, "process", "reply") => tpc[t] = "process" /\ ~HasRequest(t)'
      /\ ThreadAt(t, "store", "reply") => ~HasRequest(t)'
  BY <1>0 DEF Processes, ThreadAt, HasRequest
<1>4. /\ \A ok \in BOOLEAN : [type |-> "BindResp", ok |-> ok] \in SessionOut
      /\ [type |-> "UnbindResp"] \in SessionOut /\ [type |-> "EnquireLinkResp"] \in SessionOut
      /\ [type |-> "Nack"] \in SessionOut
  BY OutFacts DEF SessionOut
<1>5. /\ \A p \in SessionOut : Answer(at[t], p) /\ UNCHANGED out_A => Answers(at[t])
      /\ Nack(at[t]) => Answers(at[t])
  <2>1. \A p \in SessionOut : Answer(at[t], p) /\ UNCHANGED out_A => Answers(at[t])
    BY DEF Answer, Answers
  <2>2. flag[at[t]] # NoSysId => flag[at[t]] \in SysId
    BY <1>0, <1>2
  <2>. QED
    BY <1>4, <2>1, <2>2 DEF Nack, AnswerShared, Answers
<1>. SUFFICES Binds(t) \/ Accepts(t) \/ Stores(t) \/ Removes(t) \/ Refuses(t)
  BY <1>1, <1>2
<1>6. CASE ProcessBadSequence(t)
  BY <1>3, <1>6 DEF ProcessBadSequence, Refuses, Answers
<1>7. CASE ProcessInvalid(t)
  BY <1>3, <1>5, <1>7 DEF ProcessInvalid, Refuses
<1>8. CASE ProcessBind(t)
  <2>1. req[t].sysid \in SysId /\ req[t].ok \in BOOLEAN
    BY <1>2, <1>8, RequestFacts DEF ProcessBind, Processes
  <2>2. flag[at[t]] = NoSysId
    BY <1>2, <1>8 DEF ProcessBind, Valid, SessionTypeOK, IsBound, TxAble, RxAble
  <2>3. NewFlag(at[t], req[t]) \in SysId \union {NoSysId}
    BY <2>1, <2>2 DEF NewFlag
  <2>4. /\ Answer(at[t], [type |-> "BindResp", ok |-> req[t].ok]) /\ UNCHANGED <<out_A, dsVars>>
        /\ flag' = [flag EXCEPT ![at[t]] = NewFlag(at[t], req[t])] /\ Processes(t, "Bind")
    BY <1>8 DEF ProcessBind
  <2>. QED
    BY <1>3, <1>4, <1>5, <2>1, <2>2, <2>3, <2>4 DEF Binds
<1>9. CASE ProcessSubmitSm(t)
  <2>1. req[t].sm \in Sm /\ flag[at[t]] \in SysId
    BY <1>2, <1>9, RequestFacts, StateFacts, BoundHasSysId
       DEF ProcessSubmitSm, Valid
  <2>. QED
    BY <1>0, <1>9, <2>1 DEF ProcessSubmitSm, ThreadAt, AnswerShared, Accepts, sessionVars
<1>10. CASE Store(t)
  <2>1. req[t].type = "SubmitSm" /\ TxAble(state[at[t]])
    BY <1>10 DEF Store, ThreadAt, StillAble
  <2>2. req[t].sm \in Sm /\ flag[at[t]] \in SysId
    BY <1>2, <2>1, RequestFacts, StateFacts, BoundHasSysId
  <2>. QED
    BY <1>3, <1>10, <2>1, <2>2 DEF Store, SmiReceived, ThreadAt, Stores, sessionVars
<1>11. CASE ProcessUnbind(t)
  BY <1>3, <1>4, <1>5, <1>11 DEF ProcessUnbind, Refuses
<1>12. CASE ProcessEnquireLink(t)
  BY <1>3, <1>4, <1>5, <1>12 DEF ProcessEnquireLink, Refuses, sessionVars
<1>13. CASE ProcessQuerySm(t)
  BY <1>3, <1>13 DEF ProcessQuerySm, Refuses, Answers, sessionVars
<1>14. CASE ProcessDeliverSmResp(t)
  BY <1>3, <1>14 DEF ProcessDeliverSmResp, Processes, Removes, sessionVars
<1>15. CASE ProcessMalformedResp(t)
  BY <1>3, <1>15 DEF ProcessMalformedResp, Refuses, Answers
<1>. QED
  BY <1>6, <1>7, <1>8, <1>9, <1>10, <1>11, <1>12, <1>13, <1>14, <1>15 DEF Process

\* A bind gives a session a system id; what belongs to whom can only grow.
LEMMA BindOwners ==
  ASSUME TypeInv, Owners, NEW t \in Thread, Process(t), Binds(t)
  PROVE  Owners'
<1>. DEFINE c == at[t]
<1>1. /\ c \in Conn /\ flag[c] = NoSysId
      /\ UNCHANGED <<at, connVars, inVars, out_A, out_B, written, dsVars>>
      /\ \A u \in Thread \ {t} : tpc'[u] = tpc[u] /\ req'[u] = req[u]
      /\ ~HasRequest(t)'
  BY ProcessFacts DEF Binds
<1>2. \A d \in Conn : flag'[d] = flag[d] \/ (d = c /\ flag[d] = NoSysId)
  BY DEF Binds, TypeInv, TypeOK, SessionTypeOK
<1>3. \A s \in SysId : flag[c] # s
  BY <1>1, NamesAssumption
<1>4. /\ \A s \in SysId : Owned(s) \subseteq Owned(s)'
      /\ Owned(NoSysId) = {}
  BY <1>2, <1>3 DEF Owned, Submits
<1>5. \A d \in Conn : Owned(flag[d]) \subseteq Owned(flag[d])'
  <2>1. TAKE d \in Conn
  <2>2. CASE flag[d] = NoSysId
    BY <1>4, <2>2
  <2>3. CASE flag[d] # NoSysId
    <3>1. flag[d] \in SysId /\ flag'[d] = flag[d]
      BY <1>2, <2>3 DEF TypeInv, TypeOK, SessionTypeOK
    <3>2. Owned(flag[d])' = {m \in Sm : flag[d] # NoSysId /\ \E e \in Conn : flag'[e] = flag[d] /\ Submits(e, m)}
      BY <3>1 DEF Owned, Submits
    <3>3. Owned(flag[d]) \subseteq {m \in Sm : flag[d] # NoSysId /\ \E e \in Conn : flag'[e] = flag[d] /\ Submits(e, m)}
      BY <1>2, <2>3, <3>1 DEF Owned
    <3>. QED
      BY <3>2, <3>3
  <2>. QED
    BY <2>2, <2>3
<1>6. \A s \in SysId : ReadFor(s) \subseteq ReadFor(s)'
  BY <1>2, <1>3 DEF ReadFor, ReadItem, RequestsOf
<1>7. /\ \A s \in SysId : /\ AccountAck(s) \subseteq AccountAck(s)'
                          /\ AccountDlr(s) \subseteq AccountDlr(s)'
      /\ \A d \in Conn : /\ AccountAck(flag[d]) \subseteq AccountAck(flag[d])'
                         /\ AccountDlr(flag[d]) \subseteq AccountDlr(flag[d])'
      /\ OwnedSmi \subseteq OwnedSmi' /\ OwnedDlr \subseteq OwnedDlr'
  <2>1. \A s \in SysId : /\ AccountAck(s) \subseteq AccountAck(s)'
                         /\ AccountDlr(s) \subseteq AccountDlr(s)'
    BY <1>4 DEF AccountAck, AccountDlr
  <2>2. \A d \in Conn : /\ AccountAck(flag[d]) \subseteq AccountAck(flag[d])'
                         /\ AccountDlr(flag[d]) \subseteq AccountDlr(flag[d])'
    BY <1>5 DEF AccountAck, AccountDlr
  <2>3. OwnedSmi \subseteq OwnedSmi' /\ OwnedDlr \subseteq OwnedDlr'
    BY <1>4 DEF OwnedSmi, OwnedDlr, Smi, DlrEntry
  <2>. QED
    BY <2>1, <2>2, <2>3
<1>8. ReadInv'
  <2>1. \A d \in Conn : /\ todo'[d] \in Seq(RequestsOf(d))
                        /\ private_in'[d] \in Seq([from : {d}, req : RequestsOf(d)])
    BY <1>1 DEF connVars, inVars, Owners, ReadInv
  <2>2. \A s \in SysId : in_queue'[s] \in Seq(ReadFor(s)')
    BY <1>1, <1>6, SeqFacts DEF inVars, Owners, ReadInv
  <2>3. \A i \in DOMAIN arriving : 
          LET a == arriving[i]
          IN  a.req \in RequestsOf(a.from) /\ (a.queue # NoSysId => flag'[a.from] = a.queue)
    <3>1. ASSUME NEW i \in DOMAIN arriving
          PROVE  /\ arriving[i].from \in Conn
                 /\ arriving[i].req \in RequestsOf(arriving[i].from)
                 /\ arriving[i].queue # NoSysId => flag[arriving[i].from] = arriving[i].queue
      <4>. DEFINE Arriving == [from : Conn, req : Request, queue : SysId \union {NoSysId}]
      <4>1. arriving \in Seq(Arriving)
        BY DEF TypeInv, TypeOK, ConnTypeOK
      <4>2. arriving[i] \in Arriving
        <5>. HIDE DEF Arriving
        <5>. QED
          BY <4>1
      <4>3. arriving[i].from \in Conn
        BY <4>2
      <4>. QED
        BY <4>3 DEF Owners, ReadInv
    <3>. QED
      BY <1>2, <3>1
  <2>. QED
    <3>1. arriving' = arriving
      BY <1>1 DEF connVars
    <3>2. \A i \in DOMAIN arriving' :
            LET a == arriving'[i]
            IN  a.req \in RequestsOf(a.from) /\ (a.queue # NoSysId => flag'[a.from] = a.queue)
      BY <2>3, <3>1
    <3>. QED
      BY <2>1, <2>2, <3>2 DEF ReadInv, RequestsOf
<1>9. HandInv'
  <2>1. ASSUME NEW u \in Thread, tpc'[u] \in {"process", "store"}, req'[u].type = "SubmitSm"
        PROVE  Submits(at'[u], req'[u].sm) \/ req'[u].sm \in Owned(flag[at[u]])'
    <3>1. u # t /\ at[u] \in Conn
      BY <1>1, <2>1, HasConn DEF HasRequest, TypeInv, TypeOK
    <3>2. Submits(at[u], req[u].sm) \/ req[u].sm \in Owned(flag[at[u]])
      BY <1>1, <2>1, <3>1 DEF Owners, HandInv
    <3>3. Owned(flag[at[u]]) \subseteq Owned(flag[at[u]])'
      BY <1>1, <1>5, <3>1
    <3>. QED
      BY <1>1, <3>1, <3>2, <3>3
  <2>. QED
    BY <2>1 DEF HandInv, Submits
<1>10. ListInv'
  BY <1>1, <1>7, SeqFacts DEF Owners, ListInv, dsVars
<1>11. OutInv'
  <2>1. \A d \in Conn : private_out'[d] \in Seq(SessionOut)
    <3>1. /\ private_out \in [Conn -> Seq(Out)]
          /\ \A d \in Conn : private_out[d] \in Seq(SessionOut)
      BY DEF Owners, OutInv, TypeInv, TypeOK, QueueTypeOK
    <3>. QED
      <4>1. \/ \E p \in SessionOut : private_out' = [private_out EXCEPT ![c] = Append(@, p)]
            \/ UNCHANGED private_out
        BY DEF Binds, Answers
      <4>. QED
        BY <1>1, <3>1, <4>1, SeqFacts
  <2>2. \A s \in SysId : out_A'[s] \in Seq(AccountAck(s)') /\ out_B'[s] \in Seq(AccountDlr(s)')
    BY <1>1, <1>7, SeqFacts DEF Owners, OutInv
  <2>3. \A d \in Conn : written'[d] \in Seq(SessionOut \union AccountAck(flag[d])'
                                            \union AccountDlr(flag[d])')
    <3>1. TAKE d \in Conn
    <3>2. written[d] \in Seq(SessionOut \union AccountAck(flag[d]) \union AccountDlr(flag[d]))
      BY DEF Owners, OutInv
    <3>3. SessionOut \union AccountAck(flag[d]) \union AccountDlr(flag[d])
            \subseteq SessionOut \union AccountAck(flag[d])' \union AccountDlr(flag[d])'
      BY <1>7
    <3>. QED
      BY <1>1, <3>2, <3>3, SeqFacts
  <2>4. SessionOut' = SessionOut
    BY DEF SessionOut
  <2>. QED
    BY <2>1, <2>2, <2>3, <2>4 DEF OutInv
<1>. QED
  BY <1>8, <1>9, <1>10, <1>11 DEF Owners

LEMMA ProcessOwners ==
  ASSUME TypeInv, Owners, NEW t \in Thread, Process(t)
  PROVE  Owners'
<1>. DEFINE c == at[t]
<1>1. /\ c \in Conn /\ req[t] \in Request
      /\ UNCHANGED <<at, todo, arriving, inVars, out_B, written>>
      /\ \A u \in Thread \ {t} : tpc'[u] = tpc[u] /\ req'[u] = req[u]
  BY ProcessFacts DEF connVars
<1>2. /\ private_out \in [Conn -> Seq(Out)] /\ out_A \in [SysId -> Seq(Out)]
      /\ SessionOut \subseteq AccountAck(flag[c])
  BY DEF TypeInv, TypeOK, QueueTypeOK, SessionOut, AccountAck
<1>3. UNCHANGED flag /\ Answers(c) => OutInv'
  <2>. SUFFICES ASSUME UNCHANGED flag, Answers(c) PROVE OutInv'
    OBVIOUS
  <2>1. /\ \A d \in Conn : private_out'[d] \in Seq(SessionOut)
        /\ \A s \in SysId : out_A'[s] \in Seq(AccountAck(s))
    BY <1>1, <1>2, SeqFacts DEF Answers, Owners, OutInv
  <2>. QED
    BY <1>1, <2>1, OutAfter
<1>4. UNCHANGED flag => ReadInv'
  BY <1>1, SameOwners
<1>5. UNCHANGED flag /\ ~HasRequest(t)' => HandInv'
  BY <1>1, HandAfter DEF HasRequest
\* A message in the thread's hand is of the account of its session.
<1>6. Accepts(t) \/ Stores(t) => req[t].sm \in Owned(flag[c])
  <2>1. Accepts(t) \/ Stores(t) =>
          /\ flag[c] \in SysId /\ req[t].sm \in Sm
          /\ Submits(c, req[t].sm) \/ req[t].sm \in Owned(flag[c])
    BY DEF Accepts, Stores, Owners, HandInv
  <2>. QED
    BY <1>1, <2>1, NamesAssumption DEF Owned
<1>7. CASE Accepts(t)
  <2>1. UNCHANGED <<flag, dsVars, private_out>> /\ flag[c] \in SysId
    BY <1>7 DEF Accepts
  <2>2. [type |-> "SubmitSmResp", sm |-> req[t].sm] \in AccountAck(flag[c])
    BY <1>6, <1>7, OutFacts DEF Accepts, AccountAck
  <2>3. \A s \in SysId : out_A'[s] \in Seq(AccountAck(s))
    BY <1>2, <1>7, <2>2, SeqFacts DEF Accepts, Owners, OutInv
  <2>4. OutInv'
    BY <1>1, <2>1, <2>3, OutAfter
  <2>5. req'[t].sm \in Owned(flag[at'[t]])
    BY <1>1, <1>6, <1>7 DEF Accepts
  <2>6. HandInv'
    BY <1>1, <2>1, <2>5, HandAfter
  <2>. QED
    BY <1>4, <2>1, <2>4, <2>6, SameOwners DEF Owners
<1>8. CASE Stores(t)
  <2>1. /\ ~HasRequest(t)'
        /\ UNCHANGED <<flag, wait_dlr_list, dlr_list, sending, reporting, outVars>>
    BY <1>1, <1>8 DEF Stores, outVars
  <2>2. [sm |-> req[t].sm, sysid |-> flag[c]] \in OwnedSmi
    BY <1>6, <1>8 DEF Stores, OwnedSmi, Smi
  <2>3. received_smis' \in Seq(OwnedSmi)
    BY <1>8, <2>2, SeqFacts DEF Stores, Owners, ListInv
  <2>4. ListInv'
    BY <2>1, <2>3, SameOwners DEF Owners, ListInv
  <2>. QED
    BY <1>1, <1>4, <1>5, <2>1, <2>4, SameOwners DEF Owners
<1>9. CASE Removes(t)
  <2>1. /\ ~HasRequest(t)' /\ RemoveDlr(req[t].sm)
        /\ UNCHANGED <<flag, received_smis, wait_dlr_list, sending, reporting, outVars>>
    BY <1>1, <1>9 DEF Removes, outVars
  <2>2. dlr_list' \in Seq(OwnedDlr)
    <3>1. dlr_list \in Seq(OwnedDlr) /\ DsTypeOK
      BY DEF Owners, ListInv, TypeInv, TypeOK
    <3>. QED
      BY <2>1, <3>1, RemoveDlrFacts, WithoutFacts
  <2>3. ListInv'
    BY <2>1, <2>2, SameOwners DEF Owners, ListInv
  <2>. QED
    BY <1>1, <1>4, <1>5, <2>1, <2>3, SameOwners DEF Owners
<1>10. CASE Refuses(t)
  <2>1. ~HasRequest(t)' /\ Answers(c) /\ UNCHANGED <<flag, dsVars>>
    BY <1>10 DEF Refuses
  <2>. QED
    BY <1>3, <1>4, <1>5, <2>1, SameOwners DEF Owners
<1>. QED
  BY <1>7, <1>8, <1>9, <1>10, BindOwners, ProcessFacts

LEMMA InitOwners == Init => Owners
<1>. SUFFICES ASSUME Init PROVE Owners
  OBVIOUS
<1>0. \A S : << >> \in Seq(S)
  OBVIOUS
<1>1. \A c \in Conn : todo[c] \in Seq(RequestsOf(c))
  <2>1. TAKE c \in Conn
  <2>2. todo[c] = Script[c] /\ Script[c] \in Seq(Request)
    BY ScriptAssumption DEF Init
  <2>. QED
    BY <2>2 DEF RequestsOf
<1>2. ReadInv
  BY <1>0, <1>1 DEF Init, ReadInv
<1>3. HandInv
  BY DEF Init, HandInv
<1>4. ListInv
  BY <1>0 DEF Init, DsInit, ListInv
<1>5. OutInv
  BY <1>0 DEF Init, OutInv
<1>. QED
  BY <1>2, <1>3, <1>4, <1>5 DEF Owners

LEMMA OwnersStep ==
  ASSUME TypeInv, Owners, [Next]_vars
  PROVE  Owners'
<1>1. CASE UNCHANGED vars
  BY <1>1, SameOwners DEF vars, connVars, sessionVars, outVars, Owners
<1>2. ASSUME NEW t \in Thread, TaskThread(t) PROVE Owners'
  BY <1>2, LookersOwners, SendingOwners, ReceiveOwners, ProcessOwners, LeavingOwners
     DEF TaskThread
<1>. QED
  BY <1>1, <1>2, IoThreadOwners, VendorOwners DEF Next

\* What the invariant says of the system ids, and of the client of a message.
LEMMA OwnersApart ==
  ASSUME TypeInv, Owners
  PROVE  AccountsApart
<1>. USE DEF TypeInv, TypeOK
<1>1. ASSUME NEW s \in SysId, NEW i \in DOMAIN in_queue[s]
      PROVE  /\ state[in_queue[s][i].from] # "OPEN"
             /\ flag[in_queue[s][i].from] = s
  <2>1. in_queue[s][i] \in ReadFor(s)
    BY DEF Owners, ReadInv
  <2>2. PICK x \in ReadItem : x = in_queue[s][i] /\ flag[x.from] = s
    BY <2>1 DEF ReadFor
  <2>3. x.from \in Conn /\ s # NoSysId
    BY NamesAssumption DEF ReadItem
  <2>. QED
    BY <2>2, <2>3 DEF SessionTypeOK
<1>2. ASSUME NEW c \in Conn, NEW d \in Conn, NEW m \in Sm, Submits(d, m),
             Has(written[c], "SubmitSmResp", m) \/ Has(written[c], "Dlr", m)
      PROVE  flag[c] = flag[d]
  <2>1. PICK i \in DOMAIN written[c] :
          written[c][i].type \in {"SubmitSmResp", "Dlr"} /\ written[c][i].sm = m
    BY <1>2 DEF Has
  <2>2. written[c][i] \in SessionOut \union AccountAck(flag[c]) \union AccountDlr(flag[c])
    <3>. DEFINE Those == SessionOut \union AccountAck(flag[c]) \union AccountDlr(flag[c])
    <3>1. written[c] \in Seq(Those)
      BY DEF Owners, OutInv
    <3>. HIDE DEF Those
    <3>2. written[c][i] \in Those
      BY <3>1
    <3>. QED
      BY <3>2 DEF Those
  <2>3. m \in Owned(flag[c])
    BY <2>1, <2>2 DEF SessionOut, AccountAck, AccountDlr
  <2>4. PICK e \in Conn : flag[e] = flag[c] /\ Submits(e, m)
    BY <2>3 DEF Owned
  <2>5. e = d
    BY <1>2, <2>4, SubmissionsAssumption DEF Submits
  <2>. QED
    BY <2>4, <2>5
<1>. QED
  BY <1>1, <1>2 DEF AccountsApart

(***************************************************************************)
(* Requests, acks and reports never cross from one system id to another:   *)
(* what the queues that sessions share hold is from connections bound      *)
(* under that system id, and an ack or a report is written to nobody but   *)
(* the sessions of the system id whose client submitted the message.       *)
(***************************************************************************)
THEOREM AccountsApartHolds == Spec => []AccountsApart
<1>1. Init => TypeInv /\ Owners
  BY InitTypeInv, InitOwners
<1>2. TypeInv /\ Owners /\ [Next]_vars => (TypeInv /\ Owners)'
  BY TypeInvStep, OwnersStep
<1>3. TypeInv /\ Owners => AccountsApart
  BY OwnersApart
<1>. QED
  BY <1>1, <1>2, <1>3, PTL DEF Spec

=============================================================================
