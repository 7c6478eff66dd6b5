------------------------- MODULE SmppClientLifecycle -------------------------
(***************************************************************************)
(* The client implements the life cycle of a message; no ack of a message  *)
(* that waits for one goes past set_ack, and no DLR past its message.      *)
(*                                                                         *)
(* The stage of a message is a function of its place, its status and       *)
(* whether it was sent (StageAt).  A step that moves messages from place   *)
(* to place therefore moves them from stage to stage, and the steps of the *)
(* life cycle are read off the moves that SmppClientConservation proves.   *)
(***************************************************************************)
EXTENDS SmppClientConservation

USE NoMsgAssumption

-----------------------------------------------------------------------------
(* Places and stages                                                       *)

\* The stage of a message m at place r.
StageAt(r, m) ==
  CASE r = "unseen" -> "unseen"
    [] r = "to_submit" -> "queued"
    [] r = "hand" -> "taken"
    [] r = "waiting" -> IF m \in sent THEN "in_flight" ELSE "taken"
    [] r \in {"late", "acking"} -> "in_flight"
    [] r = "delivering" -> "delivering"
    [] r \in {"delivered", "fetched"} -> status[m]
    [] r = "lost" -> "lost"

StageKnown ==
  \A m \in Msg, c \in Client, r \in Places :
    m \in At(r, c) => Stage(m) = StageAt(r, m)

\* What is being written is registered and unsent; the rest of what is
\* registered was sent.
LEMMA UnwrittenFacts ==
  ASSUME MessageInv
  PROVE  /\ Unwritten \subseteq Waiting /\ Unwritten \intersect sent = {}
         /\ Waiting \subseteq sent \union Unwritten
<1>1. \A c \in Client : WritingOK(c)
  BY WritingFacts
<1>2. Unwritten = {smi[c] : c \in {d \in Client : Writing(d)}}
  BY DEF Unwritten, Writing
<1>. QED
  BY <1>1, <1>2 DEF Waiting, WritingOK

\* A message is where At says, and in no other list.
LEMMA ListFacts ==
  ASSUME MessageInv, NEW m \in Msg, NEW c \in Client, NEW r \in Places,
         m \in At(r, c)
  PROVE  /\ m \in unseen <=> r = "unseen"
         /\ m \in Range(to_submit) <=> r = "to_submit"
         /\ m \in UNION {Hand(e) : e \in Client} <=> r = "hand"
         /\ m \in Waiting <=> r = "waiting"
         /\ m \in TimedOut <=> r = "late"
         /\ m \in {rsmi[e] : e \in Client} <=> r = "acking"
         /\ m \in delivering <=> r = "delivering"
         /\ m \in Reported <=> r \in {"delivered", "fetched"}
<1>1. ASSUME NEW q \in Places, NEW e \in Client
      PROVE  m \in At(q, e) => q = r
  BY <1>1 DEF MessageInv, OnePlace, NowhereElse, SamePlace
<1>2. /\ m \in unseen <=> m \in At("unseen", c)
      /\ m \in Range(to_submit) <=> m \in At("to_submit", c)
      /\ m \in delivering <=> m \in At("delivering", c)
      /\ m \in delivered <=> m \in At("delivered", c)
      /\ m \in fetched <=> m \in At("fetched", c)
  BY AtFacts
<1>3. /\ m \in UNION {Hand(e) : e \in Client} <=> \E e \in Client : m \in At("hand", e)
      /\ m \in Waiting <=> \E e \in Client : m \in At("waiting", e)
      /\ m \in TimedOut <=> \E e \in Client : m \in At("late", e)
      /\ m \in {rsmi[e] : e \in Client} <=> \E e \in Client : m \in At("acking", e)
  BY AtFacts DEF Waiting, TimedOut
<1>4. Places = {"unseen", "to_submit", "delivering", "delivered", "fetched",
                "lost", "hand", "waiting", "late", "acking"}
  BY DEF Places, SharedPlaces, ClientPlaces
<1>5. /\ m \in unseen <=> r = "unseen"
      /\ m \in Range(to_submit) <=> r = "to_submit"
      /\ m \in delivering <=> r = "delivering"
      /\ m \in delivered <=> r = "delivered"
      /\ m \in fetched <=> r = "fetched"
  BY <1>1, <1>2, <1>4
<1>6. /\ m \in UNION {Hand(e) : e \in Client} <=> r = "hand"
      /\ m \in Waiting <=> r = "waiting"
      /\ m \in TimedOut <=> r = "late"
      /\ m \in {rsmi[e] : e \in Client} <=> r = "acking"
  BY <1>1, <1>3, <1>4
<1>. QED
  BY <1>5, <1>6 DEF Reported

LEMMA StageFacts == MessageInv => StageKnown
<1>. SUFFICES ASSUME MessageInv, NEW m \in Msg, NEW c \in Client,
                     NEW r \in Places, m \in At(r, c)
              PROVE  Stage(m) = StageAt(r, m)
  BY DEF StageKnown
<1>1. /\ m \in unseen <=> r = "unseen"
      /\ m \in Range(to_submit) <=> r = "to_submit"
      /\ m \in UNION {Hand(e) : e \in Client} <=> r = "hand"
      /\ m \in Waiting <=> r = "waiting"
      /\ m \in TimedOut <=> r = "late"
      /\ m \in {rsmi[e] : e \in Client} <=> r = "acking"
      /\ m \in delivering <=> r = "delivering"
      /\ m \in Reported <=> r \in {"delivered", "fetched"}
  BY ListFacts
<1>2. /\ m \in Unwritten => r = "waiting" /\ m \notin sent
      /\ r = "waiting" => m \in sent \/ m \in Unwritten
      /\ r = "hand" => m \notin sent
  <2>1. r = "hand" => m \notin sent
    BY SentFacts DEF UnsentPlaces
  <2>. QED
    BY <1>1, <2>1, UnwrittenFacts
<1>3. /\ m \in Unwritten \union UNION {Hand(e) : e \in Client} /\ m \notin sent
           <=> r = "hand" \/ (r = "waiting" /\ m \notin sent)
      /\ m \in InFlight
           <=> (r = "waiting" /\ m \in sent) \/ r \in {"late", "acking"}
  BY <1>1, <1>2 DEF InFlight
<1>4. r \in {"unseen", "to_submit", "delivering", "delivered", "fetched",
             "lost", "hand", "waiting", "late", "acking"}
  BY DEF Places, SharedPlaces, ClientPlaces
<1>. QED
  BY <1>1, <1>3, <1>4 DEF Stage, StageAt

\* The same after a step.
LEMMA StageFactsNext == MessageInv' => StageKnown'
BY StageFacts, PTL

-----------------------------------------------------------------------------
(* What a step does to the stages                                          *)

stages == [m \in Msg |-> Stage(m)]

\* A message that a step does not move, report or send stays in its stage.
LEMMA StagesOfMove ==
  ASSUME MessageInv, MessageInv', NEW S, NEW P, NEW q, NEW c \in Client,
         Moves(S, P, q, c), UNCHANGED sent,
         UNCHANGED status \/ \E s : Reports(S, s)
  PROVE  /\ \A m \in S : /\ Stage(m)' = StageAt(q, m)'
                         /\ \E p \in P : Stage(m) = StageAt(p, m)
         /\ \A m \in Msg \ S : Stage(m)' = Stage(m)
<1>1. StageKnown /\ StageKnown'
  BY StageFacts, StageFactsNext
<1>2. ASSUME NEW m \in S
      PROVE  /\ Stage(m)' = StageAt(q, m)'
             /\ \E p \in P : Stage(m) = StageAt(p, m)
  <2>1. PICK p \in P : m \in At(p, c) /\ m \in Msg /\ p \in Places /\ q \in Places
    BY DEF Moves
  <2>2. m \in At(q, c)'
    BY <2>1 DEF Moves, Moved
  <2>. QED
    BY <1>1, <2>1, <2>2 DEF StageKnown
<1>3. ASSUME NEW m \in Msg \ S PROVE Stage(m)' = Stage(m)
  <2>1. PICK r \in Places, e \in Client : m \in At(r, e)
    BY DEF MessageInv, OnePlace, Somewhere
  <2>2. m \in At(r, e)'
    BY <2>1 DEF Moves, Moved
  <2>3. Stage(m) = StageAt(r, m) /\ Stage(m)' = StageAt(r, m)'
    BY <1>1, <2>1, <2>2 DEF StageKnown
  <2>4. status'[m] = status[m]
    BY DEF Reports
  <2>5. StageAt(r, m)' = StageAt(r, m)
    BY <2>4 DEF StageAt
  <2>. QED
    BY <2>3, <2>5
<1>. QED
  BY <1>2, <1>3

\* The messages of S all go to the stage to, which may follow theirs.
LEMMA LifecycleMove ==
  ASSUME MessageInv, MessageInv', NEW S, NEW P, NEW q, NEW c \in Client,
         Moves(S, P, q, c), UNCHANGED sent,
         UNCHANGED status \/ \E s : Reports(S, s),
         NEW to \in Lifecycle!Stages, \A m \in S : StageAt(q, m)' = to,
         \A m \in S, p \in P : m \in At(p, c) =>
           /\ StageAt(p, m) \in DOMAIN Lifecycle!Follows
           /\ to \in Lifecycle!Follows[StageAt(p, m)]
  PROVE  Lifecycle!Next
<1>1. S \in SUBSET Msg
  BY DEF Moves
<1>2. StageKnown
  BY StageFacts
<1>3. \A m \in S : /\ Stage(m) \in DOMAIN Lifecycle!Follows
                   /\ to \in Lifecycle!Follows[Stage(m)]
  <2>1. \A m \in S : \E p \in P : m \in At(p, c) /\ p \in Places /\ m \in Msg
    BY DEF Moves
  <2>. QED
    BY <1>2, <2>1 DEF StageKnown
<1>4. \A m \in Msg : Stage(m)' = IF m \in S THEN to ELSE Stage(m)
  BY <1>1, StagesOfMove
<1>5. Lifecycle!Move(S, to)
  BY <1>1, <1>3, <1>4 DEF Lifecycle!Move
<1>. QED
  BY <1>1, <1>5 DEF Lifecycle!Next

\* The messages of S change places within their stage.
LEMMA LifecycleStutter ==
  ASSUME MessageInv, MessageInv', NEW S, NEW P, NEW q, NEW c \in Client,
         Moves(S, P, q, c), UNCHANGED sent, UNCHANGED status,
         \A m \in S, p \in P : m \in At(p, c) => StageAt(p, m) = StageAt(q, m)'
  PROVE  UNCHANGED stages
<1>1. StageKnown
  BY StageFacts
<1>2. \A m \in S : \E p \in P : m \in At(p, c) /\ p \in Places /\ m \in Msg
  BY DEF Moves
<1>3. \A m \in Msg : Stage(m)' = Stage(m)
  <2>1. \A m \in S : Stage(m) = StageAt(q, m)'
    BY <1>1, <1>2 DEF StageKnown
  <2>. QED
    BY <2>1, StagesOfMove
<1>. QED
  BY <1>3 DEF stages

\* Nothing moves.
LEMMA LifecycleQuiet ==
  ASSUME MessageInv, MessageInv', Quiet
  PROVE  UNCHANGED stages
<1>1. \A r \in Places, c \in Client : At(r, c)' = At(r, c)
  BY DEF At, Quiet, placeVars
<1>2. ASSUME NEW m \in Msg PROVE Stage(m)' = Stage(m)
  <2>1. PICK r \in Places, c \in Client : m \in At(r, c)
    BY DEF MessageInv, OnePlace, Somewhere
  <2>2. Stage(m) = StageAt(r, m) /\ Stage(m)' = StageAt(r, m)'
    BY <1>1, <2>1, StageFacts, StageFactsNext DEF StageKnown
  <2>3. StageAt(r, m)' = StageAt(r, m)
    BY DEF StageAt, Quiet
  <2>. QED
    BY <2>2, <2>3
<1>. QED
  BY <1>2 DEF stages

-----------------------------------------------------------------------------
(* The steps                                                               *)

\* The stages of the places that no status or history decides.
LEMMA StageOfPlace ==
  \A m : /\ StageAt("unseen", m) = "unseen"
         /\ StageAt("to_submit", m) = "queued"
         /\ StageAt("hand", m) = "taken"
         /\ m \in sent => StageAt("waiting", m) = "in_flight"
         /\ m \notin sent => StageAt("waiting", m) = "taken"
         /\ StageAt("late", m) = "in_flight"
         /\ StageAt("acking", m) = "in_flight"
         /\ StageAt("delivering", m) = "delivering"
         /\ StageAt("delivered", m) = status[m]
         /\ StageAt("fetched", m) = status[m]
         /\ StageAt("lost", m) = "lost"
BY DEF StageAt

LEMMA StageOfPlaceNext ==
  \A m : /\ StageAt("to_submit", m)' = "queued"
         /\ StageAt("hand", m)' = "taken"
         /\ m \in sent' => StageAt("waiting", m)' = "in_flight"
         /\ m \notin sent' => StageAt("waiting", m)' = "taken"
         /\ StageAt("late", m)' = "in_flight"
         /\ StageAt("acking", m)' = "in_flight"
         /\ StageAt("delivering", m)' = "delivering"
         /\ StageAt("delivered", m)' = status'[m]
         /\ StageAt("fetched", m)' = status'[m]
         /\ StageAt("lost", m)' = "lost"
BY DEF StageAt

LEMMA FollowsFacts ==
  /\ DOMAIN Lifecycle!Follows =
       {"unseen", "queued", "taken", "in_flight", "delivering"}
  /\ Lifecycle!Follows["unseen"] = {"queued"}
  /\ Lifecycle!Follows["queued"] = {"taken"}
  /\ Lifecycle!Follows["taken"] = {"in_flight", "lost"}
  /\ Lifecycle!Follows["in_flight"] =
       {"delivering", "rejected", "submit_timeout", "lost"}
  /\ Lifecycle!Follows["delivering"] = {"dlr", "dlr_timeout"}
  /\ Lifecycle!Stages =
       {"unseen", "queued", "taken", "in_flight", "delivering", "dlr",
        "rejected", "submit_timeout", "dlr_timeout", "lost"}
BY DEF Lifecycle!Follows, Lifecycle!Stages

LEMMA ApplicationLifecycle ==
  ASSUME MessageInv, MessageInv', TypeOK',
         (\E b \in Batch : SubmitSmis(b)) \/ GetStatuses
  PROVE  Lifecycle!Next \/ UNCHANGED stages
<1>1. UNCHANGED sent
  BY DEF SubmitSmis, GetStatuses, history
<1>2. ASSUME NEW b \in Batch, SubmitSmis(b) PROVE Lifecycle!Next
  <2>1. PICK d \in Client, S \in SUBSET Msg :
          Moves(S, {"unseen"}, "to_submit", d) /\ UNCHANGED status
    BY <1>2, SubmitSmisStep
  <2>2. \A m \in S : StageAt("to_submit", m)' = "queued"
    BY StageOfPlaceNext
  <2>3. \A m \in S, p \in {"unseen"} :
          /\ StageAt(p, m) \in DOMAIN Lifecycle!Follows
          /\ "queued" \in Lifecycle!Follows[StageAt(p, m)]
    BY StageOfPlace, FollowsFacts
  <2>. QED
    BY <1>1, <2>1, <2>2, <2>3, LifecycleMove, FollowsFacts
<1>3. CASE GetStatuses
  <2>1. PICK d \in Client, S \in SUBSET Msg :
          Moves(S, {"delivered"}, "fetched", d) /\ UNCHANGED status
    BY <1>3, GetStatusesStep
  <2>2. \A m \in S, p \in {"delivered"} : StageAt(p, m) = StageAt("fetched", m)'
    BY <2>1, StageOfPlace, StageOfPlaceNext
  <2>. QED
    BY <1>1, <2>1, <2>2, LifecycleStutter
<1>. QED
  BY <1>2, <1>3


LEMMA WorkerLifecycle ==
  ASSUME MessageInv, MessageInv', TypeOK', NEW c \in Client, Worker(c),
         ~(WriteSubmit(c) /\ wpc'[c] = "beat")
  PROVE  Lifecycle!Next \/ UNCHANGED stages
<1>1. UNCHANGED sent
  <2>1. wpc \in [Client -> WorkerPcs]
    BY DEF MessageInv, TypeOK, WorkerTypeOK
  <2>. QED
    BY <2>1 DEF Worker, Connect, DropSocket, Bind, BindAcknowledged, GiveUpBinding,
       DlrTimeouts, WaitingTimeouts, AckTimeouts, Fetch, PickNothing,
       EncodingFails, Register, WriteSubmit, Unregister, NoHeartbeat,
       Heartbeat, WorkerDisconnected, WorkerExit, WorkerAt, history
<1>2. CASE \/ Connect(c) \/ Bind(c) \/ BindAcknowledged(c) \/ PickNothing(c)
           \/ NoHeartbeat(c) \/ Heartbeat(c) \/ WorkerDisconnected(c)
           \/ EncodingFails(c) /\ content[c]
           \/ WriteSubmit(c) /\ wpc'[c] # "beat"
  <2>1. Quiet
    BY <1>2, WorkerQuietStep
  <2>. QED
    BY <2>1, LifecycleQuiet
<1>3. CASE GiveUpBinding(c)
  <2>1. PICK S \in SUBSET Msg :
          Moves(S, {"hand"}, "lost", c) /\ UNCHANGED status
    BY <1>3, GiveUpBindingStep
  <2>2. \A m \in S : StageAt("lost", m)' = "lost"
    BY <2>1, StageOfPlaceNext
  <2>3. \A m \in S, p \in {"hand"} :
          /\ StageAt(p, m) \in DOMAIN Lifecycle!Follows
          /\ "lost" \in Lifecycle!Follows[StageAt(p, m)]
    BY StageOfPlace, FollowsFacts
  <2>. QED
    BY <1>1, <2>1, <2>2, <2>3, LifecycleMove, FollowsFacts
<1>4. CASE WorkerExit(c)
  <2>1. PICK S \in SUBSET Msg :
          Moves(S, {"hand"}, "lost", c) /\ UNCHANGED status
    BY <1>4, WorkerExitStep
  <2>2. \A m \in S : StageAt("lost", m)' = "lost"
    BY <2>1, StageOfPlaceNext
  <2>3. \A m \in S, p \in {"hand"} :
          /\ StageAt(p, m) \in DOMAIN Lifecycle!Follows
          /\ "lost" \in Lifecycle!Follows[StageAt(p, m)]
    BY StageOfPlace, FollowsFacts
  <2>. QED
    BY <1>1, <2>1, <2>2, <2>3, LifecycleMove, FollowsFacts
<1>5. CASE DlrTimeouts(c)
  <2>1. PICK S \in SUBSET Msg :
          Moves(S, {"delivering"}, "delivered", c) /\ Reports(S, "dlr_timeout")
    BY <1>5, DlrTimeoutsStep
  <2>2. \A m \in S : StageAt("delivered", m)' = "dlr_timeout"
    BY <2>1, StageOfPlaceNext DEF Reports
  <2>3. \A m \in S, p \in {"delivering"} :
          /\ StageAt(p, m) \in DOMAIN Lifecycle!Follows
          /\ "dlr_timeout" \in Lifecycle!Follows[StageAt(p, m)]
    BY StageOfPlace, FollowsFacts
  <2>. QED
    BY <1>1, <2>1, <2>2, <2>3, LifecycleMove, FollowsFacts
<1>6. CASE WaitingTimeouts(c)
  <2>1. PICK S \in SUBSET Msg :
          Moves(S, {"waiting"}, "late", c) /\ UNCHANGED status
    BY <1>6, WaitingTimeoutsStep
  <2>2. S \subseteq sent
    BY <2>1 DEF Moves, SentPlaces
  <2>3. \A m \in S, p \in {"waiting"} : StageAt(p, m) = StageAt("late", m)'
    BY <1>1, <2>1, <2>2, StageOfPlace, StageOfPlaceNext
  <2>. QED
    BY <1>1, <2>1, <2>3, LifecycleStutter
<1>7. CASE AckTimeouts(c)
  <2>1. PICK S \in SUBSET Msg :
          Moves(S, {"late"}, "delivered", c) /\ Reports(S, "submit_timeout")
    BY <1>7, AckTimeoutsStep
  <2>2. \A m \in S : StageAt("delivered", m)' = "submit_timeout"
    BY <2>1, StageOfPlaceNext DEF Reports
  <2>3. \A m \in S, p \in {"late"} :
          /\ StageAt(p, m) \in DOMAIN Lifecycle!Follows
          /\ "submit_timeout" \in Lifecycle!Follows[StageAt(p, m)]
    BY StageOfPlace, FollowsFacts
  <2>. QED
    BY <1>1, <2>1, <2>2, <2>3, LifecycleMove, FollowsFacts
<1>8. CASE Fetch(c)
  <2>1. PICK S \in SUBSET Msg :
          Moves(S, {"to_submit"}, "hand", c) /\ UNCHANGED status
    BY <1>8, FetchStep
  <2>2. \A m \in S : StageAt("hand", m)' = "taken"
    BY <2>1, StageOfPlaceNext
  <2>3. \A m \in S, p \in {"to_submit"} :
          /\ StageAt(p, m) \in DOMAIN Lifecycle!Follows
          /\ "taken" \in Lifecycle!Follows[StageAt(p, m)]
    BY StageOfPlace, FollowsFacts
  <2>. QED
    BY <1>1, <2>1, <2>2, <2>3, LifecycleMove, FollowsFacts
<1>9. CASE EncodingFails(c) /\ ~content[c]
  <2>1. PICK S \in SUBSET Msg :
          Moves(S, {"hand"}, "lost", c) /\ UNCHANGED status
    BY <1>9, EncodingFailsStep
  <2>2. \A m \in S : StageAt("lost", m)' = "lost"
    BY <2>1, StageOfPlaceNext
  <2>3. \A m \in S, p \in {"hand"} :
          /\ StageAt(p, m) \in DOMAIN Lifecycle!Follows
          /\ "lost" \in Lifecycle!Follows[StageAt(p, m)]
    BY StageOfPlace, FollowsFacts
  <2>. QED
    BY <1>1, <2>1, <2>2, <2>3, LifecycleMove, FollowsFacts
<1>10. CASE Register(c)
  <2>1. PICK S \in SUBSET Msg :
          Moves(S, {"hand"}, "waiting", c) /\ UNCHANGED status
    BY <1>10, RegisterStep
  <2>2. S \intersect sent = {}
    BY <2>1, SentFacts DEF Moves, UnsentPlaces
  <2>3. \A m \in S, p \in {"hand"} : StageAt(p, m) = StageAt("waiting", m)'
    BY <1>1, <2>1, <2>2, StageOfPlace, StageOfPlaceNext
  <2>. QED
    BY <1>1, <2>1, <2>3, LifecycleStutter
<1>11. CASE Unregister(c) /\ content[c]
  <2>1. PICK S \in SUBSET Msg :
          Moves(S, {"waiting"}, "hand", c) /\ UNCHANGED status
    BY <1>11, UnregisterKeptStep
  <2>2. S \intersect sent = {}
    BY <2>1 DEF Moves, UnsentPlaces
  <2>3. \A m \in S, p \in {"waiting"} : StageAt(p, m) = StageAt("hand", m)'
    BY <1>1, <2>1, <2>2, StageOfPlace, StageOfPlaceNext
  <2>. QED
    BY <1>1, <2>1, <2>3, LifecycleStutter
<1>12. CASE Unregister(c) /\ ~content[c]
  <2>1. PICK S \in SUBSET Msg :
          Moves(S, {"waiting"}, "lost", c) /\ UNCHANGED status
    BY <1>12, UnregisterLostStep
  <2>2. \A m \in S : StageAt("lost", m)' = "lost"
    BY <2>1, StageOfPlaceNext
  <2>3. \A m \in S, p \in {"waiting"} :
          /\ StageAt(p, m) \in DOMAIN Lifecycle!Follows
          /\ "lost" \in Lifecycle!Follows[StageAt(p, m)]
    BY StageOfPlace, FollowsFacts
  <2>. QED
    BY <1>1, <2>1, <2>2, <2>3, LifecycleMove, FollowsFacts
<1>. QED
  BY <1>2, <1>3, <1>4, <1>5, <1>6, <1>7, <1>8, <1>9, <1>10, <1>11, <1>12 DEF Worker

LEMMA ReceiverLifecycle ==
  ASSUME MessageInv, MessageInv', TypeOK', NEW c \in Client, Receiver(c)
  PROVE  Lifecycle!Next \/ UNCHANGED stages
<1>1. UNCHANGED sent
  BY DEF Receiver, Listen, ReadResp, ReadShort, ReadTooLong, BindRespReceived,
     GetWaitingAck, GetAckTimeout, Acknowledge, DlrReceived, RequestReceived,
     Respond, UnbindRespReceived, ReceiverDisconnected, history
<1>2. CASE \/ Listen(c) \/ ReadResp(c) \/ ReadShort(c) \/ ReadTooLong(c) \/ BindRespReceived(c)
           \/ RequestReceived(c) \/ Respond(c) \/ UnbindRespReceived(c)
           \/ ReceiverDisconnected(c)
           \/ GetWaitingAck(c) /\ pdu[c].sm \notin waiting_ack[c]
           \/ GetAckTimeout(c) /\ ~FoundLate(c, pdu[c].sm)
           \/ DlrReceived(c) /\ pdu[c].sm \notin delivering
  <2>1. Quiet
    BY <1>2, ReceiverQuietStep
  <2>. QED
    BY <2>1, LifecycleQuiet
<1>3. CASE GetWaitingAck(c) /\ pdu[c].sm \in waiting_ack[c]
  <2>1. PICK S \in SUBSET Msg :
          Moves(S, {"waiting"}, "acking", c) /\ UNCHANGED status
    BY <1>3, GetWaitingAckStep
  <2>2. S \subseteq sent
    BY <2>1 DEF Moves, SentPlaces
  <2>3. \A m \in S, p \in {"waiting"} : StageAt(p, m) = StageAt("acking", m)'
    BY <1>1, <2>1, <2>2, StageOfPlace, StageOfPlaceNext
  <2>. QED
    BY <1>1, <2>1, <2>3, LifecycleStutter
<1>4. CASE GetAckTimeout(c) /\ FoundLate(c, pdu[c].sm)
  <2>1. PICK S \in SUBSET Msg :
          Moves(S, {"late"}, "acking", c) /\ UNCHANGED status
    BY <1>4, GetAckTimeoutStep
  <2>3. \A m \in S, p \in {"late"} : StageAt(p, m) = StageAt("acking", m)'
    BY <1>1, <2>1, StageOfPlace, StageOfPlaceNext
  <2>. QED
    BY <1>1, <2>1, <2>3, LifecycleStutter
<1>5. CASE Acknowledge(c) /\ pdu[c].ok
  <2>1. PICK S \in SUBSET Msg :
          Moves(S, {"acking"}, "delivering", c) /\ UNCHANGED status
    BY <1>5, PositiveAckStep
  <2>2. \A m \in S : StageAt("delivering", m)' = "delivering"
    BY <2>1, StageOfPlaceNext
  <2>3. \A m \in S, p \in {"acking"} :
          /\ StageAt(p, m) \in DOMAIN Lifecycle!Follows
          /\ "delivering" \in Lifecycle!Follows[StageAt(p, m)]
    BY StageOfPlace, FollowsFacts
  <2>. QED
    BY <1>1, <2>1, <2>2, <2>3, LifecycleMove, FollowsFacts
<1>6. CASE Acknowledge(c) /\ ~pdu[c].ok
  <2>1. PICK S \in SUBSET Msg :
          Moves(S, {"acking"}, "delivered", c) /\ Reports(S, "rejected")
    BY <1>6, NegativeAckStep
  <2>2. \A m \in S : StageAt("delivered", m)' = "rejected"
    BY <2>1, StageOfPlaceNext DEF Reports
  <2>3. \A m \in S, p \in {"acking"} :
          /\ StageAt(p, m) \in DOMAIN Lifecycle!Follows
          /\ "rejected" \in Lifecycle!Follows[StageAt(p, m)]
    BY StageOfPlace, FollowsFacts
  <2>. QED
    BY <1>1, <2>1, <2>2, <2>3, LifecycleMove, FollowsFacts
<1>7. CASE DlrReceived(c) /\ pdu[c].sm \in delivering
  <2>1. PICK S \in SUBSET Msg :
          Moves(S, {"delivering"}, "delivered", c) /\ Reports(S, "dlr")
    BY <1>7, DlrStep
  <2>2. \A m \in S : StageAt("delivered", m)' = "dlr"
    BY <2>1, StageOfPlaceNext DEF Reports
  <2>3. \A m \in S, p \in {"delivering"} :
          /\ StageAt(p, m) \in DOMAIN Lifecycle!Follows
          /\ "dlr" \in Lifecycle!Follows[StageAt(p, m)]
    BY StageOfPlace, FollowsFacts
  <2>. QED
    BY <1>1, <2>1, <2>2, <2>3, LifecycleMove, FollowsFacts
<1>. QED
  BY <1>2, <1>3, <1>4, <1>5, <1>6, <1>7 DEF Receiver

LEMMA StopLifecycle ==
  ASSUME MessageInv, MessageInv', TypeOK', NEW c \in Client, Stop(c)
  PROVE  Lifecycle!Next \/ UNCHANGED stages
<1>1. UNCHANGED sent
  BY DEF Stop, StopUnbind, StopDisconnected, StopFinish, StopJoined, history
<1>2. CASE StopUnbind(c) \/ StopDisconnected(c) \/ StopFinish(c)
  <2>1. Quiet
    BY <1>2, StopQuietStep
  <2>. QED
    BY <2>1, LifecycleQuiet
<1>3. CASE StopJoined(c)
  <2>1. PICK S \in SUBSET Msg :
          Moves(S, {"waiting", "late"}, "lost", c) /\ UNCHANGED status
    BY <1>3, StopJoinedStep
  <2>2. \A m \in S : StageAt("lost", m)' = "lost"
    BY <2>1, StageOfPlaceNext
  <2>3. \A m \in S, p \in {"waiting", "late"} :
          /\ StageAt(p, m) \in DOMAIN Lifecycle!Follows
          /\ "lost" \in Lifecycle!Follows[StageAt(p, m)]
    BY StageOfPlace, FollowsFacts
  <2>. QED
    BY <1>1, <2>1, <2>2, <2>3, LifecycleMove, FollowsFacts
<1>. QED
  BY <1>2, <1>3 DEF Stop

\* A complete SubmitSm puts its message, and no other, in flight.
LEMMA WriteLifecycle ==
  ASSUME MessageInv, MessageInv', NEW c \in Client, WriteSubmit(c),
         wpc'[c] = "beat"
  PROVE  Lifecycle!Next
<1>0. wpc \in [Client -> WorkerPcs] /\ content \in [Client -> BOOLEAN]
  BY DEF MessageInv, TypeOK, WorkerTypeOK
<1>1. /\ wpc[c] = "write" /\ wpc' = [wpc EXCEPT ![c] = "beat"]
      /\ content' = [content EXCEPT ![c] = FALSE]
      /\ sent' = sent \union {smi[c]}
      /\ UNCHANGED <<placeVars, status, smi>>
  BY <1>0 DEF WriteSubmit, WorkerAt, ClearContent, placeVars, dsVars, appVars,
     receiverVars, ackVars
<1>2. WritingOK(c) /\ Writing(c)
  BY <1>1, WritingFacts DEF Writing
<1>3. \A e \in Client : Hand(e)' = Hand(e)
  BY <1>0, <1>1 DEF Hand
<1>4. \A r \in Places, e \in Client : At(r, e)' = At(r, e)
  BY <1>1, <1>3 DEF At, placeVars
<1>5. StageKnown /\ StageKnown'
  BY StageFacts, StageFactsNext
<1>6. PICK m \in Msg : m = smi[c]
  BY <1>1 DEF MessageInv, TypeOK, WorkerTypeOK
<1>7. m \in At("waiting", c) /\ "waiting" \in Places /\ m \notin sent /\ m \in sent'
  BY <1>1, <1>2, <1>6, AtFacts DEF WritingOK, Places, ClientPlaces
<1>8. Stage(m) = "taken" /\ Stage(m)' = "in_flight"
  <2>1. Stage(m) = StageAt("waiting", m) /\ Stage(m)' = StageAt("waiting", m)'
    BY <1>4, <1>5, <1>7 DEF StageKnown
  <2>. QED
    BY <1>7, <2>1, StageOfPlace, StageOfPlaceNext
<1>9. ASSUME NEW n \in Msg \ {m} PROVE Stage(n)' = Stage(n)
  <2>1. PICK r \in Places, e \in Client : n \in At(r, e)
    BY DEF MessageInv, OnePlace, Somewhere
  <2>2. Stage(n) = StageAt(r, n) /\ Stage(n)' = StageAt(r, n)'
    BY <1>4, <1>5, <2>1 DEF StageKnown
  <2>3. StageAt(r, n)' = StageAt(r, n)
    BY <1>1, <1>6 DEF StageAt
  <2>. QED
    BY <2>2, <2>3
<1>10. \A n \in Msg : Stage(n)' = IF n \in {m} THEN "in_flight" ELSE Stage(n)
  BY <1>8, <1>9
<1>11. \A n \in {m} : /\ Stage(n) \in DOMAIN Lifecycle!Follows
                      /\ "in_flight" \in Lifecycle!Follows[Stage(n)]
  BY <1>8, FollowsFacts
<1>12. Lifecycle!Move({m}, "in_flight")
  BY <1>10, <1>11 DEF Lifecycle!Move
<1>13. {m} \in SUBSET Msg /\ "in_flight" \in Lifecycle!Stages
  BY FollowsFacts
<1>. QED
  BY <1>12, <1>13 DEF Lifecycle!Next

LEMMA InitLifecycle == Init => Lifecycle!Init
<1>. SUFFICES ASSUME Init PROVE Lifecycle!Init
  OBVIOUS
<1>1. \A m \in Msg : m \in unseen
  BY DEF Init
<1>2. \A m \in Msg : Stage(m) = "unseen"
  <2>1. PICK c \in Client : TRUE
    BY ClientAssumption
  <2>2. StageKnown /\ \A m \in Msg : m \in At("unseen", c)
    BY <1>1, InitMessageInv, StageFacts, AtFacts
  <2>3. "unseen" \in Places
    BY DEF Places, SharedPlaces
  <2>4. \A m \in Msg : Stage(m) = StageAt("unseen", m)
    BY <2>2, <2>3 DEF StageKnown
  <2>. QED
    BY <2>4, StageOfPlace
<1>. QED
  BY <1>2 DEF Lifecycle!Init

LEMMA StepLifecycle ==
  MessageInv /\ MessageInv' /\ [Next]_vars => Lifecycle!Next \/ UNCHANGED stages
<1>. SUFFICES ASSUME MessageInv, MessageInv', [Next]_vars
              PROVE  Lifecycle!Next \/ UNCHANGED stages
  OBVIOUS
<1>0. TypeOK'
  BY DEF MessageInv
<1>1. CASE (\E b \in Batch : SubmitSmis(b)) \/ GetStatuses
  BY <1>0, <1>1, ApplicationLifecycle
<1>2. ASSUME NEW c \in Client, Worker(c) PROVE Lifecycle!Next \/ UNCHANGED stages
  BY <1>0, <1>2, WorkerLifecycle, WriteLifecycle
<1>3. ASSUME NEW c \in Client, Receiver(c) PROVE Lifecycle!Next \/ UNCHANGED stages
  BY <1>0, <1>3, ReceiverLifecycle
<1>4. ASSUME NEW c \in Client, Stop(c) PROVE Lifecycle!Next \/ UNCHANGED stages
  BY <1>0, <1>4, StopLifecycle
<1>5. ASSUME NEW c \in Client, Environment(c) PROVE UNCHANGED stages
  BY <1>0, <1>5, EnvironmentQuietStep, LifecycleQuiet
<1>6. CASE (\E m \in Msg : Tick(m)) \/ UNCHANGED vars
  BY <1>0, <1>6, ClockStep, LifecycleQuiet
<1>. QED
  BY <1>1, <1>2, <1>3, <1>4, <1>5, <1>6 DEF Next

\* Refinement: for any number of clients, messages and faults, every step of
\* the threads, the lists, the connections and the server is a step of the
\* life cycle or leaves every message in its stage.
THEOREM LifecycleImplemented == Spec => ImplementsLifecycle
<1>1. Init => Lifecycle!Init
  BY InitLifecycle
<1>2. MessageInv /\ MessageInv' /\ [Next]_vars => [Lifecycle!Next]_stages
  BY StepLifecycle
<1>. QED
  BY <1>1, <1>2, MessageInvariant, PTL
     DEF Spec, ImplementsLifecycle, Lifecycle!Spec, stages

-----------------------------------------------------------------------------
(* Answers to come                                                         *)

\* The messages that the PDUs of one type in a sequence are about.
About(q, type) == {q[i].sm : i \in {j \in DOMAIN q : q[j].type = type}}
Once(q, type) ==
  \A i, j \in DOMAIN q :
    q[i].type = type /\ q[j].type = type /\ q[i].sm = q[j].sm => i = j

\* A SubmitSm to be answered, an answer in flight, an answer in the
\* receiver's hands: out, in and hand.
Messages(out, in, hand) ==
  About(out, "SubmitSm") \union About(in, "SubmitSmResp") \union hand
Apart(out, in, hand) ==
  /\ Once(out, "SubmitSm") /\ Once(in, "SubmitSmResp")
  /\ About(out, "SubmitSm") \intersect About(in, "SubmitSmResp") = {}
  /\ hand \intersect About(out, "SubmitSm") = {}
  /\ hand \intersect About(in, "SubmitSmResp") = {}

LEMMA AboutNone ==
  \A type : About(<< >>, type) = {} /\ Once(<< >>, type)
BY DEF About, Once

LEMMA AboutAppend ==
  ASSUME NEW q \in Seq(Pdu), NEW p \in Pdu, NEW type
  PROVE  /\ p.type # type => /\ About(Append(q, p), type) = About(q, type)
                             /\ Once(q, type) => Once(Append(q, p), type)
         /\ About(Append(q, p), type) \subseteq About(q, type) \union {p.sm}
         /\ Once(q, type) /\ p.sm \notin About(q, type) => Once(Append(q, p), type)
<1>. DEFINE r == Append(q, p)
<1>1. /\ DOMAIN q = 1..Len(q) /\ DOMAIN r = 1..(Len(q) + 1) /\ Len(q) \in Nat
      /\ r[Len(q) + 1] = p /\ \A i \in 1..Len(q) : r[i] = q[i]
  OBVIOUS
<1>. HIDE DEF r
<1>2. \A i \in DOMAIN r : (i \in DOMAIN q /\ r[i] = q[i]) \/ (i = Len(q) + 1 /\ r[i] = p)
  BY <1>1
<1>3. \A i \in DOMAIN q : i \in DOMAIN r /\ r[i] = q[i]
  BY <1>1
<1>4. About(q, type) \subseteq About(r, type)
  BY <1>3 DEF About
<1>5. About(r, type) \subseteq About(q, type) \union (IF p.type = type THEN {p.sm} ELSE {})
  BY <1>2 DEF About
<1>6. ASSUME Once(q, type), p.type # type \/ p.sm \notin About(q, type)
      PROVE  Once(r, type)
  BY <1>2, <1>6 DEF Once, About
<1>. QED
  BY <1>4, <1>5, <1>6 DEF r

LEMMA AboutTail ==
  ASSUME NEW q \in Seq(Pdu), q # << >>, NEW type
  PROVE  /\ About(Tail(q), type) \subseteq About(q, type)
         /\ Head(q).type = type => Head(q).sm \in About(q, type)
         /\ Once(q, type) =>
              /\ Once(Tail(q), type)
              /\ Head(q).type = type => Head(q).sm \notin About(Tail(q), type)
<1>. DEFINE r == Tail(q)
<1>1. /\ DOMAIN q = 1..Len(q) /\ Len(q) \in Nat \ {0} /\ DOMAIN r = 1..(Len(q) - 1)
      /\ \A i \in 1..(Len(q) - 1) : r[i] = q[i + 1]
      /\ Head(q) = q[1]
  OBVIOUS
<1>. HIDE DEF r
<1>2. \A i \in DOMAIN r : /\ i + 1 \in DOMAIN q /\ r[i] = q[i + 1] /\ i + 1 # 1
                          /\ \A j \in DOMAIN r : i + 1 = j + 1 => i = j
  BY <1>1
<1>3. 1 \in DOMAIN q /\ Head(q) = q[1]
  BY <1>1
<1>4. About(r, type) \subseteq About(q, type)
  BY <1>2 DEF About
<1>5. Head(q).type = type => Head(q).sm \in About(q, type)
  BY <1>3 DEF About
<1>6. ASSUME Once(q, type)
      PROVE  /\ Once(r, type)
             /\ Head(q).type = type => Head(q).sm \notin About(r, type)
  <2>1. Once(r, type)
    <3>. SUFFICES ASSUME NEW i \in DOMAIN r, NEW j \in DOMAIN r,
                         r[i].type = type, r[j].type = type, r[i].sm = r[j].sm
                  PROVE  i = j
      BY DEF Once
    <3>1. i + 1 = j + 1
      BY <1>2, <1>6 DEF Once
    <3>. QED
      BY <1>2, <3>1
  <2>2. ASSUME Head(q).type = type, NEW i \in DOMAIN r, r[i].type = type
        PROVE  r[i].sm # Head(q).sm
    BY <1>2, <1>3, <1>6, <2>2 DEF Once
  <2>. QED
    BY <2>1, <2>2 DEF About
<1>. QED
  BY <1>4, <1>5, <1>6 DEF r

\* Connections are dropped, answers are consumed.
LEMMA ApartDrop ==
  ASSUME NEW out, NEW in, NEW hand, Apart(out, in, hand),
         NEW out2, NEW in2, NEW hand2, out2 \in {out, << >>},
         in2 \in {in, << >>}, hand2 \subseteq hand
  PROVE  /\ Apart(out2, in2, hand2)
         /\ Messages(out2, in2, hand2) \subseteq Messages(out, in, hand)
<1>1. /\ About(out2, "SubmitSm") \subseteq About(out, "SubmitSm")
      /\ About(in2, "SubmitSmResp") \subseteq About(in, "SubmitSmResp")
      /\ Once(out2, "SubmitSm") /\ Once(in2, "SubmitSmResp")
  BY AboutNone DEF Apart
<1>. QED
  BY <1>1 DEF Apart, Messages

\* The receiver takes the first PDU.
LEMMA ApartRead ==
  ASSUME NEW out, NEW in \in Seq(Pdu), NEW hand, Apart(out, in, hand),
         in # << >>, NEW hand2,
         hand2 = IF Head(in).type = "SubmitSmResp" THEN {Head(in).sm} ELSE {}
  PROVE  /\ Apart(out, Tail(in), hand2)
         /\ Messages(out, Tail(in), hand2) \subseteq Messages(out, in, hand)
<1>1. /\ About(Tail(in), "SubmitSmResp") \subseteq About(in, "SubmitSmResp")
      /\ Once(Tail(in), "SubmitSmResp")
      /\ hand2 \subseteq About(in, "SubmitSmResp")
      /\ hand2 \intersect About(Tail(in), "SubmitSmResp") = {}
  BY AboutTail DEF Apart
<1>. QED
  BY <1>1 DEF Apart, Messages

\* A PDU goes out that is no SubmitSm, or one about a new message.
LEMMA ApartSend ==
  ASSUME NEW out \in Seq(Pdu), NEW in, NEW hand, Apart(out, in, hand),
         NEW p \in Pdu,
         p.type # "SubmitSm" \/ p.sm \notin Messages(out, in, hand)
  PROVE  /\ Apart(Append(out, p), in, hand)
         /\ Messages(Append(out, p), in, hand)
              \subseteq Messages(out, in, hand) \union
                        (IF p.type = "SubmitSm" THEN {p.sm} ELSE {})
<1>1. CASE p.type # "SubmitSm"
  BY <1>1, AboutAppend DEF Apart, Messages
<1>2. CASE p.type = "SubmitSm" /\ p.sm \notin Messages(out, in, hand)
  <2>1. /\ About(Append(out, p), "SubmitSm") \subseteq About(out, "SubmitSm") \union {p.sm}
        /\ Once(Append(out, p), "SubmitSm")
    BY <1>2, AboutAppend DEF Apart, Messages
  <2>. QED
    BY <1>2, <2>1 DEF Apart, Messages
<1>. QED
  BY <1>1, <1>2

\* The server gives an answer or a request of its own.
LEMMA ApartGive ==
  ASSUME NEW out, NEW in \in Seq(Pdu), NEW hand, Apart(out, in, hand),
         NEW p \in Pdu,
         p.type # "SubmitSmResp" \/ p.sm \notin Messages(out, in, hand)
  PROVE  /\ Apart(out, Append(in, p), hand)
         /\ Messages(out, Append(in, p), hand)
              \subseteq Messages(out, in, hand) \union
                        (IF p.type = "SubmitSmResp" THEN {p.sm} ELSE {})
<1>1. CASE p.type # "SubmitSmResp"
  BY <1>1, AboutAppend DEF Apart, Messages
<1>2. CASE p.type = "SubmitSmResp" /\ p.sm \notin Messages(out, in, hand)
  <2>1. /\ About(Append(in, p), "SubmitSmResp") \subseteq About(in, "SubmitSmResp") \union {p.sm}
        /\ Once(Append(in, p), "SubmitSmResp")
    BY <1>2, AboutAppend DEF Apart, Messages
  <2>. QED
    BY <1>2, <2>1 DEF Apart, Messages
<1>. QED
  BY <1>1, <1>2

\* The server takes the first PDU: what it was about is free for the answer.
LEMMA ApartTake ==
  ASSUME NEW out \in Seq(Pdu), NEW in, NEW hand, Apart(out, in, hand),
         out # << >>
  PROVE  /\ Apart(Tail(out), in, hand)
         /\ Messages(Tail(out), in, hand) \subseteq Messages(out, in, hand)
         /\ Head(out).type = "SubmitSm" =>
              /\ Head(out).sm \in Messages(out, in, hand)
              /\ Head(out).sm \notin Messages(Tail(out), in, hand)
<1>1. /\ About(Tail(out), "SubmitSm") \subseteq About(out, "SubmitSm")
      /\ Once(Tail(out), "SubmitSm")
      /\ Head(out).type = "SubmitSm" =>
           /\ Head(out).sm \in About(out, "SubmitSm")
           /\ Head(out).sm \notin About(Tail(out), "SubmitSm")
  BY AboutTail DEF Apart
<1>. QED
  BY <1>1 DEF Apart, Messages

-----------------------------------------------------------------------------
(* The inductive invariant of the answers                                  *)

InHand(c) ==
  IF rpc[c] \in {"process", "late_ack"} /\ pdu[c].type = "SubmitSmResp"
  THEN {pdu[c].sm} ELSE {}

Underway(c) == Messages(c2s[c], s2c[c], InHand(c))

\* Of all PDUs of a connection only one is about to acknowledge a message.
OneAnswer(c) == Apart(c2s[c], s2c[c], InHand(c))

Registered(c) ==
  \A m \in Underway(c) :
    m \in waiting_ack[c] \union ack_timeout[c] \/ status[m] = "submit_timeout"

\* set_ack has looked into the first list and did not find the message; it
\* is not put there any more.
SecondLook(c) ==
  rpc[c] = "late_ack" =>
    pdu[c].type = "SubmitSmResp" /\ pdu[c].sm \notin waiting_ack[c]

AnswerInv ==
  /\ MessageInv
  /\ \A c \in Client : OneAnswer(c) /\ Registered(c) /\ SecondLook(c)

LEMMA UnderwayWasSent ==
  ASSUME MessageInv, NEW c \in Client
  PROVE  Underway(c) \subseteq sent
<1>1. /\ \A i \in DOMAIN c2s[c] : AnswersSent(c2s[c][i])
      /\ \A i \in DOMAIN s2c[c] : AnswersSent(s2c[c][i])
      /\ AnswersSent(pdu[c])
  BY DEF MessageInv, AnswersWereSent
<1>. QED
  BY <1>1 DEF Underway, Messages, About, InHand, AnswersSent

LEMMA SeqFacts ==
  ASSUME MessageInv, NEW c \in Client
  PROVE  c2s[c] \in Seq(Pdu) /\ s2c[c] \in Seq(Pdu)
BY DEF MessageInv, TypeOK, LinkTypeOK

\* How the PDUs about the messages of a client change: at most one message
\* is new, and only when a SubmitSm is written.
Fewer(c) == OneAnswer(c)' /\ Underway(c)' \subseteq Underway(c)

LEMMA DropFewer ==
  ASSUME NEW c \in Client, OneAnswer(c), InHand(c)' \subseteq InHand(c),
         c2s'[c] \in {c2s[c], << >>}, s2c'[c] \in {s2c[c], << >>}
  PROVE  Fewer(c)
<1>1. /\ Apart(c2s'[c], s2c'[c], InHand(c)')
      /\ Messages(c2s'[c], s2c'[c], InHand(c)')
           \subseteq Messages(c2s[c], s2c[c], InHand(c))
  BY ApartDrop DEF OneAnswer
<1>. QED
  BY <1>1 DEF Fewer, OneAnswer, Underway

LEMMA SendFewer ==
  ASSUME NEW c \in Client, MessageInv, OneAnswer(c), InHand(c)' = InHand(c),
         NEW p \in Pdu, p.type # "SubmitSm",
         Sends(c, p), s2c'[c] = s2c[c]
  PROVE  Fewer(c)
<1>1. c2s'[c] = c2s[c] \/ c2s'[c] = Append(c2s[c], p)
  BY DEF Sends, MessageInv, TypeOK, LinkTypeOK
<1>2. CASE c2s'[c] = c2s[c]
  BY <1>2, DropFewer
<1>3. CASE c2s'[c] = Append(c2s[c], p)
  <2>1. /\ Apart(Append(c2s[c], p), s2c[c], InHand(c))
        /\ Messages(Append(c2s[c], p), s2c[c], InHand(c))
             \subseteq Messages(c2s[c], s2c[c], InHand(c))
    BY SeqFacts, ApartSend DEF OneAnswer
  <2>. QED
    BY <1>3, <2>1 DEF Fewer, OneAnswer, Underway
<1>. QED
  BY <1>1, <1>2, <1>3

LEMMA SilentFewer ==
  ASSUME NEW e \in Client, OneAnswer(e), c2s'[e] = c2s[e], s2c'[e] = s2c[e],
         rpc'[e] = rpc[e], pdu'[e] = pdu[e]
  PROVE  Fewer(e)
<1>1. InHand(e)' = InHand(e)
  BY DEF InHand
<1>. QED
  BY <1>1, DropFewer

\* The links of the clients but c stay as they are.
LEMMA CloseOthers ==
  ASSUME MessageInv, NEW c \in Client, CloseSocket(c) \/ DropSocket(c)
  PROVE  /\ c2s'[c] \in {c2s[c], << >>} /\ s2c'[c] \in {s2c[c], << >>}
         /\ \A e \in Client \ {c} : c2s'[e] = c2s[e] /\ s2c'[e] = s2c[e]
         /\ DropSocket(c) => c2s'[c] = << >> /\ s2c'[c] = << >>
<1>1. c2s \in [Client -> Seq(Pdu)] /\ s2c \in [Client -> Seq(Pdu)]
  BY DEF MessageInv, TypeOK, LinkTypeOK
<1>2. \/ UNCHANGED <<c2s, s2c>> /\ ~DropSocket(c)
      \/ UNCHANGED <<c2s, s2c>>
      \/ /\ c2s' = [c2s EXCEPT ![c] = << >>]
         /\ s2c' = [s2c EXCEPT ![c] = << >>]
  BY DEF CloseSocket, DropSocket, linkVars
<1>3. DropSocket(c) => /\ c2s' = [c2s EXCEPT ![c] = << >>]
                       /\ s2c' = [s2c EXCEPT ![c] = << >>]
  BY DEF DropSocket
<1>. QED
  BY <1>1, <1>2, <1>3

-----------------------------------------------------------------------------
(* The PDUs of each step                                                   *)

\* The connection of c is dropped or left alone, the others are left alone.
Cut(c) ==
  /\ c2s'[c] \in {c2s[c], << >>} /\ s2c'[c] \in {s2c[c], << >>}
  /\ \A e \in Client \ {c} : c2s'[e] = c2s[e] /\ s2c'[e] = s2c[e]

LEMMA CutFacts ==
  ASSUME MessageInv, NEW c \in Client,
         \/ UNCHANGED <<c2s, s2c>>
         \/ CloseSocket(c) \/ DropSocket(c)
         \/ c2s' = [c2s EXCEPT ![c] = << >>] /\ s2c' = [s2c EXCEPT ![c] = << >>]
  PROVE  Cut(c)
<1>1. c2s \in [Client -> Seq(Pdu)] /\ s2c \in [Client -> Seq(Pdu)]
  BY DEF MessageInv, TypeOK, LinkTypeOK
<1>. QED
  BY <1>1, CloseOthers DEF Cut

\* What a thread sends but the worker's SubmitSm: a bind or an unbind.
SendsOne(c) ==
  /\ \E p \in Pdu : p.type \in {"Bind", "Unbind"} /\ Sends(c, p)
  /\ UNCHANGED s2c /\ \A e \in Client \ {c} : c2s'[e] = c2s[e]

LEMMA WorkerLinks ==
  ASSUME MessageInv, NEW c \in Client, Worker(c), ~(WriteSubmit(c) /\ wpc'[c] = "beat")
  PROVE  /\ UNCHANGED <<rpc, pdu, accepted>>
         /\ Cut(c) \/ SendsOne(c)
<1>0. wpc \in [Client -> WorkerPcs] /\ c2s \in [Client -> Seq(Pdu)]
  BY DEF MessageInv, TypeOK, WorkerTypeOK, LinkTypeOK
<1>1. UNCHANGED <<rpc, pdu, accepted>>
  BY DEF Worker, Connect, Bind, BindAcknowledged, GiveUpBinding, DlrTimeouts,
     WaitingTimeouts, AckTimeouts, Fetch, PickNothing, EncodingFails, Register,
     WriteSubmit, Unregister, NoHeartbeat, Heartbeat, WorkerDisconnected,
     WorkerExit, receiverVars, serverVars
<1>2. \/ UNCHANGED <<c2s, s2c>>
      \/ CloseSocket(c) \/ DropSocket(c)
      \/ c2s' = [c2s EXCEPT ![c] = << >>] /\ s2c' = [s2c EXCEPT ![c] = << >>]
      \/ Sends(c, Plain("Bind")) /\ UNCHANGED s2c
  <2>1. WriteSubmit(c) => UNCHANGED <<c2s, s2c>>
    BY <1>0 DEF WriteSubmit, WorkerAt
  <2>. QED
    BY <2>1 DEF Worker, Connect, Bind, BindAcknowledged, GiveUpBinding,
       DlrTimeouts, WaitingTimeouts, AckTimeouts, Fetch, PickNothing,
       EncodingFails, Register, Unregister, NoHeartbeat, Heartbeat,
       WorkerDisconnected, WorkerExit, linkVars
<1>3. ASSUME Sends(c, Plain("Bind")), UNCHANGED s2c PROVE SendsOne(c)
  <2>1. Plain("Bind") \in Pdu /\ Plain("Bind").type = "Bind"
    BY PduFacts DEF Plain, PlainTypes
  <2>. QED
    BY <1>0, <1>3, <2>1 DEF SendsOne, Sends
<1>. QED
  BY <1>1, <1>2, <1>3, CutFacts

LEMMA StopLinks ==
  ASSUME MessageInv, NEW c \in Client, Stop(c)
  PROVE  /\ UNCHANGED <<rpc, pdu, accepted>>
         /\ Cut(c) \/ SendsOne(c)
<1>0. c2s \in [Client -> Seq(Pdu)]
  BY DEF MessageInv, TypeOK, LinkTypeOK
<1>1. UNCHANGED <<rpc, pdu, accepted>>
  BY DEF Stop, StopUnbind, StopDisconnected, StopFinish, StopJoined, receiverVars,
     serverVars
<1>2. \/ UNCHANGED <<c2s, s2c>>
      \/ CloseSocket(c) \/ DropSocket(c)
      \/ Sends(c, Plain("Unbind")) /\ UNCHANGED s2c
  BY DEF Stop, StopUnbind, StopDisconnected, StopFinish, StopJoined, linkVars
<1>3. ASSUME Sends(c, Plain("Unbind")), UNCHANGED s2c PROVE SendsOne(c)
  <2>1. Plain("Unbind") \in Pdu /\ Plain("Unbind").type = "Unbind"
    BY PduFacts DEF Plain, PlainTypes
  <2>. QED
    BY <1>0, <1>3, <2>1 DEF SendsOne, Sends
<1>. QED
  BY <1>1, <1>2, <1>3, CutFacts

\* The receiver takes the first PDU, whole or not, or takes none.
Takes1st(c) ==
  /\ s2c[c] # << >> /\ s2c'[c] = Tail(s2c[c]) /\ c2s'[c] = c2s[c]
  /\ \A e \in Client \ {c} : c2s'[e] = c2s[e] /\ s2c'[e] = s2c[e]
  /\ \/ rpc'[c] = "process" /\ pdu'[c] = Head(s2c[c])
     \/ rpc'[c] = "idle" /\ pdu'[c] = pdu[c]

LEMMA ReceiverLinks ==
  ASSUME MessageInv, NEW c \in Client, Receiver(c)
  PROVE  /\ accepted' = accepted
         /\ \A e \in Client \ {c} : rpc'[e] = rpc[e] /\ pdu'[e] = pdu[e]
         /\ \/ Takes1st(c)
            \/ Cut(c) /\ pdu'[c] \in {pdu[c], NoPdu} /\ InHand(c)' \subseteq InHand(c)
<1>0. /\ rpc \in [Client -> ReceiverPcs] /\ pdu \in [Client -> Pdu]
      /\ c2s \in [Client -> Seq(Pdu)] /\ s2c \in [Client -> Seq(Pdu)]
  BY DEF MessageInv, TypeOK, ReceiverTypeOK, LinkTypeOK
<1>1. /\ \A e \in Client \ {c} : rpc'[e] = rpc[e] /\ pdu'[e] = pdu[e]
      /\ accepted' = accepted
  BY <1>0 DEF Receiver, Listen, ReadResp, ReadShort, ReadTooLong, BindRespReceived,
     GetWaitingAck, GetAckTimeout, Acknowledge, DlrReceived, RequestReceived,
     Respond, UnbindRespReceived, ReceiverDisconnected, Handles, ReceiverAt, serverVars
<1>2. CASE ReadResp(c)
  BY <1>0, <1>1, <1>2 DEF ReadResp, ReceiverAt, Takes1st
<1>3. CASE ReadShort(c)
  BY <1>0, <1>1, <1>3 DEF ReadShort, ReceiverAt, Takes1st
<1>4. CASE ~ReadResp(c) /\ ~ReadShort(c)
  <2>1. InHand(c)' \subseteq InHand(c)
    <3>1. CASE GetWaitingAck(c)
      <4>1. UNCHANGED pdu /\ rpc[c] = "process"
        BY <3>1 DEF GetWaitingAck, Handles, ReceiverAt
      <4>. QED
        BY <4>1 DEF InHand
    <3>2. CASE ~GetWaitingAck(c)
      <4>1. rpc'[c] \notin {"process", "late_ack"}
        BY <1>0, <1>4, <3>2 DEF Receiver, Listen, ReadTooLong, BindRespReceived,
           GetAckTimeout, Acknowledge, DlrReceived, RequestReceived, Respond,
           UnbindRespReceived, ReceiverDisconnected, Handles, ReceiverAt,
           Disconnecting
      <4>. QED
        BY <4>1 DEF InHand
    <3>. QED
      BY <3>1, <3>2
  <2>2. UNCHANGED <<c2s, s2c>> \/ CloseSocket(c)
    BY <1>4 DEF Receiver, Listen, ReadTooLong, BindRespReceived, GetWaitingAck,
       GetAckTimeout, Acknowledge, DlrReceived, RequestReceived, Respond,
       UnbindRespReceived, ReceiverDisconnected, linkVars
  <2>3. pdu'[c] \in {pdu[c], NoPdu}
    BY <1>0, <1>4 DEF Receiver, Listen, ReadTooLong, BindRespReceived, GetWaitingAck,
       GetAckTimeout, Acknowledge, DlrReceived, RequestReceived, Respond,
       UnbindRespReceived, ReceiverDisconnected
  <2>. QED
    BY <1>1, <2>1, <2>2, <2>3, CutFacts
<1>. QED
  BY <1>1, <1>2, <1>3, <1>4

\* Without an answer taken, dropped and sent PDUs leave fewer of them.
LEMMA LinksFewer ==
  ASSUME MessageInv, NEW c \in Client, Cut(c) \/ SendsOne(c),
         UNCHANGED <<rpc, pdu>>, \A e \in Client : OneAnswer(e)
  PROVE  \A e \in Client : Fewer(e)
<1>1. \A e \in Client : InHand(e)' = InHand(e)
  BY DEF InHand
<1>2. CASE Cut(c)
  BY <1>1, <1>2, DropFewer DEF Cut
<1>3. CASE SendsOne(c)
  <2>1. PICK p \in Pdu : p.type \in {"Bind", "Unbind"} /\ Sends(c, p)
    BY <1>3 DEF SendsOne
  <2>2. Fewer(c)
    BY <1>1, <1>3, <2>1, SendFewer DEF SendsOne
  <2>. QED
    BY <1>1, <1>3, <2>2, DropFewer DEF SendsOne
<1>. QED
  BY <1>2, <1>3

LEMMA WorkerFewer ==
  ASSUME MessageInv, NEW c \in Client, Worker(c),
         ~(WriteSubmit(c) /\ wpc'[c] = "beat"),
         \A e \in Client : OneAnswer(e)
  PROVE  \A e \in Client : Fewer(e)
BY WorkerLinks, LinksFewer

LEMMA ReceiverFewer ==
  ASSUME MessageInv, NEW c \in Client, Receiver(c),
         \A e \in Client : OneAnswer(e)
  PROVE  \A e \in Client : Fewer(e)
<1>1. /\ \A e \in Client \ {c} : InHand(e)' = InHand(e)
      /\ \/ Takes1st(c)
         \/ Cut(c) /\ InHand(c)' \subseteq InHand(c)
  BY ReceiverLinks DEF InHand
<1>2. CASE Takes1st(c)
  <2>1. PICK first : first = IF Head(s2c[c]).type = "SubmitSmResp"
                             THEN {Head(s2c[c]).sm} ELSE {}
    OBVIOUS
  <2>2. /\ Apart(c2s[c], Tail(s2c[c]), first)
        /\ Messages(c2s[c], Tail(s2c[c]), first)
             \subseteq Messages(c2s[c], s2c[c], InHand(c))
    BY <1>2, <2>1, SeqFacts, ApartRead DEF OneAnswer, Takes1st
  <2>3. InHand(c)' \subseteq first
    BY <1>2, <2>1 DEF InHand, Takes1st
  <2>4. /\ Apart(c2s[c], Tail(s2c[c]), InHand(c)')
        /\ Messages(c2s[c], Tail(s2c[c]), InHand(c)')
             \subseteq Messages(c2s[c], Tail(s2c[c]), first)
    BY <2>2, <2>3, ApartDrop
  <2>5. Fewer(c)
    BY <1>2, <2>2, <2>4 DEF Fewer, OneAnswer, Underway, Takes1st
  <2>. QED
    BY <1>1, <1>2, <2>5, DropFewer DEF Takes1st
<1>3. CASE Cut(c) /\ InHand(c)' \subseteq InHand(c)
  BY <1>1, <1>3, DropFewer DEF Cut
<1>. QED
  BY <1>1, <1>2, <1>3

LEMMA StopFewer ==
  ASSUME MessageInv, NEW c \in Client, Stop(c), \A e \in Client : OneAnswer(e)
  PROVE  \A e \in Client : Fewer(e)
BY StopLinks, LinksFewer

LEMMA EnvironmentFewer ==
  ASSUME MessageInv, NEW c \in Client, Environment(c),
         \A e \in Client : OneAnswer(e)
  PROVE  \A e \in Client : Fewer(e)
<1>0. /\ c2s \in [Client -> Seq(Pdu)] /\ s2c \in [Client -> Seq(Pdu)]
      /\ c2s[c] \in Seq(Pdu) /\ s2c[c] \in Seq(Pdu)
  BY DEF MessageInv, TypeOK, LinkTypeOK
<1>1. /\ UNCHANGED <<rpc, pdu>>
      /\ \A e \in Client \ {c} : c2s'[e] = c2s[e] /\ s2c'[e] = s2c[e]
  BY <1>0 DEF Environment, Answers, ServerBind, ServerSubmit, ServerUnbind,
     ServerDlr, ServerRequest, PeerGone, PeerReset, PeerIdle, envUnchanged,
     receiverVars, Takes, Gives
<1>2. \A e \in Client : InHand(e)' = InHand(e)
  BY <1>1 DEF InHand
<1>3. SUFFICES Fewer(c)
  BY <1>1, <1>2, DropFewer
<1>4. ASSUME NEW t, Takes(c, t)
      PROVE  /\ c2s[c] # << >> /\ Head(c2s[c]).type = t /\ Head(c2s[c]) \in Pdu
             /\ c2s'[c] = Tail(c2s[c])
  BY <1>0, <1>4 DEF Takes
<1>5. ASSUME NEW p, Gives(c, p) PROVE s2c'[c] = Append(s2c[c], p)
  BY <1>0, <1>5 DEF Gives
<1>6. ASSUME NEW p \in Pdu, Gives(c, p), c2s'[c] = c2s[c],
             p.type # "SubmitSmResp"
      PROVE  Fewer(c)
  <2>1. /\ Apart(c2s[c], Append(s2c[c], p), InHand(c))
        /\ Messages(c2s[c], Append(s2c[c], p), InHand(c))
             \subseteq Messages(c2s[c], s2c[c], InHand(c))
    BY <1>0, <1>6, ApartGive DEF OneAnswer
  <2>. QED
    BY <1>2, <1>5, <1>6, <2>1 DEF Fewer, OneAnswer, Underway
<1>7. CASE Answers(c)
  <2>0. PICK t : Takes(c, t)
    BY <1>7 DEF Answers, ServerBind, ServerSubmit, ServerUnbind
  <2>1. /\ Apart(Tail(c2s[c]), s2c[c], InHand(c))
        /\ Messages(Tail(c2s[c]), s2c[c], InHand(c))
             \subseteq Messages(c2s[c], s2c[c], InHand(c))
        /\ Head(c2s[c]).type = "SubmitSm" =>
             /\ Head(c2s[c]).sm \in Messages(c2s[c], s2c[c], InHand(c))
             /\ Head(c2s[c]).sm \notin Messages(Tail(c2s[c]), s2c[c], InHand(c))
    <3>1. c2s[c] # << >>
      BY <1>4, <2>0
    <3>2. Apart(c2s[c], s2c[c], InHand(c))
      BY DEF OneAnswer
    <3>. QED
      BY <1>0, <3>1, <3>2, ApartTake
  <2>2. CASE UNCHANGED s2c
    BY <1>2, <1>4, <2>0, <2>1, <2>2 DEF Fewer, OneAnswer, Underway
  <2>3. ASSUME NEW p \in Pdu, Gives(c, p),
               p.type # "SubmitSmResp"
                 \/ (Head(c2s[c]).type = "SubmitSm" /\ p.sm = Head(c2s[c]).sm)
        PROVE  Fewer(c)
    <3>1. p.type # "SubmitSmResp"
            \/ p.sm \notin Messages(Tail(c2s[c]), s2c[c], InHand(c))
      BY <2>1, <2>3
    <3>2. /\ Apart(Tail(c2s[c]), Append(s2c[c], p), InHand(c))
          /\ Messages(Tail(c2s[c]), Append(s2c[c], p), InHand(c))
               \subseteq Messages(Tail(c2s[c]), s2c[c], InHand(c)) \union
                         (IF p.type = "SubmitSmResp" THEN {p.sm} ELSE {})
      <4>1. Apart(Tail(c2s[c]), s2c[c], InHand(c))
        BY <2>1
      <4>. QED
        BY <1>0, <3>1, <4>1, ApartGive
    <3>3. Messages(Tail(c2s[c]), Append(s2c[c], p), InHand(c))
            \subseteq Messages(c2s[c], s2c[c], InHand(c))
      BY <2>1, <2>3, <3>2
    <3>. QED
      BY <1>2, <1>4, <1>5, <2>0, <2>3, <3>2, <3>3 DEF Fewer, OneAnswer, Underway
  <2>4. CASE ServerBind(c) \/ ServerUnbind(c)
    <3>1. \/ UNCHANGED s2c
          \/ \E ok \in BOOLEAN : Gives(c, Answer("BindResp", NoMsg, ok))
          \/ Gives(c, Plain("UnbindResp"))
      BY <2>4 DEF ServerBind, ServerUnbind
    <3>2. /\ \A ok \in BOOLEAN : /\ Answer("BindResp", NoMsg, ok) \in Pdu
                                 /\ Answer("BindResp", NoMsg, ok).type # "SubmitSmResp"
          /\ Plain("UnbindResp") \in Pdu /\ Plain("UnbindResp").type # "SubmitSmResp"
      BY PduFacts DEF Plain, Answer, PlainTypes
    <3>. QED
      BY <2>2, <2>3, <3>1, <3>2
  <2>5. CASE ServerSubmit(c)
    <3>1. /\ Head(c2s[c]).type = "SubmitSm"
          /\ Head(c2s[c]).sm \in Msg
      BY <1>4, <2>5, PduFacts DEF ServerSubmit
    <3>2. \/ UNCHANGED s2c
          \/ \E ok \in BOOLEAN : Gives(c, Answer("SubmitSmResp", Head(c2s[c]).sm, ok))
      BY <2>5 DEF ServerSubmit
    <3>3. \A ok \in BOOLEAN :
            /\ Answer("SubmitSmResp", Head(c2s[c]).sm, ok) \in Pdu
            /\ Answer("SubmitSmResp", Head(c2s[c]).sm, ok).sm = Head(c2s[c]).sm
      BY <3>1, PduFacts DEF Answer
    <3>. QED
      BY <2>2, <2>3, <3>1, <3>2, <3>3
  <2>. QED
    BY <1>7, <2>4, <2>5 DEF Answers
<1>8. CASE ServerDlr(c) \/ ServerRequest(c)
  <2>1. PICK p \in Pdu : Gives(c, p) /\ p.type # "SubmitSmResp"
    <3>1. /\ Plain("Request") \in Pdu /\ Plain("Request").type # "SubmitSmResp"
          /\ \A m \in Msg : Carry("Dlr", m) \in Pdu /\ Carry("Dlr", m).type # "SubmitSmResp"
      BY PduFacts DEF Plain, Carry, PlainTypes, MessageTypes
    <3>2. accepted \subseteq Msg
      BY DEF MessageInv, TypeOK, ServerTypeOK
    <3>. QED
      BY <1>8, <3>1, <3>2 DEF ServerDlr, ServerRequest
  <2>2. c2s'[c] = c2s[c]
    BY <1>8 DEF ServerDlr, ServerRequest
  <2>. QED
    BY <1>6, <2>1, <2>2
<1>9. CASE PeerGone(c) \/ PeerReset(c) \/ PeerIdle(c)
  <2>1. c2s'[c] \in {c2s[c], << >>} /\ s2c'[c] \in {s2c[c], << >>}
    BY <1>0, <1>9 DEF PeerGone, PeerReset, PeerIdle
  <2>. QED
    BY <1>2, <2>1, DropFewer
<1>. QED
  BY <1>7, <1>8, <1>9 DEF Environment

LEMMA WriteMore ==
  ASSUME MessageInv, NEW c \in Client, WriteSubmit(c), wpc'[c] = "beat",
         \A e \in Client : OneAnswer(e)
  PROVE  /\ \A e \in Client : OneAnswer(e)'
         /\ \A e \in Client \ {c} : Underway(e)' \subseteq Underway(e)
         /\ Underway(c)' \subseteq Underway(c) \union {smi[c]}
         /\ smi[c] \in waiting_ack[c]
<1>0. wpc \in [Client -> WorkerPcs] /\ c2s \in [Client -> Seq(Pdu)]
  BY DEF MessageInv, TypeOK, WorkerTypeOK, LinkTypeOK
<1>1. /\ wpc[c] = "write" /\ Sends(c, Carry("SubmitSm", smi[c]))
      /\ UNCHANGED <<rpc, pdu, s2c>>
  BY <1>0 DEF WriteSubmit, WorkerAt, receiverVars
<1>2. smi[c] \in Msg /\ smi[c] \in waiting_ack[c] /\ smi[c] \notin sent
  <2>1. Writing(c) /\ WritingOK(c)
    BY <1>1, WritingFacts DEF Writing
  <2>. QED
    BY <1>1, <2>1 DEF WritingOK, MessageInv, TypeOK, WorkerTypeOK
<1>3. \A e \in Client : InHand(e)' = InHand(e)
  BY <1>1 DEF InHand
<1>4. PICK p \in Pdu : p = Carry("SubmitSm", smi[c]) /\ p.sm = smi[c] /\ p.type = "SubmitSm"
  BY <1>2, PduFacts DEF Carry, MessageTypes
<1>5. /\ c2s'[c] = c2s[c] \/ c2s'[c] = Append(c2s[c], p)
      /\ \A e \in Client \ {c} : c2s'[e] = c2s[e]
  BY <1>0, <1>1, <1>4 DEF Sends
<1>6. \A e \in Client \ {c} : Fewer(e)
  BY <1>1, <1>3, <1>5, DropFewer
<1>7. OneAnswer(c)' /\ Underway(c)' \subseteq Underway(c) \union {smi[c]}
  <2>1. CASE c2s'[c] = c2s[c]
    <3>1. Fewer(c)
      BY <1>1, <1>3, <2>1, DropFewer
    <3>. QED
      BY <3>1 DEF Fewer
  <2>2. CASE c2s'[c] = Append(c2s[c], p)
    <3>1. p.sm \notin Messages(c2s[c], s2c[c], InHand(c))
      BY <1>2, <1>4, UnderwayWasSent DEF Underway
    <3>2. /\ Apart(Append(c2s[c], p), s2c[c], InHand(c))
          /\ Messages(Append(c2s[c], p), s2c[c], InHand(c))
               \subseteq Messages(c2s[c], s2c[c], InHand(c)) \union {p.sm}
      BY <1>4, <3>1, SeqFacts, ApartSend DEF OneAnswer
    <3>. QED
      BY <1>1, <1>3, <1>4, <2>2, <3>2 DEF OneAnswer, Underway
  <2>. QED
    BY <1>5, <2>1, <2>2
<1>. QED
  BY <1>2, <1>6, <1>7 DEF Fewer

-----------------------------------------------------------------------------
(* The lists that set_ack looks into                                       *)

\* A reported submit timeout is final, as the life cycle has it.
LEMMA TimeoutStage ==
  MessageInv =>
    \A m \in Msg : status[m] = "submit_timeout" <=> Stage(m) = "submit_timeout"
<1>. SUFFICES ASSUME MessageInv, NEW m \in Msg
              PROVE  status[m] = "submit_timeout" <=> Stage(m) = "submit_timeout"
  OBVIOUS
<1>1. PICK r \in Places, c \in Client : m \in At(r, c)
  BY DEF MessageInv, OnePlace, Somewhere
<1>2. Stage(m) = StageAt(r, m)
  BY <1>1, StageFacts DEF StageKnown
<1>3. status[m] # "none" <=> r \in {"delivered", "fetched"}
  <2>1. m \in Reported <=> r \in {"delivered", "fetched"}
    BY <1>1, ListFacts
  <2>. QED
    BY <2>1 DEF MessageInv, ReportedHasStatus
<1>4. r \in {"unseen", "to_submit", "delivering", "delivered", "fetched",
             "lost", "hand", "waiting", "late", "acking"}
  BY DEF Places, SharedPlaces, ClientPlaces
<1>5. r \notin {"delivered", "fetched"} => Stage(m) # "submit_timeout"
  BY <1>2, <1>4, StageOfPlace
<1>6. r \in {"delivered", "fetched"} => Stage(m) = status[m]
  BY <1>2, StageOfPlace
<1>. QED
  BY <1>3, <1>5, <1>6

LEMMA TimeoutStageNext ==
  MessageInv' =>
    (\A m \in Msg : status[m] = "submit_timeout" <=> Stage(m) = "submit_timeout")'
BY TimeoutStage, PTL

LEMMA TimeoutIsFinal ==
  ASSUME MessageInv, MessageInv', [Next]_vars, NEW m \in Msg,
         status[m] = "submit_timeout"
  PROVE  status'[m] = "submit_timeout"
<1>1. Stage(m) = "submit_timeout"
  BY TimeoutStage
<1>2. Stage(m)' = Stage(m)
  <2>1. CASE UNCHANGED stages
    BY <2>1 DEF stages
  <2>2. CASE Lifecycle!Next
    <3>1. PICK S \in SUBSET Msg, to \in Lifecycle!Stages : Lifecycle!Move(S, to)
      BY <2>2 DEF Lifecycle!Next
    <3>2. \A n \in S : Stage(n) \in DOMAIN Lifecycle!Follows
      BY <3>1 DEF Lifecycle!Move
    <3>3. m \notin S
      BY <1>1, <3>2, FollowsFacts
    <3>4. \A n \in Msg : Stage(n)' = IF n \in S THEN to ELSE Stage(n)
      BY <3>1 DEF Lifecycle!Move
    <3>. QED
      BY <3>3, <3>4
  <2>. QED
    BY <2>1, <2>2, StepLifecycle
<1>. QED
  BY <1>1, <1>2, TimeoutStageNext

\* A message leaves the two lists when it is reported as timed out, when its
\* SubmitSm was not written, or when its answer was taken.
LeavesInOrder(e) ==
  \A m \in waiting_ack[e] \union ack_timeout[e] :
    \/ m \in waiting_ack'[e] \union ack_timeout'[e]
    \/ status'[m] = "submit_timeout"
    \/ m \notin sent
    \/ m \notin Underway(e)'

LEMMA WorkerLists ==
  ASSUME MessageInv, NEW c \in Client, Worker(c)
  PROVE  /\ \A e \in Client : LeavesInOrder(e)
         /\ \A e \in Client : waiting_ack'[e] \subseteq waiting_ack[e] \union (Msg \ sent)
<1>0. /\ waiting_ack \in [Client -> SUBSET Msg]
      /\ ack_timeout \in [Client -> SUBSET Msg]
      /\ status \in [Msg -> Statuses]
  BY DEF MessageInv, TypeOK, AckTypeOK, DsTypeOK
<1>1. CASE UNCHANGED ackVars
  BY <1>1 DEF LeavesInOrder, ackVars
<1>2. CASE WaitingTimeouts(c)
  <2>. DEFINE late == {m \in waiting_ack[c] : age[m] >= 1}
  <2>1. /\ waiting_ack' = [waiting_ack EXCEPT ![c] = @ \ late]
        /\ ack_timeout' = [ack_timeout EXCEPT ![c] = @ \union late]
    BY <1>2 DEF WaitingTimeouts, ASmisWaitingAckTimeout
  <2>. HIDE DEF late
  <2>2. /\ waiting_ack'[c] = waiting_ack[c] \ late
        /\ ack_timeout'[c] = ack_timeout[c] \union late
        /\ \A e \in Client \ {c} : /\ waiting_ack'[e] = waiting_ack[e]
                                   /\ ack_timeout'[e] = ack_timeout[e]
    BY <1>0, <2>1
  <2>. QED
    BY <2>2 DEF LeavesInOrder
<1>3. CASE AckTimeouts(c)
  <2>1. /\ waiting_ack' = waiting_ack
        /\ ack_timeout' = [ack_timeout EXCEPT ![c] = @ \ Expired(c)]
        /\ status' = [m \in Msg |-> IF m \in Expired(c) THEN "submit_timeout" ELSE status[m]]
    BY <1>3 DEF AckTimeouts, SubmitFailed, Report
  <2>2. /\ ack_timeout'[c] = ack_timeout[c] \ Expired(c)
        /\ \A e \in Client \ {c} : ack_timeout'[e] = ack_timeout[e]
        /\ ack_timeout[c] \subseteq Msg
    BY <1>0, <2>1
  <2>. QED
    BY <2>1, <2>2 DEF LeavesInOrder
<1>4. CASE Register(c)
  <2>1. /\ waiting_ack' = [waiting_ack EXCEPT ![c] = @ \union {smi[c]}]
        /\ ack_timeout' = ack_timeout
        /\ wpc[c] = "submit"
    BY <1>4 DEF Register, AddWaitingAck, WorkerAt
  <2>2. smi[c] \in Msg \ sent
    <3>1. smi[c] \in Msg
      BY <2>1 DEF MessageInv, TypeOK, WorkerTypeOK
    <3>2. smi[c] \in Hand(c)
      BY <2>1, <3>1 DEF Hand
    <3>. QED
      BY <3>1, <3>2 DEF MessageInv, NotYetSent
  <2>3. /\ waiting_ack'[c] = waiting_ack[c] \union {smi[c]}
        /\ \A e \in Client \ {c} : waiting_ack'[e] = waiting_ack[e]
    BY <1>0, <2>1
  <2>. QED
    BY <2>1, <2>2, <2>3 DEF LeavesInOrder
<1>5. CASE Unregister(c)
  <2>1. /\ waiting_ack' = [waiting_ack EXCEPT ![c] = @ \ {smi[c]}]
        /\ ack_timeout' = ack_timeout
        /\ Writing(c)
    BY <1>5 DEF Unregister, RemoveWaitingAck, WorkerAt, Writing
  <2>2. smi[c] \notin sent
    BY <2>1, WritingFacts DEF WritingOK
  <2>3. /\ waiting_ack'[c] = waiting_ack[c] \ {smi[c]}
        /\ \A e \in Client \ {c} : waiting_ack'[e] = waiting_ack[e]
    BY <1>0, <2>1
  <2>. QED
    BY <2>1, <2>2, <2>3 DEF LeavesInOrder
<1>. QED
  BY <1>1, <1>2, <1>3, <1>4, <1>5 DEF Worker, Connect, Bind, BindAcknowledged,
     GiveUpBinding, DlrTimeouts, Fetch, PickNothing, EncodingFails,
     WriteSubmit, NoHeartbeat, Heartbeat, WorkerDisconnected, WorkerExit,
     ackVars

LEMMA ReceiverLists ==
  ASSUME MessageInv, NEW c \in Client, Receiver(c),
         \A e \in Client : OneAnswer(e) /\ SecondLook(e)
  PROVE  /\ \A e \in Client : LeavesInOrder(e)
         /\ \A e \in Client : waiting_ack'[e] \subseteq waiting_ack[e]
<1>0. /\ waiting_ack \in [Client -> SUBSET Msg]
      /\ ack_timeout \in [Client -> SUBSET Msg]
      /\ rpc \in [Client -> ReceiverPcs]
  BY DEF MessageInv, TypeOK, AckTypeOK, ReceiverTypeOK
<1>1. ASSUME rpc'[c] = "ack", UNCHANGED <<c2s, s2c>>, pdu[c].sm \in InHand(c)
      PROVE  pdu[c].sm \notin Underway(c)'
  <2>1. InHand(c)' = {}
    BY <1>1 DEF InHand
  <2>2. pdu[c].sm \notin About(c2s[c], "SubmitSm") \union About(s2c[c], "SubmitSmResp")
    BY <1>1 DEF OneAnswer, Apart
  <2>. QED
    BY <1>1, <2>1, <2>2 DEF Underway, Messages
<1>2. CASE UNCHANGED ackVars
  BY <1>2 DEF LeavesInOrder, ackVars
<1>3. CASE GetWaitingAck(c) /\ pdu[c].sm \in waiting_ack[c]
  <2>1. /\ waiting_ack' = [waiting_ack EXCEPT ![c] = @ \ {pdu[c].sm}]
        /\ ack_timeout' = ack_timeout
        /\ rpc[c] = "process" /\ pdu[c].type = "SubmitSmResp" /\ rpc'[c] = "ack"
        /\ UNCHANGED <<c2s, s2c>>
    BY <1>0, <1>3 DEF GetWaitingAck, Handles, ReceiverAt, linkVars
  <2>2. pdu[c].sm \notin Underway(c)'
    <3>1. pdu[c].sm \in InHand(c)
      BY <2>1 DEF InHand
    <3>. QED
      BY <1>1, <2>1, <3>1
  <2>3. /\ waiting_ack'[c] = waiting_ack[c] \ {pdu[c].sm}
        /\ \A e \in Client \ {c} : waiting_ack'[e] = waiting_ack[e]
    BY <1>0, <2>1
  <2>. QED
    BY <2>1, <2>2, <2>3 DEF LeavesInOrder
<1>4. CASE GetAckTimeout(c) /\ FoundLate(c, pdu[c].sm)
  <2>1. /\ ack_timeout' = [ack_timeout EXCEPT ![c] = @ \ {pdu[c].sm}]
        /\ waiting_ack' = waiting_ack
        /\ rpc[c] = "late_ack" /\ rpc'[c] = "ack"
        /\ UNCHANGED <<c2s, s2c>>
    BY <1>0, <1>4 DEF GetAckTimeout, ReceiverAt, linkVars
  <2>2. pdu[c].sm \notin Underway(c)'
    <3>1. pdu[c].sm \in InHand(c)
      BY <2>1 DEF InHand, SecondLook
    <3>. QED
      BY <1>1, <2>1, <3>1
  <2>3. /\ ack_timeout'[c] = ack_timeout[c] \ {pdu[c].sm}
        /\ \A e \in Client \ {c} : ack_timeout'[e] = ack_timeout[e]
    BY <1>0, <2>1
  <2>. QED
    BY <2>1, <2>2, <2>3 DEF LeavesInOrder
<1>. QED
  BY <1>2, <1>3, <1>4 DEF Receiver, Listen, ReadResp, ReadShort, ReadTooLong,
     BindRespReceived, GetWaitingAck, GetAckTimeout, Acknowledge, DlrReceived,
     RequestReceived, Respond, UnbindRespReceived, ReceiverDisconnected, ackVars

LEMMA StopLists ==
  ASSUME MessageInv, NEW c \in Client, Stop(c)
  PROVE  /\ \A e \in Client : LeavesInOrder(e)
         /\ \A e \in Client : waiting_ack'[e] \subseteq waiting_ack[e]
<1>0. /\ waiting_ack \in [Client -> SUBSET Msg]
      /\ ack_timeout \in [Client -> SUBSET Msg]
  BY DEF MessageInv, TypeOK, AckTypeOK
<1>1. CASE UNCHANGED ackVars
  BY <1>1 DEF LeavesInOrder, ackVars
<1>2. CASE StopJoined(c)
  <2>1. /\ waiting_ack' = [waiting_ack EXCEPT ![c] = {}]
        /\ ack_timeout' = [ack_timeout EXCEPT ![c] = {}]
        /\ rpc[c] = "done" /\ UNCHANGED <<rpc, pdu>>
    BY <1>2 DEF StopJoined, receiverVars
  <2>2. c2s'[c] = << >> /\ s2c'[c] = << >>
    BY <1>2, CloseOthers DEF StopJoined
  <2>3. InHand(c)' = {}
    BY <2>1 DEF InHand
  <2>4. Underway(c)' = {}
    BY <2>2, <2>3, AboutNone DEF Underway, Messages
  <2>5. /\ waiting_ack'[c] = {}
        /\ \A e \in Client \ {c} : /\ waiting_ack'[e] = waiting_ack[e]
                                   /\ ack_timeout'[e] = ack_timeout[e]
    BY <1>0, <2>1
  <2>. QED
    BY <2>4, <2>5 DEF LeavesInOrder
<1>. QED
  BY <1>1, <1>2 DEF Stop, StopUnbind, StopDisconnected, StopFinish, ackVars

-----------------------------------------------------------------------------
(* No ack is missed                                                        *)

\* Everything but a complete SubmitSm leaves fewer answers to come.
LEMMA StepFewer ==
  ASSUME AnswerInv, [Next]_vars
  PROVE  \/ \A e \in Client : Fewer(e)
         \/ \E c \in Client : WriteSubmit(c) /\ wpc'[c] = "beat"
<1>. USE DEF AnswerInv
<1>1. CASE \/ \E b \in Batch : SubmitSmis(b)
           \/ GetStatuses
           \/ \E m \in Msg : Tick(m)
           \/ UNCHANGED vars
  <2>1. UNCHANGED <<c2s, s2c, rpc, pdu>>
    BY <1>1 DEF SubmitSmis, GetStatuses, Tick, vars, linkVars, receiverVars
  <2>. QED
    BY <2>1, SilentFewer
<1>2. ASSUME NEW c \in Client, Worker(c), ~(WriteSubmit(c) /\ wpc'[c] = "beat")
      PROVE  \A e \in Client : Fewer(e)
  BY <1>2, WorkerFewer
<1>3. ASSUME NEW c \in Client, Receiver(c) PROVE \A e \in Client : Fewer(e)
  BY <1>3, ReceiverFewer
<1>4. ASSUME NEW c \in Client, Stop(c) PROVE \A e \in Client : Fewer(e)
  BY <1>4, StopFewer
<1>5. ASSUME NEW c \in Client, Environment(c) PROVE \A e \in Client : Fewer(e)
  BY <1>5, EnvironmentFewer
<1>. QED
  BY <1>1, <1>2, <1>3, <1>4, <1>5 DEF Next

LEMMA StepLists ==
  ASSUME AnswerInv, [Next]_vars
  PROVE  /\ \A e \in Client : LeavesInOrder(e)
         /\ \A e \in Client : waiting_ack'[e] \subseteq waiting_ack[e] \union (Msg \ sent)
<1>. USE DEF AnswerInv
<1>1. CASE \/ \E b \in Batch : SubmitSmis(b)
           \/ GetStatuses
           \/ \E m \in Msg : Tick(m)
           \/ \E c \in Client : Environment(c)
           \/ UNCHANGED vars
  <2>1. UNCHANGED <<waiting_ack, ack_timeout>>
    BY <1>1 DEF SubmitSmis, GetStatuses, Tick, vars, ackVars, Environment,
       Answers, ServerBind, ServerSubmit, ServerUnbind, ServerDlr,
       ServerRequest, PeerGone, PeerReset, PeerIdle, envUnchanged
  <2>. QED
    BY <2>1 DEF LeavesInOrder
<1>2. ASSUME NEW c \in Client, Worker(c) \/ Receiver(c) \/ Stop(c)
      PROVE  /\ \A e \in Client : LeavesInOrder(e)
             /\ \A e \in Client : waiting_ack'[e] \subseteq waiting_ack[e] \union (Msg \ sent)
  BY <1>2, WorkerLists, ReceiverLists, StopLists
<1>. QED
  BY <1>1, <1>2 DEF Next

\* The receiver comes to the second list only from the first, with the same
\* PDU and with the first list as it is.
LEMMA StepSecondLook ==
  ASSUME AnswerInv, [Next]_vars, NEW e \in Client, rpc'[e] = "late_ack"
  PROVE  /\ pdu'[e] = pdu[e] /\ pdu[e].type = "SubmitSmResp"
         /\ pdu[e].sm \notin waiting_ack[e]
<1>0. rpc \in [Client -> ReceiverPcs] /\ pdu \in [Client -> Pdu]
  BY DEF AnswerInv, MessageInv, TypeOK, ReceiverTypeOK
<1>1. SecondLook(e)
  BY DEF AnswerInv
<1>2. CASE UNCHANGED receiverVars
  BY <1>1, <1>2 DEF SecondLook, receiverVars
<1>3. ASSUME NEW c \in Client, Receiver(c), c # e
      PROVE  rpc'[e] = rpc[e] /\ pdu'[e] = pdu[e]
  BY <1>0, <1>3 DEF Receiver, Listen, ReadResp, ReadShort, ReadTooLong, BindRespReceived,
     GetWaitingAck, GetAckTimeout, Acknowledge, DlrReceived, RequestReceived,
     Respond, UnbindRespReceived, ReceiverDisconnected, Handles, ReceiverAt
<1>4. CASE Receiver(e)
  <2>1. GetWaitingAck(e)
    BY <1>0, <1>4 DEF Receiver, Listen, ReadResp, ReadShort, ReadTooLong, BindRespReceived,
       GetWaitingAck, GetAckTimeout, Acknowledge, DlrReceived, RequestReceived,
       Respond, UnbindRespReceived, ReceiverDisconnected, Handles, ReceiverAt,
       Disconnecting
  <2>. QED
    BY <1>0, <2>1 DEF GetWaitingAck, Handles, ReceiverAt
<1>5. UNCHANGED receiverVars \/ \E c \in Client : Receiver(c)
  BY DEF Next, SubmitSmis, GetStatuses, Tick, vars, Worker, Connect, Bind,
     BindAcknowledged, GiveUpBinding, DlrTimeouts, WaitingTimeouts,
     AckTimeouts, Fetch, PickNothing, EncodingFails, Register, WriteSubmit,
     Unregister, NoHeartbeat, Heartbeat, WorkerDisconnected, WorkerExit,
     Stop, StopUnbind, StopDisconnected, StopFinish, StopJoined, Environment,
     Answers, ServerBind, ServerSubmit, ServerUnbind, ServerDlr,
     ServerRequest, PeerGone, PeerReset, PeerIdle, envUnchanged
<1>. QED
  BY <1>1, <1>2, <1>3, <1>4, <1>5 DEF SecondLook

LEMMA InitAnswerInv == Init => AnswerInv
<1>. SUFFICES ASSUME Init, NEW c \in Client
              PROVE  OneAnswer(c) /\ Registered(c) /\ SecondLook(c)
  BY InitMessageInv DEF AnswerInv
<1>1. c2s[c] = << >> /\ s2c[c] = << >> /\ rpc[c] = "idle" /\ InHand(c) = {}
  BY DEF Init, InHand
<1>. QED
  BY <1>1, AboutNone DEF OneAnswer, Apart, Registered, Underway, Messages, SecondLook

LEMMA StepAnswerInv == AnswerInv /\ [Next]_vars => AnswerInv'
<1>. SUFFICES ASSUME AnswerInv, [Next]_vars PROVE AnswerInv'
  OBVIOUS
<1>1. MessageInv /\ MessageInv'
  BY StepMessageInv DEF AnswerInv
<1>2. /\ \A e \in Client : OneAnswer(e)'
      /\ \A e \in Client : \A m \in Underway(e)' :
           m \in Underway(e) \/ m \in waiting_ack'[e] \union ack_timeout'[e]
  <2>1. CASE \A e \in Client : Fewer(e)
    BY <2>1 DEF Fewer
  <2>2. ASSUME NEW c \in Client, WriteSubmit(c), wpc'[c] = "beat"
        PROVE  /\ \A e \in Client : OneAnswer(e)'
               /\ \A e \in Client : \A m \in Underway(e)' :
                    m \in Underway(e) \/ m \in waiting_ack'[e] \union ack_timeout'[e]
    <3>1. \A e \in Client : OneAnswer(e)
      BY DEF AnswerInv
    <3>2. waiting_ack' = waiting_ack
      BY <2>2 DEF WriteSubmit, ackVars
    <3>3. /\ \A e \in Client : OneAnswer(e)'
          /\ \A e \in Client \ {c} : Underway(e)' \subseteq Underway(e)
          /\ Underway(c)' \subseteq Underway(c) \union {smi[c]}
          /\ smi[c] \in waiting_ack[c]
      BY <1>1, <2>2, <3>1, WriteMore
    <3>. QED
      BY <3>2, <3>3
  <2>. QED
    BY <2>1, <2>2, StepFewer
<1>3. ASSUME NEW e \in Client PROVE Registered(e)'
  <2>. SUFFICES ASSUME NEW m \in Underway(e)'
                PROVE  \/ m \in waiting_ack'[e] \union ack_timeout'[e]
                       \/ status'[m] = "submit_timeout"
    BY DEF Registered
  <2>1. CASE m \in Underway(e)
    <3>1. m \in sent /\ m \in Msg
      BY <1>1, <2>1, UnderwayWasSent DEF MessageInv, TypeOK, HistoryTypeOK
    <3>2. m \in waiting_ack[e] \union ack_timeout[e] \/ status[m] = "submit_timeout"
      BY <2>1 DEF AnswerInv, Registered
    <3>3. CASE status[m] = "submit_timeout"
      BY <1>1, <3>1, <3>3, TimeoutIsFinal
    <3>4. CASE m \in waiting_ack[e] \union ack_timeout[e]
      BY <3>1, <3>4, StepLists DEF LeavesInOrder
    <3>. QED
      BY <3>2, <3>3, <3>4
  <2>. QED
    BY <1>2, <2>1
<1>4. ASSUME NEW e \in Client PROVE SecondLook(e)'
  <2>. SUFFICES ASSUME rpc'[e] = "late_ack"
                PROVE  pdu'[e].type = "SubmitSmResp" /\ pdu'[e].sm \notin waiting_ack'[e]
    BY DEF SecondLook
  <2>1. /\ pdu'[e] = pdu[e] /\ pdu[e].type = "SubmitSmResp"
        /\ pdu[e].sm \notin waiting_ack[e]
    BY StepSecondLook
  <2>2. pdu[e].sm \in sent
    BY <1>1, <2>1 DEF MessageInv, AnswersWereSent, AnswersSent
  <2>. QED
    BY <2>1, <2>2, StepLists
<1>. QED
  BY <1>1, <1>2, <1>3, <1>4 DEF AnswerInv

LEMMA AnswerInvariant == Spec => []AnswerInv
<1>1. Init => AnswerInv
  BY InitAnswerInv
<1>2. AnswerInv /\ [Next]_vars => AnswerInv'
  BY StepAnswerInv
<1>. QED
  BY <1>1, <1>2, PTL DEF Spec

\* Wherever the SubmitSm or its answer is, on the way out, on the way back or
\* in the receiver's hands, set_ack will find the message in one of its two
\* lists, unless its submit timeout has been reported.
THEOREM InFlightRegisteredHolds == Spec => []InFlightRegistered
<1>1. AnswerInv => InFlightRegistered
  <2>. SUFFICES ASSUME AnswerInv, NEW c \in Client, NEW m \in Msg, AckUnderway(c, m)
                PROVE  \/ m \in waiting_ack[c] \union ack_timeout[c]
                       \/ status[m] = "submit_timeout"
    BY DEF InFlightRegistered
  <2>1. m \in Underway(c)
    <3>1. CASE \E i \in DOMAIN c2s[c] : c2s[c][i] = Carry("SubmitSm", m)
      <4>1. PICK i \in DOMAIN c2s[c] : c2s[c][i].type = "SubmitSm" /\ c2s[c][i].sm = m
        BY <3>1 DEF Carry
      <4>. QED
        BY <4>1 DEF Underway, Messages, About
    <3>2. CASE \E i \in DOMAIN s2c[c] : s2c[c][i].type = "SubmitSmResp" /\ s2c[c][i].sm = m
      BY <3>2 DEF Underway, Messages, About
    <3>3. CASE rpc[c] \in {"process", "late_ack"} /\ pdu[c].type = "SubmitSmResp"
                 /\ pdu[c].sm = m
      BY <3>3 DEF Underway, Messages, InHand
    <3>. QED
      BY <3>1, <3>2, <3>3 DEF AckUnderway
  <2>. QED
    BY <2>1 DEF AnswerInv, Registered
<1>. QED
  BY <1>1, AnswerInvariant, PTL

\* set_ack gives up only on a message whose timeout has been reported.
LEMMA AckGivenUp ==
  ASSUME AnswerInv, NEW c \in Client, GetAckTimeout(c), ~FoundLate(c, pdu[c].sm)
  PROVE  pdu[c].sm \in Reported
<1>1. PICK m : m = pdu[c].sm
  OBVIOUS
<1>2. m \in InHand(c) /\ m \notin waiting_ack[c] /\ m \notin ack_timeout[c]
  BY <1>1 DEF AnswerInv, SecondLook, InHand, FoundLate, GetAckTimeout, ReceiverAt
<1>3. status[m] = "submit_timeout"
  BY <1>2 DEF AnswerInv, Registered, Underway, Messages
<1>4. m \in Msg
  BY <1>2, UnderwayWasSent DEF AnswerInv, MessageInv, TypeOK, HistoryTypeOK,
     Underway, Messages
<1>. QED
  BY <1>1, <1>3, <1>4 DEF AnswerInv, MessageInv, ReportedHasStatus

\* set_ack looks into two lists one after the other while the worker moves
\* messages from the first to the second: it gives up only on a message whose
\* timeout has been reported.
THEOREM NoAckMissedHolds == Spec => NoAckMissed
<1>1. AnswerInv /\ [Next]_vars =>
        [\A c \in Client :
           rpc[c] = "late_ack" /\ rpc'[c] = "idle" => pdu[c].sm \in Reported]_vars
  <2>. SUFFICES ASSUME AnswerInv, [Next]_vars, NEW c \in Client,
                       rpc[c] = "late_ack", rpc'[c] = "idle"
                PROVE  pdu[c].sm \in Reported
    OBVIOUS
  <2>1. GetAckTimeout(c) /\ ~FoundLate(c, pdu[c].sm)
    <3>1. rpc'[c] # rpc[c] /\ rpc \in [Client -> ReceiverPcs]
      BY DEF AnswerInv, MessageInv, TypeOK, ReceiverTypeOK
    <3>2. Receiver(c)
      <4>1. \E e \in Client : Receiver(e)
        BY <3>1 DEF Next, SubmitSmis, GetStatuses, Tick, vars, receiverVars,
           Worker, Connect, Bind, BindAcknowledged, GiveUpBinding, DlrTimeouts,
           WaitingTimeouts, AckTimeouts, Fetch, PickNothing, EncodingFails,
           Register, WriteSubmit, Unregister, NoHeartbeat, Heartbeat,
           WorkerDisconnected, WorkerExit, Stop, StopUnbind, StopDisconnected,
           StopFinish, StopJoined, Environment, Answers, ServerBind,
           ServerSubmit, ServerUnbind, ServerDlr, ServerRequest, PeerGone,
           PeerReset, PeerIdle, envUnchanged
      <4>. QED
        BY <3>1, <4>1 DEF Receiver, Listen, ReadResp, ReadShort, ReadTooLong,
           BindRespReceived, GetWaitingAck, GetAckTimeout, Acknowledge,
           DlrReceived, RequestReceived, Respond, UnbindRespReceived,
           ReceiverDisconnected, Handles, ReceiverAt
    <3>3. GetAckTimeout(c)
      BY <3>2 DEF Receiver, Listen, ReadResp, ReadShort, ReadTooLong, BindRespReceived,
         GetWaitingAck, Acknowledge, DlrReceived, RequestReceived, Respond,
         UnbindRespReceived, ReceiverDisconnected, Handles, ReceiverAt
    <3>. QED
      BY <3>1, <3>3 DEF GetAckTimeout, ReceiverAt
  <2>. QED
    BY <2>1, AckGivenUp
<1>. QED
  BY <1>1, AnswerInvariant, PTL DEF Spec, NoAckMissed

-----------------------------------------------------------------------------
(***************************************************************************)
(* A report behind its answer.  The server owes a report only for a        *)
(* message whose SubmitSm it has taken, a SubmitSm is written once, and    *)
(* the PDUs of a connection stay in order.  So no report is on a           *)
(* connection before the answer to its message, however many PDUs are      *)
(* lost; and a message that was sent is where a timeout or an ack finds    *)
(* it, until a client goes away with its lists.                            *)
(***************************************************************************)
\* The messages to be submitted, and those whose report is on its way.
Out(c) == About(c2s[c], "SubmitSm")
DlrInHand(c) == IF pdu[c].type = "Dlr" THEN {pdu[c].sm} ELSE {}
Due(c) == About(s2c[c], "Dlr") \union DlrInHand(c)

\* In q no report comes before the answer to its message.
AcksFirst(q) ==
  \A i, j \in DOMAIN q :
    q[i].type = "Dlr" /\ q[j].type = "SubmitSmResp" /\ q[i].sm = q[j].sm => j < i

ReportsLast(c) ==
  AcksFirst(s2c[c]) /\ DlrInHand(c) \intersect About(s2c[c], "SubmitSmResp") = {}

\* A message that was sent is lost only with a client that is gone.
LostByStop == sent \intersect lost # {} => \E d \in Client : spc[d] = "stopped"

ReportInv ==
  /\ AnswerInv /\ LostByStop
  /\ \A c \in Client : accepted \union Due(c) \subseteq sent /\ ReportsLast(c)
  /\ \A c, d \in Client : (accepted \union Due(c)) \intersect Out(d) = {}
  /\ \A c, d \in Client : c # d => Out(c) \intersect Out(d) = {}

LEMMA AcksFirstAppend ==
  ASSUME NEW q \in Seq(Pdu), NEW p \in Pdu, AcksFirst(q),
         p.type = "SubmitSmResp" => p.sm \notin About(q, "Dlr")
  PROVE  AcksFirst(Append(q, p))
<1>. DEFINE r == Append(q, p)
<1>1. /\ DOMAIN q = 1..Len(q) /\ DOMAIN r = 1..(Len(q) + 1) /\ Len(q) \in Nat
      /\ r[Len(q) + 1] = p /\ \A i \in 1..Len(q) : r[i] = q[i]
  OBVIOUS
<1>. HIDE DEF r
<1>2. SUFFICES ASSUME NEW i \in DOMAIN r, NEW j \in DOMAIN r, r[i].type = "Dlr",
                      r[j].type = "SubmitSmResp", r[i].sm = r[j].sm
               PROVE  j < i
  BY DEF AcksFirst, r
<1>3. CASE j \in DOMAIN q
  BY <1>1, <1>2, <1>3 DEF AcksFirst
<1>4. CASE j \notin DOMAIN q
  <2>1. j = Len(q) + 1 /\ r[j] = p
    BY <1>1, <1>4
  <2>2. i \in DOMAIN q /\ r[i] = q[i]
    BY <1>1, <1>2, <2>1
  <2>. QED
    BY <1>2, <2>1, <2>2 DEF About
<1>. QED
  BY <1>3, <1>4

LEMMA AcksFirstTail ==
  ASSUME NEW q \in Seq(Pdu), q # << >>, AcksFirst(q)
  PROVE  /\ AcksFirst(Tail(q))
         /\ Head(q).type = "Dlr" => Head(q).sm \notin About(Tail(q), "SubmitSmResp")
<1>. DEFINE r == Tail(q)
<1>1. /\ DOMAIN q = 1..Len(q) /\ Len(q) \in Nat \ {0} /\ DOMAIN r = 1..(Len(q) - 1)
      /\ \A i \in 1..(Len(q) - 1) : r[i] = q[i + 1]
      /\ Head(q) = q[1]
  OBVIOUS
<1>. HIDE DEF r
<1>2. \A i \in DOMAIN r : i \in Nat \ {0} /\ i + 1 \in DOMAIN q /\ r[i] = q[i + 1]
  BY <1>1
<1>3. AcksFirst(r)
  <2>. SUFFICES ASSUME NEW i \in DOMAIN r, NEW j \in DOMAIN r, r[i].type = "Dlr",
                       r[j].type = "SubmitSmResp", r[i].sm = r[j].sm
                PROVE  j < i
    BY DEF AcksFirst
  <2>1. j + 1 < i + 1
    BY <1>2 DEF AcksFirst
  <2>. QED
    BY <1>2, <2>1
<1>4. ASSUME Head(q).type = "Dlr", NEW j \in DOMAIN r, r[j].type = "SubmitSmResp"
      PROVE  r[j].sm # Head(q).sm
  <2>1. 1 \in DOMAIN q /\ ~(j + 1 < 1)
    BY <1>1, <1>2
  <2>. QED
    BY <1>1, <1>2, <1>4, <2>1 DEF AcksFirst
<1>. QED
  BY <1>3, <1>4 DEF About, r

-----------------------------------------------------------------------------
(* How the reports of a client change                                      *)

\* Nothing new is due to e, and what it submits was submitted before.
Settled(e) ==
  /\ ReportsLast(e)' /\ Out(e)' \subseteq Out(e)
  /\ Due(e)' \subseteq Due(e) \union accepted

LEMMA DropSettled ==
  ASSUME NEW e \in Client, ReportsLast(e), pdu'[e] \in {pdu[e], NoPdu},
         c2s'[e] \in {c2s[e], << >>}, s2c'[e] \in {s2c[e], << >>}
  PROVE  Settled(e)
<1>1. DlrInHand(e)' \subseteq DlrInHand(e)
  BY DEF DlrInHand, NoPdu
<1>2. /\ \A type : About(s2c'[e], type) \subseteq About(s2c[e], type)
      /\ Out(e)' \subseteq Out(e)
  BY AboutNone DEF Out
<1>3. AcksFirst(s2c'[e])
  BY DEF ReportsLast, AcksFirst
<1>. QED
  BY <1>1, <1>2, <1>3 DEF Settled, ReportsLast, Due

LEMMA Takes1stSettled ==
  ASSUME MessageInv, NEW c \in Client, ReportsLast(c), Takes1st(c)
  PROVE  Settled(c)
<1>1. PICK q \in Seq(Pdu) : q = s2c[c]
  BY SeqFacts
<1>2. q # << >> /\ s2c'[c] = Tail(q) /\ c2s'[c] = c2s[c] /\ pdu'[c] \in {pdu[c], Head(q)}
  BY <1>1 DEF Takes1st
<1>3. /\ About(Tail(q), "Dlr") \subseteq About(q, "Dlr")
      /\ About(Tail(q), "SubmitSmResp") \subseteq About(q, "SubmitSmResp")
      /\ Head(q).type = "Dlr" => Head(q).sm \in About(q, "Dlr")
  BY <1>2, AboutTail
<1>4. /\ AcksFirst(Tail(q))
      /\ Head(q).type = "Dlr" => Head(q).sm \notin About(Tail(q), "SubmitSmResp")
  BY <1>1, <1>2, AcksFirstTail DEF ReportsLast
<1>5. CASE pdu'[c] = pdu[c]
  <2>1. DlrInHand(c)' = DlrInHand(c)
    BY <1>5 DEF DlrInHand
  <2>. QED
    BY <1>1, <1>2, <1>3, <1>4, <2>1 DEF Settled, ReportsLast, Due, Out
<1>6. CASE pdu'[c] = Head(q)
  <2>1. DlrInHand(c)' = IF Head(q).type = "Dlr" THEN {Head(q).sm} ELSE {}
    BY <1>6 DEF DlrInHand
  <2>. QED
    BY <1>1, <1>2, <1>3, <1>4, <2>1 DEF Settled, ReportsLast, Due, Out
<1>. QED
  BY <1>2, <1>5, <1>6

LEMMA SendsSettled ==
  ASSUME MessageInv, NEW c \in Client, ReportsLast(c), NEW p \in Pdu, Sends(c, p),
         UNCHANGED <<s2c, pdu>>
  PROVE  /\ ReportsLast(c)' /\ Due(c)' \subseteq Due(c)
         /\ Out(c)' \subseteq Out(c) \union {p.sm}
         /\ p.type # "SubmitSm" => Settled(c)
<1>1. c2s[c] \in Seq(Pdu) /\ (c2s'[c] = c2s[c] \/ c2s'[c] = Append(c2s[c], p))
  BY DEF Sends, MessageInv, TypeOK, LinkTypeOK
<1>2. ReportsLast(c)' /\ Due(c)' = Due(c)
  BY DEF ReportsLast, Due, DlrInHand
<1>3. /\ Out(c)' \subseteq Out(c) \union {p.sm}
      /\ p.type # "SubmitSm" => Out(c)' = Out(c)
  <2>1. Out(c)' = About(c2s'[c], "SubmitSm")
    BY DEF Out
  <2>2. CASE c2s'[c] = c2s[c]
    BY <2>1, <2>2 DEF Out
  <2>3. CASE c2s'[c] = Append(c2s[c], p)
    BY <1>1, <2>1, <2>3, AboutAppend DEF Out
  <2>. QED
    BY <1>1, <2>2, <2>3
<1>. QED
  BY <1>2, <1>3 DEF Settled

\* The server gives a PDU, and has taken one or not.
LEMMA GivesSettled ==
  ASSUME MessageInv, NEW c \in Client, ReportsLast(c), NEW p \in Pdu, Gives(c, p),
         UNCHANGED pdu, Out(c)' \subseteq Out(c),
         p.type = "Dlr" => p.sm \in accepted,
         p.type = "SubmitSmResp" => p.sm \notin Due(c)
  PROVE  Settled(c)
<1>1. s2c[c] \in Seq(Pdu) /\ s2c'[c] = Append(s2c[c], p)
  BY DEF Gives, MessageInv, TypeOK, LinkTypeOK
<1>2. DlrInHand(c)' = DlrInHand(c)
  BY DEF DlrInHand
<1>3. AcksFirst(s2c'[c])
  BY <1>1, AcksFirstAppend DEF ReportsLast, Due
<1>4. DlrInHand(c) \intersect About(s2c'[c], "SubmitSmResp") = {}
  BY <1>1, AboutAppend DEF ReportsLast, Due
<1>5. About(s2c'[c], "Dlr") \subseteq About(s2c[c], "Dlr") \union accepted
  BY <1>1, AboutAppend
<1>. QED
  BY <1>2, <1>3, <1>4, <1>5 DEF Settled, ReportsLast, Due

-----------------------------------------------------------------------------
(* What each step does to the reports                                      *)

LEMMA LinksSettled ==
  ASSUME MessageInv, NEW c \in Client, Cut(c) \/ SendsOne(c), UNCHANGED pdu,
         \A e \in Client : ReportsLast(e)
  PROVE  \A e \in Client : Settled(e)
<1>1. CASE Cut(c)
  BY <1>1, DropSettled DEF Cut
<1>2. CASE SendsOne(c)
  <2>1. PICK p \in Pdu : p.type \in {"Bind", "Unbind"} /\ Sends(c, p)
    BY <1>2 DEF SendsOne
  <2>2. Settled(c)
    BY <1>2, <2>1, SendsSettled DEF SendsOne
  <2>. QED
    BY <1>2, <2>2, DropSettled DEF SendsOne
<1>. QED
  BY <1>1, <1>2

LEMMA ReceiverSettled ==
  ASSUME MessageInv, NEW c \in Client, Receiver(c), \A e \in Client : ReportsLast(e)
  PROVE  \A e \in Client : Settled(e)
<1>1. /\ \A e \in Client \ {c} : pdu'[e] = pdu[e]
      /\ Takes1st(c) \/ (Cut(c) /\ pdu'[c] \in {pdu[c], NoPdu})
  BY ReceiverLinks
<1>2. CASE Takes1st(c)
  <2>1. Settled(c)
    BY <1>2, Takes1stSettled
  <2>. QED
    BY <1>1, <1>2, <2>1, DropSettled DEF Takes1st
<1>3. CASE Cut(c) /\ pdu'[c] \in {pdu[c], NoPdu}
  BY <1>1, <1>3, DropSettled DEF Cut
<1>. QED
  BY <1>1, <1>2, <1>3

LEMMA EnvironmentSettled ==
  ASSUME ReportInv, NEW c \in Client, Environment(c)
  PROVE  /\ \A e \in Client : Settled(e)
         /\ accepted' \subseteq accepted \union (Out(c) \ Out(c)')
<1>0. /\ MessageInv /\ \A e \in Client : ReportsLast(e) /\ OneAnswer(e)
      /\ c2s \in [Client -> Seq(Pdu)] /\ s2c \in [Client -> Seq(Pdu)]
      /\ accepted \subseteq Msg
  BY DEF ReportInv, AnswerInv, MessageInv, TypeOK, LinkTypeOK, ServerTypeOK
<1>1. /\ UNCHANGED pdu
      /\ \A e \in Client \ {c} : c2s'[e] = c2s[e] /\ s2c'[e] = s2c[e]
  BY <1>0 DEF Environment, Answers, ServerBind, ServerSubmit, ServerUnbind,
     ServerDlr, ServerRequest, PeerGone, PeerReset, PeerIdle, envUnchanged,
     receiverVars, Takes, Gives
<1>2. \A e \in Client \ {c} : Settled(e)
  BY <1>0, <1>1, DropSettled
<1>3. ASSUME NEW t, Takes(c, t)
      PROVE  /\ Out(c)' \subseteq Out(c)
             /\ t = "SubmitSm" => /\ Head(c2s[c]).sm \in Out(c) \ Out(c)'
                                  /\ Head(c2s[c]).sm \in Msg
  <2>1. PICK q \in Seq(Pdu) : q = c2s[c]
    BY <1>0
  <2>2. q # << >> /\ Head(q).type = t /\ c2s'[c] = Tail(q) /\ Head(q) \in Pdu
    BY <1>0, <1>3, <2>1 DEF Takes
  <2>3. Once(q, "SubmitSm")
    BY <1>0, <2>1 DEF OneAnswer, Apart
  <2>4. Out(c)' = About(Tail(q), "SubmitSm") /\ Out(c) = About(q, "SubmitSm")
    BY <2>1, <2>2 DEF Out
  <2>5. t = "SubmitSm" => Head(q).sm \in Msg
    BY <2>2, PduFacts
  <2>. QED
    BY <2>1, <2>2, <2>3, <2>4, <2>5, AboutTail
<1>4. CASE ServerSubmit(c)
  <2>1. PICK m : m = Head(c2s[c]).sm
    OBVIOUS
  <2>2. m \in Out(c) \ Out(c)' /\ m \in Msg /\ Out(c)' \subseteq Out(c)
    BY <1>3, <1>4, <2>1 DEF ServerSubmit
  <2>3. /\ UNCHANGED s2c \/ \E ok \in BOOLEAN : Gives(c, Answer("SubmitSmResp", m, ok))
        /\ accepted' \subseteq accepted \union {m}
    BY <1>4, <2>1 DEF ServerSubmit
  <2>4. CASE UNCHANGED s2c
    <3>1. ReportsLast(c)' /\ Due(c)' = Due(c)
      BY <1>0, <1>1, <2>4 DEF ReportsLast, Due, DlrInHand
    <3>. QED
      BY <1>2, <2>2, <2>3, <3>1 DEF Settled
  <2>5. ASSUME NEW ok \in BOOLEAN, Gives(c, Answer("SubmitSmResp", m, ok))
        PROVE  Settled(c)
    <3>1. PICK p \in Pdu : /\ p = Answer("SubmitSmResp", m, ok) /\ p.sm = m
                           /\ p.type = "SubmitSmResp"
      BY <2>2, PduFacts DEF Answer
    <3>2. m \notin Due(c)
      BY <2>2 DEF ReportInv
    <3>. QED
      BY <1>0, <1>1, <2>2, <2>5, <3>1, <3>2, GivesSettled
  <2>. QED
    BY <1>2, <2>2, <2>3, <2>4, <2>5
<1>5. ASSUME NEW p \in Pdu, Gives(c, p), p.type \notin {"SubmitSmResp", "Dlr"},
             Out(c)' \subseteq Out(c)
      PROVE  Settled(c)
  BY <1>0, <1>1, <1>5, GivesSettled
<1>6. CASE ServerBind(c) \/ ServerUnbind(c)
  <2>1. /\ accepted' = accepted /\ Out(c)' \subseteq Out(c)
        /\ \/ UNCHANGED s2c
           \/ \E ok \in BOOLEAN : Gives(c, Answer("BindResp", NoMsg, ok))
           \/ Gives(c, Plain("UnbindResp"))
    BY <1>3, <1>6 DEF ServerBind, ServerUnbind, serverVars
  <2>2. /\ \A ok \in BOOLEAN : /\ Answer("BindResp", NoMsg, ok) \in Pdu
                               /\ Answer("BindResp", NoMsg, ok).type = "BindResp"
        /\ Plain("UnbindResp") \in Pdu /\ Plain("UnbindResp").type = "UnbindResp"
    BY PduFacts DEF Plain, Answer, PlainTypes
  <2>3. CASE UNCHANGED s2c
    <3>1. ReportsLast(c)' /\ Due(c)' = Due(c)
      BY <1>0, <1>1, <2>3 DEF ReportsLast, Due, DlrInHand
    <3>. QED
      BY <1>2, <2>1, <3>1 DEF Settled
  <2>4. CASE ~UNCHANGED s2c
    BY <1>2, <1>5, <2>1, <2>2, <2>4
  <2>. QED
    BY <2>3, <2>4
<1>7. CASE ServerDlr(c) \/ ServerRequest(c)
  <2>1. /\ accepted' \subseteq accepted /\ Out(c)' = Out(c)
        /\ \/ Gives(c, Plain("Request"))
           \/ \E m \in accepted : Gives(c, Carry("Dlr", m))
    BY <1>7 DEF ServerDlr, ServerRequest, Out
  <2>2. Plain("Request") \in Pdu /\ Plain("Request").type = "Request"
    BY PduFacts DEF Plain, PlainTypes
  <2>3. ASSUME NEW m \in accepted, Gives(c, Carry("Dlr", m)) PROVE Settled(c)
    <3>1. PICK p \in Pdu : p = Carry("Dlr", m) /\ p.sm = m /\ p.type = "Dlr"
      BY <1>0, PduFacts DEF Carry, MessageTypes
    <3>. QED
      BY <1>0, <1>1, <2>1, <2>3, <3>1, GivesSettled
  <2>. QED
    BY <1>2, <1>5, <2>1, <2>2, <2>3
<1>8. CASE PeerGone(c) \/ PeerReset(c) \/ PeerIdle(c)
  <2>1. /\ c2s'[c] \in {c2s[c], << >>} /\ s2c'[c] \in {s2c[c], << >>}
        /\ accepted' = accepted
    BY <1>0, <1>8 DEF PeerGone, PeerReset, PeerIdle, serverVars
  <2>. QED
    BY <1>0, <1>1, <1>2, <2>1, DropSettled
<1>. QED
  BY <1>4, <1>6, <1>7, <1>8 DEF Environment, Answers

\* A message is lost only if its SubmitSm was never complete, or with a client
\* that is stopped.
LEMMA StepLost ==
  ASSUME MessageInv, LostByStop, [Next]_vars
  PROVE  LostByStop'
<1>1. /\ \A d \in Client : spc[d] = "stopped" => spc'[d] = "stopped"
      /\ \A d \in Client : StopJoined(d) => spc'[d] = "stopped"
  <2>1. spc \in [Client -> StopPcs]
    BY DEF MessageInv, TypeOK, StopTypeOK
  <2>2. UNCHANGED spc \/ \E c \in Client : Stop(c)
    <3>1. ASSUME NEW c \in Client, Worker(c) PROVE UNCHANGED spc
      BY <3>1 DEF Worker, Connect, Bind, BindAcknowledged, GiveUpBinding, DlrTimeouts,
         WaitingTimeouts, AckTimeouts, Fetch, PickNothing, EncodingFails, Register,
         WriteSubmit, Unregister, NoHeartbeat, Heartbeat, WorkerDisconnected, WorkerExit,
         stopVars
    <3>2. ASSUME NEW c \in Client, Receiver(c) PROVE UNCHANGED spc
      BY <3>2 DEF Receiver, Listen, ReadResp, ReadShort, ReadTooLong, BindRespReceived,
         GetWaitingAck, GetAckTimeout, Acknowledge, DlrReceived, RequestReceived,
         Respond, UnbindRespReceived, ReceiverDisconnected, stopVars
    <3>3. ASSUME NEW c \in Client, Environment(c) PROVE UNCHANGED spc
      BY <3>3 DEF Environment, Answers, ServerBind, ServerSubmit, ServerUnbind, ServerDlr,
         ServerRequest, PeerGone, PeerReset, PeerIdle, envUnchanged, stopVars
    <3>4. CASE \/ \E b \in Batch : SubmitSmis(b)
               \/ GetStatuses
               \/ \E m \in Msg : Tick(m)
               \/ UNCHANGED vars
      BY <3>4 DEF SubmitSmis, GetStatuses, Tick, vars, stopVars
    <3>. QED
      BY <3>1, <3>2, <3>3, <3>4 DEF Next
  <2>3. \A c, d \in Client : Stop(c) /\ spc[d] = "stopped" => spc'[d] = "stopped"
    BY <2>1 DEF Stop, StopUnbind, StopDisconnected, StopFinish, StopJoined, StopAt
  <2>4. \A d \in Client : StopJoined(d) => spc'[d] = "stopped"
    BY <2>1 DEF StopJoined, StopAt
  <2>. QED
    BY <2>2, <2>3, <2>4
<1>2. SUFFICES ASSUME \A d \in Client : ~StopJoined(d)
               PROVE  sent' \intersect lost' \subseteq sent \intersect lost
  BY <1>1 DEF LostByStop
<1>3. ASSUME NEW c \in Client, Worker(c)
      PROVE  sent' \intersect lost' \subseteq sent \intersect lost
  <2>1. Hand(c) \intersect sent = {} /\ (Writing(c) => smi[c] \notin sent)
    BY DEF MessageInv, NotYetSent
  <2>2. CASE GiveUpBinding(c)
    BY <2>1, <2>2 DEF GiveUpBinding
  <2>3. CASE WorkerExit(c)
    BY <2>1, <2>3 DEF WorkerExit
  <2>4. CASE EncodingFails(c)
    <3>1. wpc[c] = "submit" /\ smi[c] \in Msg /\ smi[c] # NoMsg
      BY <2>4 DEF EncodingFails, WorkerAt, MessageInv, TypeOK, WorkerTypeOK
    <3>2. Hand(c) = {smi[c]}
      BY <3>1 DEF Hand
    <3>. QED
      BY <2>1, <2>4, <3>2 DEF EncodingFails
  <2>5. CASE Unregister(c)
    BY <2>1, <2>5 DEF Unregister, WorkerAt, Writing
  <2>6. CASE WriteSubmit(c)
    <3>1. smi[c] \in waiting_ack[c]
      BY <2>6 DEF WriteSubmit, WorkerAt, MessageInv, RegisteredFirst, Writing
    <3>2. smi[c] \notin lost
      <4>1. smi[c] \in At("waiting", c) /\ At("lost", c) = lost
        BY <3>1, AtFacts
      <4>2. At("waiting", c) \intersect At("lost", c) = {}
        BY DEF MessageInv, OnePlace, NowhereElse, SamePlace, Places, SharedPlaces, ClientPlaces
      <4>. QED
        BY <4>1, <4>2
    <3>. QED
      BY <2>6, <3>2 DEF WriteSubmit
  <2>7. CASE \/ Connect(c) \/ Bind(c) \/ BindAcknowledged(c) \/ DlrTimeouts(c)
             \/ WaitingTimeouts(c) \/ AckTimeouts(c) \/ Fetch(c) \/ PickNothing(c)
             \/ Register(c) \/ NoHeartbeat(c) \/ Heartbeat(c) \/ WorkerDisconnected(c)
    BY <2>7 DEF Connect, Bind, BindAcknowledged, DlrTimeouts, WaitingTimeouts,
       AckTimeouts, Fetch, PickNothing, Register, NoHeartbeat, Heartbeat,
       WorkerDisconnected, history
  <2>. QED
    BY <1>3, <2>2, <2>3, <2>4, <2>5, <2>6, <2>7 DEF Worker
<1>4. ASSUME ~\E c \in Client : Worker(c) PROVE UNCHANGED history
  BY <1>2, <1>4 DEF Next, SubmitSmis, GetStatuses, Tick, vars, Receiver, Listen, ReadResp,
     ReadShort, ReadTooLong, BindRespReceived, GetWaitingAck, GetAckTimeout,
     Acknowledge, DlrReceived, RequestReceived, Respond, UnbindRespReceived,
     ReceiverDisconnected, Stop, StopUnbind, StopDisconnected, StopFinish,
     Environment, Answers, ServerBind, ServerSubmit, ServerUnbind, ServerDlr,
     ServerRequest, PeerGone, PeerReset, PeerIdle, envUnchanged
<1>. QED
  BY <1>3, <1>4 DEF history

\* A complete SubmitSm is the first about its message.
LEMMA WriteReports ==
  ASSUME ReportInv, NEW c \in Client, WriteSubmit(c), wpc'[c] = "beat"
  PROVE  /\ \A e \in Client : ReportsLast(e)' /\ Due(e)' \subseteq Due(e)
         /\ \A e \in Client \ {c} : Out(e)' \subseteq Out(e)
         /\ Out(c)' \subseteq Out(c) \union {smi[c]}
         /\ smi[c] \notin sent /\ sent' = sent \union {smi[c]} /\ accepted' = accepted
<1>0. /\ MessageInv /\ \A e \in Client : ReportsLast(e)
      /\ wpc \in [Client -> WorkerPcs] /\ c2s \in [Client -> Seq(Pdu)]
  BY DEF ReportInv, AnswerInv, MessageInv, TypeOK, WorkerTypeOK, LinkTypeOK
<1>1. /\ wpc[c] = "write" /\ Sends(c, Carry("SubmitSm", smi[c]))
      /\ sent' = sent \union {smi[c]} /\ accepted' = accepted /\ UNCHANGED <<pdu, s2c>>
  BY <1>0 DEF WriteSubmit, WorkerAt, receiverVars
<1>2. smi[c] \in Msg /\ smi[c] \notin sent
  BY <1>0, <1>1 DEF MessageInv, NotYetSent, Writing, TypeOK, WorkerTypeOK
<1>3. PICK p \in Pdu : p = Carry("SubmitSm", smi[c]) /\ p.sm = smi[c]
  BY <1>2, PduFacts DEF Carry, MessageTypes
<1>4. /\ ReportsLast(c)' /\ Due(c)' \subseteq Due(c)
      /\ Out(c)' \subseteq Out(c) \union {smi[c]}
  BY <1>0, <1>1, <1>3, SendsSettled
<1>5. \A e \in Client \ {c} : ReportsLast(e)' /\ Due(e)' = Due(e) /\ Out(e)' = Out(e)
  <2>1. \A e \in Client \ {c} : c2s'[e] = c2s[e]
    BY <1>0, <1>1 DEF Sends
  <2>. QED
    BY <1>0, <1>1, <2>1 DEF ReportsLast, Due, DlrInHand, Out
<1>. QED
  BY <1>1, <1>2, <1>4, <1>5

LEMMA InitReportInv == Init => ReportInv
<1>. SUFFICES ASSUME Init PROVE ReportInv
  OBVIOUS
<1>1. AnswerInv
  BY InitAnswerInv
<1>2. \A c \in Client : Out(c) = {} /\ Due(c) = {} /\ ReportsLast(c)
  BY AboutNone DEF Init, Out, Due, DlrInHand, NoPdu, ReportsLast, AcksFirst
<1>. QED
  BY <1>1, <1>2 DEF Init, ReportInv, LostByStop

LEMMA StepReportInv == ReportInv /\ [Next]_vars => ReportInv'
<1>. SUFFICES ASSUME ReportInv, [Next]_vars PROVE ReportInv'
  OBVIOUS
<1>1. AnswerInv' /\ LostByStop' /\ MessageInv
  BY StepAnswerInv, StepLost DEF ReportInv, AnswerInv
<1>2. ASSUME NEW c \in Client PROVE Out(c) \subseteq sent
  BY <1>1, UnderwayWasSent DEF Out, Underway, Messages
<1>3. SUFFICES
        /\ \A c \in Client : accepted' \union Due(c)' \subseteq sent' /\ ReportsLast(c)'
        /\ \A c, d \in Client : (accepted' \union Due(c)') \intersect Out(d)' = {}
        /\ \A c, d \in Client : c # d => Out(c)' \intersect Out(d)' = {}
  BY <1>1 DEF ReportInv
<1>4. ASSUME \A e \in Client : Settled(e), sent \subseteq sent',
             NEW c \in Client, accepted' \subseteq accepted \union (Out(c) \ Out(c)')
      PROVE  /\ \A e \in Client : accepted' \union Due(e)' \subseteq sent' /\ ReportsLast(e)'
             /\ \A e, d \in Client : (accepted' \union Due(e)') \intersect Out(d)' = {}
             /\ \A e, d \in Client : e # d => Out(e)' \intersect Out(d)' = {}
  <2>1. \A e \in Client : accepted' \union Due(e)' \subseteq sent' /\ ReportsLast(e)'
    BY <1>2, <1>4 DEF ReportInv, Settled
  <2>2. \A e, d \in Client : e # d => Out(e)' \intersect Out(d)' = {}
    BY <1>4 DEF ReportInv, Settled
  <2>3. ASSUME NEW e \in Client, NEW d \in Client
        PROVE  (accepted' \union Due(e)') \intersect Out(d)' = {}
    <3>1. (accepted \union Due(e)) \intersect Out(d) = {} /\ Out(d)' \subseteq Out(d)
      BY <1>4 DEF ReportInv, Settled
    <3>2. (Out(c) \ Out(c)') \intersect Out(d)' = {}
      BY <1>4, <3>1 DEF ReportInv
    <3>. QED
      BY <1>4, <3>1, <3>2 DEF Settled
  <2>. QED
    BY <2>1, <2>2, <2>3
<1>5. ASSUME \A e \in Client : Settled(e), accepted' = accepted, sent \subseteq sent'
      PROVE  /\ \A e \in Client : accepted' \union Due(e)' \subseteq sent' /\ ReportsLast(e)'
             /\ \A e, d \in Client : (accepted' \union Due(e)') \intersect Out(d)' = {}
             /\ \A e, d \in Client : e # d => Out(e)' \intersect Out(d)' = {}
  BY <1>4, <1>5, ClientAssumption
<1>6. \A e \in Client : ReportsLast(e)
  BY DEF ReportInv
<1>7. CASE \/ \E b \in Batch : SubmitSmis(b)
           \/ GetStatuses
           \/ \E m \in Msg : Tick(m)
           \/ UNCHANGED vars
  <2>1. UNCHANGED <<c2s, s2c, pdu, accepted, sent>>
    BY <1>7 DEF SubmitSmis, GetStatuses, Tick, vars, linkVars, receiverVars, serverVars, history
  <2>. QED
    BY <1>5, <1>6, <2>1, DropSettled
<1>8. ASSUME NEW c \in Client, WriteSubmit(c), wpc'[c] = "beat"
      PROVE  /\ \A e \in Client : accepted' \union Due(e)' \subseteq sent' /\ ReportsLast(e)'
             /\ \A e, d \in Client : (accepted' \union Due(e)') \intersect Out(d)' = {}
             /\ \A e, d \in Client : e # d => Out(e)' \intersect Out(d)' = {}
  <2>1. /\ \A e \in Client : ReportsLast(e)' /\ Due(e)' \subseteq Due(e)
        /\ \A e \in Client \ {c} : Out(e)' \subseteq Out(e)
        /\ Out(c)' \subseteq Out(c) \union {smi[c]}
        /\ smi[c] \notin sent /\ sent' = sent \union {smi[c]} /\ accepted' = accepted
    BY <1>8, WriteReports
  <2>2. \A e \in Client : accepted \union Due(e) \subseteq sent
    BY DEF ReportInv
  <2>3. ASSUME NEW e \in Client, NEW d \in Client
        PROVE  (accepted' \union Due(e)') \intersect Out(d)' = {}
    <3>1. (accepted \union Due(e)) \intersect Out(d) = {}
      BY DEF ReportInv
    <3>. QED
      BY <2>1, <2>2, <3>1
  <2>4. ASSUME NEW e \in Client, NEW d \in Client, e # d
        PROVE  Out(e)' \intersect Out(d)' = {}
    <3>1. Out(e) \intersect Out(d) = {}
      BY <2>4 DEF ReportInv
    <3>. QED
      BY <1>2, <2>1, <2>4, <3>1
  <2>. QED
    BY <2>1, <2>2, <2>3, <2>4
<1>9. ASSUME NEW c \in Client, Worker(c), ~(WriteSubmit(c) /\ wpc'[c] = "beat")
      PROVE  /\ \A e \in Client : accepted' \union Due(e)' \subseteq sent' /\ ReportsLast(e)'
             /\ \A e, d \in Client : (accepted' \union Due(e)') \intersect Out(d)' = {}
             /\ \A e, d \in Client : e # d => Out(e)' \intersect Out(d)' = {}
  <2>1. sent \subseteq sent'
    BY <1>9 DEF Worker, Connect, Bind, BindAcknowledged, GiveUpBinding, DlrTimeouts,
       WaitingTimeouts, AckTimeouts, Fetch, PickNothing, EncodingFails, Register,
       WriteSubmit, Unregister, NoHeartbeat, Heartbeat, WorkerDisconnected,
       WorkerExit, history
  <2>. QED
    BY <1>1, <1>5, <1>6, <1>9, <2>1, WorkerLinks, LinksSettled
<1>10. ASSUME NEW c \in Client, Receiver(c)
       PROVE  /\ \A e \in Client : accepted' \union Due(e)' \subseteq sent' /\ ReportsLast(e)'
              /\ \A e, d \in Client : (accepted' \union Due(e)') \intersect Out(d)' = {}
              /\ \A e, d \in Client : e # d => Out(e)' \intersect Out(d)' = {}
  <2>1. sent' = sent
    BY <1>10 DEF Receiver, Listen, ReadResp, ReadShort, ReadTooLong, BindRespReceived,
       GetWaitingAck, GetAckTimeout, Acknowledge, DlrReceived, RequestReceived,
       Respond, UnbindRespReceived, ReceiverDisconnected, history
  <2>2. accepted' = accepted
    BY <1>1, <1>10, ReceiverLinks
  <2>. QED
    BY <1>1, <1>5, <1>6, <1>10, <2>1, <2>2, ReceiverSettled
<1>11. ASSUME NEW c \in Client, Stop(c)
       PROVE  /\ \A e \in Client : accepted' \union Due(e)' \subseteq sent' /\ ReportsLast(e)'
              /\ \A e, d \in Client : (accepted' \union Due(e)') \intersect Out(d)' = {}
              /\ \A e, d \in Client : e # d => Out(e)' \intersect Out(d)' = {}
  <2>1. sent' = sent
    BY <1>11 DEF Stop, StopUnbind, StopDisconnected, StopFinish, StopJoined, history
  <2>. QED
    BY <1>1, <1>5, <1>6, <1>11, <2>1, StopLinks, LinksSettled
<1>12. ASSUME NEW c \in Client, Environment(c)
       PROVE  /\ \A e \in Client : accepted' \union Due(e)' \subseteq sent' /\ ReportsLast(e)'
              /\ \A e, d \in Client : (accepted' \union Due(e)') \intersect Out(d)' = {}
              /\ \A e, d \in Client : e # d => Out(e)' \intersect Out(d)' = {}
  <2>1. sent' = sent
    BY <1>12 DEF Environment, Answers, ServerBind, ServerSubmit, ServerUnbind, ServerDlr,
       ServerRequest, PeerGone, PeerReset, PeerIdle, envUnchanged, history
  <2>. QED
    BY <1>4, <1>12, <2>1, EnvironmentSettled
<1>. QED
  BY <1>7, <1>8, <1>9, <1>10, <1>11, <1>12 DEF Next

\* Where a message that was sent is, unless a client is gone.
LEMMA SentPlace ==
  ASSUME ReportInv, NEW m \in sent, \A d \in Client : spc[d] # "stopped"
  PROVE  m \in delivering \union Reported \union InFlight
<1>1. MessageInv /\ m \in Msg /\ m \notin lost
  BY DEF ReportInv, LostByStop, AnswerInv, MessageInv, TypeOK, HistoryTypeOK
<1>2. PICK r \in Places, c \in Client : m \in At(r, c)
  BY <1>1 DEF MessageInv, OnePlace, Somewhere
<1>3. /\ m \notin unseen \union Range(to_submit) /\ \A d \in Client : m \notin Hand(d)
      /\ \A d \in Client : Writing(d) => smi[d] # m
  BY <1>1 DEF MessageInv, NotYetSent
<1>4. m \notin Unwritten
  BY <1>3 DEF Unwritten, Writing
<1>5. CASE r \in {"waiting", "late", "acking"}
  <2>1. m \in waiting_ack[c] \union ack_timeout[c] \union {rsmi[c]}
    BY <1>2, <1>5, AtFacts
  <2>. QED
    BY <1>4, <2>1 DEF InFlight, Waiting, TimedOut
<1>6. CASE r \in {"delivering", "delivered", "fetched"}
  BY <1>2, <1>6, AtFacts DEF Reported
<1>7. CASE r \in {"unseen", "to_submit", "lost", "hand"}
  BY <1>1, <1>2, <1>3, <1>7, AtFacts
<1>. QED
  BY <1>5, <1>6, <1>7 DEF Places, SharedPlaces, ClientPlaces

\* When a DLR is handled no answer to its message can come any more on the
\* connection, and the message is delivering or reported, or it is in flight
\* where a timeout reports it, or a client is gone.
THEOREM DlrFollowsAckHolds == Spec => DlrFollowsAck
<1>1. ReportInv /\ [Next]_vars =>
        [\A c \in Client :
           rpc[c] = "process" /\ rpc'[c] = "respond" /\ pdu[c].type = "Dlr" =>
             \/ pdu[c].sm \in delivering \union Reported
             \/ pdu[c].sm \in InFlight /\ ~AckUnderway(c, pdu[c].sm)
             \/ \E d \in Client : spc[d] = "stopped"]_vars
  <2>. SUFFICES ASSUME ReportInv, NEW c \in Client, pdu[c].type = "Dlr",
                       \A d \in Client : spc[d] # "stopped"
                PROVE  \/ pdu[c].sm \in delivering \union Reported
                       \/ pdu[c].sm \in InFlight /\ ~AckUnderway(c, pdu[c].sm)
    OBVIOUS
  <2>1. PICK m : m = pdu[c].sm
    OBVIOUS
  <2>2. m \in Due(c) /\ m \in DlrInHand(c)
    BY <2>1 DEF Due, DlrInHand
  <2>3. m \in sent /\ m \notin Out(c) /\ m \notin About(s2c[c], "SubmitSmResp")
    BY <2>2 DEF ReportInv, ReportsLast
  <2>4. ~AckUnderway(c, m)
    <3>1. ASSUME NEW i \in DOMAIN c2s[c] PROVE c2s[c][i] # Carry("SubmitSm", m)
      <4>1. Carry("SubmitSm", m).type = "SubmitSm" /\ Carry("SubmitSm", m).sm = m
        BY DEF Carry
      <4>. QED
        BY <2>3, <4>1 DEF Out, About
    <3>2. ASSUME NEW i \in DOMAIN s2c[c], s2c[c][i].type = "SubmitSmResp"
          PROVE  s2c[c][i].sm # m
      BY <2>3, <3>2 DEF About
    <3>. QED
      BY <3>1, <3>2 DEF AckUnderway
  <2>5. m \in delivering \union Reported \union InFlight
    BY <2>3, SentPlace
  <2>. QED
    BY <2>1, <2>4, <2>5
<1>. QED
  BY <1>1, InitReportInv, StepReportInv, PTL DEF Spec, DlrFollowsAck

=============================================================================
