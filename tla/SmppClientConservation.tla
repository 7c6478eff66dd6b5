----------------------- MODULE SmppClientConservation -----------------------
(***************************************************************************)
(* Every message is in exactly one place, and goes out once.               *)
(*                                                                         *)
(* The invariant is MessageInv of SmppClientProperties.  A step of the     *)
(* system either moves a set of messages from some places to one other     *)
(* (MoveStep), or leaves all messages where they are (QuietStep), or       *)
(* writes a SubmitSm (WriteSubmitStep).  What the PDUs in flight are about *)
(* is kept apart (the Answers lemmas).                                     *)
(***************************************************************************)
EXTENDS SmppClientProofs

USE NoMsgAssumption

LEMMA RangeOfConcat ==
  ASSUME NEW s \in Seq(Msg), NEW t \in Seq(Msg)
  PROVE  Range(s \o t) = Range(s) \union Range(t)
<1>1. ASSUME NEW x \in Range(s \o t) PROVE x \in Range(s) \union Range(t)
  BY <1>1 DEF Range
<1>2. ASSUME NEW x \in Range(s) PROVE x \in Range(s \o t)
  <2>1. PICK i \in DOMAIN s : x = s[i]
    BY DEF Range
  <2>. QED
    BY <2>1, i \in DOMAIN (s \o t), (s \o t)[i] = s[i] DEF Range
<1>3. ASSUME NEW x \in Range(t) PROVE x \in Range(s \o t)
  <2>1. PICK i \in DOMAIN t : x = t[i]
    BY DEF Range
  <2>2. Len(s) + i \in DOMAIN (s \o t) /\ (s \o t)[Len(s) + i] = t[i]
    OBVIOUS
  <2>. QED
    BY <2>1, <2>2 DEF Range
<1>. QED
  BY <1>1, <1>2, <1>3

LEMMA RangeOfTail ==
  ASSUME NEW s \in Seq(Msg), s # << >>,
         \A i, j \in DOMAIN s : s[i] = s[j] => i = j
  PROVE  /\ Head(s) \in Range(s)
         /\ Range(Tail(s)) = Range(s) \ {Head(s)}
         /\ \A i, j \in DOMAIN Tail(s) : Tail(s)[i] = Tail(s)[j] => i = j
<1>1. 1 \in DOMAIN s /\ Head(s) = s[1]
  OBVIOUS
<1>2. \A i \in DOMAIN Tail(s) : i + 1 \in DOMAIN s /\ Tail(s)[i] = s[i + 1]
  OBVIOUS
<1>3. \A i \in DOMAIN s : i # 1 => i - 1 \in DOMAIN Tail(s)
  OBVIOUS
<1>4. ASSUME NEW x \in Range(Tail(s)) PROVE x \in Range(s) \ {Head(s)}
  <2>1. PICK i \in DOMAIN Tail(s) : x = Tail(s)[i]
    BY DEF Range
  <2>2. i + 1 # 1 /\ i \in Nat
    OBVIOUS
  <2>. QED
    BY <1>1, <1>2, <2>1, <2>2 DEF Range
<1>5. ASSUME NEW x \in Range(s), x # Head(s) PROVE x \in Range(Tail(s))
  <2>1. PICK i \in DOMAIN s : x = s[i]
    BY DEF Range
  <2>2. i # 1 /\ i \in Nat
    BY <1>1, <1>5, <2>1
  <2>3. i - 1 \in DOMAIN Tail(s) /\ Tail(s)[i - 1] = s[i]
    BY <1>2, <1>3, <2>2
  <2>. QED
    BY <2>1, <2>3 DEF Range
<1>6. \A i, j \in DOMAIN Tail(s) : Tail(s)[i] = Tail(s)[j] => i = j
  <2>1. DOMAIN Tail(s) \subseteq Nat
    OBVIOUS
  <2>. QED
    BY <1>2, <2>1
<1>. QED
  BY <1>1, <1>4, <1>5, <1>6 DEF Range

-----------------------------------------------------------------------------
\* What is at place r of client e after the messages of S went to place q
\* from the places of P, all of them shared or of client c.
Moved(S, P, q, c, r, e) ==
  IF r \in ClientPlaces /\ e # c THEN At(r, e)
  ELSE IF r \in P THEN At(r, e) \ S
  ELSE IF r = q THEN At(r, e) \union S
  ELSE At(r, e)

LEMMA MoveKeepsPlaces ==
  ASSUME Somewhere, NowhereElse, NEW c \in Client,
         NEW P \in SUBSET Places, NEW q \in Places, q \notin P,
         NEW S \in SUBSET Msg, \A m \in S : \E p \in P : m \in At(p, c),
         \A r \in Places, e \in Client : At(r, e)' = Moved(S, P, q, c, r, e)
  PROVE  Somewhere' /\ NowhereElse'
<1>1. ASSUME NEW m \in Msg
      PROVE  \E r \in Places, e \in Client : m \in At(r, e)'
  <2>1. CASE m \in S
    BY <2>1, m \in Moved(S, P, q, c, q, c) DEF Moved
  <2>2. CASE m \notin S
    <3>1. PICK r \in Places, e \in Client : m \in At(r, e)
      BY DEF Somewhere
    <3>. QED
      BY <2>2, <3>1 DEF Moved
  <2>. QED
    BY <2>1, <2>2
<1>2. ASSUME NEW r1 \in Places, NEW r2 \in Places,
             NEW e1 \in Client, NEW e2 \in Client,
             NEW m, m \in At(r1, e1)', m \in At(r2, e2)'
      PROVE  SamePlace(r1, e1, r2, e2)
  <2>1. m \in Moved(S, P, q, c, r1, e1) /\ m \in Moved(S, P, q, c, r2, e2)
    BY <1>2
  <2>2. CASE m \in S
    <3>1. PICK p \in P : m \in At(p, c)
      BY <2>2
    <3>2. ASSUME NEW r \in Places, NEW e \in Client, m \in Moved(S, P, q, c, r, e)
          PROVE  r = q /\ (r \in ClientPlaces => e = c)
      <4>1. m \in At(r, e) => r = p /\ (r \in ClientPlaces => e = c)
        BY <3>1 DEF NowhereElse, SamePlace
      <4>. QED
        BY <2>2, <3>2, <4>1 DEF Moved
    <3>. QED
      BY <2>1, <3>2 DEF SamePlace
  <2>3. CASE m \notin S
    BY <2>1, <2>3 DEF Moved, NowhereElse
  <2>. QED
    BY <2>2, <2>3
<1>. QED
  BY <1>1, <1>2 DEF Somewhere, NowhereElse

-----------------------------------------------------------------------------
(* Steps that leave every message where it is                              *)

placeVars == <<unseen, to_submit, delivering, delivered, fetched, lost,
               waiting_ack, ack_timeout, rsmi>>

\* Nothing moves, is reported or goes out.
Quiet ==
  UNCHANGED <<placeVars, status, sent>> /\ \A c \in Client : Hand(c)' = Hand(c)

LEMMA QuietStep ==
  ASSUME MessageInv, TypeOK', AnswersWereSent',
         UNCHANGED <<placeVars, status, sent, smi>>,
         \A c \in Client : Hand(c)' = Hand(c),
         \A c \in Client : Writing(c)' <=> Writing(c)
  PROVE  MessageInv'
<1>. USE DEF placeVars
<1>1. \A p \in Places, c \in Client : At(p, c)' = At(p, c)
  BY DEF At
<1>2. Somewhere' /\ NowhereElse' /\ QueuedOnce'
  BY <1>1 DEF MessageInv, OnePlace, Somewhere, NowhereElse, QueuedOnce
<1>3. RegisteredFirst'
  BY DEF MessageInv, RegisteredFirst
<1>4. NotYetSent'
  BY DEF MessageInv, NotYetSent
<1>5. HandledWasSent'
  BY DEF MessageInv, HandledWasSent, Reported
<1>6. ReportedHasStatus'
  BY DEF MessageInv, ReportedHasStatus, Reported
<1>. QED
  BY <1>2, <1>3, <1>4, <1>5, <1>6 DEF MessageInv, OnePlace

\* How the PDUs in flight change, and what they are about.
LEMMA AnswersAfterNothing ==
  ASSUME AnswersWereSent, UNCHANGED <<c2s, s2c, pdu, sent>>
  PROVE  AnswersWereSent'
BY DEF AnswersWereSent, AnswersSent

LEMMA AnswersAfterDone ==
  ASSUME AnswersWereSent, UNCHANGED <<c2s, s2c, sent>>,
         \A e \in Client : pdu'[e] = pdu[e] \/ pdu'[e] = NoPdu
  PROVE  AnswersWereSent'
BY DEF AnswersWereSent, AnswersSent, NoPdu

LEMMA AnswersAfterDrop ==
  ASSUME AnswersWereSent, UNCHANGED sent,
         \A e \in Client : /\ c2s'[e] = c2s[e] \/ c2s'[e] = << >>
                           /\ s2c'[e] = s2c[e] \/ s2c'[e] = << >>
                           /\ pdu'[e] = pdu[e] \/ pdu'[e] = NoPdu
  PROVE  AnswersWereSent'
<1>1. ASSUME NEW e \in Client
      PROVE  /\ \A i \in DOMAIN c2s'[e] : AnswersSent(c2s[e][i])'
             /\ \A i \in DOMAIN s2c'[e] : AnswersSent(s2c[e][i])'
             /\ AnswersSent(pdu[e])'
  BY DEF AnswersWereSent, AnswersSent, NoPdu
<1>. QED
  BY <1>1 DEF AnswersWereSent

LEMMA AnswersAfterClose ==
  ASSUME AnswersWereSent, LinkTypeOK, NEW c \in Client,
         CloseSocket(c) \/ DropSocket(c),
         \A e \in Client : pdu'[e] = pdu[e] \/ pdu'[e] = NoPdu,
         UNCHANGED sent
  PROVE  AnswersWereSent'
<1>1. \A e \in Client : /\ c2s'[e] = c2s[e] \/ c2s'[e] = << >>
                        /\ s2c'[e] = s2c[e] \/ s2c'[e] = << >>
  BY DEF CloseSocket, DropSocket, LinkTypeOK, linkVars
<1>. QED
  BY <1>1, AnswersAfterDrop

LEMMA AnswersAfterRead ==
  ASSUME AnswersWereSent, LinkTypeOK, ReceiverTypeOK, NEW c \in Client,
         s2c[c] # << >>, pdu' = pdu \/ pdu' = [pdu EXCEPT ![c] = Head(s2c[c])],
         s2c' = [s2c EXCEPT ![c] = Tail(@)], UNCHANGED <<c2s, sent>>
  PROVE  AnswersWereSent'
<1>1. /\ s2c[c] \in Seq(Pdu) /\ 1 \in DOMAIN s2c[c] /\ pdu'[c] \in {pdu[c], s2c[c][1]}
      /\ s2c'[c] = Tail(s2c[c])
      /\ \A e \in Client \ {c} : pdu'[e] = pdu[e] /\ s2c'[e] = s2c[e]
  BY DEF LinkTypeOK, ReceiverTypeOK
<1>2. \A i \in DOMAIN s2c'[c] : i + 1 \in DOMAIN s2c[c] /\ s2c'[c][i] = s2c[c][i + 1]
  <2>1. \A j \in DOMAIN Tail(s2c[c]) :
          j + 1 \in DOMAIN s2c[c] /\ Tail(s2c[c])[j] = s2c[c][j + 1]
    BY <1>1
  <2>. QED
    BY <1>1, <2>1
<1>3. ASSUME NEW e \in Client, NEW i \in DOMAIN s2c'[e]
      PROVE  AnswersSent(s2c[e][i])'
  BY <1>1, <1>2, <1>3 DEF AnswersWereSent, AnswersSent
<1>4. ASSUME NEW e \in Client PROVE AnswersSent(pdu[e])'
  BY <1>1 DEF AnswersWereSent, AnswersSent
<1>. QED
  BY <1>3, <1>4 DEF AnswersWereSent, AnswersSent

LEMMA AnswersAfterSend ==
  ASSUME AnswersWereSent, LinkTypeOK, NEW c \in Client, NEW p, Sends(c, p),
         sent \subseteq sent', AnswersSent(p)', UNCHANGED <<s2c, pdu>>
  PROVE  AnswersWereSent'
<1>1. \A e \in Client : c2s'[e] = c2s[e] \/ c2s'[e] = Append(c2s[e], p)
  BY DEF Sends, LinkTypeOK
<1>2. ASSUME NEW e \in Client, NEW i \in DOMAIN c2s'[e]
      PROVE  AnswersSent(c2s[e][i])'
  <2>1. c2s[e] \in Seq(Pdu)
    BY DEF LinkTypeOK
  <2>2. (i \in DOMAIN c2s[e] /\ c2s'[e][i] = c2s[e][i]) \/ c2s'[e][i] = p
    BY <1>1, <1>2, <2>1
  <2>. QED
    BY <2>2 DEF AnswersWereSent, AnswersSent
<1>. QED
  BY <1>2 DEF AnswersWereSent, AnswersSent

LEMMA AnswersAfterGive ==
  ASSUME AnswersWereSent, LinkTypeOK, NEW c \in Client, NEW p, Gives(c, p),
         AnswersSent(p), UNCHANGED <<pdu, sent>>,
         \A e \in Client : c2s'[e] = c2s[e] \/ (c2s[e] # << >> /\ c2s'[e] = Tail(c2s[e]))
  PROVE  AnswersWereSent'
<1>1. \A e \in Client : s2c'[e] = s2c[e] \/ s2c'[e] = Append(s2c[e], p)
  BY DEF Gives, LinkTypeOK
<1>2. ASSUME NEW e \in Client, NEW i \in DOMAIN s2c'[e]
      PROVE  AnswersSent(s2c[e][i])'
  <2>1. s2c[e] \in Seq(Pdu)
    BY DEF LinkTypeOK
  <2>2. (i \in DOMAIN s2c[e] /\ s2c'[e][i] = s2c[e][i]) \/ s2c'[e][i] = p
    BY <1>1, <1>2, <2>1
  <2>. QED
    BY <2>2 DEF AnswersWereSent, AnswersSent
<1>3. ASSUME NEW e \in Client, NEW i \in DOMAIN c2s'[e]
      PROVE  AnswersSent(c2s[e][i])'
  <2>1. c2s[e] \in Seq(Pdu)
    BY DEF LinkTypeOK
  <2>2. \/ i \in DOMAIN c2s[e] /\ c2s'[e][i] = c2s[e][i]
        \/ i + 1 \in DOMAIN c2s[e] /\ c2s'[e][i] = c2s[e][i + 1]
    <3>1. CASE c2s'[e] = c2s[e]
      BY <1>3, <3>1
    <3>2. CASE c2s[e] # << >> /\ c2s'[e] = Tail(c2s[e])
      <4>1. \A j \in DOMAIN Tail(c2s[e]) :
              j + 1 \in DOMAIN c2s[e] /\ Tail(c2s[e])[j] = c2s[e][j + 1]
        BY <2>1, <3>2
      <4>. QED
        BY <1>3, <3>2, <4>1
    <3>. QED
      BY <3>1, <3>2
  <2>. QED
    BY <2>2 DEF AnswersWereSent, AnswersSent
<1>. QED
  BY <1>2, <1>3 DEF AnswersWereSent, AnswersSent

LEMMA AnswersAfterTake ==
  ASSUME AnswersWereSent, LinkTypeOK, UNCHANGED <<s2c, pdu, sent>>,
         \A e \in Client : c2s'[e] = c2s[e] \/ (c2s[e] # << >> /\ c2s'[e] = Tail(c2s[e]))
  PROVE  AnswersWereSent'
<1>1. ASSUME NEW e \in Client, NEW i \in DOMAIN c2s'[e]
      PROVE  AnswersSent(c2s[e][i])'
  <2>1. c2s[e] \in Seq(Pdu)
    BY DEF LinkTypeOK
  <2>2. \/ i \in DOMAIN c2s[e] /\ c2s'[e][i] = c2s[e][i]
        \/ i + 1 \in DOMAIN c2s[e] /\ c2s'[e][i] = c2s[e][i + 1]
    <3>1. CASE c2s'[e] = c2s[e]
      BY <1>1, <3>1
    <3>2. CASE c2s[e] # << >> /\ c2s'[e] = Tail(c2s[e])
      <4>1. \A j \in DOMAIN Tail(c2s[e]) :
              j + 1 \in DOMAIN c2s[e] /\ Tail(c2s[e])[j] = c2s[e][j + 1]
        BY <2>1, <3>2
      <4>. QED
        BY <1>1, <3>2, <4>1
    <3>. QED
      BY <3>1, <3>2
  <2>. QED
    BY <2>2 DEF AnswersWereSent, AnswersSent
<1>. QED
  BY <1>1 DEF AnswersWereSent, AnswersSent

-----------------------------------------------------------------------------
(* Steps that move messages                                                *)

UnsentPlaces == {"unseen", "to_submit", "hand"}
SentPlaces == {"delivering", "delivered", "fetched", "late", "acking"}

\* What is registered was sent, except the message that is being written.
WritingOK(c) ==
  /\ Writing(c) => smi[c] \in waiting_ack[c] /\ smi[c] \notin sent
  /\ \A m \in waiting_ack[c] : m \in sent \/ (Writing(c) /\ m = smi[c])

LEMMA WritingFacts ==
  ASSUME MessageInv, NEW c \in Client
  PROVE  WritingOK(c)
<1>1. Writing(c) => smi[c] \in waiting_ack[c] /\ smi[c] \notin sent
  BY DEF MessageInv, RegisteredFirst, NotYetSent
<1>2. \A m \in waiting_ack[c] : m \in sent \/ (Writing(c) /\ m = smi[c])
  BY DEF MessageInv, HandledWasSent
<1>. QED
  BY <1>1, <1>2 DEF WritingOK

\* What each place holds.
LEMMA AtFacts ==
  \A c \in Client :
    /\ At("unseen", c) = unseen
    /\ At("to_submit", c) = Range(to_submit)
    /\ At("delivering", c) = delivering
    /\ At("delivered", c) = delivered
    /\ At("fetched", c) = fetched
    /\ At("lost", c) = lost
    /\ At("hand", c) = Hand(c)
    /\ At("waiting", c) = waiting_ack[c]
    /\ At("late", c) = ack_timeout[c]
    /\ At("acking", c) = {rsmi[c]} \ {NoMsg}
BY DEF At

LEMMA SentFacts ==
  ASSUME MessageInv, NEW c \in Client
  PROVE  /\ \A r \in UnsentPlaces : At(r, c) \intersect sent = {}
         /\ \A r \in SentPlaces : At(r, c) \subseteq sent
<1>1. \A r \in UnsentPlaces : At(r, c) \intersect sent = {}
  BY AtFacts DEF MessageInv, NotYetSent, UnsentPlaces
<1>2. \A r \in SentPlaces : At(r, c) \subseteq sent
  <2>1. /\ delivering \subseteq sent /\ delivered \subseteq sent /\ fetched \subseteq sent
        /\ ack_timeout[c] \subseteq sent /\ rsmi[c] \in sent \union {NoMsg}
    BY DEF MessageInv, HandledWasSent, Reported
  <2>. QED
    BY <2>1, AtFacts DEF SentPlaces
<1>. QED
  BY <1>1, <1>2

\* The messages of S, all of them at places of P, go to place q.
Moves(S, P, q, c) ==
  /\ S \subseteq Msg /\ \A m \in S : \E p \in P : m \in At(p, c)
  /\ P \subseteq Places /\ q \in Places /\ q \notin P
  /\ q \in UnsentPlaces => S \intersect sent = {}
  /\ q \in SentPlaces => S \subseteq sent
  /\ \A r \in Places, e \in Client : At(r, e)' = Moved(S, P, q, c, r, e)

\* The messages of S are reported with status s.
Reports(S, s) == status' = [m \in Msg |-> IF m \in S THEN s ELSE status[m]]

LEMMA MoveStep ==
  ASSUME MessageInv, TypeOK', AnswersWereSent', NEW c \in Client,
         NEW P, NEW q, NEW S, Moves(S, P, q, c),
         QueuedOnce', \A e \in Client : WritingOK(e)', ReportedHasStatus',
         UNCHANGED sent
  PROVE  MessageInv'
<1>1. Somewhere' /\ NowhereElse'
  BY MoveKeepsPlaces DEF MessageInv, OnePlace, Moves
<1>2. UnsentPlaces \subseteq Places /\ SentPlaces \subseteq Places
  BY DEF UnsentPlaces, SentPlaces, Places, SharedPlaces, ClientPlaces
<1>3. ASSUME NEW e \in Client
      PROVE  /\ \A r \in UnsentPlaces : At(r, e)' \intersect sent = {}
             /\ \A r \in SentPlaces : At(r, e)' \subseteq sent
  <2>1. \A r \in Places : At(r, e)' \subseteq At(r, e) \union (IF r = q THEN S ELSE {})
    BY DEF Moves, Moved
  <2>. QED
    BY <1>2, <2>1, SentFacts DEF Moves
<1>4. NotYetSent'
  <2>1. unseen' \intersect sent = {} /\ Range(to_submit)' \intersect sent = {}
    BY <1>3 DEF At, UnsentPlaces
  <2>2. \A e \in Client : Hand(e)' \intersect sent = {}
    BY <1>3 DEF At, UnsentPlaces
  <2>3. \A e \in Client : Writing(e)' => smi'[e] \notin sent
    BY DEF WritingOK
  <2>. QED
    BY <2>1, <2>2, <2>3 DEF NotYetSent
<1>5. HandledWasSent'
  <2>1. delivering' \subseteq sent /\ delivered' \subseteq sent /\ fetched' \subseteq sent
    BY <1>3 DEF At, SentPlaces
  <2>2. \A e \in Client : ack_timeout'[e] \subseteq sent /\ rsmi'[e] \in sent \union {NoMsg}
    BY <1>3 DEF At, SentPlaces
  <2>. QED
    BY <2>1, <2>2 DEF HandledWasSent, Reported, WritingOK
<1>6. RegisteredFirst'
  BY DEF RegisteredFirst, WritingOK
<1>. QED
  BY <1>1, <1>4, <1>5, <1>6 DEF MessageInv, OnePlace

LEMMA SubmitSmisStep ==
  ASSUME MessageInv, TypeOK', NEW b \in Batch, SubmitSmis(b)
  PROVE  /\ MessageInv'
         /\ \E d \in Client, S \in SUBSET Msg :
              Moves(S, {"unseen"}, "to_submit", d) /\ UNCHANGED status
<1>. PICK c \in Client : TRUE
  BY ClientAssumption
<1>. DEFINE new == Range(b)
<1>1. /\ to_submit' = to_submit \o b /\ unseen' = unseen \ new
      /\ new \subseteq unseen /\ unseen \subseteq Msg
      /\ b \in Seq(Msg) /\ to_submit \in Seq(Msg)
      /\ UNCHANGED <<delivering, delivered, fetched, status, lost,
                      waiting_ack, ack_timeout, rsmi, smi, content, wpc, sent,
                      c2s, s2c, pdu>>
  BY BatchAssumption DEF SubmitSmis, AddSmis, workerVars, receiverVars,
     ackVars, linkVars, history, MessageInv, TypeOK, AppTypeOK, DsTypeOK
<1>2. /\ new \subseteq Msg /\ \A m \in new : \E p \in {"unseen"} : m \in At(p, c)
      /\ new \intersect sent = {}
      /\ Range(to_submit)' = Range(to_submit) \union new
  <2>1. Range(to_submit)' = Range(to_submit) \union new
    <3>1. Range(to_submit \o b) = Range(to_submit) \union new
      BY <1>1, RangeOfConcat
    <3>. QED
      BY <1>1, <3>1 DEF Range
  <2>2. unseen \intersect sent = {}
    BY DEF MessageInv, NotYetSent
  <2>. QED
    BY <1>1, <2>1, <2>2 DEF At
<1>. HIDE DEF new
<1>3. \A e \in Client : Hand(e)' = Hand(e) /\ (Writing(e)' <=> Writing(e))
  BY <1>1 DEF Hand, Writing
<1>4. ASSUME NEW r \in Places, NEW e \in Client
      PROVE  At(r, e)' = Moved(new, {"unseen"}, "to_submit", c, r, e)
  BY <1>1, <1>2, <1>3 DEF At, Moved, Places, SharedPlaces, ClientPlaces
<1>5. AnswersWereSent'
  BY <1>1, AnswersAfterNothing DEF MessageInv
<1>6. QueuedOnce'
  <2>1. ASSUME NEW i \in DOMAIN to_submit, NEW j \in DOMAIN b
        PROVE  to_submit[i] # b[j]
    <3>1. to_submit[i] \in At("to_submit", c) /\ b[j] \in At("unseen", c)
      BY <1>1 DEF At, Range, new
    <3>. QED
      BY <3>1 DEF MessageInv, OnePlace, NowhereElse, SamePlace, Places, SharedPlaces
  <2>2. \A i \in DOMAIN to_submit' :
          \/ i \in DOMAIN to_submit /\ to_submit'[i] = to_submit[i]
          \/ i - Len(to_submit) \in DOMAIN b /\ to_submit'[i] = b[i - Len(to_submit)]
    BY <1>1
  <2>3. \A i, j \in DOMAIN b : b[i] = b[j] => i = j
    BY BatchAssumption
  <2>4. \A i, j \in DOMAIN to_submit : to_submit[i] = to_submit[j] => i = j
    BY DEF MessageInv, OnePlace, QueuedOnce
  <2>5. DOMAIN to_submit' \subseteq Nat /\ Len(to_submit) \in Nat
    BY <1>1
  <2>. QED
    BY <2>1, <2>2, <2>3, <2>4, <2>5 DEF QueuedOnce
<1>7. ASSUME NEW e \in Client PROVE WritingOK(e)'
  <2>1. WritingOK(e)
    BY WritingFacts
  <2>. QED
    BY <1>1, <1>3, <2>1 DEF WritingOK
<1>8. ReportedHasStatus'
  BY <1>1 DEF MessageInv, ReportedHasStatus, Reported
<1>9. Moves(new, {"unseen"}, "to_submit", c)
  BY <1>2, <1>4 DEF Moves, Places, SharedPlaces, ClientPlaces, UnsentPlaces,
     SentPlaces
<1>10. UNCHANGED sent
  BY <1>1
<1>11. MessageInv'
  BY <1>5, <1>6, <1>7, <1>8, <1>9, <1>10, MoveStep
<1>12. UNCHANGED status
  BY <1>1
<1>. QED
  BY <1>2, <1>9, <1>11, <1>12

LEMMA GetStatusesStep ==
  ASSUME MessageInv, TypeOK', GetStatuses
  PROVE  /\ MessageInv'
         /\ \E d \in Client, S \in SUBSET Msg :
              Moves(S, {"delivered"}, "fetched", d) /\ UNCHANGED status
<1>. PICK c \in Client : TRUE
  BY ClientAssumption
<1>. PICK got \in SUBSET delivered :
          /\ GetGlobalStatus(got) /\ fetched' = fetched \union got
          /\ UNCHANGED <<unseen, lost, waiting_ack, ack_timeout, rsmi, smi,
                         content, wpc, sent, c2s, s2c, pdu>>
  BY DEF GetStatuses, workerVars, receiverVars, ackVars, linkVars, history
<1>1. /\ delivered' = delivered \ got /\ fetched' = fetched \union got
      /\ got \subseteq delivered /\ delivered \subseteq Msg
      /\ UNCHANGED <<unseen, to_submit, delivering, status, lost, waiting_ack,
                      ack_timeout, rsmi, smi, content, wpc, sent, c2s, s2c, pdu>>
  BY DEF GetGlobalStatus, MessageInv, TypeOK, DsTypeOK
<1>2. /\ got \subseteq Msg /\ \A m \in got : \E p \in {"delivered"} : m \in At(p, c)
      /\ got \subseteq sent
  BY <1>1 DEF MessageInv, HandledWasSent, Reported, At
<1>3. \A e \in Client : Hand(e)' = Hand(e) /\ (Writing(e)' <=> Writing(e))
  BY <1>1 DEF Hand, Writing
<1>4. ASSUME NEW r \in Places, NEW e \in Client
      PROVE  At(r, e)' = Moved(got, {"delivered"}, "fetched", c, r, e)
  BY <1>1, <1>3 DEF At, Moved, Places, SharedPlaces, ClientPlaces
<1>5. AnswersWereSent'
  BY <1>1, AnswersAfterNothing DEF MessageInv
<1>6. QueuedOnce'
  BY <1>1 DEF MessageInv, OnePlace, QueuedOnce
<1>7. ASSUME NEW e \in Client PROVE WritingOK(e)'
  <2>1. WritingOK(e)
    BY WritingFacts
  <2>. QED
    BY <1>1, <1>3, <2>1 DEF WritingOK
<1>8. ReportedHasStatus'
  BY <1>1 DEF MessageInv, ReportedHasStatus, Reported
<1>9. Moves(got, {"delivered"}, "fetched", c)
  BY <1>2, <1>4 DEF Moves, Places, SharedPlaces, ClientPlaces, UnsentPlaces,
     SentPlaces
<1>10. UNCHANGED sent
  BY <1>1
<1>11. MessageInv'
  BY <1>5, <1>6, <1>7, <1>8, <1>9, <1>10, MoveStep
<1>12. UNCHANGED status
  BY <1>1
<1>. QED
  BY <1>2, <1>9, <1>11, <1>12

-----------------------------------------------------------------------------
(* The worker's steps that move messages                                   *)

LEMMA DlrTimeoutsStep ==
  ASSUME MessageInv, TypeOK', NEW c \in Client, DlrTimeouts(c)
  PROVE  /\ MessageInv'
         /\ \E S \in SUBSET Msg :
              Moves(S, {"delivering"}, "delivered", c) /\ Reports(S, "dlr_timeout")
<1>. DEFINE late == {m \in delivering : age[m] >= 1}
<1>1. /\ delivering' = delivering \ late /\ delivered' = delivered \union late
      /\ status' = [m \in Msg |-> IF m \in late THEN "dlr_timeout" ELSE status[m]]
      /\ wpc[c] = "dlr_timeout" /\ wpc' = [wpc EXCEPT ![c] = "waiting_timeout"]
      /\ wpc \in [Client -> WorkerPcs]
      /\ UNCHANGED <<unseen, to_submit, fetched, lost, waiting_ack,
                      ack_timeout, rsmi, smi, content, sent, c2s, s2c, pdu>>
  BY DEF DlrTimeouts, WorkerAt, ProcessWaitingDlrTimeout, Report, appVars,
         receiverVars, ackVars, linkVars, history, MessageInv, TypeOK,
         WorkerTypeOK
<1>2. /\ late \subseteq Msg /\ \A m \in late : \E p \in {"delivering"} : m \in At(p, c)
      /\ late \subseteq sent
  BY DEF MessageInv, TypeOK, DsTypeOK, HandledWasSent, At
<1>. HIDE DEF late
<1>3. \A e \in Client : Hand(e)' = Hand(e) /\ (Writing(e)' <=> Writing(e))
  BY <1>1 DEF Hand, Writing
<1>4. ASSUME NEW r \in Places, NEW e \in Client
      PROVE  At(r, e)' = Moved(late, {"delivering"}, "delivered", c, r, e)
  BY <1>1, <1>3 DEF At, Moved, Places, SharedPlaces, ClientPlaces
<1>5. AnswersWereSent'
  BY <1>1, AnswersAfterNothing DEF MessageInv
<1>6. QueuedOnce'
  BY <1>1 DEF MessageInv, OnePlace, QueuedOnce
<1>7. ASSUME NEW e \in Client PROVE WritingOK(e)'
  <2>1. WritingOK(e)
    BY WritingFacts
  <2>. QED
    BY <1>1, <1>3, <2>1 DEF WritingOK
<1>8. ReportedHasStatus'
  BY <1>1 DEF MessageInv, ReportedHasStatus, Reported
<1>9. Moves(late, {"delivering"}, "delivered", c)
  BY <1>2, <1>4 DEF Moves, Places, SharedPlaces, ClientPlaces, UnsentPlaces,
     SentPlaces
<1>10. UNCHANGED sent
  BY <1>1
<1>11. MessageInv'
  BY <1>5, <1>6, <1>7, <1>8, <1>9, <1>10, MoveStep
<1>12. Reports(late, "dlr_timeout")
  BY <1>1 DEF Reports
<1>. QED
  BY <1>2, <1>9, <1>11, <1>12

LEMMA WaitingTimeoutsStep ==
  ASSUME MessageInv, TypeOK', NEW c \in Client, WaitingTimeouts(c)
  PROVE  /\ MessageInv'
         /\ \E S \in SUBSET Msg :
              Moves(S, {"waiting"}, "late", c) /\ UNCHANGED status
<1>. DEFINE late == {m \in waiting_ack[c] : age[m] >= 1}
<1>1. /\ waiting_ack' = [waiting_ack EXCEPT ![c] = @ \ late]
      /\ ack_timeout' = [ack_timeout EXCEPT ![c] = @ \union late]
      /\ wpc[c] = "waiting_timeout" /\ wpc' = [wpc EXCEPT ![c] = "ack_timeout"]
      /\ wpc \in [Client -> WorkerPcs]
      /\ waiting_ack \in [Client -> SUBSET Msg] /\ ack_timeout \in [Client -> SUBSET Msg]
      /\ UNCHANGED <<unseen, to_submit, delivering, delivered, status,
                      fetched, lost, rsmi, smi, content, sent, c2s, s2c, pdu>>
  BY DEF WaitingTimeouts, ASmisWaitingAckTimeout, WorkerAt, dsVars, appVars,
         receiverVars, linkVars, history, AckTypeOK, MessageInv, TypeOK,
         WorkerTypeOK
<1>2. /\ late \subseteq Msg /\ \A m \in late : \E p \in {"waiting"} : m \in At(p, c)
      /\ late \subseteq sent
  <2>1. WritingOK(c) /\ ~Writing(c)
    BY <1>1, WritingFacts DEF Writing
  <2>. QED
    BY <1>1, <2>1 DEF WritingOK, At
<1>. HIDE DEF late
<1>3. \A e \in Client : Hand(e)' = Hand(e) /\ (Writing(e)' <=> Writing(e))
  BY <1>1 DEF Hand, Writing
<1>4. ASSUME NEW r \in Places, NEW e \in Client
      PROVE  At(r, e)' = Moved(late, {"waiting"}, "late", c, r, e)
  BY <1>1, <1>3 DEF At, Moved, Places, SharedPlaces, ClientPlaces
<1>5. AnswersWereSent'
  BY <1>1, AnswersAfterNothing DEF MessageInv
<1>6. QueuedOnce'
  BY <1>1 DEF MessageInv, OnePlace, QueuedOnce
<1>7. ASSUME NEW e \in Client PROVE WritingOK(e)'
  <2>1. WritingOK(e) /\ ~Writing(c)
    BY <1>1, WritingFacts DEF Writing
  <2>2. waiting_ack'[e] \subseteq waiting_ack[e] /\ (e # c => waiting_ack'[e] = waiting_ack[e])
    BY <1>1
  <2>. QED
    BY <1>1, <1>3, <2>1, <2>2 DEF WritingOK
<1>8. ReportedHasStatus'
  BY <1>1 DEF MessageInv, ReportedHasStatus, Reported
<1>9. Moves(late, {"waiting"}, "late", c)
  BY <1>2, <1>4 DEF Moves, Places, SharedPlaces, ClientPlaces, UnsentPlaces,
     SentPlaces
<1>10. UNCHANGED sent
  BY <1>1
<1>11. MessageInv'
  BY <1>5, <1>6, <1>7, <1>8, <1>9, <1>10, MoveStep
<1>12. UNCHANGED status
  BY <1>1
<1>. QED
  BY <1>2, <1>9, <1>11, <1>12

LEMMA AckTimeoutsStep ==
  ASSUME MessageInv, TypeOK', NEW c \in Client, AckTimeouts(c)
  PROVE  /\ MessageInv'
         /\ \E S \in SUBSET Msg :
              Moves(S, {"late"}, "delivered", c) /\ Reports(S, "submit_timeout")
<1>. DEFINE over == Expired(c)
<1>1. /\ ack_timeout' = [ack_timeout EXCEPT ![c] = @ \ over]
      /\ delivered' = delivered \union over
      /\ over \subseteq ack_timeout[c]
      /\ status' = [m \in Msg |-> IF m \in over THEN "submit_timeout" ELSE status[m]]
      /\ wpc[c] = "ack_timeout" /\ wpc' = [wpc EXCEPT ![c] = "pick"]
      /\ wpc \in [Client -> WorkerPcs]
      /\ ack_timeout \in [Client -> SUBSET Msg]
      /\ UNCHANGED <<unseen, to_submit, delivering, fetched, lost,
                      waiting_ack, rsmi, smi, content, sent, c2s, s2c, pdu>>
  BY DEF AckTimeouts, Expired, SubmitFailed, Report, WorkerAt, appVars,
         receiverVars, linkVars, history, AckTypeOK, MessageInv, TypeOK,
         WorkerTypeOK
<1>2. /\ over \subseteq Msg /\ \A m \in over : \E p \in {"late"} : m \in At(p, c)
      /\ over \subseteq sent
  BY <1>1 DEF MessageInv, HandledWasSent, At
<1>. HIDE DEF over
<1>3. \A e \in Client : Hand(e)' = Hand(e) /\ (Writing(e)' <=> Writing(e))
  BY <1>1 DEF Hand, Writing
<1>4. ASSUME NEW r \in Places, NEW e \in Client
      PROVE  At(r, e)' = Moved(over, {"late"}, "delivered", c, r, e)
  BY <1>1, <1>3 DEF At, Moved, Places, SharedPlaces, ClientPlaces
<1>5. AnswersWereSent'
  BY <1>1, AnswersAfterNothing DEF MessageInv
<1>6. QueuedOnce'
  BY <1>1 DEF MessageInv, OnePlace, QueuedOnce
<1>7. ASSUME NEW e \in Client PROVE WritingOK(e)'
  <2>1. WritingOK(e)
    BY WritingFacts
  <2>. QED
    BY <1>1, <1>3, <2>1 DEF WritingOK
<1>8. ReportedHasStatus'
  BY <1>1 DEF MessageInv, ReportedHasStatus, Reported
<1>9. Moves(over, {"late"}, "delivered", c)
  BY <1>2, <1>4 DEF Moves, Places, SharedPlaces, ClientPlaces, UnsentPlaces,
     SentPlaces
<1>10. UNCHANGED sent
  BY <1>1
<1>11. MessageInv'
  BY <1>5, <1>6, <1>7, <1>8, <1>9, <1>10, MoveStep
<1>12. Reports(over, "submit_timeout")
  BY <1>1 DEF Reports
<1>. QED
  BY <1>2, <1>9, <1>11, <1>12

LEMMA GiveUpBindingStep ==
  ASSUME MessageInv, TypeOK', NEW c \in Client, GiveUpBinding(c)
  PROVE  /\ MessageInv'
         /\ \E S \in SUBSET Msg :
              Moves(S, {"hand"}, "lost", c) /\ UNCHANGED status
<1>. DEFINE dropped == Hand(c)
<1>1. /\ lost' = lost \union dropped
      /\ smi' = [smi EXCEPT ![c] = NoMsg]
      /\ content' = [content EXCEPT ![c] = FALSE]
      /\ wpc[c] = "wait" /\ wpc' = [wpc EXCEPT ![c] = Disconnecting(c, "top")]
      /\ wpc \in [Client -> WorkerPcs]
      /\ smi \in [Client -> Msg \union {NoMsg}] /\ content \in [Client -> BOOLEAN]
      /\ UNCHANGED <<unseen, to_submit, delivering, delivered, status,
                      fetched, waiting_ack, ack_timeout, rsmi, sent>>
  BY DEF GiveUpBinding, WorkerAt, FreshSmi, dsVars, appVars, receiverVars,
         ackVars, history, MessageInv, TypeOK, WorkerTypeOK
<1>2. /\ dropped \subseteq Msg /\ \A m \in dropped : \E p \in {"hand"} : m \in At(p, c)
      /\ dropped = Hand(c) /\ ~Writing(c)
  BY <1>1 DEF At, Hand, Writing, LoopHeads
<1>. HIDE DEF dropped
<1>3. /\ Hand(c)' = {} /\ ~Writing(c)'
      /\ \A e \in Client \ {c} : Hand(e)' = Hand(e) /\ (Writing(e)' <=> Writing(e))
  BY <1>1 DEF Hand, Writing, Disconnecting, LoopHeads
<1>4. ASSUME NEW r \in Places, NEW e \in Client
      PROVE  At(r, e)' = Moved(dropped, {"hand"}, "lost", c, r, e)
  BY <1>1, <1>2, <1>3 DEF At, Moved, Places, SharedPlaces, ClientPlaces
<1>5. AnswersWereSent'
  <2>1. CloseSocket(c) /\ UNCHANGED <<pdu, sent>>
    BY DEF GiveUpBinding, receiverVars
  <2>. QED
    BY <2>1, AnswersAfterClose DEF MessageInv, TypeOK
<1>6. QueuedOnce'
  BY <1>1 DEF MessageInv, OnePlace, QueuedOnce
<1>7. ASSUME NEW e \in Client PROVE WritingOK(e)'
  <2>1. WritingOK(e)
    BY WritingFacts
  <2>. QED
    BY <1>1, <1>2, <1>3, <2>1 DEF WritingOK
<1>8. ReportedHasStatus'
  BY <1>1 DEF MessageInv, ReportedHasStatus, Reported
<1>9. Moves(dropped, {"hand"}, "lost", c)
  BY <1>2, <1>4 DEF Moves, Places, SharedPlaces, ClientPlaces, UnsentPlaces,
     SentPlaces
<1>10. UNCHANGED sent
  BY <1>1
<1>11. MessageInv'
  BY <1>5, <1>6, <1>7, <1>8, <1>9, <1>10, MoveStep
<1>12. UNCHANGED status
  BY <1>1
<1>. QED
  BY <1>2, <1>9, <1>11, <1>12

LEMMA WorkerExitStep ==
  ASSUME MessageInv, TypeOK', NEW c \in Client, WorkerExit(c)
  PROVE  /\ MessageInv'
         /\ \E S \in SUBSET Msg :
              Moves(S, {"hand"}, "lost", c) /\ UNCHANGED status
<1>. DEFINE dropped == Hand(c)
<1>1. /\ lost' = lost \union dropped
      /\ smi' = [smi EXCEPT ![c] = NoMsg]
      /\ content' = [content EXCEPT ![c] = FALSE]
      /\ wpc[c] \in LoopHeads /\ wpc' = [wpc EXCEPT ![c] = "done"]
      /\ wpc \in [Client -> WorkerPcs]
      /\ smi \in [Client -> Msg \union {NoMsg}] /\ content \in [Client -> BOOLEAN]
      /\ UNCHANGED <<unseen, to_submit, delivering, delivered, status,
                      fetched, waiting_ack, ack_timeout, rsmi, sent, c2s, s2c,
                      pdu>>
  BY DEF WorkerExit, WorkerAt, FreshSmi, dsVars, appVars, receiverVars,
         ackVars, linkVars, history, MessageInv, TypeOK, WorkerTypeOK
<1>2. /\ dropped \subseteq Msg /\ \A m \in dropped : \E p \in {"hand"} : m \in At(p, c)
      /\ dropped = Hand(c) /\ ~Writing(c)
  BY <1>1 DEF At, Hand, Writing, LoopHeads
<1>. HIDE DEF dropped
<1>3. /\ Hand(c)' = {} /\ ~Writing(c)'
      /\ \A e \in Client \ {c} : Hand(e)' = Hand(e) /\ (Writing(e)' <=> Writing(e))
  BY <1>1 DEF Hand, Writing, Disconnecting, LoopHeads
<1>4. ASSUME NEW r \in Places, NEW e \in Client
      PROVE  At(r, e)' = Moved(dropped, {"hand"}, "lost", c, r, e)
  BY <1>1, <1>2, <1>3 DEF At, Moved, Places, SharedPlaces, ClientPlaces
<1>5. AnswersWereSent'
  BY <1>1, AnswersAfterNothing DEF MessageInv
<1>6. QueuedOnce'
  BY <1>1 DEF MessageInv, OnePlace, QueuedOnce
<1>7. ASSUME NEW e \in Client PROVE WritingOK(e)'
  <2>1. WritingOK(e)
    BY WritingFacts
  <2>. QED
    BY <1>1, <1>2, <1>3, <2>1 DEF WritingOK
<1>8. ReportedHasStatus'
  BY <1>1 DEF MessageInv, ReportedHasStatus, Reported
<1>9. Moves(dropped, {"hand"}, "lost", c)
  BY <1>2, <1>4 DEF Moves, Places, SharedPlaces, ClientPlaces, UnsentPlaces,
     SentPlaces
<1>10. UNCHANGED sent
  BY <1>1
<1>11. MessageInv'
  BY <1>5, <1>6, <1>7, <1>8, <1>9, <1>10, MoveStep
<1>12. UNCHANGED status
  BY <1>1
<1>. QED
  BY <1>2, <1>9, <1>11, <1>12

LEMMA FetchStep ==
  ASSUME MessageInv, TypeOK', NEW c \in Client, Fetch(c)
  PROVE  /\ MessageInv'
         /\ \E S \in SUBSET Msg :
              Moves(S, {"to_submit"}, "hand", c) /\ UNCHANGED status
<1>0. PICK h \in Msg :
        /\ h \in Range(to_submit) /\ Range(to_submit)' = Range(to_submit) \ {h} /\ QueuedOnce'
        /\ smi' = [smi EXCEPT ![c] = h]
        /\ content' = [content EXCEPT ![c] = h \notin Empty]
  <2>1. \A i, j \in DOMAIN to_submit : to_submit[i] = to_submit[j] => i = j
    BY DEF MessageInv, OnePlace, QueuedOnce
  <2>2. to_submit \in Seq(Msg) /\ to_submit # << >> /\ to_submit' = Tail(to_submit)
    BY DEF Fetch, GetToSubmit, MessageInv, TypeOK, DsTypeOK
  <2>3. /\ Head(to_submit) \in Range(to_submit)
        /\ Range(Tail(to_submit)) = Range(to_submit) \ {Head(to_submit)}
        /\ \A i, j \in DOMAIN Tail(to_submit) : Tail(to_submit)[i] = Tail(to_submit)[j] => i = j
    BY <2>1, <2>2, RangeOfTail
  <2>4. Range(to_submit)' = Range(to_submit) \ {Head(to_submit)} /\ QueuedOnce'
    BY <2>2, <2>3 DEF Range, QueuedOnce
  <2>5. Head(to_submit) \in Msg
    BY <2>2
  <2>6. /\ smi' = [smi EXCEPT ![c] = Head(to_submit)]
        /\ content' = [content EXCEPT ![c] = Head(to_submit) \notin Empty]
    BY DEF Fetch
  <2>. QED
    BY <2>3, <2>4, <2>5, <2>6, Zenon
<1>1. /\ ~content[c]
      /\ wpc[c] = "pick" /\ wpc' = [wpc EXCEPT ![c] = "submit"]
      /\ wpc \in [Client -> WorkerPcs]
      /\ smi \in [Client -> Msg \union {NoMsg}] /\ content \in [Client -> BOOLEAN]
      /\ UNCHANGED <<unseen, delivering, delivered, status, fetched, lost,
                      waiting_ack, ack_timeout, rsmi, sent, c2s, s2c, pdu>>
  BY DEF Fetch, WorkerAt, MayFetch, GetToSubmit, appVars, receiverVars,
         ackVars, linkVars, history, MessageInv, TypeOK, WorkerTypeOK
<1>2. /\ {h} \subseteq Msg /\ \A m \in {h} : \E p \in {"to_submit"} : m \in At(p, c)
      /\ {h} \intersect sent = {} /\ h # NoMsg
  <2>1. h \in At("to_submit", c)
    BY <1>0, AtFacts
  <2>2. {h} \intersect sent = {} /\ h # NoMsg
    BY <2>1, SentFacts DEF UnsentPlaces
  <2>. QED
    BY <2>1, <2>2, Zenon
<1>3. /\ Hand(c) = {} /\ Hand(c)' = {h} /\ ~Writing(c) /\ ~Writing(c)'
      /\ \A e \in Client \ {c} : Hand(e)' = Hand(e) /\ (Writing(e)' <=> Writing(e))
  BY <1>0, <1>1, <1>2 DEF Hand, Writing
<1>4. ASSUME NEW r \in Places, NEW e \in Client
      PROVE  At(r, e)' = Moved({h}, {"to_submit"}, "hand", c, r, e)
  BY <1>1, <1>0, <1>3 DEF At, Moved, Places, SharedPlaces, ClientPlaces
<1>5. AnswersWereSent'
  BY <1>1, AnswersAfterNothing DEF MessageInv
<1>6. QueuedOnce'
  BY <1>0
<1>7. ASSUME NEW e \in Client PROVE WritingOK(e)'
  <2>1. WritingOK(e)
    BY WritingFacts
  <2>. QED
    BY <1>0, <1>1, <1>3, <2>1 DEF WritingOK
<1>8. ReportedHasStatus'
  BY <1>1 DEF MessageInv, ReportedHasStatus, Reported
<1>9. Moves({h}, {"to_submit"}, "hand", c)
  BY <1>2, <1>4 DEF Moves, Places, SharedPlaces, ClientPlaces, UnsentPlaces,
     SentPlaces
<1>10. UNCHANGED sent
  BY <1>1
<1>11. MessageInv'
  BY <1>5, <1>6, <1>7, <1>8, <1>9, <1>10, MoveStep
<1>12. UNCHANGED status
  BY <1>1
<1>. QED
  BY <1>2, <1>9, <1>11, <1>12

LEMMA EncodingFailsStep ==
  ASSUME MessageInv, TypeOK', NEW c \in Client, EncodingFails(c), ~content[c]
  PROVE  /\ MessageInv'
         /\ \E S \in SUBSET Msg :
              Moves(S, {"hand"}, "lost", c) /\ UNCHANGED status
<1>. smi[c] \in Msg /\ smi[c] # NoMsg
  <2>1. wpc[c] = "submit"
    BY DEF EncodingFails, WorkerAt
  <2>. QED
    BY <2>1 DEF MessageInv, TypeOK, WorkerTypeOK
<1>1. /\ lost' = lost \union {smi[c]}
      /\ wpc[c] = "submit" /\ wpc' = [wpc EXCEPT ![c] = "top"]
      /\ wpc \in [Client -> WorkerPcs]
      /\ UNCHANGED <<unseen, to_submit, delivering, delivered, status,
                      fetched, ack_timeout, rsmi, smi, waiting_ack, content,
                      sent, c2s, s2c, pdu>>
  BY DEF EncodingFails, WorkerAt, dsVars, appVars, receiverVars, ackVars,
         linkVars, MessageInv, TypeOK, WorkerTypeOK
<1>2. /\ {smi[c]} \subseteq Msg /\ \A m \in {smi[c]} : \E p \in {"hand"} : m \in At(p, c)
      /\ Hand(c) = {smi[c]}
  BY <1>1 DEF At, Hand
<1>3. /\ Hand(c)' = {} /\ \A e \in Client \ {c} : Hand(e)' = Hand(e)
      /\ \A e \in Client : Writing(e)' <=> Writing(e)
  BY <1>1 DEF Hand, Writing
<1>4. ASSUME NEW r \in Places, NEW e \in Client
      PROVE  At(r, e)' = Moved({smi[c]}, {"hand"}, "lost", c, r, e)
  BY <1>1, <1>2, <1>3 DEF At, Moved, Places, SharedPlaces, ClientPlaces
<1>5. AnswersWereSent'
  BY <1>1, AnswersAfterNothing DEF MessageInv
<1>6. QueuedOnce'
  BY <1>1 DEF MessageInv, OnePlace, QueuedOnce
<1>7. ASSUME NEW e \in Client PROVE WritingOK(e)'
  <2>1. WritingOK(e)
    BY WritingFacts
  <2>. QED
    BY <1>1, <1>3, <2>1 DEF WritingOK
<1>8. ReportedHasStatus'
  BY <1>1 DEF MessageInv, ReportedHasStatus, Reported
<1>9. Moves({smi[c]}, {"hand"}, "lost", c)
  BY <1>2, <1>4 DEF Moves, Places, SharedPlaces, ClientPlaces, UnsentPlaces,
     SentPlaces
<1>10. UNCHANGED sent
  BY <1>1
<1>11. MessageInv'
  BY <1>5, <1>6, <1>7, <1>8, <1>9, <1>10, MoveStep
<1>12. UNCHANGED status
  BY <1>1
<1>. QED
  BY <1>2, <1>9, <1>11, <1>12

LEMMA RegisterStep ==
  ASSUME MessageInv, TypeOK', NEW c \in Client, Register(c)
  PROVE  /\ MessageInv'
         /\ \E S \in SUBSET Msg :
              Moves(S, {"hand"}, "waiting", c) /\ UNCHANGED status
<1>. smi[c] \in Msg /\ smi[c] # NoMsg
  <2>1. wpc[c] = "submit"
    BY DEF Register, WorkerAt
  <2>. QED
    BY <2>1 DEF MessageInv, TypeOK, WorkerTypeOK
<1>1. /\ waiting_ack' = [waiting_ack EXCEPT ![c] = @ \union {smi[c]}]
      /\ wpc[c] = "submit" /\ wpc' = [wpc EXCEPT ![c] = "write"]
      /\ wpc \in [Client -> WorkerPcs]
      /\ waiting_ack \in [Client -> SUBSET Msg]
      /\ UNCHANGED <<unseen, to_submit, delivering, delivered, status,
                      fetched, ack_timeout, rsmi, smi, lost, content, sent,
                      c2s, s2c, pdu>>
  BY DEF Register, WorkerAt, AddWaitingAck, appVars, receiverVars, linkVars,
         history, AckTypeOK, MessageInv, TypeOK, WorkerTypeOK
<1>2. /\ {smi[c]} \subseteq Msg /\ \A m \in {smi[c]} : \E p \in {"hand"} : m \in At(p, c)
      /\ Hand(c) = {smi[c]} /\ smi[c] \notin sent
  <2>1. Hand(c) = {smi[c]}
    BY <1>1 DEF Hand
  <2>2. Hand(c) \intersect sent = {}
    BY DEF MessageInv, NotYetSent
  <2>. QED
    BY <1>1, <2>1, <2>2 DEF At
<1>3. /\ Hand(c)' = {} /\ \A e \in Client \ {c} : Hand(e)' = Hand(e)
      /\ ~Writing(c) /\ Writing(c)' /\ \A e \in Client \ {c} : Writing(e)' <=> Writing(e)
  BY <1>1 DEF Hand, Writing
<1>4. ASSUME NEW r \in Places, NEW e \in Client
      PROVE  At(r, e)' = Moved({smi[c]}, {"hand"}, "waiting", c, r, e)
  BY <1>1, <1>2, <1>3 DEF At, Moved, Places, SharedPlaces, ClientPlaces
<1>5. AnswersWereSent'
  BY <1>1, AnswersAfterNothing DEF MessageInv
<1>6. QueuedOnce'
  BY <1>1 DEF MessageInv, OnePlace, QueuedOnce
<1>7. ASSUME NEW e \in Client PROVE WritingOK(e)'
  <2>1. WritingOK(e)
    BY WritingFacts
  <2>2. CASE e = c
    BY <1>1, <1>2, <1>3, <2>1, <2>2 DEF WritingOK
  <2>3. CASE e # c
    BY <1>1, <1>3, <2>1, <2>3 DEF WritingOK
  <2>. QED
    BY <2>2, <2>3
<1>8. ReportedHasStatus'
  BY <1>1 DEF MessageInv, ReportedHasStatus, Reported
<1>9. Moves({smi[c]}, {"hand"}, "waiting", c)
  BY <1>2, <1>4 DEF Moves, Places, SharedPlaces, ClientPlaces, UnsentPlaces,
     SentPlaces
<1>10. UNCHANGED sent
  BY <1>1
<1>11. MessageInv'
  BY <1>5, <1>6, <1>7, <1>8, <1>9, <1>10, MoveStep
<1>12. UNCHANGED status
  BY <1>1
<1>. QED
  BY <1>2, <1>9, <1>11, <1>12

LEMMA UnregisterKeptStep ==
  ASSUME MessageInv, TypeOK', NEW c \in Client, Unregister(c), content[c]
  PROVE  /\ MessageInv'
         /\ \E S \in SUBSET Msg :
              Moves(S, {"waiting"}, "hand", c) /\ UNCHANGED status
<1>. smi[c] \in Msg /\ smi[c] # NoMsg
  <2>1. wpc[c] = "unregister"
    BY DEF Unregister, WorkerAt
  <2>. QED
    BY <2>1 DEF MessageInv, TypeOK, WorkerTypeOK
<1>1. /\ waiting_ack' = [waiting_ack EXCEPT ![c] = @ \ {smi[c]}]
      /\ lost' = lost
      /\ wpc[c] = "unregister" /\ wpc' = [wpc EXCEPT ![c] = Disconnecting(c, "top")]
      /\ wpc \in [Client -> WorkerPcs]
      /\ waiting_ack \in [Client -> SUBSET Msg]
      /\ UNCHANGED <<unseen, to_submit, delivering, delivered, status,
                      fetched, ack_timeout, rsmi, smi, content, sent>>
  BY DEF Unregister, WorkerAt, RemoveWaitingAck, dsVars, appVars, receiverVars,
         AckTypeOK, MessageInv, TypeOK, WorkerTypeOK
<1>2. /\ {smi[c]} \subseteq Msg /\ \A m \in {smi[c]} : \E p \in {"waiting"} : m \in At(p, c)
      /\ smi[c] \in waiting_ack[c] /\ smi[c] \notin sent
  <2>1. WritingOK(c) /\ Writing(c)
    BY <1>1, WritingFacts DEF Writing
  <2>. QED
    BY <1>1, <2>1 DEF At, WritingOK
<1>3. /\ Hand(c) = {} /\ Hand(c)' = {smi[c]} /\ \A e \in Client \ {c} : Hand(e)' = Hand(e)
      /\ ~Writing(c)' /\ \A e \in Client \ {c} : Writing(e)' <=> Writing(e)
  BY <1>1 DEF Hand, Writing, Disconnecting
<1>4. ASSUME NEW r \in Places, NEW e \in Client
      PROVE  At(r, e)' = Moved({smi[c]}, {"waiting"}, "hand", c, r, e)
  BY <1>1, <1>2, <1>3 DEF At, Moved, Places, SharedPlaces, ClientPlaces
<1>5. AnswersWereSent'
  <2>1. CloseSocket(c) /\ UNCHANGED <<pdu, sent>>
    BY DEF Unregister, receiverVars
  <2>. QED
    BY <2>1, AnswersAfterClose DEF MessageInv, TypeOK
<1>6. QueuedOnce'
  BY <1>1 DEF MessageInv, OnePlace, QueuedOnce
<1>7. ASSUME NEW e \in Client PROVE WritingOK(e)'
  <2>1. WritingOK(e)
    BY WritingFacts
  <2>2. CASE e = c
    BY <1>1, <1>3, <2>1, <2>2 DEF WritingOK
  <2>3. CASE e # c
    BY <1>1, <1>3, <2>1, <2>3 DEF WritingOK
  <2>. QED
    BY <2>2, <2>3
<1>8. ReportedHasStatus'
  BY <1>1 DEF MessageInv, ReportedHasStatus, Reported
<1>9. Moves({smi[c]}, {"waiting"}, "hand", c)
  BY <1>2, <1>4 DEF Moves, Places, SharedPlaces, ClientPlaces, UnsentPlaces,
     SentPlaces
<1>10. UNCHANGED sent
  BY <1>1
<1>11. MessageInv'
  BY <1>5, <1>6, <1>7, <1>8, <1>9, <1>10, MoveStep
<1>12. UNCHANGED status
  BY <1>1
<1>. QED
  BY <1>2, <1>9, <1>11, <1>12

LEMMA UnregisterLostStep ==
  ASSUME MessageInv, TypeOK', NEW c \in Client, Unregister(c), ~content[c]
  PROVE  /\ MessageInv'
         /\ \E S \in SUBSET Msg :
              Moves(S, {"waiting"}, "lost", c) /\ UNCHANGED status
<1>. smi[c] \in Msg /\ smi[c] # NoMsg
  <2>1. wpc[c] = "unregister"
    BY DEF Unregister, WorkerAt
  <2>. QED
    BY <2>1 DEF MessageInv, TypeOK, WorkerTypeOK
<1>1. /\ waiting_ack' = [waiting_ack EXCEPT ![c] = @ \ {smi[c]}]
      /\ lost' = lost \union {smi[c]}
      /\ wpc[c] = "unregister" /\ wpc' = [wpc EXCEPT ![c] = Disconnecting(c, "top")]
      /\ wpc \in [Client -> WorkerPcs]
      /\ waiting_ack \in [Client -> SUBSET Msg]
      /\ UNCHANGED <<unseen, to_submit, delivering, delivered, status,
                      fetched, ack_timeout, rsmi, smi, content, sent>>
  BY DEF Unregister, WorkerAt, RemoveWaitingAck, dsVars, appVars, receiverVars,
         AckTypeOK, MessageInv, TypeOK, WorkerTypeOK
<1>2. /\ {smi[c]} \subseteq Msg /\ \A m \in {smi[c]} : \E p \in {"waiting"} : m \in At(p, c)
      /\ smi[c] \in waiting_ack[c] /\ smi[c] \notin sent
  <2>1. WritingOK(c) /\ Writing(c)
    BY <1>1, WritingFacts DEF Writing
  <2>. QED
    BY <1>1, <2>1 DEF At, WritingOK
<1>3. /\ Hand(c) = {} /\ Hand(c)' = {} /\ \A e \in Client \ {c} : Hand(e)' = Hand(e)
      /\ ~Writing(c)' /\ \A e \in Client \ {c} : Writing(e)' <=> Writing(e)
  BY <1>1 DEF Hand, Writing, Disconnecting
<1>4. ASSUME NEW r \in Places, NEW e \in Client
      PROVE  At(r, e)' = Moved({smi[c]}, {"waiting"}, "lost", c, r, e)
  BY <1>1, <1>2, <1>3 DEF At, Moved, Places, SharedPlaces, ClientPlaces
<1>5. AnswersWereSent'
  <2>1. CloseSocket(c) /\ UNCHANGED <<pdu, sent>>
    BY DEF Unregister, receiverVars
  <2>. QED
    BY <2>1, AnswersAfterClose DEF MessageInv, TypeOK
<1>6. QueuedOnce'
  BY <1>1 DEF MessageInv, OnePlace, QueuedOnce
<1>7. ASSUME NEW e \in Client PROVE WritingOK(e)'
  <2>1. WritingOK(e)
    BY WritingFacts
  <2>2. CASE e = c
    BY <1>1, <1>3, <2>1, <2>2 DEF WritingOK
  <2>3. CASE e # c
    BY <1>1, <1>3, <2>1, <2>3 DEF WritingOK
  <2>. QED
    BY <2>2, <2>3
<1>8. ReportedHasStatus'
  BY <1>1 DEF MessageInv, ReportedHasStatus, Reported
<1>9. Moves({smi[c]}, {"waiting"}, "lost", c)
  BY <1>2, <1>4 DEF Moves, Places, SharedPlaces, ClientPlaces, UnsentPlaces,
     SentPlaces
<1>10. UNCHANGED sent
  BY <1>1
<1>11. MessageInv'
  BY <1>5, <1>6, <1>7, <1>8, <1>9, <1>10, MoveStep
<1>12. UNCHANGED status
  BY <1>1
<1>. QED
  BY <1>2, <1>9, <1>11, <1>12

\* A complete SubmitSm: the message stays registered and is now sent.
LEMMA WriteSubmitStep ==
  ASSUME MessageInv, TypeOK', NEW c \in Client, WriteSubmit(c), wpc'[c] = "beat"
  PROVE  MessageInv'
<1>0. wpc \in [Client -> WorkerPcs] /\ content \in [Client -> BOOLEAN]
  BY DEF MessageInv, TypeOK, WorkerTypeOK
<1>1. /\ wpc[c] = "write" /\ wpc' = [wpc EXCEPT ![c] = "beat"]
      /\ content' = [content EXCEPT ![c] = FALSE]
      /\ Sends(c, Carry("SubmitSm", smi[c])) /\ sent' = sent \union {smi[c]}
      /\ UNCHANGED <<unseen, to_submit, delivering, delivered, status, fetched,
                     lost, waiting_ack, ack_timeout, rsmi, smi, s2c, pdu>>
  BY <1>0 DEF WriteSubmit, WorkerAt, ClearContent, dsVars, appVars, receiverVars,
     ackVars
<1>2. WritingOK(c) /\ Writing(c)
  BY <1>1, WritingFacts DEF Writing
<1>3. /\ \A e \in Client : Hand(e)' = Hand(e)
      /\ ~Writing(c)' /\ \A e \in Client \ {c} : Writing(e)' <=> Writing(e)
  BY <1>0, <1>1 DEF Hand, Writing
<1>4. \A r \in Places, e \in Client : At(r, e)' = At(r, e)
  BY <1>1, <1>3 DEF At
<1>5. Somewhere' /\ NowhereElse' /\ QueuedOnce'
  BY <1>1, <1>4 DEF MessageInv, OnePlace, Somewhere, NowhereElse, QueuedOnce
<1>6. ASSUME NEW r \in Places, NEW e \in Client, smi[c] \in At(r, e)
      PROVE  r = "waiting" /\ e = c
  <2>1. smi[c] \in At("waiting", c)
    BY <1>2, AtFacts DEF WritingOK
  <2>2. "waiting" \in Places /\ "waiting" \in ClientPlaces
    BY DEF Places, ClientPlaces
  <2>. QED
    BY <1>6, <2>1, <2>2 DEF MessageInv, OnePlace, NowhereElse, SamePlace
<1>7. NotYetSent'
  <2>1. ASSUME NEW r \in UnsentPlaces, NEW e \in Client
        PROVE  At(r, e) \intersect sent' = {}
    <3>1. r \in Places /\ r # "waiting"
      BY DEF UnsentPlaces, Places, SharedPlaces, ClientPlaces
    <3>. QED
      BY <1>1, <1>6, <3>1, SentFacts
  <2>2. unseen' \intersect sent' = {} /\ Range(to_submit)' \intersect sent' = {}
    <3>1. unseen \intersect sent' = {} /\ Range(to_submit) \intersect sent' = {}
      BY <2>1, AtFacts DEF UnsentPlaces
    <3>. QED
      BY <1>1, <3>1 DEF Range
  <2>3. \A e \in Client : Hand(e)' \intersect sent' = {}
    BY <1>3, <2>1, AtFacts DEF UnsentPlaces
  <2>4. ASSUME NEW e \in Client, Writing(e)' PROVE smi'[e] \notin sent'
    <3>1. e # c /\ Writing(e) /\ smi[e] \in At("waiting", e)
      BY <1>3, <2>4, WritingFacts, AtFacts DEF WritingOK
    <3>2. smi[e] # smi[c]
      BY <1>6, <3>1 DEF Places, ClientPlaces
    <3>. QED
      BY <1>1, <3>1, <3>2, WritingFacts DEF WritingOK
  <2>. QED
    BY <2>2, <2>3, <2>4 DEF NotYetSent
<1>8. AnswersWereSent'
  <2>1. PICK p : p = Carry("SubmitSm", smi[c])
    OBVIOUS
  <2>2. AnswersSent(p)'
    BY <1>1, <2>1 DEF AnswersSent, Carry
  <2>3. sent \subseteq sent' /\ Sends(c, p) /\ UNCHANGED <<s2c, pdu>>
    BY <1>1, <2>1
  <2>. QED
    BY <2>2, <2>3, AnswersAfterSend DEF MessageInv, TypeOK
<1>9. HandledWasSent'
  <2>1. delivering' \union Reported' \subseteq sent'
    BY <1>1 DEF MessageInv, HandledWasSent, Reported
  <2>2. ASSUME NEW e \in Client
        PROVE  /\ ack_timeout'[e] \subseteq sent'
               /\ rsmi'[e] \in sent' \union {NoMsg}
    BY <1>1 DEF MessageInv, HandledWasSent
  <2>3. ASSUME NEW e \in Client, NEW m \in waiting_ack'[e]
        PROVE  m \in sent' \/ (Writing(e)' /\ m = smi'[e])
    <3>1. WritingOK(e)
      BY WritingFacts
    <3>. QED
      BY <1>1, <1>3, <2>3, <3>1 DEF WritingOK
  <2>. QED
    BY <2>1, <2>2, <2>3 DEF HandledWasSent
<1>10. RegisteredFirst'
  <2>1. \A e \in Client : WritingOK(e)
    BY WritingFacts
  <2>. QED
    BY <1>1, <1>3, <2>1 DEF RegisteredFirst, WritingOK
<1>11. ReportedHasStatus'
  BY <1>1 DEF MessageInv, ReportedHasStatus, Reported
<1>. QED
  BY <1>5, <1>7, <1>8, <1>9, <1>10, <1>11 DEF MessageInv, OnePlace

-----------------------------------------------------------------------------
(* The steps of the receiver and of stop() that move messages              *)

LEMMA GetWaitingAckStep ==
  ASSUME MessageInv, TypeOK', NEW c \in Client, GetWaitingAck(c),
         pdu[c].sm \in waiting_ack[c]
  PROVE  /\ MessageInv'
         /\ \E S \in SUBSET Msg :
              Moves(S, {"waiting"}, "acking", c) /\ UNCHANGED status
<1>0. PICK m \in Msg : m = pdu[c].sm
  BY DEF MessageInv, TypeOK, AckTypeOK
<1>1. /\ m \in waiting_ack[c] /\ waiting_ack' = [waiting_ack EXCEPT ![c] = @ \ {m}]
      /\ rsmi' = [rsmi EXCEPT ![c] = m] /\ rsmi[c] = NoMsg
      /\ pdu[c].type = "SubmitSmResp" /\ pdu[c].sm = m
      /\ rsmi \in [Client -> Msg \union {NoMsg}] /\ waiting_ack \in [Client -> SUBSET Msg]
      /\ ack_timeout \in [Client -> SUBSET Msg]
      /\ UNCHANGED <<unseen, to_submit, delivering, delivered, status,
                      fetched, lost, ack_timeout, wpc, smi, content, sent, c2s,
                      s2c, pdu>>
  BY <1>0 DEF GetWaitingAck, Handles, ReceiverAt, dsVars, appVars, workerVars,
     linkVars, history, MessageInv, TypeOK, ReceiverTypeOK, AckTypeOK
<1>2. /\ {m} \subseteq Msg /\ \A x \in {m} : \E p \in {"waiting"} : x \in At(p, c)
      /\ m \in sent /\ m # NoMsg
  BY <1>1 DEF MessageInv, AnswersWereSent, AnswersSent, At
<1>3. \A e \in Client : Hand(e)' = Hand(e) /\ (Writing(e)' <=> Writing(e))
  BY <1>1 DEF Hand, Writing
<1>4. ASSUME NEW r \in Places, NEW e \in Client
      PROVE  At(r, e)' = Moved({m}, {"waiting"}, "acking", c, r, e)
  BY <1>1, <1>2, <1>3 DEF At, Moved, Places, SharedPlaces, ClientPlaces
<1>5. AnswersWereSent'
  BY <1>1, AnswersAfterNothing DEF MessageInv
<1>6. QueuedOnce'
  BY <1>1 DEF MessageInv, OnePlace, QueuedOnce
<1>7. ASSUME NEW e \in Client PROVE WritingOK(e)'
  <2>1. WritingOK(e)
    BY WritingFacts
  <2>2. CASE e = c
    BY <1>1, <1>2, <1>3, <2>1, <2>2 DEF WritingOK
  <2>3. CASE e # c
    BY <1>1, <1>3, <2>1, <2>3 DEF WritingOK
  <2>. QED
    BY <2>2, <2>3
<1>8. ReportedHasStatus'
  BY <1>1 DEF MessageInv, ReportedHasStatus, Reported
<1>9. Moves({m}, {"waiting"}, "acking", c)
  BY <1>2, <1>4 DEF Moves, Places, SharedPlaces, ClientPlaces, UnsentPlaces,
     SentPlaces
<1>10. UNCHANGED sent
  BY <1>1
<1>11. MessageInv'
  BY <1>5, <1>6, <1>7, <1>8, <1>9, <1>10, MoveStep
<1>12. UNCHANGED status
  BY <1>1
<1>. QED
  BY <1>2, <1>9, <1>11, <1>12

LEMMA GetAckTimeoutStep ==
  ASSUME MessageInv, TypeOK', NEW c \in Client, GetAckTimeout(c),
         FoundLate(c, pdu[c].sm)
  PROVE  /\ MessageInv'
         /\ \E S \in SUBSET Msg :
              Moves(S, {"late"}, "acking", c) /\ UNCHANGED status
<1>0. PICK m \in Msg : m = pdu[c].sm
  BY DEF MessageInv, TypeOK, AckTypeOK, FoundLate
<1>1. /\ m \in ack_timeout[c] /\ ack_timeout' = [ack_timeout EXCEPT ![c] = @ \ {m}]
      /\ rsmi' = [rsmi EXCEPT ![c] = m] /\ rsmi[c] = NoMsg
      /\ rsmi \in [Client -> Msg \union {NoMsg}] /\ waiting_ack \in [Client -> SUBSET Msg]
      /\ ack_timeout \in [Client -> SUBSET Msg]
      /\ UNCHANGED <<unseen, to_submit, delivering, delivered, status,
                      fetched, lost, waiting_ack, wpc, smi, content, sent, c2s,
                      s2c, pdu>>
  BY <1>0 DEF GetAckTimeout, FoundLate, ReceiverAt, dsVars, appVars, workerVars,
     linkVars, history, MessageInv, TypeOK, ReceiverTypeOK, AckTypeOK
<1>2. /\ {m} \subseteq Msg /\ \A x \in {m} : \E p \in {"late"} : x \in At(p, c)
      /\ m \in sent /\ m # NoMsg
  BY <1>1 DEF MessageInv, HandledWasSent, At
<1>3. \A e \in Client : Hand(e)' = Hand(e) /\ (Writing(e)' <=> Writing(e))
  BY <1>1 DEF Hand, Writing
<1>4. ASSUME NEW r \in Places, NEW e \in Client
      PROVE  At(r, e)' = Moved({m}, {"late"}, "acking", c, r, e)
  BY <1>1, <1>2, <1>3 DEF At, Moved, Places, SharedPlaces, ClientPlaces
<1>5. AnswersWereSent'
  BY <1>1, AnswersAfterNothing DEF MessageInv
<1>6. QueuedOnce'
  BY <1>1 DEF MessageInv, OnePlace, QueuedOnce
<1>7. ASSUME NEW e \in Client PROVE WritingOK(e)'
  <2>1. WritingOK(e)
    BY WritingFacts
  <2>. QED
    BY <1>1, <1>3, <2>1 DEF WritingOK
<1>8. ReportedHasStatus'
  BY <1>1 DEF MessageInv, ReportedHasStatus, Reported
<1>9. Moves({m}, {"late"}, "acking", c)
  BY <1>2, <1>4 DEF Moves, Places, SharedPlaces, ClientPlaces, UnsentPlaces,
     SentPlaces
<1>10. UNCHANGED sent
  BY <1>1
<1>11. MessageInv'
  BY <1>5, <1>6, <1>7, <1>8, <1>9, <1>10, MoveStep
<1>12. UNCHANGED status
  BY <1>1
<1>. QED
  BY <1>2, <1>9, <1>11, <1>12

LEMMA PositiveAckStep ==
  ASSUME MessageInv, TypeOK', NEW c \in Client, Acknowledge(c), pdu[c].ok
  PROVE  /\ MessageInv'
         /\ \E S \in SUBSET Msg :
              Moves(S, {"acking"}, "delivering", c) /\ UNCHANGED status
<1>0. PICK m \in Msg : m = rsmi[c]
  BY DEF Acknowledge, ReceiverAt, MessageInv, TypeOK, ReceiverTypeOK
<1>1. /\ delivering' = delivering \union {m}
      /\ rsmi' = [rsmi EXCEPT ![c] = NoMsg] /\ rsmi[c] = m
      /\ rsmi \in [Client -> Msg \union {NoMsg}] /\ waiting_ack \in [Client -> SUBSET Msg]
      /\ ack_timeout \in [Client -> SUBSET Msg]
      /\ UNCHANGED <<unseen, to_submit, delivered, status, fetched, lost,
                      waiting_ack, ack_timeout, wpc, smi, content, sent>>
  BY <1>0 DEF Acknowledge, SmIsDelivering, ReceiverAt, appVars, workerVars, ackVars,
     history, MessageInv, TypeOK, ReceiverTypeOK, AckTypeOK
<1>2. /\ {m} \subseteq Msg /\ \A x \in {m} : \E p \in {"acking"} : x \in At(p, c)
      /\ m \in sent /\ m # NoMsg
  BY <1>1 DEF MessageInv, HandledWasSent, At
<1>3. \A e \in Client : Hand(e)' = Hand(e) /\ (Writing(e)' <=> Writing(e))
  BY <1>1 DEF Hand, Writing
<1>4. ASSUME NEW r \in Places, NEW e \in Client
      PROVE  At(r, e)' = Moved({m}, {"acking"}, "delivering", c, r, e)
  BY <1>1, <1>2, <1>3 DEF At, Moved, Places, SharedPlaces, ClientPlaces
<1>5. AnswersWereSent'
  <2>1. pdu' = [pdu EXCEPT ![c] = NoPdu] /\ UNCHANGED <<c2s, s2c, sent>>
    BY DEF Acknowledge, linkVars, history
  <2>2. \A e \in Client : pdu'[e] = pdu[e] \/ pdu'[e] = NoPdu
    BY <2>1 DEF MessageInv, TypeOK, ReceiverTypeOK
  <2>. QED
    BY <2>1, <2>2, AnswersAfterDone DEF MessageInv
<1>6. QueuedOnce'
  BY <1>1 DEF MessageInv, OnePlace, QueuedOnce
<1>7. ASSUME NEW e \in Client PROVE WritingOK(e)'
  <2>1. WritingOK(e)
    BY WritingFacts
  <2>. QED
    BY <1>1, <1>3, <2>1 DEF WritingOK
<1>8. ReportedHasStatus'
  BY <1>1 DEF MessageInv, ReportedHasStatus, Reported
<1>9. Moves({m}, {"acking"}, "delivering", c)
  BY <1>2, <1>4 DEF Moves, Places, SharedPlaces, ClientPlaces, UnsentPlaces,
     SentPlaces
<1>10. UNCHANGED sent
  BY <1>1
<1>11. MessageInv'
  BY <1>5, <1>6, <1>7, <1>8, <1>9, <1>10, MoveStep
<1>12. UNCHANGED status
  BY <1>1
<1>. QED
  BY <1>2, <1>9, <1>11, <1>12

LEMMA NegativeAckStep ==
  ASSUME MessageInv, TypeOK', NEW c \in Client, Acknowledge(c), ~pdu[c].ok
  PROVE  /\ MessageInv'
         /\ \E S \in SUBSET Msg :
              Moves(S, {"acking"}, "delivered", c) /\ Reports(S, "rejected")
<1>0. PICK m \in Msg : m = rsmi[c]
  BY DEF Acknowledge, ReceiverAt, MessageInv, TypeOK, ReceiverTypeOK
<1>1. /\ delivered' = delivered \union {m}
      /\ status' = [n \in Msg |-> IF n \in {m} THEN "rejected" ELSE status[n]]
      /\ rsmi' = [rsmi EXCEPT ![c] = NoMsg] /\ rsmi[c] = m
      /\ rsmi \in [Client -> Msg \union {NoMsg}] /\ waiting_ack \in [Client -> SUBSET Msg]
      /\ ack_timeout \in [Client -> SUBSET Msg]
      /\ UNCHANGED <<unseen, to_submit, delivering, fetched, lost,
                      waiting_ack, ack_timeout, wpc, smi, content, sent>>
  BY <1>0 DEF Acknowledge, SubmitFailed, Report, ReceiverAt, appVars, workerVars, ackVars,
     history, MessageInv, TypeOK, ReceiverTypeOK, AckTypeOK
<1>2. /\ {m} \subseteq Msg /\ \A x \in {m} : \E p \in {"acking"} : x \in At(p, c)
      /\ m \in sent /\ m # NoMsg
  BY <1>1 DEF MessageInv, HandledWasSent, At
<1>3. \A e \in Client : Hand(e)' = Hand(e) /\ (Writing(e)' <=> Writing(e))
  BY <1>1 DEF Hand, Writing
<1>4. ASSUME NEW r \in Places, NEW e \in Client
      PROVE  At(r, e)' = Moved({m}, {"acking"}, "delivered", c, r, e)
  BY <1>1, <1>2, <1>3 DEF At, Moved, Places, SharedPlaces, ClientPlaces
<1>5. AnswersWereSent'
  <2>1. pdu' = [pdu EXCEPT ![c] = NoPdu] /\ UNCHANGED <<c2s, s2c, sent>>
    BY DEF Acknowledge, linkVars, history
  <2>2. \A e \in Client : pdu'[e] = pdu[e] \/ pdu'[e] = NoPdu
    BY <2>1 DEF MessageInv, TypeOK, ReceiverTypeOK
  <2>. QED
    BY <2>1, <2>2, AnswersAfterDone DEF MessageInv
<1>6. QueuedOnce'
  BY <1>1 DEF MessageInv, OnePlace, QueuedOnce
<1>7. ASSUME NEW e \in Client PROVE WritingOK(e)'
  <2>1. WritingOK(e)
    BY WritingFacts
  <2>. QED
    BY <1>1, <1>3, <2>1 DEF WritingOK
<1>8. ReportedHasStatus'
  BY <1>1 DEF MessageInv, ReportedHasStatus, Reported
<1>9. Moves({m}, {"acking"}, "delivered", c)
  BY <1>2, <1>4 DEF Moves, Places, SharedPlaces, ClientPlaces, UnsentPlaces,
     SentPlaces
<1>10. UNCHANGED sent
  BY <1>1
<1>11. MessageInv'
  BY <1>5, <1>6, <1>7, <1>8, <1>9, <1>10, MoveStep
<1>12. Reports({m}, "rejected")
  BY <1>1 DEF Reports
<1>. QED
  BY <1>2, <1>9, <1>11, <1>12

LEMMA DlrStep ==
  ASSUME MessageInv, TypeOK', NEW c \in Client, DlrReceived(c), pdu[c].sm \in delivering
  PROVE  /\ MessageInv'
         /\ \E S \in SUBSET Msg :
              Moves(S, {"delivering"}, "delivered", c) /\ Reports(S, "dlr")
<1>0. PICK m \in Msg : m = pdu[c].sm
  BY DEF MessageInv, TypeOK, DsTypeOK
<1>1. /\ m \in delivering /\ delivering' = delivering \ {m}
      /\ delivered' = delivered \union {m}
      /\ status' = [n \in Msg |-> IF n \in {m} THEN "dlr" ELSE status[n]]
      /\ UNCHANGED <<unseen, to_submit, fetched, lost, waiting_ack,
                      ack_timeout, rsmi, wpc, smi, content, sent, c2s, s2c, pdu>>
  BY <1>0 DEF DlrReceived, SmIsDelivered, Report, appVars, workerVars, ackVars,
     linkVars, history
<1>2. /\ {m} \subseteq Msg /\ \A x \in {m} : \E p \in {"delivering"} : x \in At(p, c)
      /\ m \in sent
  BY <1>1 DEF MessageInv, HandledWasSent, At
<1>3. \A e \in Client : Hand(e)' = Hand(e) /\ (Writing(e)' <=> Writing(e))
  BY <1>1 DEF Hand, Writing
<1>4. ASSUME NEW r \in Places, NEW e \in Client
      PROVE  At(r, e)' = Moved({m}, {"delivering"}, "delivered", c, r, e)
  BY <1>1, <1>2, <1>3 DEF At, Moved, Places, SharedPlaces, ClientPlaces
<1>5. AnswersWereSent'
  BY <1>1, AnswersAfterNothing DEF MessageInv
<1>6. QueuedOnce'
  BY <1>1 DEF MessageInv, OnePlace, QueuedOnce
<1>7. ASSUME NEW e \in Client PROVE WritingOK(e)'
  <2>1. WritingOK(e)
    BY WritingFacts
  <2>. QED
    BY <1>1, <1>3, <2>1 DEF WritingOK
<1>8. ReportedHasStatus'
  BY <1>1 DEF MessageInv, ReportedHasStatus, Reported
<1>9. Moves({m}, {"delivering"}, "delivered", c)
  BY <1>2, <1>4 DEF Moves, Places, SharedPlaces, ClientPlaces, UnsentPlaces,
     SentPlaces
<1>10. UNCHANGED sent
  BY <1>1
<1>11. MessageInv'
  BY <1>5, <1>6, <1>7, <1>8, <1>9, <1>10, MoveStep
<1>12. Reports({m}, "dlr")
  BY <1>1 DEF Reports
<1>. QED
  BY <1>2, <1>9, <1>11, <1>12

LEMMA StopJoinedStep ==
  ASSUME MessageInv, TypeOK', NEW c \in Client, StopJoined(c)
  PROVE  /\ MessageInv'
         /\ \E S \in SUBSET Msg :
              Moves(S, {"waiting", "late"}, "lost", c) /\ UNCHANGED status
<1>. DEFINE dropped == waiting_ack[c] \union ack_timeout[c]
<1>1. /\ lost' = lost \union dropped
      /\ waiting_ack' = [waiting_ack EXCEPT ![c] = {}]
      /\ ack_timeout' = [ack_timeout EXCEPT ![c] = {}]
      /\ wpc[c] = "done"
      /\ waiting_ack \in [Client -> SUBSET Msg] /\ ack_timeout \in [Client -> SUBSET Msg]
      /\ UNCHANGED <<unseen, to_submit, delivering, delivered, status,
                      fetched, rsmi, wpc, smi, content, sent>>
  BY DEF StopJoined, dsVars, appVars, workerVars, receiverVars, MessageInv,
         TypeOK, ReceiverTypeOK, AckTypeOK
<1>2. /\ dropped \subseteq Msg /\ \A m \in dropped : \E p \in {"waiting", "late"} : m \in At(p, c)
      /\ ~Writing(c) /\ dropped = waiting_ack[c] \union ack_timeout[c]
  BY <1>1 DEF At, Writing
<1>. HIDE DEF dropped
<1>3. \A e \in Client : Hand(e)' = Hand(e) /\ (Writing(e)' <=> Writing(e))
  BY <1>1 DEF Hand, Writing
<1>4. ASSUME NEW r \in Places, NEW e \in Client
      PROVE  At(r, e)' = Moved(dropped, {"waiting", "late"}, "lost", c, r, e)
  BY <1>1, <1>2, <1>3 DEF At, Moved, Places, SharedPlaces, ClientPlaces
<1>5. AnswersWereSent'
  <2>1. DropSocket(c) /\ UNCHANGED <<pdu, sent>>
    BY DEF StopJoined, receiverVars
  <2>. QED
    BY <2>1, AnswersAfterClose DEF MessageInv, TypeOK
<1>6. QueuedOnce'
  BY <1>1 DEF MessageInv, OnePlace, QueuedOnce
<1>7. ASSUME NEW e \in Client PROVE WritingOK(e)'
  <2>1. WritingOK(e)
    BY WritingFacts
  <2>2. CASE e = c
    BY <1>1, <1>2, <1>3, <2>2 DEF WritingOK
  <2>3. CASE e # c
    BY <1>1, <1>3, <2>1, <2>3 DEF WritingOK
  <2>. QED
    BY <2>2, <2>3
<1>8. ReportedHasStatus'
  BY <1>1 DEF MessageInv, ReportedHasStatus, Reported
<1>9. Moves(dropped, {"waiting", "late"}, "lost", c)
  BY <1>2, <1>4 DEF Moves, Places, SharedPlaces, ClientPlaces, UnsentPlaces,
     SentPlaces
<1>10. UNCHANGED sent
  BY <1>1
<1>11. MessageInv'
  BY <1>5, <1>6, <1>7, <1>8, <1>9, <1>10, MoveStep
<1>12. UNCHANGED status
  BY <1>1
<1>. QED
  BY <1>2, <1>9, <1>11, <1>12

-----------------------------------------------------------------------------
(* The remaining steps                                                     *)

LEMMA HandsStay ==
  ASSUME MessageInv, NEW c \in Client, UNCHANGED <<smi, content>>,
         wpc' = [wpc EXCEPT ![c] = wpc'[c]],
         \/ {wpc[c], wpc'[c]} \intersect {"submit", "write", "unregister"} = {}
         \/ content[c] /\ {wpc[c], wpc'[c]} \intersect {"write", "unregister"} = {}
         \/ {wpc[c], wpc'[c]} \subseteq {"write", "unregister"}
  PROVE  \A e \in Client : Hand(e)' = Hand(e) /\ (Writing(e)' <=> Writing(e))
<1>1. wpc \in [Client -> WorkerPcs]
  BY DEF MessageInv, TypeOK, WorkerTypeOK
<1>2. \A e \in Client \ {c} : wpc'[e] = wpc[e]
  BY <1>1
<1>. QED
  BY <1>2 DEF Hand, Writing

LEMMA WorkerQuietStep ==
  ASSUME MessageInv, TypeOK', NEW c \in Client,
         \/ Connect(c) \/ Bind(c) \/ BindAcknowledged(c) \/ PickNothing(c)
         \/ NoHeartbeat(c) \/ Heartbeat(c) \/ WorkerDisconnected(c)
         \/ EncodingFails(c) /\ content[c]
         \/ WriteSubmit(c) /\ wpc'[c] # "beat"
  PROVE  MessageInv' /\ Quiet
<1>. USE DEF WorkerAt
<1>0. wpc \in [Client -> WorkerPcs]
  BY DEF MessageInv, TypeOK, WorkerTypeOK
<1>1. UNCHANGED <<placeVars, status, sent, smi, content, pdu>>
  BY <1>0 DEF Connect, Bind, BindAcknowledged, PickNothing, NoHeartbeat,
     Heartbeat, WorkerDisconnected, EncodingFails, WriteSubmit, placeVars,
     dsVars, appVars, receiverVars, ackVars, history
<1>2. wpc' = [wpc EXCEPT ![c] = wpc'[c]]
  BY <1>0 DEF Connect, Bind, BindAcknowledged, PickNothing, NoHeartbeat,
     Heartbeat, WorkerDisconnected, EncodingFails, WriteSubmit
<1>3. \/ {wpc[c], wpc'[c]} \intersect {"submit", "write", "unregister"} = {}
      \/ content[c] /\ {wpc[c], wpc'[c]} \intersect {"write", "unregister"} = {}
      \/ {wpc[c], wpc'[c]} \subseteq {"write", "unregister"}
  BY <1>0 DEF Connect, Bind, BindAcknowledged, PickNothing, NoHeartbeat,
     Heartbeat, WorkerDisconnected, EncodingFails, WriteSubmit, Disconnecting
<1>4. \A e \in Client : Hand(e)' = Hand(e) /\ (Writing(e)' <=> Writing(e))
  BY <1>1, <1>2, <1>3, HandsStay
<1>5. AnswersWereSent'
  <2>1. CASE Connect(c)
    <3>1. \A e \in Client : /\ c2s'[e] = c2s[e] \/ c2s'[e] = << >>
                            /\ s2c'[e] = s2c[e] \/ s2c'[e] = << >>
      BY <2>1 DEF Connect, DropSocket, MessageInv, TypeOK, LinkTypeOK
    <3>. QED
      BY <1>1, <3>1, AnswersAfterDrop DEF MessageInv
  <2>2. CASE CloseSocket(c)
    BY <1>1, <2>2, AnswersAfterClose DEF MessageInv, TypeOK
  <2>3. CASE Sends(c, Plain("Bind")) /\ UNCHANGED s2c
    <3>1. AnswersSent(Plain("Bind"))'
      BY DEF AnswersSent, Plain
    <3>. QED
      BY <1>1, <2>3, <3>1, AnswersAfterSend DEF MessageInv, TypeOK
  <2>4. CASE UNCHANGED <<c2s, s2c>>
    BY <1>1, <2>4, AnswersAfterNothing DEF MessageInv
  <2>. QED
    BY <1>0, <2>1, <2>2, <2>3, <2>4 DEF Bind, BindAcknowledged, PickNothing,
       NoHeartbeat, Heartbeat, WorkerDisconnected, EncodingFails, WriteSubmit,
       linkVars
<1>. QED
  BY <1>1, <1>4, <1>5, QuietStep DEF Quiet

LEMMA ReceiverQuietStep ==
  ASSUME MessageInv, TypeOK', NEW c \in Client,
         \/ Listen(c) \/ ReadResp(c) \/ ReadShort(c) \/ ReadTooLong(c) \/ BindRespReceived(c)
         \/ RequestReceived(c) \/ Respond(c) \/ UnbindRespReceived(c)
         \/ ReceiverDisconnected(c)
         \/ GetWaitingAck(c) /\ pdu[c].sm \notin waiting_ack[c]
         \/ GetAckTimeout(c) /\ ~FoundLate(c, pdu[c].sm)
         \/ DlrReceived(c) /\ pdu[c].sm \notin delivering
  PROVE  MessageInv' /\ Quiet
<1>1. UNCHANGED <<placeVars, status, sent, workerVars>>
  BY DEF Listen, ReadResp, ReadShort, ReadTooLong, BindRespReceived, RequestReceived,
     Respond, UnbindRespReceived, ReceiverDisconnected, GetWaitingAck,
     GetAckTimeout, DlrReceived, SmIsDelivered, placeVars, dsVars, appVars,
     ackVars, history
<1>2. \A e \in Client : Hand(e)' = Hand(e) /\ (Writing(e)' <=> Writing(e))
  BY <1>1 DEF Hand, Writing, workerVars
<1>3. AnswersWereSent'
  <2>0. pdu \in [Client -> Pdu]
    BY DEF MessageInv, TypeOK, ReceiverTypeOK
  <2>1. CASE ReadResp(c) \/ ReadShort(c)
    BY <2>1, AnswersAfterRead DEF ReadResp, ReadShort, MessageInv, TypeOK, history
  <2>2. CASE CloseSocket(c) /\ (UNCHANGED pdu \/ pdu' = [pdu EXCEPT ![c] = NoPdu])
    <3>1. \A e \in Client : pdu'[e] = pdu[e] \/ pdu'[e] = NoPdu
      BY <2>0, <2>2
    <3>. QED
      BY <1>1, <2>2, <3>1, AnswersAfterClose DEF MessageInv, TypeOK
  <2>3. CASE UNCHANGED <<c2s, s2c>> /\ (UNCHANGED pdu \/ pdu' = [pdu EXCEPT ![c] = NoPdu])
    <3>1. \A e \in Client : pdu'[e] = pdu[e] \/ pdu'[e] = NoPdu
      BY <2>0, <2>3
    <3>. QED
      BY <1>1, <2>3, <3>1, AnswersAfterDone DEF MessageInv
  <2>. QED
    BY <2>1, <2>2, <2>3 DEF Listen, ReadTooLong, BindRespReceived,
       RequestReceived, Respond, UnbindRespReceived, ReceiverDisconnected,
       GetWaitingAck, GetAckTimeout, DlrReceived, linkVars
<1>. QED
  BY <1>1, <1>2, <1>3, QuietStep DEF workerVars, Quiet

LEMMA StopQuietStep ==
  ASSUME MessageInv, TypeOK', NEW c \in Client,
         StopUnbind(c) \/ StopDisconnected(c) \/ StopFinish(c)
  PROVE  MessageInv' /\ Quiet
<1>1. UNCHANGED <<placeVars, status, sent, workerVars, pdu>>
  BY DEF StopUnbind, StopDisconnected, StopFinish, placeVars, dsVars, appVars,
     receiverVars, ackVars, history
<1>2. \A e \in Client : Hand(e)' = Hand(e) /\ (Writing(e)' <=> Writing(e))
  BY <1>1 DEF Hand, Writing, workerVars
<1>3. AnswersWereSent'
  <2>1. CASE CloseSocket(c)
    BY <1>1, <2>1, AnswersAfterClose DEF MessageInv, TypeOK
  <2>2. CASE Sends(c, Plain("Unbind")) /\ UNCHANGED s2c
    <3>1. AnswersSent(Plain("Unbind"))'
      BY DEF AnswersSent, Plain
    <3>. QED
      BY <1>1, <2>2, <3>1, AnswersAfterSend DEF MessageInv, TypeOK
  <2>3. CASE UNCHANGED <<c2s, s2c>>
    BY <1>1, <2>3, AnswersAfterNothing DEF MessageInv
  <2>. QED
    BY <2>1, <2>2, <2>3 DEF StopUnbind, StopDisconnected, StopFinish, linkVars
<1>. QED
  BY <1>1, <1>2, <1>3, QuietStep DEF workerVars, Quiet

LEMMA EnvironmentQuietStep ==
  ASSUME MessageInv, TypeOK', NEW c \in Client, Environment(c)
  PROVE  MessageInv' /\ Quiet
<1>1. UNCHANGED <<placeVars, status, sent, workerVars, pdu>>
  BY DEF Environment, Answers, ServerBind, ServerSubmit, ServerUnbind,
     ServerDlr, ServerRequest, PeerGone, PeerReset, PeerIdle, envUnchanged,
     placeVars, dsVars, appVars, receiverVars, ackVars, history
<1>2. \A e \in Client : Hand(e)' = Hand(e) /\ (Writing(e)' <=> Writing(e))
  BY <1>1 DEF Hand, Writing, workerVars
<1>3. LinkTypeOK /\ AnswersWereSent
  BY DEF MessageInv, TypeOK
<1>4. ASSUME NEW t, Takes(c, t)
      PROVE  \A e \in Client : c2s'[e] = c2s[e] \/ (c2s[e] # << >> /\ c2s'[e] = Tail(c2s[e]))
  BY <1>3, <1>4 DEF Takes, LinkTypeOK
<1>5. CASE Answers(c)
  <2>1. \A e \in Client : c2s'[e] = c2s[e] \/ (c2s[e] # << >> /\ c2s'[e] = Tail(c2s[e]))
    BY <1>4, <1>5 DEF Answers, ServerBind, ServerSubmit, ServerUnbind
  <2>2. ASSUME UNCHANGED s2c PROVE AnswersWereSent'
    BY <1>1, <1>3, <2>1, <2>2, AnswersAfterTake
  <2>3. ASSUME NEW p, Gives(c, p), AnswersSent(p)
        PROVE  AnswersWereSent'
    BY <1>1, <1>3, <2>1, <2>3, AnswersAfterGive
  <2>4. ASSUME ServerBind(c) PROVE AnswersWereSent'
    <3>1. \A ok : AnswersSent(Answer("BindResp", NoMsg, ok))
      BY DEF AnswersSent, Answer
    <3>. QED
      BY <2>2, <2>3, <2>4, <3>1 DEF ServerBind
  <2>5. ASSUME ServerSubmit(c) PROVE AnswersWereSent'
    <3>1. PICK m : m = Head(c2s[c]).sm
      OBVIOUS
    <3>2. m \in sent
      <4>1. c2s[c] \in Seq(Pdu) /\ c2s[c] # << >> /\ Head(c2s[c]).type = "SubmitSm"
        BY <1>3, <2>5 DEF LinkTypeOK, ServerSubmit, Takes
      <4>2. 1 \in DOMAIN c2s[c] /\ Head(c2s[c]) = c2s[c][1]
        BY <4>1
      <4>. QED
        BY <1>3, <3>1, <4>1, <4>2 DEF AnswersWereSent, AnswersSent
    <3>3. \A ok : AnswersSent(Answer("SubmitSmResp", m, ok))
      BY <3>2 DEF AnswersSent, Answer
    <3>4. \/ UNCHANGED s2c
          \/ Gives(c, Answer("SubmitSmResp", m, TRUE))
          \/ Gives(c, Answer("SubmitSmResp", m, FALSE))
      BY <2>5, <3>1 DEF ServerSubmit
    <3>. QED
      BY <2>2, <2>3, <3>3, <3>4
  <2>6. ASSUME ServerUnbind(c) PROVE AnswersWereSent'
    <3>1. AnswersSent(Plain("UnbindResp"))
      BY DEF AnswersSent, Plain
    <3>. QED
      BY <2>2, <2>3, <2>6, <3>1 DEF ServerUnbind
  <2>7. AnswersWereSent'
    BY <1>5, <2>4, <2>5, <2>6 DEF Answers
  <2>. QED
    BY <1>1, <1>2, <2>7, QuietStep DEF workerVars, Quiet
<1>6. CASE ServerDlr(c) \/ ServerRequest(c)
  <2>1. PICK p : Gives(c, p) /\ AnswersSent(p)
    <3>1. AnswersSent(Plain("Request")) /\ \A m : AnswersSent(Carry("Dlr", m))
      BY DEF AnswersSent, Plain, Carry
    <3>. QED
      BY <1>6, <3>1 DEF ServerDlr, ServerRequest
  <2>2. UNCHANGED c2s
    BY <1>6 DEF ServerDlr, ServerRequest
  <2>3. AnswersWereSent'
    BY <1>1, <1>3, <2>1, <2>2, AnswersAfterGive
  <2>. QED
    BY <1>1, <1>2, <2>3, QuietStep DEF workerVars, Quiet
<1>7. CASE PeerGone(c) \/ PeerReset(c) \/ PeerIdle(c)
  <2>1. \A e \in Client : /\ c2s'[e] = c2s[e] \/ c2s'[e] = << >>
                          /\ s2c'[e] = s2c[e] \/ s2c'[e] = << >>
    BY <1>3, <1>7 DEF PeerGone, PeerReset, PeerIdle, LinkTypeOK
  <2>2. AnswersWereSent'
    BY <1>1, <1>3, <2>1, AnswersAfterDrop
  <2>. QED
    BY <1>1, <1>2, <2>2, QuietStep DEF workerVars, Quiet
<1>. QED
  BY <1>5, <1>6, <1>7 DEF Environment

\* Time passes, or nothing happens at all.
LEMMA ClockStep ==
  ASSUME MessageInv, TypeOK', (\E m \in Msg : Tick(m)) \/ UNCHANGED vars
  PROVE  MessageInv' /\ Quiet
<1>1. UNCHANGED <<placeVars, status, sent, workerVars, c2s, s2c, pdu>>
  BY DEF Tick, vars, dsVars, appVars, receiverVars, ackVars, linkVars,
     history, placeVars, workerVars
<1>2. \A e \in Client : Hand(e)' = Hand(e) /\ (Writing(e)' <=> Writing(e))
  BY <1>1 DEF Hand, Writing, workerVars
<1>3. AnswersWereSent'
  BY <1>1, AnswersAfterNothing DEF MessageInv
<1>. QED
  BY <1>1, <1>2, <1>3, QuietStep DEF workerVars, Quiet

-----------------------------------------------------------------------------
(* The theorems                                                            *)

LEMMA InitMessageInv == Init => MessageInv
<1>. SUFFICES ASSUME Init PROVE MessageInv
  OBVIOUS
<1>1. TypeOK
  BY InitTypeOK
<1>2. \A c \in Client : Hand(c) = {} /\ ~Writing(c)
  BY DEF Init, Hand, Writing
<1>3. Range(to_submit) = {}
  BY DEF Init, DsInit, Range
<1>4. \A r \in Places, c \in Client : At(r, c) = IF r = "unseen" THEN Msg ELSE {}
  BY <1>2, <1>3 DEF Init, DsInit, At, Places, SharedPlaces, ClientPlaces
<1>5. OnePlace
  <2>1. \E c \in Client : TRUE
    BY ClientAssumption
  <2>2. "unseen" \in Places /\ "unseen" \notin ClientPlaces
    BY DEF Places, SharedPlaces, ClientPlaces
  <2>3. Somewhere /\ NowhereElse
    BY <1>4, <2>1, <2>2 DEF Somewhere, NowhereElse, SamePlace
  <2>. QED
    BY <2>3 DEF OnePlace, QueuedOnce, Init, DsInit
<1>6. RegisteredFirst /\ NotYetSent
  BY <1>2, <1>3 DEF RegisteredFirst, NotYetSent, Init
<1>7. AnswersWereSent
  BY DEF AnswersWereSent, AnswersSent, NoPdu, Init
<1>8. HandledWasSent /\ ReportedHasStatus
  BY DEF HandledWasSent, ReportedHasStatus, Reported, Init, DsInit
<1>. QED
  BY <1>1, <1>5, <1>6, <1>7, <1>8 DEF MessageInv

LEMMA StepMessageInv == MessageInv /\ [Next]_vars => MessageInv'
<1>. SUFFICES ASSUME MessageInv, [Next]_vars PROVE MessageInv'
  OBVIOUS
<1>0. TypeOK'
  BY StepTypeOK DEF MessageInv
<1>1. ASSUME NEW b \in Batch, SubmitSmis(b) PROVE MessageInv'
  BY <1>0, <1>1, SubmitSmisStep
<1>2. CASE GetStatuses
  BY <1>0, <1>2, GetStatusesStep
<1>3. ASSUME NEW c \in Client, Worker(c) PROVE MessageInv'
  BY <1>0, <1>3, WorkerQuietStep, GiveUpBindingStep, DlrTimeoutsStep,
     WaitingTimeoutsStep, AckTimeoutsStep, FetchStep, EncodingFailsStep,
     RegisterStep, WriteSubmitStep, UnregisterKeptStep, UnregisterLostStep,
     WorkerExitStep
     DEF Worker
<1>4. ASSUME NEW c \in Client, Receiver(c) PROVE MessageInv'
  BY <1>0, <1>4, ReceiverQuietStep, GetWaitingAckStep, GetAckTimeoutStep,
     PositiveAckStep, NegativeAckStep, DlrStep
     DEF Receiver
<1>5. ASSUME NEW c \in Client, Stop(c) PROVE MessageInv'
  BY <1>0, <1>5, StopQuietStep, StopJoinedStep DEF Stop
<1>6. ASSUME NEW c \in Client, Environment(c) PROVE MessageInv'
  BY <1>0, <1>6, EnvironmentQuietStep
<1>7. CASE (\E m \in Msg : Tick(m)) \/ UNCHANGED vars
  BY <1>0, <1>7, ClockStep
<1>. QED
  BY <1>1, <1>2, <1>3, <1>4, <1>5, <1>6, <1>7 DEF Next

\* The inductive invariant holds for any number of clients, messages,
\* batches and faults, and for every window.
THEOREM MessageInvariant == Spec => []MessageInv
<1>1. Init => MessageInv
  BY InitMessageInv
<1>2. MessageInv /\ [Next]_vars => MessageInv'
  BY StepMessageInv
<1>. QED
  BY <1>1, <1>2, PTL DEF Spec

\* Conservation of messages: no thread of any client loses, copies or steals
\* a message, except on the paths that drop one.
THEOREM Conservation == Spec => []OnePlace
<1>1. MessageInv => OnePlace
  BY DEF MessageInv
<1>. QED
  BY <1>1, MessageInvariant, PTL

\* A report, whether from an ack, a DLR or a timeout, is about a message
\* whose SubmitSm left the client complete, and it carries a status.
THEOREM ReportsAreTrue == Spec => []ReportedWasSent
<1>1. MessageInv => ReportedWasSent
  <2>. SUFFICES ASSUME MessageInv, NEW m \in Msg
                PROVE  /\ m \in Reported => m \in sent
                       /\ m \in Reported <=> status[m] # "none"
    BY DEF ReportedWasSent
  <2>1. m \in Reported => m \in sent
    BY DEF MessageInv, HandledWasSent
  <2>2. m \in Reported <=> status[m] # "none"
    BY DEF MessageInv, ReportedHasStatus
  <2>. QED
    BY <2>1, <2>2
<1>. QED
  BY <1>1, MessageInvariant, PTL

\* However often the connection breaks, no SubmitSm is sent twice.
THEOREM NoResubmission == Spec => SubmittedOnce
<1>1. MessageInv /\ [Next]_vars =>
        [\A c \in Client : wpc[c] = "write" /\ wpc'[c] = "beat" => smi[c] \notin sent]_vars
  BY DEF MessageInv, NotYetSent, Writing
<1>. QED
  BY <1>1, MessageInvariant, PTL DEF Spec, SubmittedOnce

=============================================================================
