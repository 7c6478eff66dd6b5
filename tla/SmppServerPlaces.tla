-------------------------- MODULE SmppServerPlaces --------------------------
(***************************************************************************)
(* Where a message is: it moves through the queues and lists of the        *)
(* server, and then its report does; taken together they are in at most    *)
(* one place, whatever the threads do and in whatever order.               *)
(***************************************************************************)
EXTENDS SmppServerProofs, FiniteSetTheorems

\* The message that a request, a list entry or a report carries, as a set.
InRequest == [r \in Request |-> IF r.type = "SubmitSm" THEN {r.sm} ELSE {}]
InItem == [x \in ReadItem |-> InRequest[x.req]]
InSmi == [x \in Smi |-> {x.sm}]
InEntry == [e \in DlrEntry |-> {e.sm}]
InFresh == [e \in DlrEntry |-> IF e.state = "DELIVERIED" THEN {e.sm} ELSE {}]
InPushing == [e \in DlrEntry |-> IF e.state = "PUSHING" THEN {e.sm} ELSE {}]
InOut == [p \in Out |-> IF p.type = "Dlr" THEN {p.sm} ELSE {}]
InAnswer == [r \in Request |-> IF r.type = "DeliverSmResp" THEN {r.sm} ELSE {}]
AnswerIn == [x \in ReadItem |-> InAnswer[x.req]]

\* The messages that the elements of q carry; each carries others.
All(q, f) == UNION {f[q[i]] : i \in DOMAIN q}
Once(q, f) == \A i, j \in DOMAIN q : f[q[i]] \intersect f[q[j]] # {} => i = j

OnArrival == IF arriving = << >> THEN {} ELSE InRequest[arriving[1].req]
InHand(t) == IF HasRequest(t) THEN InRequest[req[t]] ELSE {}

\* Places are of several kinds, those of a kind told apart by an owner.
ConnKinds == {"todo", "private", "written"}
SysIdKinds == {"shared", "queued"}
ListKinds == {"arriving", "received", "sending", "waiting", "reporting", "fresh"}
Kinds == ConnKinds \union SysIdKinds \union ListKinds \union {"hand"}
OwnersOf(k) == IF k \in ConnKinds THEN Conn ELSE IF k \in SysIdKinds THEN SysId
               ELSE IF k = "hand" THEN Thread ELSE {NoConn}

In(k, x) == CASE k = "todo" -> All(todo[x], InRequest)
              [] k = "arriving" -> OnArrival
              [] k = "private" -> All(private_in[x], InItem)
              [] k = "shared" -> All(in_queue[x], InItem)
              [] k = "hand" -> InHand(x)
              [] k = "received" -> All(received_smis, InSmi)
              [] k = "sending" -> All(sending, InSmi)
              [] k = "waiting" -> All(wait_dlr_list, InSmi)
              [] k = "reporting" -> All(reporting, InSmi)
              [] k = "fresh" -> All(dlr_list, InFresh)
              [] k = "queued" -> All(out_B[x], InOut)
              [] k = "written" -> All(written[x], InOut)

\* A message, or its report, is in one place ...
OneSpot ==
  \A k, l \in Kinds : \A x \in OwnersOf(k), y \in OwnersOf(l) :
    In(k, x) \intersect In(l, y) # {} => k = l /\ x = y

\* ... and there only once.
NoneTwice ==
  /\ \A c \in Conn : /\ Once(todo[c], InRequest) /\ Once(private_in[c], InItem)
                     /\ Once(written[c], InOut)
  /\ \A s \in SysId : Once(in_queue[s], InItem) /\ Once(out_B[s], InOut)
  /\ Once(received_smis, InSmi) /\ Once(sending, InSmi)
  /\ Once(wait_dlr_list, InSmi) /\ Once(reporting, InSmi) /\ Once(dlr_list, InEntry)

Pushing == All(dlr_list, InPushing)
Reported == UNION {All(written[c], InOut) : c \in Conn}

\* A report that is being pushed is about a message that is nowhere else; what
\* is in a queue B is being pushed.
PushingApart ==
  /\ \A k \in Kinds \ {"queued", "written"} : \A x \in OwnersOf(k) :
       In(k, x) \intersect Pushing = {}
  /\ \A s \in SysId : All(out_B[s], InOut) \subseteq Pushing

\* A client answers a report that it has.
AnswersReported ==
  /\ (IF arriving = << >> THEN {} ELSE InAnswer[arriving[1].req]) \subseteq Reported
  /\ \A c \in Conn : All(private_in[c], AnswerIn) \subseteq Reported
  /\ \A s \in SysId : All(in_queue[s], AnswerIn) \subseteq Reported
  /\ \A t \in Thread : HasRequest(t) => InAnswer[req[t]] \subseteq Reported

InStore(t) == IF tpc[t] = "store" THEN InRequest[req[t]] ELSE {}
Kept ==
  (UNION {InStore(t) : t \in Thread})
    \union All(received_smis, InSmi) \union All(sending, InSmi)
    \union All(wait_dlr_list, InSmi) \union All(reporting, InSmi)
    \union All(dlr_list, InEntry)

\* A message with an ack is kept, reported, or has nowhere to go.
AckedKept == \A m \in Sm : Acked(m) => m \in Kept \union Reported \union NoDst

\* The vendor's thread reports one message at a time.
OneInHand == Len(reporting) <= 1

Places == OneSpot /\ NoneTwice /\ PushingApart /\ AnswersReported /\ AckedKept /\ OneInHand

ServerInv == TypeInv /\ Owners /\ Places

-----------------------------------------------------------------------------
(* Sequences whose elements carry messages                                 *)

LEMMA CarryEmpty == \A f : All(<< >>, f) = {} /\ Once(<< >>, f)
BY DEF All, Once

LEMMA CarryOne == \A x, f : All(<<x>>, f) = f[x] /\ Once(<<x>>, f)
<1>. TAKE x, f
<1>1. /\ DOMAIN <<x>> = {1} /\ <<x>>[1] = x
  OBVIOUS
<1>. QED
  BY <1>1 DEF All, Once

LEMMA ShortSeq ==
  ASSUME NEW S, NEW q \in Seq(S), q # << >>, Len(q) <= 1
  PROVE  q = <<q[1]>> /\ q[1] \in S
<1>1. Len(q) \in Nat \ {0}
  BY EmptySeq
<1>2. Len(q) = 1
  BY <1>1
<1>. QED
  BY <1>2

LEMMA CarryAppend ==
  ASSUME NEW S, NEW q \in Seq(S), NEW x \in S, NEW f
  PROVE  /\ All(Append(q, x), f) = All(q, f) \union f[x]
         /\ Once(q, f) /\ All(q, f) \intersect f[x] = {} => Once(Append(q, x), f)
<1>. DEFINE r == Append(q, x)
<1>1. /\ DOMAIN q = 1..Len(q) /\ DOMAIN r = 1..(Len(q) + 1) /\ Len(q) \in Nat
      /\ \A i \in 1..Len(q) : r[i] = q[i]
      /\ r[Len(q) + 1] = x
  OBVIOUS
<1>. HIDE DEF r
<1>2. All(r, f) = All(q, f) \union f[x]
  BY <1>1 DEF All
<1>3. ASSUME Once(q, f), All(q, f) \intersect f[x] = {} PROVE Once(r, f)
  <2>1. \A i \in 1..Len(q) : f[r[i]] \subseteq All(q, f)
    BY <1>1 DEF All
  <2>2. \A i \in 1..Len(q) : f[r[i]] \intersect f[r[Len(q) + 1]] = {}
    BY <1>1, <1>3, <2>1
  <2>. QED
    BY <1>1, <1>3, <2>2 DEF Once
<1>. QED
  BY <1>2, <1>3 DEF r

LEMMA CarryTail ==
  ASSUME NEW S, NEW q \in Seq(S), q # << >>, NEW f
  PROVE  /\ All(q, f) = f[Head(q)] \union All(Tail(q), f)
         /\ Once(q, f) => /\ Once(Tail(q), f)
                          /\ All(Tail(q), f) \intersect f[Head(q)] = {}
<1>. DEFINE r == Tail(q)
<1>1. /\ DOMAIN q = 1..Len(q) /\ Len(q) \in Nat \ {0} /\ DOMAIN r = 1..(Len(q) - 1)
      /\ \A i \in 1..(Len(q) - 1) : r[i] = q[i + 1]
      /\ Head(q) = q[1]
  OBVIOUS
<1>. HIDE DEF r
<1>2. \A i \in 1..Len(q) : i = 1 \/ (i - 1 \in 1..(Len(q) - 1) /\ q[i] = r[i - 1])
  BY <1>1
<1>3. All(q, f) = f[q[1]] \union All(r, f)
  <2>1. All(q, f) \subseteq f[q[1]] \union All(r, f)
    BY <1>1, <1>2 DEF All
  <2>2. f[q[1]] \union All(r, f) \subseteq All(q, f)
    BY <1>1 DEF All
  <2>. QED
    BY <2>1, <2>2
<1>4. ASSUME Once(q, f) PROVE Once(r, f) /\ All(r, f) \intersect f[q[1]] = {}
  <2>1. Once(r, f)
    <3>1. ASSUME NEW i \in DOMAIN r, NEW j \in DOMAIN r, f[r[i]] \intersect f[r[j]] # {}
          PROVE  i = j
      <4>1. i + 1 \in DOMAIN q /\ j + 1 \in DOMAIN q /\ r[i] = q[i + 1] /\ r[j] = q[j + 1]
        BY <1>1
      <4>2. i + 1 = j + 1
        BY <1>4, <3>1, <4>1 DEF Once
      <4>. QED
        BY <1>1, <4>2
    <3>. QED
      BY <3>1 DEF Once
  <2>2. ASSUME NEW i \in DOMAIN r PROVE f[r[i]] \intersect f[q[1]] = {}
    <3>1. i + 1 \in DOMAIN q /\ 1 \in DOMAIN q /\ r[i] = q[i + 1] /\ i + 1 # 1
      BY <1>1
    <3>. QED
      BY <1>4, <3>1 DEF Once
  <2>. QED
    BY <2>1, <2>2 DEF All
<1>. QED
  BY <1>1, <1>3, <1>4 DEF r

LEMMA CarryConcat ==
  ASSUME NEW S, NEW p \in Seq(S), NEW q \in Seq(S), NEW f
  PROVE  \A r : r = p \o q =>
           /\ All(r, f) = All(p, f) \union All(q, f)
           /\ Once(p, f) /\ Once(q, f) /\ All(p, f) \intersect All(q, f) = {} => Once(r, f)
<1>. SUFFICES ASSUME NEW r, r = p \o q
              PROVE  /\ All(r, f) = All(p, f) \union All(q, f)
                     /\ Once(p, f) /\ Once(q, f) /\ All(p, f) \intersect All(q, f) = {}
                          => Once(r, f)
  OBVIOUS
<1>1. /\ r \in Seq(S) /\ Len(r) = Len(p) + Len(q)
      /\ \A i \in 1..Len(r) : r[i] = IF i <= Len(p) THEN p[i] ELSE q[i - Len(p)]
      /\ Len(p) \in Nat /\ Len(q) \in Nat
  BY ConcatProperties
<1>2. DOMAIN r = 1..Len(r) /\ DOMAIN p = 1..Len(p) /\ DOMAIN q = 1..Len(q)
  BY <1>1
<1>3. /\ \A i \in DOMAIN p : i \in DOMAIN r /\ r[i] = p[i]
      /\ \A i \in DOMAIN q : i + Len(p) \in DOMAIN r /\ r[i + Len(p)] = q[i]
      /\ \A i \in DOMAIN r : \/ i \in DOMAIN p /\ r[i] = p[i]
                             \/ i - Len(p) \in DOMAIN q /\ r[i] = q[i - Len(p)]
  BY <1>1, <1>2
<1>4. All(r, f) = All(p, f) \union All(q, f)
  <2>1. All(r, f) \subseteq All(p, f) \union All(q, f)
    BY <1>3 DEF All
  <2>2. All(p, f) \subseteq All(r, f)
    BY <1>3 DEF All
  <2>3. ASSUME NEW i \in DOMAIN q PROVE f[q[i]] \subseteq All(r, f)
    <3>1. PICK k \in DOMAIN r : r[k] = q[i]
      BY <1>3
    <3>. QED
      BY <3>1 DEF All
  <2>4. All(q, f) \subseteq All(r, f)
    BY <2>3 DEF All
  <2>. QED
    BY <2>1, <2>2, <2>4
<1>5. ASSUME Once(p, f), Once(q, f), All(p, f) \intersect All(q, f) = {},
             NEW i \in DOMAIN r, NEW j \in DOMAIN r, f[r[i]] \intersect f[r[j]] # {}
      PROVE  i = j
  <2>1. \/ i \in DOMAIN p /\ r[i] = p[i] /\ f[r[i]] \subseteq All(p, f)
        \/ i - Len(p) \in DOMAIN q /\ r[i] = q[i - Len(p)] /\ f[r[i]] \subseteq All(q, f)
    BY <1>3 DEF All
  <2>2. \/ j \in DOMAIN p /\ r[j] = p[j] /\ f[r[j]] \subseteq All(p, f)
        \/ j - Len(p) \in DOMAIN q /\ r[j] = q[j - Len(p)] /\ f[r[j]] \subseteq All(q, f)
    BY <1>3 DEF All
  <2>3. \/ i \in DOMAIN p /\ j \in DOMAIN p /\ r[i] = p[i] /\ r[j] = p[j]
        \/ /\ i - Len(p) \in DOMAIN q /\ j - Len(p) \in DOMAIN q
           /\ r[i] = q[i - Len(p)] /\ r[j] = q[j - Len(p)]
    BY <1>5, <2>1, <2>2
  <2>4. CASE i \in DOMAIN p /\ j \in DOMAIN p /\ r[i] = p[i] /\ r[j] = p[j]
    BY <1>5, <2>4 DEF Once
  <2>5. CASE /\ i - Len(p) \in DOMAIN q /\ j - Len(p) \in DOMAIN q
             /\ r[i] = q[i - Len(p)] /\ r[j] = q[j - Len(p)]
    <3>1. i - Len(p) = j - Len(p)
      BY <1>5, <2>5 DEF Once
    <3>. QED
      BY <1>1, <1>2, <3>1
  <2>. QED
    BY <2>3, <2>4, <2>5
<1>. QED
  BY <1>4, <1>5 DEF Once

\* The sequence without its k-th element.
LEMMA CarryWithout ==
  ASSUME NEW S, NEW q \in Seq(S), NEW k \in 1..Len(q), NEW u \in Seq(S),
         Len(u) = Len(q) - 1,
         \A i \in 1..(Len(q) - 1) : u[i] = IF i < k THEN q[i] ELSE q[i + 1], NEW f
  PROVE  /\ All(u, f) \subseteq All(q, f) /\ All(q, f) \subseteq All(u, f) \union f[q[k]]
         /\ Once(q, f) => Once(u, f) /\ All(u, f) \intersect f[q[k]] = {}
<1>. DEFINE old(i) == IF i < k THEN i ELSE i + 1
<1>1. /\ DOMAIN q = 1..Len(q) /\ DOMAIN u = 1..(Len(q) - 1) /\ Len(q) \in Nat
      /\ k \in DOMAIN q
  OBVIOUS
<1>2. /\ \A i \in DOMAIN u : old(i) \in DOMAIN q /\ u[i] = q[old(i)] /\ old(i) # k
      /\ \A i, j \in DOMAIN u : old(i) = old(j) => i = j
      /\ \A j \in DOMAIN q : j = k \/ \E i \in DOMAIN u : j = old(i)
  <2>1. \A i \in DOMAIN u : old(i) \in DOMAIN q /\ u[i] = q[old(i)] /\ old(i) # k
    BY <1>1
  <2>2. \A i, j \in DOMAIN u : old(i) = old(j) => i = j
    BY <1>1
  <2>3. ASSUME NEW j \in DOMAIN q, j # k PROVE \E i \in DOMAIN u : j = old(i)
    <3>1. CASE j < k
      <4>1. j \in DOMAIN u /\ old(j) = j
        BY <1>1, <3>1
      <4>. QED
        BY <4>1
    <3>2. CASE j > k
      <4>1. j - 1 \in DOMAIN u /\ old(j - 1) = j
        BY <1>1, <3>2
      <4>. QED
        BY <4>1
    <3>. QED
      BY <1>1, <2>3, <3>1, <3>2
  <2>. QED
    BY <2>1, <2>2, <2>3
<1>. HIDE DEF old
<1>3. All(u, f) \subseteq All(q, f)
  BY <1>2 DEF All
<1>4. All(q, f) \subseteq All(u, f) \union f[q[k]]
  <2>1. ASSUME NEW j \in DOMAIN q PROVE f[q[j]] \subseteq All(u, f) \union f[q[k]]
    <3>1. CASE j = k
      BY <3>1
    <3>2. CASE j # k
      <4>1. PICK i \in DOMAIN u : j = old(i)
        BY <1>2, <3>2
      <4>. QED
        BY <1>2, <4>1 DEF All
    <3>. QED
      BY <3>1, <3>2
  <2>. QED
    BY <2>1 DEF All
<1>5. ASSUME Once(q, f) PROVE Once(u, f) /\ All(u, f) \intersect f[q[k]] = {}
  <2>1. Once(u, f)
    BY <1>2, <1>5 DEF Once
  <2>2. \A i \in DOMAIN u : f[u[i]] \intersect f[q[k]] = {}
    BY <1>1, <1>2, <1>5 DEF Once
  <2>. QED
    BY <2>1, <2>2 DEF All
<1>. QED
  BY <1>3, <1>4, <1>5

-----------------------------------------------------------------------------
(* Moving from place to place                                              *)

\* What a place holds depends on one variable.
LEMMA SameSpot ==
  \A x : /\ todo'[x] = todo[x] => In("todo", x)' = In("todo", x)
         /\ UNCHANGED arriving => In("arriving", x)' = In("arriving", x)
         /\ private_in'[x] = private_in[x] => In("private", x)' = In("private", x)
         /\ in_queue'[x] = in_queue[x] => In("shared", x)' = In("shared", x)
         /\ (HasRequest(x) <=> HasRequest(x)') /\ req'[x] = req[x]
              => In("hand", x)' = In("hand", x)
         /\ UNCHANGED received_smis => In("received", x)' = In("received", x)
         /\ UNCHANGED sending => In("sending", x)' = In("sending", x)
         /\ UNCHANGED wait_dlr_list => In("waiting", x)' = In("waiting", x)
         /\ UNCHANGED reporting => In("reporting", x)' = In("reporting", x)
         /\ UNCHANGED dlr_list => In("fresh", x)' = In("fresh", x)
         /\ out_B'[x] = out_B[x] => In("queued", x)' = In("queued", x)
         /\ written'[x] = written[x] => In("written", x)' = In("written", x)
BY DEF In, OnArrival, InHand

LEMMA SpotIs ==
  \A x : /\ In("todo", x) = All(todo[x], InRequest)
         /\ In("todo", x)' = All(todo'[x], InRequest)
         /\ In("arriving", x) = OnArrival /\ In("arriving", x)' = OnArrival'
         /\ In("private", x) = All(private_in[x], InItem)
         /\ In("private", x)' = All(private_in'[x], InItem)
         /\ In("shared", x) = All(in_queue[x], InItem)
         /\ In("shared", x)' = All(in_queue'[x], InItem)
         /\ In("hand", x) = InHand(x) /\ In("hand", x)' = InHand(x)'
         /\ In("received", x) = All(received_smis, InSmi)
         /\ In("received", x)' = All(received_smis', InSmi)
         /\ In("sending", x) = All(sending, InSmi)
         /\ In("sending", x)' = All(sending', InSmi)
         /\ In("waiting", x) = All(wait_dlr_list, InSmi)
         /\ In("waiting", x)' = All(wait_dlr_list', InSmi)
         /\ In("reporting", x) = All(reporting, InSmi)
         /\ In("reporting", x)' = All(reporting', InSmi)
         /\ In("fresh", x) = All(dlr_list, InFresh)
         /\ In("fresh", x)' = All(dlr_list', InFresh)
         /\ In("queued", x) = All(out_B[x], InOut)
         /\ In("queued", x)' = All(out_B'[x], InOut)
         /\ In("written", x) = All(written[x], InOut)
         /\ In("written", x)' = All(written'[x], InOut)
BY DEF In

\* The messages M go from one place to another, or are lost on the way.
Passes(k, x, l, y, M) ==
  /\ M \subseteq In(k, x) /\ M \intersect In(k, x)' = {}
  /\ In(l, y)' \subseteq In(l, y) \union M
  /\ \A j \in Kinds : \A z \in OwnersOf(j) :
       In(j, z)' \subseteq In(j, z) \/ (j = l /\ z = y)

LEMMA PassOneSpot ==
  ASSUME OneSpot, NEW k \in Kinds, NEW x \in OwnersOf(k),
         NEW l \in Kinds, NEW y \in OwnersOf(l), NEW M, Passes(k, x, l, y, M)
  PROVE  OneSpot'
<1>1. ASSUME NEW i \in Kinds, NEW j \in Kinds, NEW v \in OwnersOf(i), NEW w \in OwnersOf(j),
             NEW m, m \in In(i, v)', m \in In(j, w)'
      PROVE  i = j /\ v = w
  <2>1. /\ m \in In(i, v) \/ (i = l /\ v = y /\ m \in M)
        /\ m \in In(j, w) \/ (j = l /\ w = y /\ m \in M)
    BY <1>1 DEF Passes
  <2>2. CASE m \in In(i, v) /\ m \in In(j, w)
    BY <2>2 DEF OneSpot
  <2>3. CASE m \in In(i, v) /\ m \in M /\ j = l /\ w = y
    <3>1. i = k /\ v = x
      BY <2>3 DEF OneSpot, Passes
    <3>. QED
      BY <1>1, <2>3, <3>1 DEF Passes
  <2>4. CASE m \in In(j, w) /\ m \in M /\ i = l /\ v = y
    <3>1. j = k /\ w = x
      BY <2>4 DEF OneSpot, Passes
    <3>. QED
      BY <1>1, <2>4, <3>1 DEF Passes
  <2>. QED
    BY <2>1, <2>2, <2>3, <2>4
<1>. QED
  BY <1>1 DEF OneSpot, OwnersOf

LEMMA PassPushingApart ==
  ASSUME OneSpot, PushingApart, NEW k \in Kinds, NEW x \in OwnersOf(k),
         NEW l \in Kinds, NEW y \in OwnersOf(l), NEW M, Passes(k, x, l, y, M),
         \/ /\ Pushing' \subseteq Pushing
            /\ l \in {"queued", "written"} \/ k \notin {"queued", "written"}
         \/ Pushing' \subseteq Pushing \union M /\ k = "fresh" /\ l = "queued",
         \A s \in SysId : In("queued", s)' \subseteq Pushing'
  PROVE  PushingApart'
<1>1. ASSUME NEW i \in Kinds \ {"queued", "written"}, NEW v \in OwnersOf(i),
             NEW m, m \in In(i, v)', m \in Pushing'
      PROVE  FALSE
  <2>0. /\ \A z \in OwnersOf(i) : In(i, z) \intersect Pushing = {}
        /\ i \in Kinds /\ i # "queued" /\ i # "written"
    BY DEF PushingApart
  <2>1. m \in In(i, v) \/ (i = l /\ v = y /\ m \in M)
    BY <1>1, <2>0 DEF Passes
  <2>2. CASE /\ Pushing' \subseteq Pushing
             /\ l \in {"queued", "written"} \/ k \notin {"queued", "written"}
    <3>1. i = l /\ m \in M /\ m \in Pushing
      BY <1>1, <2>0, <2>1, <2>2
    <3>2. k \in Kinds \ {"queued", "written"} /\ m \in In(k, x)
      BY <2>0, <2>2, <3>1 DEF Passes
    <3>. QED
      BY <3>1, <3>2 DEF PushingApart
  <2>3. CASE Pushing' \subseteq Pushing \union M /\ k = "fresh" /\ l = "queued"
    <3>1. m \in In(i, v) /\ m \in M
      BY <1>1, <2>0, <2>1, <2>3
    <3>2. m \in In(k, x)
      BY <3>1 DEF Passes
    <3>3. i = k /\ v = x
      BY <2>0, <3>1, <3>2 DEF OneSpot
    <3>. QED
      BY <1>1, <3>1, <3>3 DEF Passes
  <2>. QED
    BY <2>2, <2>3
<1>2. \A i \in Kinds \ {"queued", "written"} : \A v \in OwnersOf(i) :
        In(i, v)' \intersect Pushing' = {}
  BY <1>1
<1>. QED
  BY <1>2, SpotIs DEF PushingApart, OwnersOf

\* The thread t has the request that it had, or none as before.
SameHand(t) == \/ tpc'[t] = tpc[t] /\ req'[t] = req[t]
               \/ ~HasRequest(t) /\ ~HasRequest(t)'

LEMMA SameHandFacts ==
  ASSUME NEW t, SameHand(t)
  PROVE  /\ In("hand", t)' = In("hand", t) /\ InStore(t)' = InStore(t)
         /\ HasRequest(t)' => HasRequest(t) /\ req'[t] = req[t]
BY DEF SameHand, HasRequest, In, InHand, InStore

LEMMA NoneTwiceAfter ==
  ASSUME NoneTwice,
         \A c \in Conn : todo'[c] = todo[c] \/ Once(todo'[c], InRequest),
         \A c \in Conn : private_in'[c] = private_in[c] \/ Once(private_in'[c], InItem),
         \A c \in Conn : written'[c] = written[c] \/ Once(written'[c], InOut),
         \A s \in SysId : in_queue'[s] = in_queue[s] \/ Once(in_queue'[s], InItem),
         \A s \in SysId : out_B'[s] = out_B[s] \/ Once(out_B'[s], InOut),
         UNCHANGED received_smis \/ Once(received_smis', InSmi),
         UNCHANGED sending \/ Once(sending', InSmi),
         UNCHANGED wait_dlr_list \/ Once(wait_dlr_list', InSmi),
         UNCHANGED reporting \/ Once(reporting', InSmi),
         UNCHANGED dlr_list \/ Once(dlr_list', InEntry)
  PROVE  NoneTwice'
<1>1. /\ \A c \in Conn : Once(todo'[c], InRequest)
      /\ \A c \in Conn : Once(private_in'[c], InItem)
      /\ \A c \in Conn : Once(written'[c], InOut)
      /\ \A s \in SysId : Once(in_queue'[s], InItem)
      /\ \A s \in SysId : Once(out_B'[s], InOut)
  BY DEF NoneTwice
<1>2. /\ Once(received_smis', InSmi) /\ Once(sending', InSmi)
      /\ Once(wait_dlr_list', InSmi) /\ Once(reporting', InSmi) /\ Once(dlr_list', InEntry)
  BY DEF NoneTwice
<1>. QED
  BY <1>1, <1>2 DEF NoneTwice

LEMMA AnswersAfter ==
  ASSUME AnswersReported, \A c \in Conn : In("written", c) \subseteq In("written", c)',
         \/ UNCHANGED arriving \/ arriving' = << >>
         \/ InAnswer[arriving'[1].req] \subseteq Reported,
         \A c \in Conn : \/ private_in'[c] = private_in[c]
                         \/ All(private_in'[c], AnswerIn) \subseteq Reported,
         \A s \in SysId : \/ in_queue'[s] = in_queue[s]
                          \/ All(in_queue'[s], AnswerIn) \subseteq Reported,
         \A t \in Thread : HasRequest(t)' =>
            \/ HasRequest(t) /\ req'[t] = req[t]
            \/ InAnswer[req'[t]] \subseteq Reported
  PROVE  AnswersReported' /\ Reported \subseteq Reported'
<1>1. Reported \subseteq Reported'
  BY SpotIs DEF Reported
<1>2. /\ (IF arriving' = << >> THEN {} ELSE InAnswer[arriving'[1].req]) \subseteq Reported
      /\ \A c \in Conn : All(private_in'[c], AnswerIn) \subseteq Reported
      /\ \A s \in SysId : All(in_queue'[s], AnswerIn) \subseteq Reported
      /\ \A t \in Thread : HasRequest(t)' => InAnswer[req'[t]] \subseteq Reported
  BY DEF AnswersReported
<1>3. /\ (IF arriving' = << >> THEN {} ELSE InAnswer[arriving'[1].req]) \subseteq Reported'
      /\ \A c \in Conn : All(private_in'[c], AnswerIn) \subseteq Reported'
      /\ \A s \in SysId : All(in_queue'[s], AnswerIn) \subseteq Reported'
      /\ \A t \in Thread : HasRequest(t)' => InAnswer[req'[t]] \subseteq Reported'
  BY <1>1, <1>2
<1>. QED
  BY <1>1, <1>3 DEF AnswersReported

LEMMA AckedAfter ==
  ASSUME AckedKept, \A c \in Conn : In("written", c) \subseteq In("written", c)',
         \A m \in Sm : Acked(m)' => Acked(m) \/ m \in Kept',
         Kept \subseteq Kept' \union Reported' \union NoDst
  PROVE  AckedKept'
<1>1. Reported \subseteq Reported'
  BY SpotIs DEF Reported
<1>. QED
  BY <1>1 DEF AckedKept

LEMMA SameAcked ==
  ASSUME UNCHANGED <<out_A, written>>, NEW m
  PROVE  Acked(m)' <=> Acked(m)
BY DEF Acked

LEMMA StaysPut ==
  ASSUME Places,
         UNCHANGED <<todo, arriving, inVars, dsVars, out_A, out_B, written>>,
         \A t \in Thread : SameHand(t)
  PROVE  Places'
<1>1. \A k \in Kinds : \A x \in OwnersOf(k) : In(k, x)' = In(k, x)
  BY SameSpot, SameHandFacts DEF Kinds, ConnKinds, SysIdKinds, ListKinds, OwnersOf, inVars, dsVars
<1>2. Pushing' = Pushing
  BY DEF Pushing, dsVars
<1>3. OneSpot' /\ PushingApart'
  BY <1>1, <1>2 DEF Places, OneSpot, PushingApart, OwnersOf
<1>4. NoneTwice'
  BY NoneTwiceAfter DEF Places, inVars, dsVars
<1>5. AnswersReported'
  BY AnswersAfter, SameHandFacts, SameSpot DEF Places, inVars
<1>6. Kept' = Kept
  BY SameHandFacts DEF Kept, dsVars
<1>7. AckedKept'
  BY <1>6, SameAcked, AckedAfter, SameSpot DEF Places
<1>. QED
  BY <1>3, <1>4, <1>5, <1>7 DEF Places, OneInHand, dsVars

-----------------------------------------------------------------------------
(* Places, step by step                                                    *)

\* Requests, answers and the functions that look into them.
LEMMA CarryFacts ==
  /\ \A x \in ReadItem : /\ InItem[x] = InRequest[x.req] /\ AnswerIn[x] = InAnswer[x.req]
                         /\ x.req \in Request
  /\ \A x \in Smi : InSmi[x] = {x.sm}
  /\ \A e \in DlrEntry : InEntry[e] = {e.sm}
  /\ \A p \in Out : \A m : m \in InOut[p] <=> p.type = "Dlr" /\ m = p.sm
  /\ \A p \in SessionOut : p \in Out /\ InOut[p] = {}
  /\ \A r \in Request : \A m : /\ m \in InRequest[r] <=> r.type = "SubmitSm" /\ m = r.sm
                               /\ m \in InAnswer[r] <=> r.type = "DeliverSmResp" /\ m = r.sm
BY DEF InItem, AnswerIn, ReadItem, InSmi, InEntry, InOut, SessionOut, InRequest, InAnswer

LEMMA ReadPlaces ==
  ASSUME TypeInv, Places, NEW c \in Conn, Read(c)
  PROVE  Places'
<1>. DEFINE r == Head(todo[c])
<1>0. /\ arriving = << >> /\ todo[c] # << >> /\ ClientSends(c, r)
      /\ todo' = [todo EXCEPT ![c] = Tail(@)]
      /\ arriving' = <<[from |-> c, req |-> r, queue |-> flag[c]]>>
      /\ UNCHANGED <<dsVars, inVars, outVars, tpc, req, written>>
  BY DEF Read
<1>1. todo \in [Conn -> Seq(Request)] /\ written \in [Conn -> Seq(Out)]
  BY DEF TypeInv, TypeOK, ConnTypeOK, QueueTypeOK
<1>2. /\ r \in Request /\ todo[c] \in Seq(Request)
      /\ todo'[c] = Tail(todo[c]) /\ \A d \in Conn \ {c} : todo'[d] = todo[d]
      /\ arriving' # << >> /\ arriving'[1].req = r
  BY <1>0, <1>1
<1>3. /\ In("todo", c) = InRequest[r] \union In("todo", c)'
      /\ In("todo", c)' \intersect InRequest[r] = {}
      /\ Once(todo'[c], InRequest)
  BY <1>0, <1>2, CarryTail, SpotIs DEF Places, NoneTwice
<1>4. In("arriving", NoConn)' = InRequest[r]
  BY <1>2, SpotIs DEF OnArrival
<1>5. \A k \in Kinds : \A x \in OwnersOf(k) :
        In(k, x)' \subseteq In(k, x) \/ (k = "arriving" /\ x = NoConn)
  BY <1>0, <1>2, <1>3, SameSpot
     DEF Kinds, ConnKinds, SysIdKinds, ListKinds, OwnersOf, inVars, dsVars, outVars, HasRequest
<1>6. Passes("todo", c, "arriving", NoConn, InRequest[r])
  BY <1>3, <1>4, <1>5 DEF Passes
<1>7. OneSpot' /\ PushingApart'
  <2>1. Pushing' = Pushing /\ \A s \in SysId : In("queued", s)' = In("queued", s)
    BY <1>0, SameSpot DEF Pushing, dsVars, outVars
  <2>2. \A s \in SysId : In("queued", s) \subseteq Pushing
    BY SpotIs DEF Places, PushingApart
  <2>3. /\ "todo" \in Kinds /\ c \in OwnersOf("todo")
        /\ "arriving" \in Kinds /\ NoConn \in OwnersOf("arriving")
    BY DEF Kinds, ConnKinds, SysIdKinds, ListKinds, OwnersOf
  <2>. QED
    BY <1>6, <2>1, <2>2, <2>3, PassOneSpot, PassPushingApart DEF Places
<1>8. NoneTwice'
  BY <1>0, <1>2, <1>3, NoneTwiceAfter DEF Places, inVars, dsVars, outVars
<1>9. \A d \in Conn : In("written", d)' = In("written", d)
  BY <1>0, SameSpot
<1>10. AnswersReported'
  <2>1. InAnswer[r] \subseteq Reported
    <3>1. ASSUME r.type = "DeliverSmResp" PROVE r.sm \in Reported
      <4>1. PICK i \in DOMAIN written[c] : written[c][i] = [type |-> "Dlr", sm |-> r.sm]
        BY <1>0, <3>1 DEF ClientSends
      <4>2. written[c][i] \in Out
        BY <1>1
      <4>3. written[c][i].type = "Dlr" /\ written[c][i].sm = r.sm
        BY <4>1
      <4>4. r.sm \in InOut[written[c][i]]
        BY <4>2, <4>3, CarryFacts
      <4>. QED
        BY <4>4 DEF Reported, All
    <3>. QED
      BY <1>2, <3>1, CarryFacts
  <2>2. \A t \in Thread : HasRequest(t)' => HasRequest(t) /\ req'[t] = req[t]
    BY <1>0 DEF HasRequest
  <2>. QED
    BY <1>0, <1>2, <1>9, <2>1, <2>2, AnswersAfter DEF Places, inVars
<1>11. AckedKept'
  <2>1. Kept' = Kept
    BY <1>0 DEF Kept, InStore, dsVars
  <2>. QED
    BY <1>0, <1>9, <2>1, SameAcked, AckedAfter DEF Places, outVars
<1>. QED
  BY <1>0, <1>7, <1>8, <1>10, <1>11 DEF Places, OneInHand, dsVars

\* The kinds and owners of places, for the leaves below.
LEMMA KindFacts ==
  /\ \A k \in {"arriving", "received", "sending", "waiting", "reporting", "fresh"} :
       k \in Kinds /\ NoConn \in OwnersOf(k)
  /\ \A k \in {"todo", "private", "written"} : k \in Kinds /\ \A c \in Conn : c \in OwnersOf(k)
  /\ \A k \in {"shared", "queued"} : k \in Kinds /\ \A s \in SysId : s \in OwnersOf(k)
  /\ "hand" \in Kinds /\ \A t \in Thread : t \in OwnersOf("hand")
BY DEF Kinds, ConnKinds, SysIdKinds, ListKinds, OwnersOf

\* As long as the reports are left alone, a message may pass elsewhere.
LEMMA PassElsewhere ==
  ASSUME Places, UNCHANGED <<dlr_list, out_B>>,
         NEW k \in Kinds \ {"queued", "written"}, NEW x \in OwnersOf(k),
         NEW l \in Kinds, NEW y \in OwnersOf(l), NEW M, Passes(k, x, l, y, M)
  PROVE  OneSpot' /\ PushingApart'
<1>1. Pushing' = Pushing /\ \A s \in SysId : In("queued", s)' = In("queued", s)
  BY SameSpot DEF Pushing
<1>2. \A s \in SysId : In("queued", s) \subseteq Pushing
  BY SpotIs DEF Places, PushingApart
<1>. QED
  BY <1>1, <1>2, PassOneSpot, PassPushingApart DEF Places

LEMMA ArrivePlaces ==
  ASSUME TypeInv, Places, Arrive
  PROVE  Places'
<1>. DEFINE Arriving == [from : Conn, req : Request, queue : SysId \union {NoSysId}]
<1>1. arriving \in Seq(Arriving) /\ arriving # << >>
  BY DEF Arrive, TypeInv, TypeOK, ConnTypeOK
<1>2. arriving[1] \in Arriving
  <2>. HIDE DEF Arriving
  <2>. QED
    BY <1>1
<1>3. PICK c \in Conn, r \in Request, s \in SysId \union {NoSysId} :
        /\ arriving[1].from = c /\ arriving[1].req = r /\ arriving[1].queue = s
        /\ IF s = NoSysId
           THEN /\ private_in' = [private_in EXCEPT ![c] = Append(@, [from |-> c, req |-> r])]
                /\ UNCHANGED in_queue
           ELSE /\ in_queue' = [in_queue EXCEPT ![s] = Append(@, [from |-> c, req |-> r])]
                /\ UNCHANGED private_in
  BY <1>2 DEF Arrive
<1>. HIDE DEF Arriving
<1>4. arriving' = << >> /\ UNCHANGED <<todo, dsVars, outVars, tpc, req, written>>
  BY DEF Arrive
<1>5. PICK x \in ReadItem : x = [from |-> c, req |-> r] /\ x.req = r
  <2>1. [from |-> c, req |-> r] \in ReadItem /\ [from |-> c, req |-> r].req = r
    BY DEF ReadItem
  <2>. QED
    BY <2>1
<1>6. InItem[x] = InRequest[r] /\ AnswerIn[x] = InAnswer[r]
  BY <1>5, CarryFacts
<1>7. /\ private_in \in [Conn -> Seq(ReadItem)] /\ in_queue \in [SysId -> Seq(ReadItem)]
  BY DEF TypeInv, TypeOK, QueueTypeOK
<1>8. /\ In("arriving", NoConn) = InRequest[r] /\ In("arriving", NoConn)' = {}
      /\ InAnswer[r] \subseteq Reported
  BY <1>1, <1>3, <1>4, SpotIs DEF OnArrival, Places, AnswersReported
<1>9. /\ \A d \in Conn : In("written", d)' = In("written", d)
      /\ \A t \in Thread : HasRequest(t)' => HasRequest(t) /\ req'[t] = req[t]
  BY <1>4, SameSpot DEF HasRequest
<1>10. AckedKept'
  <2>1. Kept' = Kept
    BY <1>4 DEF Kept, InStore, dsVars
  <2>. QED
    BY <1>4, <1>9, <2>1, SameAcked, AckedAfter DEF Places, outVars
<1>11. CASE s = NoSysId
  <2>0. /\ private_in' = [private_in EXCEPT ![c] = Append(@, x)] /\ UNCHANGED in_queue
    BY <1>3, <1>5, <1>11
  <2>1. /\ private_in'[c] = Append(private_in[c], x) /\ private_in[c] \in Seq(ReadItem)
        /\ \A d \in Conn \ {c} : private_in'[d] = private_in[d]
    BY <1>7, <2>0
  <2>2. /\ In("private", c)' = In("private", c) \union InRequest[r]
        /\ All(private_in'[c], AnswerIn) = All(private_in[c], AnswerIn) \union InAnswer[r]
    <3>1. \A f : All(private_in'[c], f) = All(private_in[c], f) \union f[x]
      BY <2>1, CarryAppend
    <3>. QED
      BY <1>6, <3>1, SpotIs
  <2>3. Once(private_in'[c], InItem)
    <3>1. In("private", c) \intersect In("arriving", NoConn) = {}
      BY KindFacts DEF Places, OneSpot
    <3>2. Once(private_in[c], InItem) /\ All(private_in[c], InItem) \intersect InItem[x] = {}
      BY <1>6, <1>8, <3>1, SpotIs DEF Places, NoneTwice
    <3>. QED
      BY <2>1, <3>2, CarryAppend
  <2>4. \A k \in Kinds : \A z \in OwnersOf(k) :
          In(k, z)' \subseteq In(k, z) \/ (k = "private" /\ z = c)
    BY <1>4, <1>8, <2>0, <2>1, SameSpot
       DEF Kinds, ConnKinds, SysIdKinds, ListKinds, OwnersOf, dsVars, outVars, HasRequest
  <2>5. Passes("arriving", NoConn, "private", c, InRequest[r])
    BY <1>8, <2>2, <2>4 DEF Passes
  <2>6. OneSpot' /\ PushingApart'
    BY <1>4, <2>5, KindFacts, PassElsewhere DEF dsVars, outVars
  <2>7. NoneTwice'
    BY <1>4, <2>0, <2>1, <2>3, NoneTwiceAfter DEF Places, dsVars, outVars
  <2>8. AnswersReported'
    <3>1. \A d \in Conn : \/ private_in'[d] = private_in[d]
                          \/ All(private_in'[d], AnswerIn) \subseteq Reported
      BY <1>8, <2>1, <2>2 DEF Places, AnswersReported
    <3>. QED
      BY <1>4, <1>9, <2>0, <3>1, AnswersAfter DEF Places
  <2>. QED
    BY <1>4, <1>10, <2>6, <2>7, <2>8 DEF Places, OneInHand, dsVars
<1>12. CASE s # NoSysId
  <2>0. /\ in_queue' = [in_queue EXCEPT ![s] = Append(@, x)] /\ UNCHANGED private_in
        /\ s \in SysId
    BY <1>3, <1>5, <1>12
  <2>1. /\ in_queue'[s] = Append(in_queue[s], x) /\ in_queue[s] \in Seq(ReadItem)
        /\ \A d \in SysId \ {s} : in_queue'[d] = in_queue[d]
    BY <1>7, <2>0
  <2>2. /\ In("shared", s)' = In("shared", s) \union InRequest[r]
        /\ All(in_queue'[s], AnswerIn) = All(in_queue[s], AnswerIn) \union InAnswer[r]
    <3>1. \A f : All(in_queue'[s], f) = All(in_queue[s], f) \union f[x]
      BY <2>1, CarryAppend
    <3>. QED
      BY <1>6, <3>1, SpotIs
  <2>3. Once(in_queue'[s], InItem)
    <3>1. In("shared", s) \intersect In("arriving", NoConn) = {}
      BY <2>0, KindFacts DEF Places, OneSpot
    <3>2. Once(in_queue[s], InItem) /\ All(in_queue[s], InItem) \intersect InItem[x] = {}
      BY <1>6, <1>8, <2>0, <3>1, SpotIs DEF Places, NoneTwice
    <3>. QED
      BY <2>1, <3>2, CarryAppend
  <2>4. \A k \in Kinds : \A z \in OwnersOf(k) :
          In(k, z)' \subseteq In(k, z) \/ (k = "shared" /\ z = s)
    BY <1>4, <1>8, <2>0, <2>1, SameSpot
       DEF Kinds, ConnKinds, SysIdKinds, ListKinds, OwnersOf, dsVars, outVars, HasRequest
  <2>5. Passes("arriving", NoConn, "shared", s, InRequest[r])
    BY <1>8, <2>2, <2>4 DEF Passes
  <2>6. OneSpot' /\ PushingApart'
    BY <1>4, <2>0, <2>5, KindFacts, PassElsewhere DEF dsVars, outVars
  <2>7. NoneTwice'
    BY <1>4, <2>0, <2>1, <2>3, NoneTwiceAfter DEF Places, dsVars, outVars
  <2>8. AnswersReported'
    <3>1. \A d \in SysId : \/ in_queue'[d] = in_queue[d]
                           \/ All(in_queue'[d], AnswerIn) \subseteq Reported
      BY <1>8, <2>0, <2>1, <2>2 DEF Places, AnswersReported
    <3>. QED
      BY <1>4, <1>9, <2>0, <3>1, AnswersAfter DEF Places
  <2>. QED
    BY <1>4, <1>10, <2>6, <2>7, <2>8 DEF Places, OneInHand, dsVars
<1>. QED
  BY <1>11, <1>12

\* A connection that goes takes what it has not processed with it.
LEMMA ClearedPlaces ==
  ASSUME TypeInv, Places,
         UNCHANGED <<todo, arriving, in_queue, dsVars, out_A, out_B, written>>,
         \A t \in Thread : SameHand(t),
         \/ UNCHANGED private_in
         \/ \E c \in Conn : private_in' = [private_in EXCEPT ![c] = << >>]
  PROVE  Places'
<1>1. \A c \in Conn : private_in'[c] = private_in[c] \/ private_in'[c] = << >>
  BY DEF TypeInv, TypeOK, QueueTypeOK
<1>2. \A k \in Kinds : \A z \in OwnersOf(k) : In(k, z)' \subseteq In(k, z)
  <2>1. \A c \in Conn : In("private", c)' \subseteq In("private", c)
    BY <1>1, CarryEmpty, SpotIs
  <2>. QED
    BY <2>1, SameSpot, SameHandFacts
       DEF Kinds, ConnKinds, SysIdKinds, ListKinds, OwnersOf, dsVars
<1>3. Passes("arriving", NoConn, "arriving", NoConn, {})
  BY <1>2, KindFacts DEF Passes
<1>4. OneSpot' /\ PushingApart'
  BY <1>3, KindFacts, PassElsewhere DEF dsVars
<1>5. NoneTwice'
  BY <1>1, CarryEmpty, NoneTwiceAfter DEF Places, dsVars
<1>6. \A d \in Conn : In("written", d)' = In("written", d)
  BY SameSpot
<1>7. AnswersReported'
  <2>1. \A c \in Conn : \/ private_in'[c] = private_in[c]
                        \/ All(private_in'[c], AnswerIn) \subseteq Reported
    BY <1>1, CarryEmpty
  <2>. QED
    BY <1>6, <2>1, AnswersAfter, SameHandFacts DEF Places
<1>8. AckedKept'
  <2>1. Kept' = Kept
    BY SameHandFacts DEF Kept, dsVars
  <2>. QED
    BY <1>6, <2>1, SameAcked, AckedAfter DEF Places
<1>. QED
  BY <1>4, <1>5, <1>7, <1>8 DEF Places, OneInHand, dsVars

LEMMA LeavingPlaces ==
  ASSUME TypeInv, Places, NEW t \in Thread, Check(t) \/ Free(t)
  PROVE  Places'
<1>. USE DEF TypeInv, TypeOK
<1>0. tpc \in [Thread -> ThreadPcs]
  BY DEF ThreadTypeOK
<1>1. /\ UNCHANGED <<todo, arriving, in_queue, dsVars, out_A, out_B, written>>
      /\ \A u \in Thread : SameHand(u)
  BY <1>0 DEF Check, Free, ThreadAt, HasRequest, SameHand, connVars, outVars, inVars
<1>2. \/ UNCHANGED private_in
      \/ \E c \in Conn : private_in' = [private_in EXCEPT ![c] = << >>]
  <2>1. at[t] \in Conn
    BY HasConn DEF Check, Free, ThreadAt
  <2>. QED
    BY <2>1 DEF Check, Free, ClearResource, outVars, inVars
<1>. QED
  BY <1>1, <1>2, ClearedPlaces

LEMMA IoThreadPlaces ==
  ASSUME TypeInv, Places, IoThread \/ \E c \in Conn : Elapse(c)
  PROVE  Places'
<1>1. ASSUME NEW c \in Conn, Accept(c) \/ Elapse(c) PROVE Places'
  BY <1>1, StaysPut DEF Accept, Elapse, connVars, outVars, SameHand
<1>2. ASSUME NEW c \in Conn, PeerClosed(c) PROVE Places'
  BY <1>2, ClearedPlaces DEF PeerClosed, ClearResource, SameHand
<1>. QED
  BY <1>1, <1>2, ReadPlaces, ArrivePlaces DEF IoThread

LEMMA VendorPlaces ==
  ASSUME TypeInv, Places, Vendor(Sender) \/ Vendor(Reporter)
  PROVE  Places'
<1>0. UNCHANGED <<todo, arriving, inVars, outVars, tpc, req, written>>
  BY DEF Vendor, connVars
<1>1. /\ received_smis \in Seq(Smi) /\ sending \in Seq(Smi)
      /\ wait_dlr_list \in Seq(Smi) /\ reporting \in Seq(Smi) /\ dlr_list \in Seq(DlrEntry)
  BY DEF TypeInv, TypeOK, DsTypeOK
<1>2. AnswersReported'
  <2>1. /\ \A c \in Conn : In("written", c)' = In("written", c)
        /\ \A t \in Thread : HasRequest(t)' => HasRequest(t) /\ req'[t] = req[t]
    BY <1>0, SameSpot DEF HasRequest
  <2>. QED
    BY <1>0, <2>1, AnswersAfter DEF Places, inVars
<1>3. Kept \subseteq Kept' \union NoDst => AckedKept'
  <2>1. \A c \in Conn : In("written", c)' = In("written", c)
    BY <1>0, SameSpot
  <2>2. \A m : Acked(m)' <=> Acked(m)
    BY <1>0, SameAcked DEF outVars
  <2>. HIDE DEF Kept
  <2>. QED
    BY <2>1, <2>2, AckedAfter DEF Places
<1>4. /\ \A k \in Kinds \ {"received", "sending", "waiting", "reporting", "fresh"} :
           \A x \in OwnersOf(k) : In(k, x)' = In(k, x)
      /\ \A t \in Thread : InStore(t)' = InStore(t)
  BY <1>0, SameSpot
     DEF Kinds, ConnKinds, SysIdKinds, ListKinds, OwnersOf, inVars, outVars, HasRequest, InStore
<1>5. /\ OneSpot /\ OneInHand
      /\ Once(received_smis, InSmi) /\ Once(sending, InSmi)
      /\ Once(wait_dlr_list, InSmi) /\ Once(reporting, InSmi) /\ Once(dlr_list, InEntry)
  BY DEF Places, NoneTwice
<1>6. CASE SenderTakes
  <2>. DEFINE x == Head(received_smis)
  <2>1. /\ received_smis # << >> /\ sending = << >> /\ received_smis' = Tail(received_smis)
        /\ sending' = IF x.sm \in NoDst THEN << >> ELSE <<x>>
        /\ UNCHANGED <<wait_dlr_list, dlr_list, reporting>>
    BY <1>6 DEF SenderTakes
  <2>2. x \in Smi /\ InSmi[x] = {x.sm}
    BY <1>1, <2>1, CarryFacts
  <2>3. /\ All(received_smis, InSmi) = {x.sm} \union All(received_smis', InSmi)
        /\ Once(received_smis', InSmi) /\ {x.sm} \intersect All(received_smis', InSmi) = {}
    BY <1>1, <1>5, <2>1, <2>2, CarryTail
  <2>4. /\ Once(sending', InSmi) /\ All(sending', InSmi) \subseteq {x.sm}
        /\ x.sm \in NoDst \union All(sending', InSmi)
    BY <2>1, <2>2, CarryEmpty, CarryOne
  <2>5. \A k \in Kinds : \A z \in OwnersOf(k) :
          In(k, z)' \subseteq In(k, z) \/ (k = "sending" /\ z = NoConn)
    BY <1>4, <2>1, <2>3, SpotIs DEF OwnersOf, ListKinds, ConnKinds, SysIdKinds
  <2>6. Passes("received", NoConn, "sending", NoConn, {x.sm})
    BY <2>3, <2>4, <2>5, SpotIs DEF Passes
  <2>7. OneSpot' /\ PushingApart'
    BY <1>0, <2>1, <2>6, KindFacts, PassElsewhere DEF outVars
  <2>8. NoneTwice'
    BY <1>0, <2>1, <2>3, <2>4, NoneTwiceAfter DEF Places, inVars, outVars
  <2>9. Kept \subseteq Kept' \union NoDst
    <3>1. All(sending, InSmi) = {}
      BY <2>1, CarryEmpty
    <3>2. {InStore(t)' : t \in Thread} = {InStore(t) : t \in Thread}
      BY <1>4
    <3>3. All(received_smis', InSmi) \union All(sending', InSmi) \subseteq Kept'
      BY DEF Kept
    <3>4. /\ (UNION {InStore(t) : t \in Thread}) \subseteq Kept'
          /\ All(wait_dlr_list, InSmi) \union All(reporting, InSmi)
               \union All(dlr_list, InEntry) \subseteq Kept'
      BY <2>1, <3>2 DEF Kept
    <3>. QED
      BY <2>3, <2>4, <3>1, <3>3, <3>4 DEF Kept
  <2>. QED
    BY <1>2, <1>3, <1>5, <2>1, <2>7, <2>8, <2>9 DEF Places, OneInHand
<1>7. CASE SenderAdds
  <2>1. wait_dlr_list' = wait_dlr_list \o sending /\ sending' = << >>
        /\ UNCHANGED <<received_smis, dlr_list, reporting>>
    BY <1>7 DEF SenderAdds
  <2>2. PICK w : w = wait_dlr_list \o sending
    OBVIOUS
  <2>3. In("waiting", NoConn) \intersect In("sending", NoConn) = {}
    BY <1>5, KindFacts DEF OneSpot
  <2>4. /\ All(w, InSmi) = All(wait_dlr_list, InSmi) \union All(sending, InSmi)
        /\ Once(w, InSmi)
    <3>1. All(wait_dlr_list, InSmi) \intersect All(sending, InSmi) = {}
      BY <2>3, SpotIs
    <3>2. /\ All(w, InSmi) = All(wait_dlr_list, InSmi) \union All(sending, InSmi)
          /\ /\ Once(wait_dlr_list, InSmi) /\ Once(sending, InSmi)
             /\ All(wait_dlr_list, InSmi) \intersect All(sending, InSmi) = {}
             => Once(w, InSmi)
      <4>1. \A r : r = wait_dlr_list \o sending =>
              /\ All(r, InSmi) = All(wait_dlr_list, InSmi) \union All(sending, InSmi)
              /\ /\ Once(wait_dlr_list, InSmi) /\ Once(sending, InSmi)
                 /\ All(wait_dlr_list, InSmi) \intersect All(sending, InSmi) = {}
                 => Once(r, InSmi)
        BY <1>1, CarryConcat
      <4>. QED
        BY <2>2, <4>1
    <3>. QED
      BY <1>5, <3>1, <3>2
  <2>5. wait_dlr_list' = w
    BY <2>1, <2>2
  <2>6. /\ In("waiting", NoConn)' = In("waiting", NoConn) \union All(sending, InSmi)
        /\ In("sending", NoConn) = All(sending, InSmi) /\ In("sending", NoConn)' = {}
    BY <2>1, <2>4, <2>5, SpotIs, CarryEmpty
  <2>7. \A k \in Kinds : \A z \in OwnersOf(k) :
          In(k, z)' \subseteq In(k, z) \/ (k = "waiting" /\ z = NoConn)
    BY <1>4, <2>1, <2>6, SameSpot DEF OwnersOf, ListKinds, ConnKinds, SysIdKinds
  <2>8. Passes("sending", NoConn, "waiting", NoConn, All(sending, InSmi))
    BY <2>6, <2>7 DEF Passes
  <2>9. OneSpot' /\ PushingApart'
    BY <1>0, <2>1, <2>8, KindFacts, PassElsewhere DEF outVars
  <2>10. NoneTwice'
    BY <1>0, <2>1, <2>4, <2>5, CarryEmpty, NoneTwiceAfter DEF Places, inVars, outVars
  <2>11. Kept \subseteq Kept' \union NoDst
    BY <1>4, <2>1, <2>4, <2>5 DEF Kept
  <2>. QED
    BY <1>2, <1>3, <1>5, <2>1, <2>9, <2>10, <2>11 DEF Places, OneInHand
<1>8. CASE ReporterTakes
  <2>. DEFINE x == Head(wait_dlr_list)
  <2>1. /\ wait_dlr_list # << >> /\ reporting = << >> /\ wait_dlr_list' = Tail(wait_dlr_list)
        /\ reporting' = <<x>> /\ UNCHANGED <<received_smis, dlr_list, sending>>
    BY <1>8 DEF ReporterTakes, Erased
  <2>2. x \in Smi /\ InSmi[x] = {x.sm}
    BY <1>1, <2>1, CarryFacts
  <2>3. /\ All(wait_dlr_list, InSmi) = {x.sm} \union All(wait_dlr_list', InSmi)
        /\ Once(wait_dlr_list', InSmi) /\ {x.sm} \intersect All(wait_dlr_list', InSmi) = {}
    BY <1>1, <1>5, <2>1, <2>2, CarryTail
  <2>4. Once(reporting', InSmi) /\ All(reporting', InSmi) = {x.sm}
    BY <2>1, <2>2, CarryOne
  <2>5. \A k \in Kinds : \A z \in OwnersOf(k) :
          In(k, z)' \subseteq In(k, z) \/ (k = "reporting" /\ z = NoConn)
    BY <1>4, <2>1, <2>3, SpotIs DEF OwnersOf, ListKinds, ConnKinds, SysIdKinds
  <2>6. Passes("waiting", NoConn, "reporting", NoConn, {x.sm})
    BY <2>3, <2>4, <2>5, SpotIs DEF Passes
  <2>7. OneSpot' /\ PushingApart'
    BY <1>0, <2>1, <2>6, KindFacts, PassElsewhere DEF outVars
  <2>8. NoneTwice'
    BY <1>0, <2>1, <2>3, <2>4, NoneTwiceAfter DEF Places, inVars, outVars
  <2>9. Kept \subseteq Kept' \union NoDst
    BY <1>4, <2>1, <2>3, <2>4, CarryEmpty DEF Kept
  <2>10. OneInHand'
    BY <2>1 DEF OneInHand
  <2>. QED
    BY <1>2, <1>3, <2>7, <2>8, <2>9, <2>10 DEF Places
<1>9. CASE ReporterAdds
  <2>. DEFINE x == reporting[1]
              e == [sm |-> x.sm, sysid |-> x.sysid, state |-> "DELIVERIED"]
  <2>1. /\ reporting # << >> /\ dlr_list' = Append(dlr_list, e) /\ reporting' = << >>
        /\ UNCHANGED <<received_smis, wait_dlr_list, sending>>
    BY <1>9 DEF ReporterAdds
  <2>2. reporting = <<x>> /\ x \in Smi
    <3>0. reporting \in Seq(Smi) /\ reporting # << >> /\ Len(reporting) <= 1
      BY <1>1, <1>5, <2>1 DEF OneInHand
    <3>. QED
      BY <3>0, ShortSeq
  <2>3. e \in DlrEntry /\ e.sm = x.sm
    BY <2>2 DEF Smi, DlrEntry, DlrState
  <2>4. All(reporting, InSmi) = {x.sm}
    BY <2>2, CarryOne, CarryFacts
  <2>5. InEntry[e] = {x.sm} /\ InFresh[e] = {x.sm} /\ InPushing[e] = {}
    BY <2>3 DEF InEntry, InFresh, InPushing
  <2>. HIDE DEF e
  <2>6. \A f : All(dlr_list', f) = All(dlr_list, f) \union f[e]
    BY <1>1, <2>1, <2>3, CarryAppend
  <2>7. /\ In("fresh", NoConn)' = In("fresh", NoConn) \union {x.sm}
        /\ In("reporting", NoConn) = {x.sm} /\ In("reporting", NoConn)' = {}
        /\ Pushing' = Pushing /\ All(dlr_list', InEntry) = All(dlr_list, InEntry) \union {x.sm}
    <3>1. In("fresh", NoConn)' = In("fresh", NoConn) \union {x.sm}
      BY <2>5, <2>6, SpotIs
    <3>2. Pushing' = Pushing
      BY <2>5, <2>6 DEF Pushing
    <3>. QED
      BY <2>1, <2>4, <2>5, <2>6, <3>1, <3>2, SpotIs, CarryEmpty
  <2>8. \A k \in Kinds : \A z \in OwnersOf(k) :
          In(k, z)' \subseteq In(k, z) \/ (k = "fresh" /\ z = NoConn)
    BY <1>4, <2>1, <2>7, SameSpot DEF OwnersOf, ListKinds, ConnKinds, SysIdKinds
  <2>9. Passes("reporting", NoConn, "fresh", NoConn, {x.sm})
    BY <2>7, <2>8 DEF Passes
  <2>10. OneSpot' /\ PushingApart'
    <3>1. \A s \in SysId : In("queued", s)' = In("queued", s)
      BY <1>0, SameSpot DEF outVars
    <3>2. \A s \in SysId : In("queued", s) \subseteq Pushing
      BY SpotIs DEF Places, PushingApart
    <3>. QED
      BY <2>7, <2>9, <3>1, <3>2, KindFacts, PassOneSpot, PassPushingApart DEF Places
  <2>11. Once(dlr_list', InEntry)
    <3>1. x.sm \notin In("fresh", NoConn) /\ x.sm \notin Pushing
      BY <2>7, KindFacts DEF Places, OneSpot, PushingApart
    <3>2. All(dlr_list, InEntry) \subseteq In("fresh", NoConn) \union Pushing
      <4>1. \A d \in DlrEntry : InEntry[d] \subseteq InFresh[d] \union InPushing[d]
        BY DEF InEntry, InFresh, InPushing, DlrEntry, DlrState
      <4>2. \A i \in DOMAIN dlr_list : InEntry[dlr_list[i]] \subseteq InFresh[dlr_list[i]] \union InPushing[dlr_list[i]]
        BY <1>1, <4>1
      <4>. QED
        BY <4>2, SpotIs DEF All, Pushing
    <3>. QED
      <4>1. All(dlr_list, InEntry) \intersect InEntry[e] = {}
        BY <2>5, <3>1, <3>2
      <4>2. Once(dlr_list, InEntry) /\ All(dlr_list, InEntry) \intersect InEntry[e] = {}
              => Once(Append(dlr_list, e), InEntry)
        BY <1>1, <2>3, CarryAppend
      <4>. QED
        BY <1>5, <2>1, <4>1, <4>2
  <2>12. NoneTwice'
    BY <1>0, <2>1, <2>11, CarryEmpty, NoneTwiceAfter DEF Places, inVars, outVars
  <2>13. Kept \subseteq Kept' \union NoDst
    BY <1>4, <2>1, <2>4, <2>7 DEF Kept
  <2>14. OneInHand'
    BY <2>1 DEF OneInHand
  <2>. QED
    BY <1>2, <1>3, <2>10, <2>12, <2>13, <2>14 DEF Places
<1>. QED
  BY <1>6, <1>7, <1>8, <1>9 DEF Vendor, Sender, Reporter

LEMMA MarkFacts ==
  ASSUME DsTypeOK, Once(dlr_list, InEntry), NEW i \in DOMAIN dlr_list,
         dlr_list[i].state = "DELIVERIED", dlr_list' = Marked(i), NEW m, m = dlr_list[i].sm
  PROVE  /\ All(dlr_list', InEntry) = All(dlr_list, InEntry) /\ Once(dlr_list', InEntry)
         /\ All(dlr_list', InFresh) \subseteq All(dlr_list, InFresh)
         /\ m \in All(dlr_list, InFresh) /\ m \notin All(dlr_list', InFresh)
         /\ All(dlr_list', InPushing) = All(dlr_list, InPushing) \union {m}
<1>1. /\ DOMAIN dlr_list' = DOMAIN dlr_list
      /\ \A j \in DOMAIN dlr_list \ {i} : dlr_list'[j] = dlr_list[j]
      /\ dlr_list'[i] = [dlr_list[i] EXCEPT !.state = "PUSHING"]
      /\ \A j \in DOMAIN dlr_list : dlr_list[j] \in DlrEntry
  BY DEF Marked, DsTypeOK
<1>2. dlr_list'[i] \in DlrEntry /\ dlr_list'[i].sm = m /\ dlr_list'[i].state = "PUSHING"
  BY <1>1 DEF DlrEntry, DlrState
<1>3. /\ InEntry[dlr_list[i]] = {m} /\ InFresh[dlr_list[i]] = {m}
      /\ InPushing[dlr_list[i]] = {}
      /\ InEntry[dlr_list'[i]] = {m} /\ InFresh[dlr_list'[i]] = {}
      /\ InPushing[dlr_list'[i]] = {m}
  BY <1>1, <1>2 DEF InEntry, InFresh, InPushing
<1>4. \A j \in DOMAIN dlr_list : InEntry[dlr_list'[j]] = InEntry[dlr_list[j]]
  BY <1>1, <1>3
<1>5. All(dlr_list', InEntry) = All(dlr_list, InEntry) /\ Once(dlr_list', InEntry)
  BY <1>1, <1>4 DEF All, Once
<1>6. /\ m \in All(dlr_list, InFresh)
      /\ \A j \in DOMAIN dlr_list : /\ InFresh[dlr_list'[j]] \subseteq InFresh[dlr_list[j]]
                                    /\ m \notin InFresh[dlr_list'[j]]
  <2>1. m \in All(dlr_list, InFresh)
    BY <1>3 DEF All
  <2>2. ASSUME NEW j \in DOMAIN dlr_list, j # i PROVE m \notin InFresh[dlr_list'[j]]
    <3>1. m \notin InEntry[dlr_list[j]]
      BY <1>3, <2>2 DEF Once
    <3>2. InFresh[dlr_list[j]] \subseteq InEntry[dlr_list[j]]
      BY <1>1 DEF InFresh, InEntry
    <3>. QED
      BY <1>1, <2>2, <3>1, <3>2
  <2>. QED
    BY <1>1, <1>3, <2>1, <2>2
<1>7. /\ All(dlr_list', InFresh) \subseteq All(dlr_list, InFresh)
      /\ m \notin All(dlr_list', InFresh)
  BY <1>1, <1>6 DEF All
<1>8. All(dlr_list', InPushing) = All(dlr_list, InPushing) \union {m}
  <2>1. \A j \in DOMAIN dlr_list : /\ InPushing[dlr_list'[j]] \subseteq InPushing[dlr_list[j]] \union {m}
                                   /\ InPushing[dlr_list[j]] \subseteq InPushing[dlr_list'[j]]
    BY <1>1, <1>3
  <2>2. m \in All(dlr_list', InPushing)
    BY <1>1, <1>3 DEF All
  <2>3. All(dlr_list', InPushing) \subseteq All(dlr_list, InPushing) \union {m}
    BY <1>1, <2>1 DEF All
  <2>4. All(dlr_list, InPushing) \subseteq All(dlr_list', InPushing)
    BY <1>1, <2>1 DEF All
  <2>. QED
    BY <2>2, <2>3, <2>4
<1>. QED
  BY <1>5, <1>6, <1>7, <1>8

LEMMA PushPlaces ==
  ASSUME TypeInv, Places, NEW c \in Conn, SendDeliverySm(c),
         UNCHANGED <<todo, arriving, inVars, received_smis, wait_dlr_list, sending,
                     reporting, out_A, written>>,
         \A t \in Thread : SameHand(t)
  PROVE  Places'
<1>1. CASE UNCHANGED <<dlr_list, out_B>>
  BY <1>1, StaysPut DEF dsVars
<1>2. CASE ~UNCHANGED <<dlr_list, out_B>>
  <2>1. flag[c] \in SysId
    BY <1>2, BoundHasSysId DEF SendDeliverySm, TypeInv, TypeOK
  <2>2. PICK i \in DOMAIN dlr_list, s \in SysId, m \in Sm :
          /\ dlr_list[i].state = "DELIVERIED" /\ m = dlr_list[i].sm /\ s = flag[c]
          /\ dlr_list' = Marked(i)
          /\ out_B' = [out_B EXCEPT ![s] = Append(@, [type |-> "Dlr", sm |-> m])]
    <3>1. PICK i \in DOMAIN dlr_list :
            /\ dlr_list[i].state = "DELIVERIED" /\ dlr_list' = Marked(i)
            /\ out_B' = [out_B EXCEPT ![flag[c]] =
                           Append(@, [type |-> "Dlr", sm |-> dlr_list[i].sm])]
      BY <1>2 DEF SendDeliverySm, IsNextToPush, ToPush
    <3>2. dlr_list[i] \in DlrEntry
      BY DEF TypeInv, TypeOK, DsTypeOK
    <3>3. dlr_list[i].sm \in Sm
      BY <3>2 DEF DlrEntry
    <3>. QED
      BY <2>1, <3>1, <3>3
  <2>3. m \in Sm
    OBVIOUS
  <2>4. PICK p \in Out : p = [type |-> "Dlr", sm |-> m] /\ InOut[p] = {m}
    <3>1. [type |-> "Dlr", sm |-> m] \in Out /\ InOut[[type |-> "Dlr", sm |-> m]] = {m}
      BY <2>3 DEF Out, InOut
    <3>. QED
      BY <3>1
  <2>5. /\ out_B'[s] = Append(out_B[s], p) /\ out_B[s] \in Seq(Out)
        /\ \A z \in SysId \ {s} : out_B'[z] = out_B[z]
    BY <2>2, <2>4 DEF TypeInv, TypeOK, QueueTypeOK
  <2>6. /\ All(dlr_list', InEntry) = All(dlr_list, InEntry) /\ Once(dlr_list', InEntry)
        /\ In("fresh", NoConn)' \subseteq In("fresh", NoConn)
        /\ m \in In("fresh", NoConn) /\ m \notin In("fresh", NoConn)'
        /\ Pushing' = Pushing \union {m}
    <3>1. DsTypeOK /\ Once(dlr_list, InEntry)
      BY DEF TypeInv, TypeOK, Places, NoneTwice
    <3>. QED
      BY <2>2, <3>1, MarkFacts, SpotIs DEF Pushing
  <2>7. In("queued", s)' = In("queued", s) \union {m} /\ Once(out_B'[s], InOut)
    <3>1. In("fresh", NoConn) \intersect In("queued", s) = {}
      BY KindFacts DEF Places, OneSpot
    <3>2. All(out_B[s], InOut) \intersect InOut[p] = {} /\ Once(out_B[s], InOut)
      BY <2>4, <2>6, <3>1, SpotIs DEF Places, NoneTwice
    <3>3. /\ All(out_B'[s], InOut) = All(out_B[s], InOut) \union InOut[p]
          /\ Once(out_B'[s], InOut)
      BY <2>5, <3>2, CarryAppend
    <3>. QED
      BY <2>4, <3>3, SpotIs
  <2>8. \A k \in Kinds : \A z \in OwnersOf(k) :
          In(k, z)' \subseteq In(k, z) \/ (k = "queued" /\ z = s)
    BY <2>5, <2>6, SameSpot, SameHandFacts
       DEF Kinds, ConnKinds, SysIdKinds, ListKinds, OwnersOf, inVars
  <2>9. Passes("fresh", NoConn, "queued", s, {m})
    BY <2>6, <2>7, <2>8 DEF Passes
  <2>10. OneSpot' /\ PushingApart'
    <3>1. \A z \in SysId : In("queued", z) \subseteq Pushing
      BY SpotIs DEF Places, PushingApart
    <3>2. \A z \in SysId : In("queued", z)' \subseteq In("queued", z) \union {m}
      BY <2>7, <2>8, KindFacts
    <3>3. \A z \in SysId : In("queued", z)' \subseteq Pushing'
      BY <2>6, <3>1, <3>2
    <3>. QED
      BY <2>6, <2>9, <3>3, KindFacts, PassOneSpot, PassPushingApart DEF Places
  <2>11. NoneTwice'
    BY <2>5, <2>6, <2>7, NoneTwiceAfter DEF Places, inVars
  <2>12. \A d \in Conn : In("written", d)' = In("written", d)
    BY SameSpot
  <2>13. AnswersReported'
    BY <2>12, AnswersAfter, SameHandFacts DEF Places, inVars
  <2>14. AckedKept'
    <3>1. Kept' = Kept
      BY <2>6, SameHandFacts DEF Kept
    <3>. QED
      BY <2>12, <3>1, SameAcked, AckedAfter DEF Places
  <2>. QED
    BY <2>10, <2>11, <2>13, <2>14 DEF Places, OneInHand
<1>. QED
  BY <1>1, <1>2

LEMMA LookersPlaces ==
  ASSUME TypeInv, Places, NEW t \in Thread, NeedSend(t) \/ \E c \in Conn : Examine(t, c)
  PROVE  Places'
<1>0. tpc \in [Thread -> ThreadPcs]
  BY DEF TypeInv, TypeOK, ThreadTypeOK
<1>1. ASSUME NEW c \in Conn, Examine(t, c) PROVE Places'
  <2>1. /\ UNCHANGED <<todo, arriving, inVars, received_smis, wait_dlr_list, sending,
                       reporting, out_A, written>>
        /\ \A u \in Thread : SameHand(u)
        /\ UNCHANGED <<dlr_list, out_B>> \/ SendDeliverySm(c)
    BY <1>0, <1>1 DEF Examine, connVars, SameHand, HasRequest
  <2>. QED
    BY <2>1, PushPlaces, StaysPut DEF dsVars
<1>2. CASE NeedSend(t)
  <2>1. PICK pc : pc = IF SomethingToSend(at[t], out_B')
                       THEN ThenSend[tpc[t]] ELSE ElseGoOn[tpc[t]]
    OBVIOUS
  <2>2. tpc[t] \in Looks /\ tpc' = [tpc EXCEPT ![t] = pc]
    BY <1>2, <2>1 DEF NeedSend
  <2>3. pc \in {"send", "receive", "send_again", "check"}
    BY <2>1, <2>2 DEF Looks, ThenSend, ElseGoOn
  <2>4. at[t] \in Conn
    BY <2>2, HasConn DEF Looks, TypeInv, TypeOK
  <2>5. /\ UNCHANGED <<todo, arriving, inVars, received_smis, wait_dlr_list, sending,
                       reporting, out_A, written, req>>
        /\ SendDeliverySm(at[t])
    BY <1>2 DEF NeedSend, connVars
  <2>6. \A u \in Thread : SameHand(u)
    BY <1>0, <2>2, <2>3, <2>5 DEF SameHand, HasRequest, Looks
  <2>. QED
    BY <2>4, <2>5, <2>6, PushPlaces
<1>. QED
  BY <1>1, <1>2

LEMMA HasAppend ==
  ASSUME NEW S, NEW q \in Seq(S), NEW x \in S, NEW type, NEW m, Has(Append(q, x), type, m)
  PROVE  Has(q, type, m) \/ (x.type = type /\ x.sm = m)
<1>. DEFINE r == Append(q, x)
<1>1. /\ DOMAIN q = 1..Len(q) /\ DOMAIN r = 1..(Len(q) + 1) /\ Len(q) \in Nat
      /\ \A i \in 1..Len(q) : r[i] = q[i]
      /\ r[Len(q) + 1] = x
  OBVIOUS
<1>. HIDE DEF r
<1>2. PICK i \in DOMAIN r : r[i].type = type /\ r[i].sm = m
  BY DEF Has, r
<1>3. CASE i = Len(q) + 1
  BY <1>1, <1>2, <1>3
<1>4. CASE i # Len(q) + 1
  <2>1. i \in DOMAIN q /\ r[i] = q[i]
    BY <1>1, <1>4
  <2>. QED
    BY <1>2, <2>1 DEF Has
<1>. QED
  BY <1>3, <1>4

LEMMA HasTail ==
  ASSUME NEW S, NEW q \in Seq(S), q # << >>, NEW type, NEW m,
         Has(Tail(q), type, m) \/ (Head(q).type = type /\ Head(q).sm = m)
  PROVE  Has(q, type, m)
<1>. DEFINE r == Tail(q)
<1>1. /\ DOMAIN q = 1..Len(q) /\ Len(q) \in Nat \ {0} /\ DOMAIN r = 1..(Len(q) - 1)
      /\ \A i \in 1..(Len(q) - 1) : r[i] = q[i + 1]
      /\ Head(q) = q[1]
  OBVIOUS
<1>. HIDE DEF r
<1>2. CASE Head(q).type = type /\ Head(q).sm = m
  <2>1. 1 \in DOMAIN q
    BY <1>1
  <2>. QED
    BY <1>1, <1>2, <2>1 DEF Has
<1>3. CASE Has(Tail(q), type, m)
  <2>1. PICK i \in DOMAIN r : r[i].type = type /\ r[i].sm = m
    BY <1>3 DEF Has, r
  <2>2. i + 1 \in DOMAIN q /\ r[i] = q[i + 1]
    BY <1>1
  <2>. QED
    BY <2>1, <2>2 DEF Has
<1>. QED
  BY <1>2, <1>3

\* The PDU goes to the client, or nowhere if the socket is closed.
LEMMA WriteFacts ==
  ASSUME QueueTypeOK, NEW c \in Conn, NEW p \in Out, Write(c, p),
         Once(written[c], InOut), In("written", c) \intersect InOut[p] = {}
  PROVE  /\ \A d \in Conn \ {c} : written'[d] = written[d]
         /\ In("written", c) \subseteq In("written", c)'
         /\ In("written", c)' \subseteq In("written", c) \union InOut[p]
         /\ Once(written'[c], InOut)
         /\ \A d \in Conn : \A m : Has(written'[d], "SubmitSmResp", m) =>
              Has(written[d], "SubmitSmResp", m) \/ (p.type = "SubmitSmResp" /\ p.sm = m)
<1>1. written \in [Conn -> Seq(Out)]
  BY DEF QueueTypeOK
<1>2. CASE UNCHANGED written
  BY <1>2, SpotIs
<1>3. CASE written' = [written EXCEPT ![c] = Append(@, p)]
  <2>1. /\ written'[c] = Append(written[c], p) /\ written[c] \in Seq(Out)
        /\ \A d \in Conn \ {c} : written'[d] = written[d]
    BY <1>1, <1>3
  <2>2. /\ All(written'[c], InOut) = All(written[c], InOut) \union InOut[p]
        /\ Once(written'[c], InOut)
    <3>1. All(written[c], InOut) \intersect InOut[p] = {}
      BY SpotIs
    <3>. QED
      BY <2>1, <3>1, CarryAppend
  <2>3. \A m : Has(written'[c], "SubmitSmResp", m) =>
          Has(written[c], "SubmitSmResp", m) \/ (p.type = "SubmitSmResp" /\ p.sm = m)
    BY <2>1, HasAppend
  <2>. QED
    BY <2>1, <2>2, <2>3, SpotIs
<1>. QED
  BY <1>2, <1>3 DEF Write

LEMMA SendingPlaces ==
  ASSUME TypeInv, Owners, Places, NEW t \in Thread, Send(t) \/ SendB(t)
  PROVE  Places'
<1>. PICK c \in Conn : c = at[t]
  BY SendFacts
<1>0. /\ UNCHANGED <<todo, arriving, inVars, dsVars, req>>
      /\ \A u \in Thread : SameHand(u)
  BY SendFacts DEF connVars, SameHand
<1>1. /\ private_out \in [Conn -> Seq(Out)] /\ QueueTypeOK
      /\ out_A \in [SysId -> Seq(Out)] /\ out_B \in [SysId -> Seq(Out)]
      /\ \A d \in Conn : Once(written[d], InOut)
  BY DEF TypeInv, TypeOK, QueueTypeOK, Places, NoneTwice
\* What follows of writing a PDU that is no new ack.
<1>2. ASSUME NEW p \in Out, Write(c, p), In("written", c) \intersect InOut[p] = {},
             \A m : Acked(m)' => Acked(m)
      PROVE  /\ \A d \in Conn \ {c} : In("written", d)' = In("written", d)
             /\ In("written", c)' \subseteq In("written", c) \union InOut[p]
             /\ \A d \in Conn : written'[d] = written[d] \/ Once(written'[d], InOut)
             /\ AnswersReported' /\ AckedKept' /\ OneInHand'
  <2>1. /\ \A d \in Conn \ {c} : written'[d] = written[d]
        /\ In("written", c) \subseteq In("written", c)'
        /\ In("written", c)' \subseteq In("written", c) \union InOut[p]
        /\ Once(written'[c], InOut)
    BY <1>0, <1>1, <1>2, WriteFacts
  <2>2. \A d \in Conn \ {c} : In("written", d)' = In("written", d)
    BY <2>1, SameSpot
  <2>3. \A d \in Conn : In("written", d) \subseteq In("written", d)'
    BY <2>1, <2>2
  <2>4. AnswersReported'
    BY <1>0, <2>3, AnswersAfter, SameHandFacts DEF Places, inVars
  <2>5. Kept' = Kept
    BY <1>0, SameHandFacts DEF Kept, dsVars
  <2>6. AckedKept'
    BY <1>2, <2>3, <2>5, AckedAfter DEF Places
  <2>7. OneInHand'
    BY <1>0 DEF Places, OneInHand, dsVars
  <2>. QED
    BY <2>1, <2>2, <2>4, <2>6, <2>7
\* The session's own answers and the acks are not about reports.
<1>3. ASSUME NEW p \in Out, Write(c, p), InOut[p] = {}, \A m : Acked(m)' => Acked(m),
             UNCHANGED out_B
      PROVE  Places'
  <2>1. /\ \A d \in Conn \ {c} : In("written", d)' = In("written", d)
        /\ In("written", c)' \subseteq In("written", c)
        /\ \A d \in Conn : written'[d] = written[d] \/ Once(written'[d], InOut)
        /\ AnswersReported' /\ AckedKept' /\ OneInHand'
    BY <1>2, <1>3
  <2>2. \A k \in Kinds : \A z \in OwnersOf(k) : In(k, z)' \subseteq In(k, z)
    BY <1>0, <1>3, <2>1, SameSpot, SameHandFacts
       DEF Kinds, ConnKinds, SysIdKinds, ListKinds, OwnersOf, inVars, dsVars
  <2>3. Passes("arriving", NoConn, "arriving", NoConn, {})
    BY <2>2, KindFacts DEF Passes
  <2>4. OneSpot' /\ PushingApart'
    BY <1>0, <1>3, <2>3, KindFacts, PassElsewhere DEF dsVars
  <2>5. NoneTwice'
    BY <1>0, <1>3, <2>1, NoneTwiceAfter DEF Places, inVars, dsVars
  <2>. QED
    BY <2>1, <2>4, <2>5 DEF Places
<1>4. CASE SendsOwn(c)
  <2>1. private_out[c] \in Seq(SessionOut) /\ private_out[c] # << >>
    BY <1>0, <1>4 DEF SendsOwn, Owners, OutInv
  <2>2. PICK p \in SessionOut : p = Head(private_out[c])
    BY <2>1, SeqFacts
  <2>3. p \in Out /\ InOut[p] = {} /\ p.type # "SubmitSmResp"
    BY <2>2, CarryFacts DEF SessionOut
  <2>4. Write(c, p) /\ UNCHANGED <<out_A, out_B>>
    BY <1>4, <2>2 DEF SendsOwn
  <2>5. \A m : Acked(m)' => Acked(m)
    <3>1. \A d \in Conn : \A m : Has(written'[d], "SubmitSmResp", m) => Has(written[d], "SubmitSmResp", m)
      BY <1>0, <1>1, <2>3, <2>4, WriteFacts
    <3>. QED
      BY <2>4, <3>1 DEF Acked
  <2>. QED
    BY <1>3, <2>3, <2>4, <2>5
<1>5. CASE SendsA(c)
  <2>0. PICK s \in SysId : s = flag[c]
    BY <1>5 DEF SendsA
  <2>1. /\ out_A[s] \in Seq(AccountAck(s)) /\ out_A[s] \in Seq(Out) /\ out_A[s] # << >>
        /\ out_A'[s] = Tail(out_A[s]) /\ \A z \in SysId \ {s} : out_A'[z] = out_A[z]
    BY <1>1, <1>5, <2>0 DEF SendsA, Owners, OutInv
  <2>2. PICK p \in AccountAck(s) : p = Head(out_A[s])
    BY <2>1, SeqFacts
  <2>3. p \in Out /\ InOut[p] = {}
    BY <2>2, CarryFacts DEF AccountAck
  <2>4. Write(c, p) /\ UNCHANGED <<private_out, out_B>>
    BY <1>5, <2>0, <2>2 DEF SendsA
  <2>5. \A m : Acked(m)' => Acked(m)
    <3>1. \A d \in Conn : \A m : Has(written'[d], "SubmitSmResp", m) =>
            Has(written[d], "SubmitSmResp", m) \/ (p.type = "SubmitSmResp" /\ p.sm = m)
      BY <1>0, <1>1, <2>3, <2>4, WriteFacts
    <3>2. \A m : (p.type = "SubmitSmResp" /\ p.sm = m) \/ Has(out_A'[s], "SubmitSmResp", m)
                 => Has(out_A[s], "SubmitSmResp", m)
      BY <2>1, <2>2, HasTail
    <3>. QED
      BY <2>1, <3>1, <3>2 DEF Acked
  <2>. QED
    BY <1>3, <2>3, <2>4, <2>5
<1>6. CASE SendsB(c)
  <2>0. PICK s \in SysId : s = flag[c]
    BY <1>6 DEF SendsB
  <2>1. /\ out_B[s] \in Seq(AccountDlr(s)) /\ out_B[s] \in Seq(Out) /\ out_B[s] # << >>
        /\ out_B'[s] = Tail(out_B[s]) /\ \A z \in SysId \ {s} : out_B'[z] = out_B[z]
    BY <1>1, <1>6, <2>0 DEF SendsB, Owners, OutInv
  <2>2. PICK p \in AccountDlr(s) : p = Head(out_B[s])
    BY <2>1, SeqFacts
  <2>3. p \in Out /\ p.type = "Dlr"
    BY <2>2 DEF AccountDlr
  <2>4. Write(c, p) /\ UNCHANGED <<private_out, out_A>>
    BY <1>6, <2>0, <2>2 DEF SendsB
  <2>5. /\ In("queued", s) = InOut[p] \union In("queued", s)'
        /\ InOut[p] \intersect In("queued", s)' = {} /\ Once(out_B'[s], InOut)
    <3>1. Once(out_B[s], InOut)
      BY DEF Places, NoneTwice
    <3>. QED
      BY <2>1, <2>2, <3>1, CarryTail, SpotIs
  <2>6. In("written", c) \intersect InOut[p] = {}
    <3>1. In("written", c) \intersect In("queued", s) = {}
      BY <1>0, KindFacts DEF Places, OneSpot
    <3>. QED
      BY <2>5, <3>1
  <2>7. \A m : Acked(m)' => Acked(m)
    <3>1. \A d \in Conn : \A m : Has(written'[d], "SubmitSmResp", m) => Has(written[d], "SubmitSmResp", m)
      BY <1>0, <1>1, <2>3, <2>4, <2>6, WriteFacts
    <3>. QED
      BY <2>4, <3>1 DEF Acked
  <2>8. /\ \A d \in Conn \ {c} : In("written", d)' = In("written", d)
        /\ In("written", c)' \subseteq In("written", c) \union InOut[p]
        /\ \A d \in Conn : written'[d] = written[d] \/ Once(written'[d], InOut)
        /\ AnswersReported' /\ AckedKept' /\ OneInHand'
    BY <1>2, <2>3, <2>4, <2>6, <2>7
  <2>9. \A z \in SysId : In("queued", z)' \subseteq In("queued", z)
    BY <2>1, <2>5, SameSpot
  <2>10. \A k \in Kinds : \A z \in OwnersOf(k) :
          In(k, z)' \subseteq In(k, z) \/ (k = "written" /\ z = c)
    BY <1>0, <2>8, <2>9, SameSpot, SameHandFacts
       DEF Kinds, ConnKinds, SysIdKinds, ListKinds, OwnersOf, inVars, dsVars
  <2>11. Passes("queued", s, "written", c, InOut[p])
    BY <2>5, <2>8, <2>10 DEF Passes
  <2>12. OneSpot' /\ PushingApart'
    <3>1. Pushing' = Pushing
      BY <1>0 DEF Pushing, dsVars
    <3>2. \A z \in SysId : In("queued", z) \subseteq Pushing
      BY SpotIs DEF Places, PushingApart
    <3>. QED
      BY <1>0, <2>9, <2>11, <3>1, <3>2, KindFacts, PassOneSpot, PassPushingApart DEF Places
  <2>13. NoneTwice'
    BY <1>0, <2>1, <2>5, <2>8, NoneTwiceAfter DEF Places, inVars, dsVars
  <2>. QED
    BY <2>8, <2>12, <2>13 DEF Places
<1>7. CASE UNCHANGED <<outVars, written>>
  BY <1>0, <1>7, StaysPut DEF outVars
<1>. QED
  BY <1>4, <1>5, <1>6, <1>7, SendFacts

LEMMA ReceivePlaces ==
  ASSUME TypeInv, Places, NEW t \in Thread, Receive(t)
  PROVE  Places'
<1>. PICK c \in Conn : c = at[t]
  BY ReceiveFacts
<1>0. /\ UNCHANGED <<todo, arriving, dsVars, outVars, written>> /\ ~HasRequest(t)
      /\ \A u \in Thread \ {t} : SameHand(u)
  BY ReceiveFacts DEF connVars, SameHand
<1>1. /\ private_in \in [Conn -> Seq(ReadItem)] /\ in_queue \in [SysId -> Seq(ReadItem)]
  BY DEF TypeInv, TypeOK, QueueTypeOK
<1>2. \A d \in Conn : In("written", d)' = In("written", d)
  BY <1>0, SameSpot
<1>3. CASE TakesOwn(t)
  <2>1. /\ private_in[c] # << >> /\ Head(private_in[c]) \in ReadItem
        /\ tpc'[t] = "process" /\ req'[t] = Head(private_in[c]).req
        /\ private_in' = [private_in EXCEPT ![c] = Tail(@)] /\ UNCHANGED in_queue
    BY <1>0, <1>3 DEF TakesOwn
  <2>2. PICK x \in ReadItem : x = Head(private_in[c])
    BY <2>1
  <2>3. /\ private_in'[c] = Tail(private_in[c]) /\ private_in[c] \in Seq(ReadItem)
        /\ \A d \in Conn \ {c} : private_in'[d] = private_in[d]
    BY <1>1, <2>1
  <2>4. /\ \A f : All(private_in[c], f) = f[x] \union All(private_in'[c], f)
        /\ InItem[x] \intersect All(private_in'[c], InItem) = {}
        /\ Once(private_in'[c], InItem)
    <3>1. Once(private_in[c], InItem)
      BY DEF Places, NoneTwice
    <3>. QED
      BY <2>1, <2>2, <2>3, <3>1, CarryTail
  <2>5. /\ In("private", c) = InItem[x] \union In("private", c)'
        /\ InItem[x] \intersect In("private", c)' = {}
    BY <2>4, SpotIs
  <2>6. In("hand", t)' = InItem[x] /\ In("hand", t) = {}
    BY <1>0, <2>1, <2>2, CarryFacts, SpotIs DEF InHand, HasRequest
  <2>7. \A j \in Kinds : \A z \in OwnersOf(j) :
          In(j, z)' \subseteq In(j, z) \/ (j = "hand" /\ z = t)
    BY <1>0, <2>1, <2>3, <2>5, SameSpot, SameHandFacts
       DEF Kinds, ConnKinds, SysIdKinds, ListKinds, OwnersOf, dsVars, outVars
  <2>8. Passes("private", c, "hand", t, InItem[x])
    BY <2>5, <2>6, <2>7 DEF Passes
  <2>9. OneSpot' /\ PushingApart'
    BY <1>0, <2>8, KindFacts, PassElsewhere DEF dsVars, outVars
  <2>10. NoneTwice'
    BY <1>0, <2>1, <2>3, <2>4, NoneTwiceAfter DEF Places, dsVars, outVars
  <2>11. AnswersReported'
    <3>1. All(private_in[c], AnswerIn) \subseteq Reported
      BY DEF Places, AnswersReported
    <3>2. InAnswer[req'[t]] \subseteq Reported /\ All(private_in'[c], AnswerIn) \subseteq Reported
      BY <2>1, <2>2, <2>4, <3>1, CarryFacts
    <3>3. \A u \in Thread : HasRequest(u)' => \/ HasRequest(u) /\ req'[u] = req[u]
                                              \/ InAnswer[req'[u]] \subseteq Reported
      BY <1>0, <3>2, SameHandFacts
    <3>. QED
      BY <1>0, <1>2, <2>1, <2>3, <3>2, <3>3, AnswersAfter DEF Places
  <2>12. AckedKept'
    <3>1. InStore(t)' = {} /\ InStore(t) = {}
      BY <1>0, <2>1 DEF InStore, HasRequest
    <3>2. Kept' = Kept
      BY <1>0, <3>1, SameHandFacts DEF Kept, dsVars
    <3>. QED
      BY <1>0, <1>2, <3>2, SameAcked, AckedAfter DEF Places, outVars
  <2>. QED
    BY <1>0, <2>9, <2>10, <2>11, <2>12 DEF Places, OneInHand, dsVars
<1>4. CASE TakesShared(t)
  <2>0. PICK s \in SysId : s = flag[c]
    BY <1>4, <1>0 DEF TakesShared
  <2>1. /\ in_queue[s] # << >> /\ Head(in_queue[s]) \in ReadItem
        /\ tpc'[t] = "process" /\ req'[t] = Head(in_queue[s]).req
        /\ in_queue' = [in_queue EXCEPT ![s] = Tail(@)] /\ UNCHANGED private_in
    BY <1>0, <1>4, <2>0 DEF TakesShared
  <2>2. PICK x \in ReadItem : x = Head(in_queue[s])
    BY <2>1
  <2>3. /\ in_queue'[s] = Tail(in_queue[s]) /\ in_queue[s] \in Seq(ReadItem)
        /\ \A d \in SysId \ {s} : in_queue'[d] = in_queue[d]
    BY <1>1, <2>1
  <2>4. /\ \A f : All(in_queue[s], f) = f[x] \union All(in_queue'[s], f)
        /\ InItem[x] \intersect All(in_queue'[s], InItem) = {}
        /\ Once(in_queue'[s], InItem)
    <3>1. Once(in_queue[s], InItem)
      BY DEF Places, NoneTwice
    <3>. QED
      BY <2>1, <2>2, <2>3, <3>1, CarryTail
  <2>5. /\ In("shared", s) = InItem[x] \union In("shared", s)'
        /\ InItem[x] \intersect In("shared", s)' = {}
    BY <2>4, SpotIs
  <2>6. In("hand", t)' = InItem[x] /\ In("hand", t) = {}
    BY <1>0, <2>1, <2>2, CarryFacts, SpotIs DEF InHand, HasRequest
  <2>7. \A j \in Kinds : \A z \in OwnersOf(j) :
          In(j, z)' \subseteq In(j, z) \/ (j = "hand" /\ z = t)
    BY <1>0, <2>1, <2>3, <2>5, SameSpot, SameHandFacts
       DEF Kinds, ConnKinds, SysIdKinds, ListKinds, OwnersOf, dsVars, outVars
  <2>8. Passes("shared", s, "hand", t, InItem[x])
    BY <2>5, <2>6, <2>7 DEF Passes
  <2>9. OneSpot' /\ PushingApart'
    BY <1>0, <2>8, KindFacts, PassElsewhere DEF dsVars, outVars
  <2>10. NoneTwice'
    BY <1>0, <2>1, <2>3, <2>4, NoneTwiceAfter DEF Places, dsVars, outVars
  <2>11. AnswersReported'
    <3>1. All(in_queue[s], AnswerIn) \subseteq Reported
      BY DEF Places, AnswersReported
    <3>2. InAnswer[req'[t]] \subseteq Reported /\ All(in_queue'[s], AnswerIn) \subseteq Reported
      BY <2>1, <2>2, <2>4, <3>1, CarryFacts
    <3>3. \A u \in Thread : HasRequest(u)' => \/ HasRequest(u) /\ req'[u] = req[u]
                                              \/ InAnswer[req'[u]] \subseteq Reported
      BY <1>0, <3>2, SameHandFacts
    <3>. QED
      BY <1>0, <1>2, <2>1, <2>3, <3>2, <3>3, AnswersAfter DEF Places
  <2>12. AckedKept'
    <3>1. InStore(t)' = {} /\ InStore(t) = {}
      BY <1>0, <2>1 DEF InStore, HasRequest
    <3>2. Kept' = Kept
      BY <1>0, <3>1, SameHandFacts DEF Kept, dsVars
    <3>. QED
      BY <1>0, <1>2, <3>2, SameAcked, AckedAfter DEF Places, outVars
  <2>. QED
    BY <1>0, <2>9, <2>10, <2>11, <2>12 DEF Places, OneInHand, dsVars
<1>5. CASE ~HasRequest(t)' /\ UNCHANGED inVars
  BY <1>0, <1>5, StaysPut DEF SameHand, outVars
<1>. QED
  BY <1>3, <1>4, <1>5, ReceiveFacts

\* What the session answers by itself is no ack.
LEMMA AnswersAcked ==
  ASSUME TypeInv, NEW c \in Conn, Answers(c), UNCHANGED written, NEW m, Acked(m)'
  PROVE  Acked(m)
<1>1. \A s \in SysId : out_A[s] \in Seq(Out)
  BY DEF TypeInv, TypeOK, QueueTypeOK
<1>2. \A s \in SysId : Has(out_A'[s], "SubmitSmResp", m) => Has(out_A[s], "SubmitSmResp", m)
  <2>1. CASE UNCHANGED out_A
    BY <2>1
  <2>2. ASSUME NEW p \in SessionOut, flag[c] \in SysId,
               out_A' = [out_A EXCEPT ![flag[c]] = Append(@, p)]
        PROVE  \A s \in SysId : Has(out_A'[s], "SubmitSmResp", m) => Has(out_A[s], "SubmitSmResp", m)
    <3>1. p \in Out /\ p.type # "SubmitSmResp"
      BY DEF SessionOut
    <3>2. \A s \in SysId : out_A'[s] = out_A[s] \/ out_A'[s] = Append(out_A[s], p)
      BY <2>2 DEF TypeInv, TypeOK, QueueTypeOK
    <3>3. ASSUME NEW s \in SysId
          PROVE  Has(Append(out_A[s], p), "SubmitSmResp", m) => Has(out_A[s], "SubmitSmResp", m)
      <4>1. out_A[s] \in Seq(Out)
        BY <1>1
      <4>. QED
        BY <3>1, <4>1, HasAppend
    <3>. QED
      BY <3>2, <3>3
  <2>. QED
    BY <2>1, <2>2 DEF Answers
<1>. QED
  BY <1>2 DEF Acked

LEMMA ProcessPlaces ==
  ASSUME TypeInv, Places, NEW t \in Thread, Process(t)
  PROVE  Places'
<1>. PICK c \in Conn : c = at[t]
  BY ProcessFacts
<1>. PICK r \in Request : r = req[t]
  BY ProcessFacts
<1>0. /\ UNCHANGED <<todo, arriving, inVars, out_B, written>> /\ HasRequest(t)
      /\ \A u \in Thread \ {t} : SameHand(u)
      /\ In("hand", t) = InRequest[r]
  BY ProcessFacts, SpotIs DEF connVars, SameHand, InHand
<1>1. \A d \in Conn : In("written", d)' = In("written", d)
  BY <1>0, SameSpot
<1>2. \A k \in Kinds \ {"hand", "received", "sending", "waiting", "reporting", "fresh"} :
        \A z \in OwnersOf(k) : In(k, z)' = In(k, z)
  BY <1>0, SameSpot DEF Kinds, ConnKinds, SysIdKinds, ListKinds, OwnersOf, inVars
<1>3. \A u \in Thread \ {t} : In("hand", u)' = In("hand", u) /\ InStore(u)' = InStore(u)
  BY <1>0, SameHandFacts
<1>4. ~HasRequest(t)' => /\ In("hand", t)' = {} /\ InStore(t)' = {} /\ AnswersReported'
  <2>1. SUFFICES ASSUME ~HasRequest(t)' PROVE In("hand", t)' = {} /\ InStore(t)' = {} /\ AnswersReported'
    OBVIOUS
  <2>2. In("hand", t)' = {} /\ InStore(t)' = {}
    BY <2>1, SpotIs DEF InHand, InStore, HasRequest
  <2>3. \A u \in Thread : HasRequest(u)' => HasRequest(u) /\ req'[u] = req[u]
    BY <1>0, <2>1, SameHandFacts
  <2>. QED
    BY <1>0, <1>1, <2>2, <2>3, AnswersAfter DEF Places, inVars
\* A request that is no message of its own goes away.
<1>5. ASSUME tpc[t] = "process", ~HasRequest(t)', UNCHANGED dsVars, Answers(c) PROVE Places'
  <2>1. \A k \in Kinds : \A z \in OwnersOf(k) : In(k, z)' \subseteq In(k, z)
    BY <1>2, <1>3, <1>4, <1>5, SameSpot DEF ListKinds, OwnersOf, ConnKinds, SysIdKinds, dsVars
  <2>2. Passes("arriving", NoConn, "arriving", NoConn, {})
    BY <2>1, KindFacts DEF Passes
  <2>3. OneSpot' /\ PushingApart'
    BY <1>0, <1>5, <2>2, KindFacts, PassElsewhere DEF dsVars
  <2>4. NoneTwice'
    BY <1>0, <1>5, NoneTwiceAfter DEF Places, inVars, dsVars
  <2>5. AckedKept'
    <3>1. InStore(t) = {}
      BY <1>5 DEF InStore
    <3>2. Kept' = Kept
      BY <1>3, <1>4, <1>5, <3>1 DEF Kept, dsVars
    <3>3. \A m : Acked(m)' => Acked(m)
      BY <1>0, <1>5, AnswersAcked
    <3>. QED
      BY <1>1, <3>2, <3>3, AckedAfter DEF Places
  <2>. QED
    BY <1>4, <1>5, <2>3, <2>4, <2>5 DEF Places, OneInHand, dsVars
<1>6. CASE Accepts(t)
  <2>1. /\ tpc[t] = "process" /\ tpc'[t] = "store" /\ req'[t] = r /\ r.type = "SubmitSm"
        /\ UNCHANGED dsVars
    BY <1>6 DEF Accepts
  <2>2. /\ In("hand", t)' = InRequest[r] /\ InStore(t)' = InRequest[r] /\ InStore(t) = {}
    BY <2>1, SpotIs DEF InHand, InStore, HasRequest
  <2>3. \A k \in Kinds : \A z \in OwnersOf(k) : In(k, z)' = In(k, z)
    BY <1>0, <1>2, <1>3, <2>1, <2>2, SameSpot DEF ListKinds, OwnersOf, ConnKinds, SysIdKinds, dsVars
  <2>4. Passes("arriving", NoConn, "arriving", NoConn, {})
    BY <2>3, KindFacts DEF Passes
  <2>5. OneSpot' /\ PushingApart'
    BY <1>0, <2>1, <2>4, KindFacts, PassElsewhere DEF dsVars
  <2>6. NoneTwice'
    BY <1>0, <2>1, NoneTwiceAfter DEF Places, inVars, dsVars
  <2>7. AnswersReported'
    <3>1. \A u \in Thread : HasRequest(u)' => HasRequest(u) /\ req'[u] = req[u]
      BY <1>0, <2>1, SameHandFacts
    <3>. QED
      BY <1>0, <1>1, <3>1, AnswersAfter DEF Places, inVars
  <2>8. AckedKept'
    <3>1. ASSUME NEW m \in Sm, Acked(m)', ~Acked(m) PROVE m = r.sm
      <4>1. PICK s \in SysId : Has(out_A'[s], "SubmitSmResp", m) /\ ~Has(out_A[s], "SubmitSmResp", m)
        BY <1>0, <3>1 DEF Acked
      <4>2. /\ flag[c] \in SysId /\ out_A \in [SysId -> Seq(Out)]
            /\ out_A' = [out_A EXCEPT ![flag[c]] = Append(@, [type |-> "SubmitSmResp", sm |-> r.sm])]
            /\ r.sm \in Sm
        BY <1>6 DEF Accepts, TypeInv, TypeOK, QueueTypeOK
      <4>3. PICK p \in Out : p = [type |-> "SubmitSmResp", sm |-> r.sm]
        BY <4>2, OutFacts
      <4>4. out_A'[s] = Append(out_A[s], p) /\ out_A[s] \in Seq(Out)
        BY <4>1, <4>2, <4>3
      <4>5. p.type = "SubmitSmResp" /\ p.sm = m
        BY <4>1, <4>4, HasAppend
      <4>. QED
        BY <4>3, <4>5
    <3>2. r.sm \in InStore(t)'
      BY <2>1, <2>2, CarryFacts
    <3>3. InStore(t)' \subseteq Kept'
      BY DEF Kept
    <3>4. Kept \subseteq Kept'
      BY <1>3, <2>1, <2>2 DEF Kept, dsVars
    <3>. QED
      BY <1>1, <3>1, <3>2, <3>3, <3>4, AckedAfter DEF Places
  <2>. QED
    BY <2>1, <2>5, <2>6, <2>7, <2>8 DEF Places, OneInHand, dsVars
<1>7. CASE Stores(t)
  <2>1. /\ tpc[t] = "store" /\ ~HasRequest(t)' /\ flag[c] \in SysId
        /\ r.type = "SubmitSm" /\ r.sm \in Sm
        /\ received_smis' = Append(received_smis, [sm |-> r.sm, sysid |-> flag[c]])
        /\ UNCHANGED <<wait_dlr_list, dlr_list, sending, reporting, out_A>>
    BY <1>7 DEF Stores
  <2>2. PICK x \in Smi : x = [sm |-> r.sm, sysid |-> flag[c]] /\ InSmi[x] = {r.sm}
    <3>1. [sm |-> r.sm, sysid |-> flag[c]] \in Smi
      BY <2>1 DEF Smi
    <3>. QED
      BY <3>1, CarryFacts
  <2>3. In("hand", t) = {r.sm} /\ InStore(t) = {r.sm}
    BY <1>0, <2>1, CarryFacts DEF InStore
  <2>4. /\ received_smis \in Seq(Smi) /\ received_smis' = Append(received_smis, x)
        /\ Once(received_smis, InSmi)
    BY <2>1, <2>2 DEF TypeInv, TypeOK, DsTypeOK, Places, NoneTwice
  <2>5. /\ All(received_smis', InSmi) = All(received_smis, InSmi) \union {r.sm}
        /\ Once(received_smis', InSmi)
    <3>1. In("hand", t) \intersect In("received", NoConn) = {}
      BY KindFacts DEF Places, OneSpot
    <3>2. All(received_smis, InSmi) \intersect InSmi[x] = {}
      BY <2>2, <2>3, <3>1, SpotIs
    <3>. QED
      BY <2>2, <2>4, <3>2, CarryAppend
  <2>6. In("received", NoConn)' = In("received", NoConn) \union {r.sm}
    BY <2>5, SpotIs
  <2>7. \A k \in Kinds : \A z \in OwnersOf(k) :
          In(k, z)' \subseteq In(k, z) \/ (k = "received" /\ z = NoConn)
    BY <1>2, <1>3, <1>4, <2>1, SameSpot DEF ListKinds, OwnersOf, ConnKinds, SysIdKinds
  <2>8. Passes("hand", t, "received", NoConn, {r.sm})
    BY <1>4, <2>1, <2>3, <2>6, <2>7 DEF Passes
  <2>9. OneSpot' /\ PushingApart'
    BY <1>0, <2>1, <2>8, KindFacts, PassElsewhere
  <2>10. NoneTwice'
    BY <1>0, <2>1, <2>5, NoneTwiceAfter DEF Places, inVars
  <2>11. AckedKept'
    <3>1. ASSUME NEW m \in Kept PROVE m \in Kept'
      <4>1. CASE m \in All(received_smis, InSmi) \union {r.sm}
        BY <2>5, <4>1 DEF Kept
      <4>2. ASSUME NEW u \in Thread, m \in InStore(u), m # r.sm PROVE m \in Kept'
        <5>1. m \in InStore(u)'
          BY <1>3, <2>3, <4>2
        <5>. QED
          BY <5>1 DEF Kept
      <4>3. CASE m \in All(sending, InSmi) \union All(wait_dlr_list, InSmi)
                         \union All(reporting, InSmi) \union All(dlr_list, InEntry)
        BY <2>1, <4>3 DEF Kept
      <4>. QED
        BY <3>1, <4>1, <4>2, <4>3 DEF Kept
    <3>2. \A m : Acked(m)' <=> Acked(m)
      BY <1>0, <2>1, SameAcked
    <3>. QED
      BY <1>1, <3>1, <3>2, AckedAfter DEF Places
  <2>. QED
    BY <1>4, <2>1, <2>9, <2>10, <2>11 DEF Places, OneInHand
<1>8. CASE Removes(t)
  <2>1. /\ tpc[t] = "process" /\ ~HasRequest(t)' /\ r.type = "DeliverSmResp" /\ RemoveDlr(r.sm)
        /\ UNCHANGED <<received_smis, wait_dlr_list, sending, reporting, out_A>>
    BY <1>8 DEF Removes
  <2>2. r.sm \in Reported
    BY <1>0, <2>1, CarryFacts DEF Places, AnswersReported
  <2>3. /\ All(dlr_list', InFresh) \subseteq All(dlr_list, InFresh)
        /\ Pushing' \subseteq Pushing /\ Pushing \subseteq Pushing' \union {r.sm}
        /\ All(dlr_list, InEntry) \subseteq All(dlr_list', InEntry) \union {r.sm}
        /\ Once(dlr_list', InEntry)
    <3>0. DsTypeOK /\ dlr_list \in Seq(DlrEntry) /\ Once(dlr_list, InEntry)
      BY DEF TypeInv, TypeOK, DsTypeOK, Places, NoneTwice
    <3>1. CASE UNCHANGED dlr_list
      BY <3>0, <3>1 DEF Pushing
    <3>2. ASSUME NEW k \in 1..Len(dlr_list), dlr_list[k].sm = r.sm,
                 dlr_list' = SubSeq(dlr_list, 1, k - 1)
                               \o SubSeq(dlr_list, k + 1, Len(dlr_list))
          PROVE  /\ All(dlr_list', InFresh) \subseteq All(dlr_list, InFresh)
                 /\ Pushing' \subseteq Pushing /\ Pushing \subseteq Pushing' \union {r.sm}
                 /\ All(dlr_list, InEntry) \subseteq All(dlr_list', InEntry) \union {r.sm}
                 /\ Once(dlr_list', InEntry)
      <4>1. PICK u : u = SubSeq(dlr_list, 1, k - 1)
                            \o SubSeq(dlr_list, k + 1, Len(dlr_list))
        OBVIOUS
      <4>2. /\ u \in Seq(DlrEntry) /\ Len(u) = Len(dlr_list) - 1
            /\ \A i \in 1..(Len(dlr_list) - 1) :
                 u[i] = IF i < k THEN dlr_list[i] ELSE dlr_list[i + 1]
        BY <3>0, <4>1, WithoutFacts
      <4>3. dlr_list' = u
        BY <3>2, <4>1
      <4>4. /\ \A f : /\ All(u, f) \subseteq All(dlr_list, f)
                      /\ All(dlr_list, f) \subseteq All(u, f) \union f[dlr_list[k]]
            /\ Once(u, InEntry)
        BY <3>0, <4>2, CarryWithout
      <4>5. dlr_list[k] \in DlrEntry
        BY <3>0
      <4>6. InEntry[dlr_list[k]] = {r.sm} /\ InPushing[dlr_list[k]] \subseteq {r.sm}
        BY <3>2, <4>5 DEF InEntry, InPushing
      <4>. QED
        BY <4>3, <4>4, <4>6 DEF Pushing
    <3>. QED
      BY <2>1, <3>0, <3>1, <3>2, RemoveDlrFacts
  <2>4. \A k \in Kinds : \A z \in OwnersOf(k) : In(k, z)' \subseteq In(k, z)
    BY <1>2, <1>3, <1>4, <2>1, <2>3, SameSpot, SpotIs DEF ListKinds, OwnersOf, ConnKinds, SysIdKinds
  <2>5. Passes("arriving", NoConn, "arriving", NoConn, {})
    BY <2>4, KindFacts DEF Passes
  <2>6. \A s \in SysId : In("queued", s)' \subseteq Pushing'
    <3>1. TAKE s \in SysId
    <3>2. In("queued", s)' = In("queued", s) /\ In("queued", s) \subseteq Pushing
      BY <1>0, SameSpot, SpotIs DEF Places, PushingApart
    <3>3. PICK d \in Conn : r.sm \in In("written", d)
      BY <2>2, SpotIs DEF Reported
    <3>4. r.sm \notin In("queued", s)
      BY <3>3, KindFacts DEF Places, OneSpot
    <3>. QED
      BY <2>3, <3>2, <3>4
  <2>7. OneSpot' /\ PushingApart'
    BY <2>3, <2>5, <2>6, KindFacts, PassOneSpot, PassPushingApart DEF Places
  <2>8. NoneTwice'
    BY <1>0, <2>1, <2>3, NoneTwiceAfter DEF Places, inVars
  <2>9. AckedKept'
    <3>1. InStore(t) = {}
      BY <2>1 DEF InStore
    <3>2. {InStore(u)' : u \in Thread} = {InStore(u) : u \in Thread}
      BY <1>3, <1>4, <2>1, <3>1
    <3>3. Kept \subseteq Kept' \union {r.sm}
      BY <2>1, <2>3, <3>2 DEF Kept
    <3>4. Reported' = Reported
      BY <1>0 DEF Reported
    <3>5. \A m : Acked(m)' <=> Acked(m)
      BY <1>0, <2>1, SameAcked
    <3>. QED
      BY <1>1, <2>2, <3>3, <3>4, <3>5, AckedAfter DEF Places
  <2>. QED
    BY <1>4, <2>1, <2>7, <2>8, <2>9 DEF Places, OneInHand
<1>9. CASE Binds(t) \/ Refuses(t)
  BY <1>5, <1>9 DEF Binds, Refuses
<1>. QED
  BY <1>6, <1>7, <1>8, <1>9, ProcessFacts

\* A message is submitted once, so at first it is in one place.
LEMMA InitPlaces == Init => Places
<1>. SUFFICES ASSUME Init PROVE Places
  OBVIOUS
<1>0. /\ todo = Script /\ arriving = << >> /\ DsInit
      /\ \A c \in Conn : private_in[c] = << >> /\ written[c] = << >>
      /\ \A s \in SysId : in_queue[s] = << >> /\ out_A[s] = << >> /\ out_B[s] = << >>
      /\ \A t \in Thread : ~HasRequest(t) /\ tpc[t] # "store"
  BY DEF Init, HasRequest
<1>1. \A k \in Kinds \ {"todo"} : \A x \in OwnersOf(k) : In(k, x) = {}
  BY <1>0, CarryEmpty, SpotIs
     DEF Kinds, ConnKinds, SysIdKinds, ListKinds, OwnersOf, OnArrival, InHand, DsInit
<1>2. ASSUME NEW c \in Conn, NEW d \in Conn, NEW i \in DOMAIN Script[c],
             NEW j \in DOMAIN Script[d], NEW m,
             m \in InRequest[Script[c][i]], m \in InRequest[Script[d][j]]
      PROVE  c = d /\ i = j
  <2>1. Script[c] \in Seq(Request) /\ Script[d] \in Seq(Request)
    BY ScriptAssumption
  <2>2. Script[c][i] \in Request /\ Script[d][j] \in Request
    BY <2>1
  <2>3. /\ Script[c][i].type = "SubmitSm" /\ m = Script[c][i].sm
        /\ Script[d][j].type = "SubmitSm" /\ m = Script[d][j].sm
    BY <1>2, <2>2, CarryFacts
  <2>. QED
    BY <2>3, SubmissionsAssumption
<1>3. OneSpot
  <2>1. ASSUME NEW c \in Conn, NEW d \in Conn, In("todo", c) \intersect In("todo", d) # {}
        PROVE  c = d
    <3>1. PICK m : m \in All(Script[c], InRequest) /\ m \in All(Script[d], InRequest)
      BY <1>0, <2>1, SpotIs
    <3>. QED
      BY <1>2, <3>1 DEF All
  <2>2. "todo" \in Kinds /\ OwnersOf("todo") = Conn
    BY DEF Kinds, ConnKinds, OwnersOf
  <2>. QED
    BY <1>1, <2>1, <2>2 DEF OneSpot
<1>4. NoneTwice
  <2>1. ASSUME NEW c \in Conn, NEW i \in DOMAIN Script[c], NEW j \in DOMAIN Script[c],
               InRequest[Script[c][i]] \intersect InRequest[Script[c][j]] # {}
        PROVE  i = j
    <3>1. PICK m : m \in InRequest[Script[c][i]] /\ m \in InRequest[Script[c][j]]
      BY <2>1
    <3>. QED
      BY <1>2, <3>1
  <2>2. \A c \in Conn : Once(todo[c], InRequest)
    BY <1>0, <2>1 DEF Once
  <2>. QED
    BY <1>0, <2>2, CarryEmpty DEF NoneTwice, DsInit
<1>5. PushingApart
  <2>1. Pushing = {}
    BY <1>0, CarryEmpty DEF Pushing, DsInit
  <2>. QED
    BY <1>0, <2>1, CarryEmpty DEF PushingApart
<1>6. AnswersReported
  BY <1>0, CarryEmpty DEF AnswersReported
<1>7. AckedKept
  BY <1>0 DEF AckedKept, Acked, Has
<1>8. OneInHand
  BY <1>0 DEF OneInHand, DsInit
<1>. QED
  BY <1>3, <1>4, <1>5, <1>6, <1>7, <1>8 DEF Places

LEMMA PlacesStep ==
  ASSUME TypeInv, Owners, Places, [Next]_vars
  PROVE  Places'
<1>1. CASE UNCHANGED vars
  BY <1>1, StaysPut DEF vars, connVars, outVars, SameHand
<1>2. ASSUME NEW t \in Thread, TaskThread(t) PROVE Places'
  BY <1>2, LookersPlaces, SendingPlaces, ReceivePlaces, ProcessPlaces, LeavingPlaces
     DEF TaskThread
<1>. QED
  BY <1>1, <1>2, IoThreadPlaces, VendorPlaces DEF Next

LEMMA ServerInvHolds == Spec => []ServerInv
<1>1. Init => ServerInv
  BY InitTypeInv, InitOwners, InitPlaces DEF ServerInv
<1>2. ServerInv /\ [Next]_vars => ServerInv'
  BY TypeInvStep, OwnersStep, PlacesStep DEF ServerInv
<1>. QED
  BY <1>1, <1>2, PTL DEF Spec

-----------------------------------------------------------------------------
(* What the places say of the properties                                   *)

LEMMA HoldsFacts ==
  /\ \A q \in Seq(Smi) : \A m : Holds(q, m) <=> m \in All(q, InSmi)
  /\ \A q \in Seq(DlrEntry) : \A m : Holds(q, m) <=> m \in All(q, InEntry)
  /\ \A q \in Seq(Out) : \A m : Has(q, "Dlr", m) <=> m \in All(q, InOut)
<1>1. ASSUME NEW q \in Seq(Smi), NEW m PROVE Holds(q, m) <=> m \in All(q, InSmi)
  <2>1. \A i \in DOMAIN q : InSmi[q[i]] = {q[i].sm}
    BY CarryFacts
  <2>. QED
    BY <2>1 DEF Holds, All
<1>2. ASSUME NEW q \in Seq(DlrEntry), NEW m PROVE Holds(q, m) <=> m \in All(q, InEntry)
  <2>1. \A i \in DOMAIN q : InEntry[q[i]] = {q[i].sm}
    BY CarryFacts
  <2>. QED
    BY <2>1 DEF Holds, All
<1>3. ASSUME NEW q \in Seq(Out), NEW m PROVE Has(q, "Dlr", m) <=> m \in All(q, InOut)
  <2>1. \A i \in DOMAIN q : q[i] \in Out
    OBVIOUS
  <2>2. \A i \in DOMAIN q : m \in InOut[q[i]] <=> q[i].type = "Dlr" /\ q[i].sm = m
    BY <2>1, CarryFacts
  <2>. QED
    BY <2>2 DEF Has, All
<1>. QED
  BY <1>1, <1>2, <1>3

\* A message on the list of the reports is there as its report's state says.
LEMMA EntryFacts ==
  ASSUME TypeInv
  PROVE  All(dlr_list, InEntry) \subseteq In("fresh", NoConn) \union Pushing
<1>1. \A d \in DlrEntry : InEntry[d] \subseteq InFresh[d] \union InPushing[d]
  BY DEF InEntry, InFresh, InPushing, DlrEntry, DlrState
<1>2. \A i \in DOMAIN dlr_list : dlr_list[i] \in DlrEntry
  BY DEF TypeInv, TypeOK, DsTypeOK
<1>. QED
  BY <1>1, <1>2, SpotIs DEF All, Pushing

LEMMA AtMostOne ==
  ASSUME NEW S, \A a, b \in S : a = b
  PROVE  Cardinality(S) <= 1
<1>1. CASE S = {}
  BY <1>1, FS_EmptySet
<1>2. ASSUME NEW a \in S PROVE Cardinality(S) <= 1
  <2>1. S = {a}
    OBVIOUS
  <2>. QED
    BY <2>1, FS_Singleton
<1>. QED
  BY <1>1, <1>2

\* A keeper of a message is a place, or the list with its report.
LEMMA KeeperFacts ==
  ASSUME TypeInv, NEW m, NEW k \in Keepers(m)
  PROVE  \/ k \in Thread /\ m \in In("hand", k)
         \/ k \in {"received", "sending", "waiting", "reporting"} /\ m \in In(k, NoConn)
         \/ k = "dlr" /\ m \in In("fresh", NoConn) \union Pushing
<1>1. /\ received_smis \in Seq(Smi) /\ sending \in Seq(Smi) /\ wait_dlr_list \in Seq(Smi)
      /\ reporting \in Seq(Smi) /\ dlr_list \in Seq(DlrEntry)
  BY DEF TypeInv, TypeOK, DsTypeOK
<1>2. ASSUME k \in Thread, tpc[k] = "store", req[k].sm = m
      PROVE  m \in In("hand", k)
  <2>1. req[k].type = "SubmitSm" /\ HasRequest(k)
    BY <1>2 DEF TypeInv, StillAble, HasRequest
  <2>2. req[k] \in Request
    BY <1>2 DEF TypeInv, TypeOK, ThreadTypeOK
  <2>. QED
    BY <1>2, <2>1, <2>2, SpotIs, CarryFacts DEF InHand
<1>3. CASE k = "received" /\ Holds(received_smis, m)
  BY <1>1, <1>3, HoldsFacts, SpotIs
<1>4. CASE k = "sending" /\ Holds(sending, m)
  BY <1>1, <1>4, HoldsFacts, SpotIs
<1>5. CASE k = "waiting" /\ Holds(wait_dlr_list, m)
  BY <1>1, <1>5, HoldsFacts, SpotIs
<1>6. CASE k = "reporting" /\ Holds(reporting, m)
  BY <1>1, <1>6, HoldsFacts, SpotIs
<1>7. CASE k = "dlr" /\ Holds(dlr_list, m)
  BY <1>1, <1>7, HoldsFacts, EntryFacts
<1>. QED
  BY <1>2, <1>3, <1>4, <1>5, <1>6, <1>7 DEF Keepers

LEMMA KeptIsKept ==
  ASSUME TypeInv, Places
  PROVE  AcceptedKept
<1>1. ASSUME NEW m, NEW a \in Keepers(m), NEW b \in Keepers(m)
      PROVE  a = b
  <2>1. \A k \in Kinds \ {"queued", "written"} : \A x \in OwnersOf(k) :
          m \in In(k, x) => m \notin Pushing
    BY DEF Places, PushingApart
  <2>2. \A k, l \in Kinds : \A x \in OwnersOf(k), y \in OwnersOf(l) :
          m \in In(k, x) /\ m \in In(l, y) => k = l /\ x = y
    BY DEF Places, OneSpot
  <2>. DEFINE Spot(k) ==
         \/ k \in Thread /\ m \in In("hand", k)
         \/ k \in {"received", "sending", "waiting", "reporting"} /\ m \in In(k, NoConn)
         \/ k = "dlr" /\ m \in In("fresh", NoConn) \union Pushing
  <2>3. Spot(a) /\ Spot(b)
    BY KeeperFacts
  <2>4. ASSUME NEW k \in {"hand", "received", "sending", "waiting", "reporting", "fresh"},
               NEW x \in OwnersOf(k), m \in In(k, x)
        PROVE  /\ m \notin Pushing
               /\ \A l \in {"hand", "received", "sending", "waiting", "reporting", "fresh"} :
                    \A y \in OwnersOf(l) : m \in In(l, y) => k = l /\ x = y
    BY <2>1, <2>2, <2>4, KindFacts
  <2>. QED
    BY <2>3, <2>4, KindFacts
<1>2. ASSUME NEW m \in Sm, Acked(m), Keepers(m) = {}
      PROVE  m \in NoDst \/ Pushed(m)
  <2>1. /\ received_smis \in Seq(Smi) /\ sending \in Seq(Smi) /\ wait_dlr_list \in Seq(Smi)
        /\ reporting \in Seq(Smi) /\ dlr_list \in Seq(DlrEntry)
        /\ \A c \in Conn : written[c] \in Seq(Out)
    BY DEF TypeInv, TypeOK, DsTypeOK, QueueTypeOK
  <2>2. m \notin Kept
    <3>1. \A t \in Thread : m \notin InStore(t)
      <4>1. ASSUME NEW t \in Thread, tpc[t] = "store" PROVE req[t] \in Request
        BY <4>1 DEF TypeInv, TypeOK, ThreadTypeOK
      <4>2. \A t \in Thread : ~(tpc[t] = "store" /\ req[t].sm = m)
        BY <1>2 DEF Keepers
      <4>. QED
        BY <4>1, <4>2, CarryFacts DEF InStore
    <3>2. /\ ~Holds(received_smis, m) /\ ~Holds(sending, m) /\ ~Holds(wait_dlr_list, m)
          /\ ~Holds(reporting, m) /\ ~Holds(dlr_list, m)
      BY <1>2 DEF Keepers
    <3>. QED
      BY <2>1, <3>1, <3>2, HoldsFacts DEF Kept
  <2>3. m \in Reported \union NoDst
    BY <1>2, <2>2 DEF Places, AckedKept
  <2>. QED
    BY <2>1, <2>3, HoldsFacts DEF Reported, Pushed
<1>. QED
  BY <1>1, <1>2, AtMostOne DEF AcceptedKept

LEMMA ReportedOnce ==
  ASSUME TypeInv, Places
  PROVE  DlrOnce
<1>1. /\ \A s \in SysId : out_B[s] \in Seq(Out)
      /\ \A c \in Conn : written[c] \in Seq(Out)
      /\ dlr_list \in Seq(DlrEntry)
  BY DEF TypeInv, TypeOK, DsTypeOK, QueueTypeOK
<1>2. ASSUME NEW q \in Seq(Out), Once(q, InOut), NEW m PROVE Occurrences(q, "Dlr", m) <= 1
  <2>. DEFINE Those == {i \in DOMAIN q : q[i].type = "Dlr" /\ q[i].sm = m}
  <2>1. \A i \in Those : m \in InOut[q[i]]
    BY CarryFacts
  <2>2. \A i, j \in Those : i = j
    BY <1>2, <2>1 DEF Once
  <2>. HIDE DEF Those
  <2>3. Cardinality(Those) <= 1
    BY <2>2, AtMostOne
  <2>. QED
    BY <2>3 DEF Those, Occurrences
<1>3. /\ \A s \in SysId : Once(out_B[s], InOut)
      /\ \A c \in Conn : Once(written[c], InOut)
  BY DEF Places, NoneTwice
<1>4. ASSUME NEW m
      PROVE  Cardinality({s \in SysId : Has(out_B[s], "Dlr", m)}
                           \union {c \in Conn : Has(written[c], "Dlr", m)}) <= 1
  <2>1. /\ \A s \in SysId : Has(out_B[s], "Dlr", m) => m \in In("queued", s)
        /\ \A c \in Conn : Has(written[c], "Dlr", m) => m \in In("written", c)
    BY <1>1, HoldsFacts, SpotIs
  <2>2. /\ \A s, u \in SysId : m \in In("queued", s) /\ m \in In("queued", u) => s = u
        /\ \A c, d \in Conn : m \in In("written", c) /\ m \in In("written", d) => c = d
        /\ \A s \in SysId, c \in Conn : ~(m \in In("queued", s) /\ m \in In("written", c))
    BY KindFacts DEF Places, OneSpot
  <2>. QED
    BY <2>1, <2>2, AtMostOne
<1>5. ASSUME NEW i \in DOMAIN dlr_list, dlr_list[i].state = "DELIVERIED",
             Pushed(dlr_list[i].sm)
      PROVE  FALSE
  <2>. PICK m : m = dlr_list[i].sm
    OBVIOUS
  <2>1. m \in In("fresh", NoConn)
    <3>1. dlr_list[i] \in DlrEntry
      BY <1>1
    <3>2. m \in InFresh[dlr_list[i]]
      BY <1>5, <3>1 DEF InFresh
    <3>. QED
      BY <3>2, SpotIs DEF All
  <2>2. \/ \E s \in SysId : m \in In("queued", s)
        \/ \E c \in Conn : m \in In("written", c)
    BY <1>1, <1>5, HoldsFacts, SpotIs DEF Pushed
  <2>. QED
    BY <2>1, <2>2, KindFacts DEF Places, OneSpot
<1>. QED
  BY <1>1, <1>2, <1>3, <1>4, <1>5 DEF DlrOnce

(***************************************************************************)
(* An accepted message is never in two of the server's lists or hands, and *)
(* once its ack is on its way it is in one of them, until its report has   *)
(* been written or it was dropped for want of a destination: no thread     *)
(* loses or doubles a message while it hands it on without a lock.         *)
(***************************************************************************)
THEOREM AcceptedKeptHolds == Spec => []AcceptedKept
<1>1. ServerInv => AcceptedKept
  BY KeptIsKept DEF ServerInv
<1>. QED
  BY <1>1, ServerInvHolds, PTL

(***************************************************************************)
(* However many threads look for reports at once, for connections that     *)
(* they have and for those they only look at, a report is queued or        *)
(* written once, by one session, and never before it was marked.           *)
(***************************************************************************)
THEOREM DlrOnceHolds == Spec => []DlrOnce
<1>1. ServerInv => DlrOnce
  BY ReportedOnce DEF ServerInv
<1>. QED
  BY <1>1, ServerInvHolds, PTL

-----------------------------------------------------------------------------
(***************************************************************************)
(* The session of a client that submits alone.  What it is sent consists   *)
(* of its own answers, in their order, and of acks and reports from the    *)
(* queues of its system id.                                                *)
(***************************************************************************)

\* A socket is open exactly while its connection is in the table, and a
\* connection that a thread has was accepted.
Connected ==
  \A c \in Conn : /\ c \in connections <=> sock[c] = "open"
                  /\ working[c] => sock[c] # "none"

\* What the session has written or is going to write of its own accord.
Said(c) == written[c] \o private_out[c]

Confirms(p) == p.type = "BindResp" /\ p.ok

\* Of what a session in the state st says, an unbind response comes last, and a
\* response that confirms the bind before it.
Follows(q, st) ==
  /\ st # "OPEN" => \E i \in DOMAIN q : Confirms(q[i])
  /\ \A j \in DOMAIN q : q[j].type = "UnbindResp" =>
       st = "CLOSED" /\ \E i \in DOMAIN q : i < j /\ Confirms(q[i])

Protocol ==
  /\ \A c \in Conn : sock[c] # "closed" => Follows(Said(c), state[c])
  /\ \A t \in Thread : tpc[t] \in QueueBPcs => private_out[at[t]] = << >>

\* Whether a session is bound is no matter for the queues that it shares.
SharedOut == {p \in Out : p.type \notin {"BindResp", "UnbindResp"}}
Shared == \A s \in SysId : out_A[s] \in Seq(SharedOut)

\* A system id comes from a bind that the client of the session itself sent.
BindsTo(c) == {r.sysid : r \in {x \in RequestsOf(c) : x.type = "Bind" /\ x.ok}}

OwnBinds ==
  /\ \A c \in Conn : flag[c] # NoSysId => flag[c] \in BindsTo(c)
  /\ \A t \in Thread :
       tpc[t] = "process" /\ flag[at[t]] = NoSysId => req[t] \in RequestsOf(at[t])

InAck == [p \in Out |-> IF p.type = "SubmitSmResp" THEN {p.sm} ELSE {}]
AcksIn(s) == All(out_A[s], InAck)
AckedTo(c) == All(written[c], InAck)

\* Messages that were submitted and not processed yet.
InProcess(t) == IF tpc[t] = "process" THEN InRequest[req[t]] ELSE {}
Asked ==
  (UNION {All(todo[c], InRequest) : c \in Conn}) \union OnArrival
    \union (UNION {All(private_in[c], InItem) : c \in Conn})
    \union (UNION {All(in_queue[s], InItem) : s \in SysId})
    \union (UNION {InProcess(t) : t \in Thread})

\* A message is acked after it was processed, and once, to one client.
AckedOnce ==
  /\ \A s \in SysId : /\ Once(out_A[s], InAck) /\ AcksIn(s) \intersect Asked = {}
                      /\ \A z \in SysId \ {s} : AcksIn(s) \intersect AcksIn(z) = {}
  /\ \A c \in Conn : /\ Once(written[c], InAck) /\ AckedTo(c) \intersect Asked = {}
                     /\ \A s \in SysId : AckedTo(c) \intersect AcksIn(s) = {}
                     /\ \A d \in Conn \ {c} : AckedTo(c) \intersect AckedTo(d) = {}

\* Only one client submits, and nobody else binds under its system id.
LoneSession ==
  /\ \E c \in Conn : \E m \in Sm : Submits(c, m)
  /\ \A c \in Conn \ {Lone} :
       (\A m \in Sm : ~Submits(c, m)) /\ BindsTo(c) \intersect BindsTo(Lone) = {}

\* An ack is written or queued before anything else becomes of its message.
AckFirst ==
  /\ sock[Lone] # "closed" =>
       Kept \subseteq AckedTo(Lone) \union UNION {AcksIn(s) : s \in SysId}
  /\ state[Lone] \in {"OPEN", "BOUND_RX"} => \A s \in SysId : AcksIn(s) = {}
  /\ \A t \in Thread : tpc[t] \in QueueBPcs /\ at[t] = Lone =>
       \A s \in SysId : AcksIn(s) = {}

-----------------------------------------------------------------------------
(* What a session says                                                     *)

LEMMA SaidFacts ==
  ASSUME NEW w \in Seq(Out), NEW q \in Seq(Out)
  PROVE  /\ w \o q \in Seq(Out) /\ w \o << >> = w
         /\ \A p \in Out : w \o Append(q, p) = Append(w \o q, p)
         /\ q # << >> => Append(w, Head(q)) \o Tail(q) = w \o q
<1>1. w \o q \in Seq(Out) /\ w \o << >> = w
  BY ConcatProperties, ConcatEmptySeq
<1>2. ASSUME NEW p \in Out PROVE w \o Append(q, p) = Append(w \o q, p)
  <2>1. <<p>> \in Seq(Out)
    OBVIOUS
  <2>2. w \o (q \o <<p>>) = (w \o q) \o <<p>>
    BY <2>1, ConcatAssociative
  <2>. QED
    BY <1>1, <2>2, AppendIsConcat
<1>3. ASSUME q # << >> PROVE Append(w, Head(q)) \o Tail(q) = w \o q
  <2>1. PICK h \in Out, r \in Seq(Out) : h = Head(q) /\ r = Tail(q)
    BY <1>3, HeadTailProperties
  <2>2. <<h>> \in Seq(Out) /\ q = <<h>> \o r
    <3>1. <<h>> \in Seq(Out) /\ <<h>>[1] = h /\ Len(<<h>>) = 1
      OBVIOUS
    <3>2. Len(q) \in Nat \ {0} /\ Len(r) = Len(q) - 1 /\ \A i \in 1 .. Len(r) : r[i] = q[i + 1]
      BY <1>3, <2>1, HeadTailProperties, EmptySeq, LenProperties
    <3>3. /\ <<h>> \o r \in Seq(Out) /\ Len(<<h>> \o r) = Len(q)
          /\ \A i \in 1 .. Len(q) : (<<h>> \o r)[i] = IF i <= 1 THEN <<h>>[i] ELSE r[i - 1]
      BY <3>1, <3>2, ConcatProperties
    <3>4. \A i \in 1 .. Len(q) : (<<h>> \o r)[i] = q[i]
      BY <2>1, <3>1, <3>2, <3>3
    <3>. QED
      BY <3>1, <3>3, <3>4, SeqEqual
  <2>3. (w \o <<h>>) \o r = w \o (<<h>> \o r)
    BY <2>2, ConcatAssociative
  <2>. QED
    BY <2>1, <2>2, <2>3, AppendIsConcat
<1>. QED
  BY <1>1, <1>2, <1>3

\* What a session may say next, and the state it is in then.
MaySay(st, p, now) ==
  \/ p.type # "UnbindResp" /\ now = st
  \/ Confirms(p) /\ st = "OPEN"
  \/ p.type = "UnbindResp" /\ st # "OPEN" /\ now = "CLOSED"

LEMMA FollowsAppend ==
  ASSUME NEW q \in Seq(Out), NEW p \in Out, NEW st, NEW now, Follows(q, st), MaySay(st, p, now)
  PROVE  Follows(Append(q, p), now)
<1>. PICK r : r = Append(q, p)
  OBVIOUS
<1>1. /\ DOMAIN q = 1..Len(q) /\ DOMAIN r = 1..(Len(q) + 1) /\ Len(q) \in Nat
      /\ \A i \in 1..Len(q) : r[i] = q[i]
      /\ r[Len(q) + 1] = p
  BY LenProperties, AppendProperties
<1>2. now # "OPEN" => \E i \in DOMAIN r : Confirms(r[i])
  <2>1. CASE st # "OPEN"
    <3>1. PICK i \in DOMAIN q : Confirms(q[i])
      BY <2>1 DEF Follows
    <3>. QED
      BY <1>1, <3>1
  <2>2. CASE Confirms(p)
    <3>1. Len(q) + 1 \in DOMAIN r
      BY <1>1
    <3>. QED
      BY <1>1, <2>2, <3>1
  <2>. QED
    BY <2>1, <2>2 DEF MaySay
<1>3. ASSUME NEW j \in DOMAIN r, r[j].type = "UnbindResp"
      PROVE  now = "CLOSED" /\ \E i \in DOMAIN r : i < j /\ Confirms(r[i])
  <2>1. CASE j \in DOMAIN q
    <3>1. q[j].type = "UnbindResp"
      BY <1>1, <1>3, <2>1
    <3>2. st = "CLOSED" /\ \E i \in DOMAIN q : i < j /\ Confirms(q[i])
      BY <2>1, <3>1 DEF Follows
    <3>3. now = "CLOSED"
      BY <3>2 DEF MaySay
    <3>. QED
      BY <1>1, <3>2, <3>3
  <2>2. CASE j \notin DOMAIN q
    <3>1. j = Len(q) + 1 /\ p.type = "UnbindResp"
      BY <1>1, <1>3, <2>2
    <3>2. st # "OPEN" /\ now = "CLOSED"
      BY <3>1 DEF MaySay, Confirms
    <3>3. PICK i \in DOMAIN q : Confirms(q[i])
      BY <3>2 DEF Follows
    <3>. QED
      BY <1>1, <3>1, <3>2, <3>3
  <2>. QED
    BY <2>1, <2>2
<1>. QED
  BY <1>2, <1>3 DEF Follows

-----------------------------------------------------------------------------
(* The phases of a session                                                 *)

LEMMA ConnectedStep ==
  ASSUME TypeInv, Connected, [Next]_vars
  PROVE  Connected'
<1>. USE DEF Connected
<1>0. /\ sock \in [Conn -> Socks] /\ connections \subseteq Conn
      /\ working \in [Conn -> BOOLEAN]
  BY DEF TypeInv, TypeOK, ConnTypeOK
<1>1. CASE UNCHANGED <<sock, connections, working>>
  BY <1>1
<1>2. ASSUME NEW c \in Conn, Accept(c) PROVE Connected'
  <2>1. sock[c] = "none" /\ UNCHANGED working
    BY <1>2 DEF Accept
  <2>2. CASE sock' = [sock EXCEPT ![c] = "closed"] /\ UNCHANGED connections
    BY <1>0, <2>1, <2>2
  <2>3. CASE /\ sock' = [sock EXCEPT ![c] = "open"]
             /\ connections' = connections \union {c}
    BY <1>0, <2>1, <2>3
  <2>. QED
    BY <1>2, <2>2, <2>3 DEF Accept
<1>3. ASSUME NEW c \in Conn, RemoveConnection(c), UNCHANGED working PROVE Connected'
  BY <1>0, <1>3 DEF RemoveConnection
<1>4. ASSUME NEW t \in Thread, NEW c \in Conn, Examine(t, c) PROVE Connected'
  BY <1>0, <1>4 DEF Examine, SetWorking, connVars
<1>5. ASSUME NEW t \in Thread, Free(t) PROVE Connected'
  BY <1>0, <1>5 DEF Free, connVars
<1>6. ASSUME NEW t \in Thread, Check(t) PROVE Connected'
  <2>1. at[t] \in Conn
    BY <1>6, HasConn DEF Check, ThreadAt, TypeInv, TypeOK
  <2>. QED
    BY <1>1, <1>3, <1>6, <2>1 DEF Check
<1>7. ASSUME NEW t \in Thread, NeedSend(t) \/ Receive(t) PROVE Connected'
  BY <1>1, <1>7 DEF NeedSend, Receive, connVars
<1>8. ASSUME NEW t \in Thread, Send(t) \/ SendB(t) PROVE Connected'
  BY <1>1, <1>8, SendFacts DEF connVars
<1>9. ASSUME NEW t \in Thread, Process(t) PROVE Connected'
  <2>1. UNCHANGED <<connVars, working>>
    BY <1>9 DEF Process, ProcessBadSequence, ProcessInvalid, ProcessBind, ProcessSubmitSm,
       Store, ProcessUnbind, ProcessEnquireLink, ProcessQuerySm, ProcessDeliverSmResp,
       ProcessMalformedResp, processUnchanged
  <2>. QED
    BY <1>1, <2>1 DEF connVars
<1>10. CASE Arrive
  BY <1>1, <1>10 DEF Arrive
<1>11. ASSUME NEW c \in Conn, Read(c) \/ Elapse(c) PROVE Connected'
  BY <1>1, <1>11 DEF Read, Elapse, connVars
<1>12. ASSUME NEW c \in Conn, PeerClosed(c) PROVE Connected'
  BY <1>3, <1>12 DEF PeerClosed
<1>13. ASSUME Vendor(Sender) \/ Vendor(Reporter) PROVE Connected'
  BY <1>1, <1>13 DEF Vendor, connVars
<1>14. CASE UNCHANGED vars
  BY <1>1, <1>14 DEF vars, connVars
<1>. QED
  BY <1>2, <1>4, <1>5, <1>6, <1>7, <1>8, <1>9, <1>10, <1>11, <1>12, <1>13, <1>14
     DEF Next, IoThread, TaskThread

\* do_send() in more detail: what was found empty before it looks at queue B.
LEMMA SendKinds ==
  ASSUME TypeInv, NEW t \in Thread, Send(t) \/ SendB(t),
         tpc[t] \in QueueBPcs => private_out[at[t]] = << >>,
         NEW c, c = at[t]
  PROVE  \/ SendsOwn(c) /\ tpc'[t] \notin QueueBPcs
         \/ SendsA(c) /\ private_out[c] = << >> /\ TxAble(state[c]) /\ tpc'[t] \notin QueueBPcs
         \/ /\ SendsB(c) /\ private_out[c] = << >> /\ RxAble(state[c])
            /\ tpc[t] \in QueueBPcs /\ tpc'[t] \notin QueueBPcs
         \/ /\ UNCHANGED <<private_out, out_A, out_B, written>>
            /\ tpc'[t] \in QueueBPcs =>
                 /\ private_out[c] = << >> /\ RxAble(state[c])
                 /\ TxAble(state[c]) => out_A[flag[c]] = << >>
<1>0. tpc \in [Thread -> ThreadPcs] /\ at[t] \in Conn
  BY SendFacts DEF TypeInv, TypeOK, ThreadTypeOK
<1>1. CASE Send(t)
  <2>. DEFINE A == IF TxAble(state[c]) THEN out_A[flag[c]] ELSE << >>
  <2>1. tpc[t] \in Drains /\ UNCHANGED out_B
    BY <1>1 DEF Send
  <2>2. tpc[t] \notin QueueBPcs
    BY <2>1 DEF Drains, QueueBPcs
  <2>3. CASE /\ private_out[c] # << >>
             /\ Write(c, Head(private_out[c]))
             /\ private_out' = [private_out EXCEPT ![c] = Tail(@)]
             /\ UNCHANGED <<out_A, tpc>>
    BY <2>1, <2>2, <2>3 DEF SendsOwn
  <2>4. CASE /\ private_out[c] = << >> /\ A # << >>
             /\ Write(c, Head(A))
             /\ out_A' = [out_A EXCEPT ![flag[c]] = Tail(A)]
             /\ UNCHANGED <<private_out, tpc>>
    <3>1. TxAble(state[c]) /\ A = out_A[flag[c]]
      BY <2>4
    <3>2. flag[c] \in SysId
      BY <1>0, <3>1, StateFacts, BoundHasSysId DEF TypeInv, TypeOK
    <3>. QED
      BY <2>1, <2>2, <2>4, <3>1, <3>2 DEF SendsA
  <2>5. CASE /\ private_out[c] = << >> /\ A = << >>
             /\ tpc' = [tpc EXCEPT ![t] = IF RxAble(state[c]) THEN DrainB[@] ELSE AfterDrain[@]]
             /\ UNCHANGED <<private_out, out_A, written>>
    <3>1. AfterDrain[tpc[t]] \notin QueueBPcs
      BY <2>1 DEF Drains, AfterDrain, QueueBPcs
    <3>2. tpc'[t] \in QueueBPcs => RxAble(state[c])
      BY <1>0, <2>5, <3>1
    <3>. QED
      BY <2>1, <2>5, <3>2
  <2>. QED
    BY <1>1, <2>3, <2>4, <2>5 DEF Send
<1>2. CASE SendB(t)
  <2>1. PICK d \in Drains : tpc[t] = DrainB[d] /\ SendB(t)
    BY <1>2 DEF SendB
  <2>2. tpc[t] \in QueueBPcs
    BY <2>1 DEF Drains, DrainB, QueueBPcs
  <2>3. RxAble(state[c]) /\ flag[c] \in SysId
    BY <1>0, <2>2, StateFacts, BoundHasSysId DEF TypeInv, TypeOK, StillAble
  <2>4. tpc'[t] \notin QueueBPcs
    <3>1. PICK e \in Drains : tpc'[t] \in {e, AfterDrain[e]}
      BY <1>0, <1>2 DEF SendB, ThreadAt
    <3>. QED
      BY <3>1 DEF Drains, AfterDrain, QueueBPcs
  <2>5. SendsB(c) \/ UNCHANGED <<private_out, out_A, out_B, written>>
    BY <1>2, <2>3 DEF SendB, SendsB
  <2>. QED
    BY <2>2, <2>3, <2>4, <2>5
<1>. QED
  BY <1>1, <1>2

\* process() in more detail: what the session says and how its state changes.
LEMMA ProcessSays ==
  ASSUME TypeInv, NEW t \in Thread, Process(t), NEW c, c = at[t]
  PROVE  /\ \A d \in Conn \ {c} : state'[d] = state[d] /\ private_out'[d] = private_out[d]
         /\ tpc'[t] \notin QueueBPcs
         /\ \/ UNCHANGED private_out /\ state'[c] = state[c]
            \/ \E p \in Out : /\ private_out'[c] = Append(private_out[c], p)
                              /\ MaySay(state[c], p, state'[c])
<1>0. /\ tpc \in [Thread -> ThreadPcs] /\ state \in [Conn -> States]
      /\ private_out \in [Conn -> Seq(Out)]
      /\ c \in Conn /\ req[t] \in Request
  BY ProcessFacts DEF TypeInv, TypeOK, ThreadTypeOK, SessionTypeOK, QueueTypeOK
<1>1. tpc'[t] \notin QueueBPcs
  BY <1>0 DEF Process, Processes, ThreadAt, ProcessBadSequence, ProcessInvalid,
     ProcessBind, ProcessSubmitSm, Store, ProcessUnbind, ProcessEnquireLink,
     ProcessQuerySm, ProcessDeliverSmResp, ProcessMalformedResp, QueueBPcs
<1>. DEFINE Goal == /\ \A d \in Conn \ {c} : state'[d] = state[d] /\ private_out'[d] = private_out[d]
                    /\ \/ UNCHANGED private_out /\ state'[c] = state[c]
                       \/ \E p \in Out : /\ private_out'[c] = Append(private_out[c], p)
                                         /\ MaySay(state[c], p, state'[c])
<1>. SUFFICES Goal
  BY <1>1
<1>2. CASE UNCHANGED <<private_out, state>>
  BY <1>2
<1>3. ASSUME NEW p \in Out, Answer(c, p), NEW now, state'[c] = now, MaySay(state[c], p, now),
             \A d \in Conn \ {c} : state'[d] = state[d]
      PROVE  Goal
  BY <1>0, <1>3 DEF Answer
<1>4. /\ \A ok \in BOOLEAN : [type |-> "BindResp", ok |-> ok] \in Out
      /\ [type |-> "UnbindResp"] \in Out /\ [type |-> "EnquireLinkResp"] \in Out
      /\ [type |-> "Nack"] \in Out
  BY OutFacts
<1>5. CASE ProcessBind(t)
  <2>1. PICK r \in Request : r = req[t] /\ r.ok \in BOOLEAN
    BY <1>0, <1>5, RequestFacts DEF ProcessBind, Processes
  <2>2. PICK p \in Out : p = [type |-> "BindResp", ok |-> r.ok]
    BY <1>4, <2>1
  <2>3. Answer(c, p) /\ state[c] = "OPEN"
    BY <1>5, <2>1, <2>2 DEF ProcessBind, Valid, IsBound, TxAble, RxAble
  <2>4. CASE r.ok
    <3>1. Confirms(p)
      BY <2>2, <2>4 DEF Confirms
    <3>2. state' = [state EXCEPT ![c] = BoundIn(r.mode)]
      BY <1>5, <2>1, <2>4 DEF ProcessBind
    <3>. QED
      BY <1>0, <1>3, <2>3, <3>1, <3>2 DEF MaySay
  <2>5. CASE ~r.ok
    <3>1. UNCHANGED state
      BY <1>5, <2>1, <2>5 DEF ProcessBind
    <3>. QED
      BY <1>3, <2>2, <2>3, <3>1 DEF MaySay
  <2>. QED
    BY <2>4, <2>5
<1>6. CASE ProcessUnbind(t)
  <2>1. /\ state' = [state EXCEPT ![c] = "CLOSED"] /\ Answer(c, [type |-> "UnbindResp"])
        /\ state[c] # "OPEN"
    BY <1>6 DEF ProcessUnbind, Valid, IsBound
  <2>. QED
    BY <1>0, <1>3, <1>4, <2>1 DEF MaySay
<1>7. CASE ProcessEnquireLink(t)
  <2>1. Answer(c, [type |-> "EnquireLinkResp"]) /\ UNCHANGED state
    BY <1>7 DEF ProcessEnquireLink, sessionVars
  <2>. QED
    BY <1>3, <1>4, <2>1 DEF MaySay
<1>8. CASE ProcessInvalid(t)
  <2>1. Nack(c) /\ UNCHANGED state
    BY <1>8 DEF ProcessInvalid
  <2>. QED
    BY <1>2, <1>3, <1>4, <2>1 DEF Nack, MaySay
<1>9. CASE \/ ProcessBadSequence(t) \/ ProcessSubmitSm(t) \/ Store(t) \/ ProcessQuerySm(t)
           \/ ProcessDeliverSmResp(t) \/ ProcessMalformedResp(t)
  BY <1>2, <1>9 DEF ProcessBadSequence, ProcessSubmitSm, Store, ProcessQuerySm,
     ProcessDeliverSmResp, ProcessMalformedResp, sessionVars
<1>. QED
  BY <1>5, <1>6, <1>7, <1>8, <1>9 DEF Process

LEMMA SharedStep ==
  ASSUME TypeInv, Shared, [Next]_vars
  PROVE  Shared'
<1>0. out_A \in [SysId -> Seq(Out)]
  BY DEF TypeInv, TypeOK, QueueTypeOK
<1>1. CASE UNCHANGED out_A
  BY <1>1 DEF Shared, SharedOut
<1>2. ASSUME NEW s \in SysId, NEW q \in Seq(SharedOut), out_A' = [out_A EXCEPT ![s] = q]
      PROVE  Shared'
  BY <1>0, <1>2 DEF Shared, SharedOut
<1>3. ASSUME NEW t \in Thread, Send(t) \/ SendB(t) PROVE Shared'
  <2>1. CASE SendsA(at[t])
    <3>1. PICK s \in SysId : s = flag[at[t]] /\ out_A[s] # << >>
                             /\ out_A' = [out_A EXCEPT ![s] = Tail(out_A[s])]
      BY <2>1 DEF SendsA
    <3>2. Tail(out_A[s]) \in Seq(SharedOut)
      BY <3>1, HeadTailProperties DEF Shared
    <3>. QED
      BY <1>2, <3>1, <3>2
  <2>2. CASE ~SendsA(at[t])
    BY <1>1, <1>3, <2>2, SendFacts DEF SendsOwn, SendsB, outVars
  <2>. QED
    BY <2>1, <2>2
<1>4. ASSUME NEW t \in Thread, Process(t) PROVE Shared'
  <2>1. ASSUME NEW p \in SharedOut, flag[at[t]] \in SysId, AnswerShared(at[t], p)
        PROVE  Shared'
    <3>1. PICK s \in SysId : s = flag[at[t]]
      BY <2>1
    <3>2. Append(out_A[s], p) \in Seq(SharedOut)
      BY AppendProperties DEF Shared
    <3>. QED
      BY <1>2, <2>1, <3>1, <3>2 DEF AnswerShared
  <2>2. CASE ProcessInvalid(t)
    <3>1. [type |-> "Nack"] \in SharedOut
      BY OutFacts DEF SharedOut
    <3>2. flag[at[t]] = NoSysId \/ flag[at[t]] \in SysId
      BY <1>4, ProcessFacts DEF TypeInv, TypeOK, SessionTypeOK
    <3>. QED
      BY <1>1, <2>1, <2>2, <3>1, <3>2 DEF ProcessInvalid, Nack
  <2>3. CASE ProcessSubmitSm(t)
    <3>1. req[t].sm \in Sm /\ flag[at[t]] \in SysId
      BY <1>4, <2>3, ProcessFacts, RequestFacts, StateFacts, BoundHasSysId
         DEF ProcessSubmitSm, Valid, TypeInv, TypeOK
    <3>2. [type |-> "SubmitSmResp", sm |-> req[t].sm] \in SharedOut
      BY <3>1 DEF SharedOut, Out
    <3>. QED
      BY <2>1, <2>3, <3>1, <3>2 DEF ProcessSubmitSm
  <2>. QED
    BY <1>1, <1>4, <2>2, <2>3 DEF Process, ProcessBadSequence, ProcessBind, Store,
       ProcessUnbind, ProcessEnquireLink, ProcessQuerySm, ProcessDeliverSmResp,
       ProcessMalformedResp
<1>5. ASSUME NEW t \in Thread, NeedSend(t) \/ Receive(t) \/ Check(t) \/ Free(t)
      PROVE  Shared'
  BY <1>1, <1>5 DEF NeedSend, Receive, Check, Free, outVars
<1>6. ASSUME NEW t \in Thread, NEW c \in Conn, Examine(t, c) PROVE Shared'
  BY <1>1, <1>6 DEF Examine
<1>7. CASE IoThread \/ \E c \in Conn : Elapse(c)
  BY <1>1, <1>7 DEF IoThread, Accept, Read, Arrive, PeerClosed, Elapse, outVars
<1>8. ASSUME Vendor(Sender) \/ Vendor(Reporter) PROVE Shared'
  BY <1>1, <1>8 DEF Vendor, outVars
<1>9. CASE UNCHANGED vars
  BY <1>1, <1>9 DEF vars, outVars
<1>. QED
  BY <1>3, <1>4, <1>5, <1>6, <1>7, <1>8, <1>9 DEF Next, TaskThread

LEMMA FollowsAfter ==
  ASSUME Protocol,
         \A c \in Conn :
           \/ sock'[c] = "closed"
           \/ /\ sock[c] # "closed" /\ state'[c] = state[c]
              /\ written'[c] = written[c] /\ private_out'[c] = private_out[c]
           \/ Follows(written'[c] \o private_out'[c], state'[c])
  PROVE  \A c \in Conn : sock'[c] # "closed" => Follows(Said(c), state[c])'
<1>1. \A c \in Conn : sock'[c] # "closed" => Follows(written'[c] \o private_out'[c], state'[c])
  BY DEF Protocol, Said
<1>. QED
  BY <1>1 DEF Said, Follows

LEMMA DrainsAfter ==
  ASSUME TypeInv, Protocol, NEW t \in Thread,
         \A u \in Thread \ {t} : tpc'[u] = tpc[u] /\ at'[u] = at[u],
         \A d \in Conn : d = at[t] \/ private_out'[d] = private_out[d],
         tpc'[t] \in QueueBPcs => private_out'[at'[t]] = << >>
  PROVE  \A u \in Thread : tpc'[u] \in QueueBPcs => private_out'[at'[u]] = << >>
<1>1. ASSUME NEW u \in Thread \ {t}, tpc'[u] \in QueueBPcs PROVE private_out'[at'[u]] = << >>
  <2>1. tpc[u] \in QueueBPcs /\ at[u] \in Conn /\ at'[u] = at[u]
    BY <1>1, HasConn DEF TypeInv, TypeOK, QueueBPcs
  <2>2. at[u] # at[t]
    BY <2>1, NamesAssumption DEF TypeInv, WorkInvariant, OneWorker
  <2>. QED
    BY <2>1, <2>2 DEF Protocol
<1>. QED
  BY <1>1

LEMMA ProtocolStep ==
  ASSUME TypeInv, Owners, Connected, Shared, Protocol, [Next]_vars
  PROVE  Protocol'
<1>0. /\ sock \in [Conn -> Socks] /\ tpc \in [Thread -> ThreadPcs]
      /\ private_out \in [Conn -> Seq(Out)] /\ written \in [Conn -> Seq(Out)]
      /\ at \in [Thread -> Conn \union {NoConn}]
  BY DEF TypeInv, TypeOK, ConnTypeOK, ThreadTypeOK, QueueTypeOK
\* Nothing is said, no thread moves.
<1>1. ASSUME UNCHANGED <<state, private_out, written, tpc, at>>,
             \A c \in Conn : sock'[c] = "closed" \/ sock[c] # "closed"
      PROVE  Protocol'
  <2>1. \A c \in Conn : sock'[c] # "closed" => Follows(Said(c), state[c])'
    BY <1>1, FollowsAfter
  <2>. QED
    BY <1>1, <2>1 DEF Protocol
\* Nothing is said, and a thread moves that does not look at a queue B next.
<1>2. ASSUME NEW t \in Thread, tpc'[t] \notin QueueBPcs,
             \A u \in Thread \ {t} : tpc'[u] = tpc[u] /\ at'[u] = at[u],
             UNCHANGED <<state, private_out, written>>,
             \A c \in Conn : sock'[c] = "closed" \/ sock[c] # "closed"
      PROVE  Protocol'
  <2>1. \A c \in Conn : sock'[c] # "closed" => Follows(Said(c), state[c])'
    BY <1>2, FollowsAfter
  <2>2. \A u \in Thread : tpc'[u] \in QueueBPcs => private_out'[at'[u]] = << >>
    BY <1>2, DrainsAfter
  <2>. QED
    BY <2>1, <2>2 DEF Protocol
<1>3. CASE UNCHANGED vars
  BY <1>1, <1>3 DEF vars, connVars, sessionVars, outVars
<1>4. ASSUME NEW c \in Conn, Accept(c) PROVE Protocol'
  <2>1. sock[c] = "none" /\ \A d \in Conn \ {c} : sock'[d] = sock[d]
    BY <1>0, <1>4 DEF Accept
  <2>2. UNCHANGED <<state, private_out, written, tpc, at>>
    BY <1>4 DEF Accept, sessionVars, outVars
  <2>. QED
    BY <1>1, <2>1, <2>2
<1>5. CASE Arrive \/ \E c \in Conn : Read(c) \/ Elapse(c)
  BY <1>1, <1>5 DEF Arrive, Read, Elapse, connVars, sessionVars, outVars
<1>6. ASSUME NEW c \in Conn, PeerClosed(c) PROVE Protocol'
  <2>1. /\ sock'[c] = "closed" /\ \A d \in Conn \ {c} : sock'[d] = sock[d]
        /\ UNCHANGED <<state, written, tpc, at>>
        /\ \A d \in Conn : \/ private_out'[d] = private_out[d]
                           \/ d = c /\ private_out'[d] = << >>
    BY <1>0, <1>6 DEF PeerClosed, RemoveConnection, ClearResource, sessionVars
  <2>2. \A d \in Conn : sock'[d] # "closed" => Follows(Said(d), state[d])'
    BY <2>1, FollowsAfter
  <2>3. \A t \in Thread : tpc[t] \in QueueBPcs => at[t] \in Conn
    BY HasConn DEF TypeInv, TypeOK, QueueBPcs
  <2>. QED
    BY <2>1, <2>2, <2>3 DEF Protocol
<1>7. ASSUME Vendor(Sender) \/ Vendor(Reporter) PROVE Protocol'
  BY <1>1, <1>7 DEF Vendor, connVars, sessionVars, outVars
<1>8. ASSUME NEW t \in Thread, NEW c \in Conn, Examine(t, c) PROVE Protocol'
  <2>1. /\ tpc'[t] \notin QueueBPcs
        /\ \A u \in Thread \ {t} : tpc'[u] = tpc[u] /\ at'[u] = at[u]
        /\ UNCHANGED <<state, private_out, written, sock>>
    BY <1>0, <1>8 DEF Examine, QueueBPcs, sessionVars, connVars
  <2>. QED
    BY <1>2, <2>1
<1>9. ASSUME NEW t \in Thread, NeedSend(t) PROVE Protocol'
  <2>1. PICK pc : pc = IF SomethingToSend(at[t], out_B')
                       THEN ThenSend[tpc[t]] ELSE ElseGoOn[tpc[t]]
    OBVIOUS
  <2>2. tpc[t] \in Looks /\ tpc' = [tpc EXCEPT ![t] = pc]
    BY <1>9, <2>1 DEF NeedSend
  <2>3. pc \in {"send", "receive", "send_again", "check"}
    BY <2>1, <2>2 DEF Looks, ThenSend, ElseGoOn
  <2>4. /\ tpc'[t] \notin QueueBPcs
        /\ \A u \in Thread \ {t} : tpc'[u] = tpc[u] /\ at'[u] = at[u]
        /\ UNCHANGED <<state, private_out, written, sock>>
    BY <1>0, <1>9, <2>2, <2>3 DEF NeedSend, QueueBPcs, sessionVars, connVars
  <2>. QED
    BY <1>2, <2>4
<1>10. ASSUME NEW t \in Thread, Receive(t) PROVE Protocol'
  <2>1. tpc'[t] \notin QueueBPcs
    BY <1>0, <1>10 DEF Receive, ThreadAt, QueueBPcs
  <2>2. /\ \A u \in Thread \ {t} : tpc'[u] = tpc[u] /\ at'[u] = at[u]
        /\ UNCHANGED <<state, private_out, written, sock>>
    BY <1>10, ReceiveFacts DEF sessionVars, connVars, outVars
  <2>. QED
    BY <1>2, <2>1, <2>2
<1>11. ASSUME NEW t \in Thread, Check(t) PROVE Protocol'
  <2>1. /\ tpc'[t] \notin QueueBPcs
        /\ \A u \in Thread \ {t} : tpc'[u] = tpc[u] /\ at'[u] = at[u]
        /\ UNCHANGED <<state, private_out, written>>
    BY <1>0, <1>11 DEF Check, ThreadAt, QueueBPcs, sessionVars, outVars
  <2>2. \A c \in Conn : sock'[c] = "closed" \/ sock[c] # "closed"
    BY <1>0, <1>11 DEF Check, RemoveConnection
  <2>. QED
    BY <1>2, <2>1, <2>2
<1>12. ASSUME NEW t \in Thread, Free(t) PROVE Protocol'
  <2>1. /\ tpc[t] = "free" /\ tpc'[t] \notin QueueBPcs
        /\ \A u \in Thread \ {t} : tpc'[u] = tpc[u] /\ at'[u] = at[u]
        /\ UNCHANGED <<state, written, sock>>
    BY <1>0, <1>12 DEF Free, ThreadAt, QueueBPcs, sessionVars, connVars
  <2>2. PICK c \in Conn : c = at[t]
    BY <2>1, HasConn DEF TypeInv, TypeOK
  <2>3. c \notin connections => sock[c] = "closed"
    BY <1>0, <2>2 DEF Connected, TypeInv, WorkInvariant, OneWorker, Socks
  <2>4. \A d \in Conn : \/ private_out'[d] = private_out[d]
                        \/ d = c /\ sock[c] = "closed"
    BY <1>0, <1>12, <2>2, <2>3 DEF Free, ClearResource
  <2>5. \A d \in Conn : sock'[d] # "closed" => Follows(Said(d), state[d])'
    BY <2>1, <2>4, FollowsAfter
  <2>6. \A u \in Thread : tpc'[u] \in QueueBPcs => private_out'[at'[u]] = << >>
    BY <2>1, <2>2, <2>4, DrainsAfter
  <2>. QED
    BY <2>5, <2>6 DEF Protocol
<1>13. ASSUME NEW t \in Thread, Send(t) \/ SendB(t) PROVE Protocol'
  <2>1. PICK c \in Conn : c = at[t]
    BY <1>13, SendFacts
  <2>2. /\ UNCHANGED <<at, state, sock>>
        /\ \A u \in Thread \ {t} : tpc'[u] = tpc[u]
    BY <1>13, SendFacts DEF connVars, sessionVars
  <2>3. tpc[t] \in QueueBPcs => private_out[at[t]] = << >>
    BY DEF Protocol
  <2>4. CASE SendsOwn(c) /\ tpc'[t] \notin QueueBPcs
    <3>1. /\ private_out[c] # << >> /\ Write(c, Head(private_out[c]))
          /\ private_out'[c] = Tail(private_out[c])
          /\ \A d \in Conn \ {c} : private_out'[d] = private_out[d] /\ written'[d] = written[d]
      BY <1>0, <2>4 DEF SendsOwn, Write
    <3>2. sock[c] = "open" \/ sock[c] = "closed"
      BY <1>0, <2>1 DEF Connected, TypeInv, WorkInvariant, OneWorker, Socks
    <3>3. sock[c] = "open" => written'[c] = Append(written[c], Head(private_out[c]))
      BY <1>0, <3>1 DEF Write
    <3>4. sock[c] = "open" => written'[c] \o private_out'[c] = Said(c)
      <4>1. written[c] \in Seq(Out) /\ private_out[c] \in Seq(Out)
        BY <1>0
      <4>2. Append(written[c], Head(private_out[c])) \o Tail(private_out[c])
              = written[c] \o private_out[c]
        BY <3>1, <4>1, SaidFacts
      <4>. QED
        BY <3>1, <3>3, <4>2 DEF Said
    <3>5. \A d \in Conn : sock'[d] # "closed" => Follows(Said(d), state[d])'
      BY <2>2, <3>1, <3>2, <3>4, FollowsAfter DEF Protocol
    <3>6. \A u \in Thread : tpc'[u] \in QueueBPcs => private_out'[at'[u]] = << >>
      BY <2>1, <2>2, <2>4, <3>1, DrainsAfter
    <3>. QED
      BY <3>5, <3>6 DEF Protocol
  <2>5. ASSUME NEW p \in Out, p.type # "UnbindResp", Write(c, p), UNCHANGED private_out,
               private_out[c] = << >>, tpc'[t] \notin QueueBPcs
        PROVE  Protocol'
    <3>1. /\ \A d \in Conn \ {c} : written'[d] = written[d]
          /\ written'[c] = written[c] \/ written'[c] = Append(written[c], p)
      BY <1>0, <2>5 DEF Write
    <3>2. Said(c) = written[c] /\ written'[c] \o private_out'[c] = written'[c]
      BY <1>0, <2>5, <3>1, SaidFacts DEF Said
    <3>3. ASSUME sock[c] # "closed"
          PROVE  Follows(written'[c] \o private_out'[c], state'[c])
      <4>1. written[c] \in Seq(Out) /\ Follows(written[c], state[c]) /\ state'[c] = state[c]
        BY <1>0, <2>2, <3>2, <3>3 DEF Protocol
      <4>2. MaySay(state[c], p, state[c])
        BY <2>5 DEF MaySay
      <4>3. Follows(Append(written[c], p), state[c])
        BY <4>1, <4>2, FollowsAppend
      <4>. QED
        BY <3>1, <3>2, <4>1, <4>3
    <3>4. \A d \in Conn : sock'[d] # "closed" => Follows(Said(d), state[d])'
      BY <2>2, <2>5, <3>1, <3>3, FollowsAfter
    <3>5. \A u \in Thread : tpc'[u] \in QueueBPcs => private_out'[at'[u]] = << >>
      BY <2>2, <2>5, DrainsAfter
    <3>. QED
      BY <3>4, <3>5 DEF Protocol
  <2>6. CASE SendsA(c) /\ private_out[c] = << >> /\ tpc'[t] \notin QueueBPcs
    <3>1. PICK s \in SysId : s = flag[c]
      BY <2>6 DEF SendsA
    <3>2. PICK p \in Out : p = Head(out_A[s]) /\ p.type # "UnbindResp"
      <4>1. out_A[s] \in Seq(SharedOut) /\ out_A[s] # << >>
        BY <2>6, <3>1 DEF SendsA, Shared
      <4>. QED
        BY <4>1, HeadTailProperties DEF SharedOut
    <3>. QED
      BY <2>5, <2>6, <3>1, <3>2 DEF SendsA
  <2>7. CASE SendsB(c) /\ private_out[c] = << >> /\ tpc'[t] \notin QueueBPcs
    <3>1. PICK s \in SysId : s = flag[c]
      BY <2>7 DEF SendsB
    <3>2. PICK p \in Out : p = Head(out_B[s]) /\ p.type # "UnbindResp"
      <4>1. out_B[s] \in Seq(AccountDlr(s)) /\ out_B[s] # << >>
        BY <2>7, <3>1 DEF SendsB, Owners, OutInv
      <4>. QED
        BY <4>1, HeadTailProperties DEF AccountDlr
    <3>. QED
      BY <2>5, <2>7, <3>1, <3>2 DEF SendsB
  <2>8. CASE /\ UNCHANGED <<private_out, out_A, out_B, written>>
             /\ tpc'[t] \in QueueBPcs => private_out[c] = << >>
    <3>1. \A d \in Conn : sock'[d] # "closed" => Follows(Said(d), state[d])'
      BY <2>2, <2>8, FollowsAfter
    <3>2. \A u \in Thread : tpc'[u] \in QueueBPcs => private_out'[at'[u]] = << >>
      BY <2>1, <2>2, <2>8, DrainsAfter
    <3>. QED
      BY <3>1, <3>2 DEF Protocol
  <2>. QED
    BY <1>13, <2>1, <2>3, <2>4, <2>6, <2>7, <2>8, SendKinds
<1>14. ASSUME NEW t \in Thread, Process(t) PROVE Protocol'
  <2>1. PICK c \in Conn : c = at[t]
    BY <1>14, ProcessFacts
  <2>2. /\ UNCHANGED <<at, sock, written>>
        /\ \A u \in Thread \ {t} : tpc'[u] = tpc[u]
    BY <1>14, ProcessFacts DEF connVars
  <2>3. /\ \A d \in Conn \ {c} : state'[d] = state[d] /\ private_out'[d] = private_out[d]
        /\ tpc'[t] \notin QueueBPcs
        /\ \/ UNCHANGED private_out /\ state'[c] = state[c]
           \/ \E p \in Out : /\ private_out'[c] = Append(private_out[c], p)
                             /\ MaySay(state[c], p, state'[c])
    BY <1>14, <2>1, ProcessSays
  <2>4. ASSUME NEW p \in Out, private_out'[c] = Append(private_out[c], p),
               MaySay(state[c], p, state'[c]), sock[c] # "closed"
        PROVE  Follows(written'[c] \o private_out'[c], state'[c])
    <3>1. Said(c) \in Seq(Out) /\ Follows(Said(c), state[c])
      BY <1>0, <2>4, SaidFacts DEF Protocol, Said
    <3>2. written'[c] \o private_out'[c] = Append(Said(c), p)
      BY <1>0, <2>2, <2>4, SaidFacts DEF Said
    <3>. QED
      BY <2>4, <3>1, <3>2, FollowsAppend
  <2>5. \A d \in Conn : sock'[d] # "closed" => Follows(Said(d), state[d])'
    BY <2>2, <2>3, <2>4, FollowsAfter
  <2>6. \A u \in Thread : tpc'[u] \in QueueBPcs => private_out'[at'[u]] = << >>
    BY <2>1, <2>2, <2>3, DrainsAfter
  <2>. QED
    BY <2>5, <2>6 DEF Protocol
<1>. QED
  BY <1>3, <1>4, <1>5, <1>6, <1>7, <1>8, <1>9, <1>10, <1>11, <1>12, <1>13, <1>14
     DEF Next, IoThread, TaskThread

LEMMA OwnBindsStep ==
  ASSUME TypeInv, Owners, OwnBinds, [Next]_vars
  PROVE  OwnBinds'
<1>. USE DEF BindsTo, RequestsOf
<1>0. /\ tpc \in [Thread -> ThreadPcs] /\ at \in [Thread -> Conn \union {NoConn}]
      /\ flag \in [Conn -> SysId \union {NoSysId}]
  BY DEF TypeInv, TypeOK, ThreadTypeOK, SessionTypeOK
\* No session binds, and no thread gets a request.
<1>1. ASSUME UNCHANGED flag,
             \A t \in Thread : tpc'[t] = "process" =>
               tpc[t] = "process" /\ req'[t] = req[t] /\ at'[t] = at[t]
      PROVE  OwnBinds'
  BY <1>1 DEF OwnBinds
<1>2. CASE UNCHANGED vars
  BY <1>1, <1>2 DEF vars, sessionVars
<1>3. CASE IoThread \/ \E c \in Conn : Elapse(c)
  BY <1>1, <1>3 DEF IoThread, Accept, Read, Arrive, PeerClosed, Elapse, sessionVars
<1>4. ASSUME Vendor(Sender) \/ Vendor(Reporter) PROVE OwnBinds'
  BY <1>1, <1>4 DEF Vendor, sessionVars
<1>5. ASSUME NEW t \in Thread, Send(t) \/ SendB(t) PROVE OwnBinds'
  BY <1>1, <1>5, SendFacts DEF HasRequest, sessionVars
<1>6. ASSUME NEW t \in Thread, NEW c \in Conn, Examine(t, c) PROVE OwnBinds'
  BY <1>0, <1>1, <1>6 DEF Examine, sessionVars
<1>7. ASSUME NEW t \in Thread, NeedSend(t) PROVE OwnBinds'
  <2>1. PICK pc : pc = IF SomethingToSend(at[t], out_B')
                       THEN ThenSend[tpc[t]] ELSE ElseGoOn[tpc[t]]
    OBVIOUS
  <2>2. tpc[t] \in Looks /\ tpc' = [tpc EXCEPT ![t] = pc]
    BY <1>7, <2>1 DEF NeedSend
  <2>3. pc # "process"
    BY <2>1, <2>2 DEF Looks, ThenSend, ElseGoOn
  <2>. QED
    BY <1>0, <1>1, <1>7, <2>2, <2>3 DEF NeedSend, sessionVars
<1>8. ASSUME NEW t \in Thread, Check(t) \/ Free(t) PROVE OwnBinds'
  BY <1>0, <1>1, <1>8 DEF Check, Free, ThreadAt, sessionVars
<1>9. ASSUME NEW t \in Thread, Receive(t) PROVE OwnBinds'
  <2>1. PICK c \in Conn : c = at[t]
    BY <1>9, ReceiveFacts
  <2>2. /\ UNCHANGED <<at, flag>>
        /\ \A u \in Thread \ {t} : tpc'[u] = tpc[u] /\ req'[u] = req[u]
    BY <1>9, ReceiveFacts DEF sessionVars
  <2>3. ASSUME tpc'[t] = "process" /\ flag[c] = NoSysId => req'[t] \in RequestsOf(c)
        PROVE  OwnBinds'
    BY <2>1, <2>2, <2>3 DEF OwnBinds
  <2>4. CASE TakesOwn(t)
    <3>1. private_in[c] \in Seq([from : {c}, req : RequestsOf(c)])
      BY DEF Owners, ReadInv
    <3>2. Head(private_in[c]) \in [from : {c}, req : RequestsOf(c)]
      BY <2>1, <2>4, <3>1, HeadTailProperties DEF TakesOwn
    <3>. QED
      BY <2>1, <2>3, <2>4, <3>2 DEF TakesOwn
  <2>5. CASE TakesShared(t)
    BY <2>1, <2>3, <2>5, NamesAssumption DEF TakesShared
  <2>6. CASE ~HasRequest(t)'
    BY <2>3, <2>6 DEF HasRequest
  <2>. QED
    BY <1>9, <2>4, <2>5, <2>6, ReceiveFacts
<1>10. ASSUME NEW t \in Thread, Process(t) PROVE OwnBinds'
  <2>1. PICK c \in Conn : c = at[t]
    BY <1>10, ProcessFacts
  <2>2. /\ UNCHANGED at
        /\ \A u \in Thread \ {t} : tpc'[u] = tpc[u] /\ req'[u] = req[u] /\ at[u] # c
    BY <1>0, <1>10, <2>1, ProcessFacts, NamesAssumption DEF TypeInv, WorkInvariant, OneWorker
  <2>3. tpc'[t] # "process"
    BY <1>0, <1>10 DEF Process, Processes, ThreadAt, ProcessBadSequence, ProcessInvalid,
       ProcessBind, ProcessSubmitSm, Store, ProcessUnbind, ProcessEnquireLink,
       ProcessQuerySm, ProcessDeliverSmResp, ProcessMalformedResp
  <2>4. CASE UNCHANGED flag
    BY <1>1, <2>2, <2>3, <2>4
  <2>5. CASE ProcessBind(t)
    <3>1. /\ tpc[t] = "process" /\ req[t].type = "Bind"
          /\ flag' = [flag EXCEPT ![c] = NewFlag(c, req[t])]
      BY <2>1, <2>5 DEF ProcessBind, Processes, ThreadAt
    <3>2. flag[c] = NoSysId
      BY <2>1, <2>5 DEF ProcessBind, Valid, IsBound, TxAble, RxAble, TypeInv, TypeOK, SessionTypeOK
    <3>3. req[t] \in RequestsOf(c)
      BY <2>1, <3>1, <3>2 DEF OwnBinds
    <3>4. \A d \in Conn \ {c} : flag'[d] = flag[d]
      BY <1>0, <3>1
    <3>5. flag'[c] # NoSysId => flag'[c] \in BindsTo(c)
      BY <1>0, <3>1, <3>2, <3>3 DEF NewFlag
    <3>6. \A d \in Conn : flag'[d] # NoSysId => flag'[d] \in BindsTo(d)
      BY <3>4, <3>5 DEF OwnBinds
    <3>7. ASSUME NEW u \in Thread, tpc'[u] = "process", flag'[at'[u]] = NoSysId
          PROVE  req'[u] \in RequestsOf(at'[u])
      <4>1. u # t /\ tpc[u] = "process" /\ at[u] \in Conn /\ at[u] # c
        BY <2>2, <2>3, <3>7, HasConn DEF TypeInv, TypeOK
      <4>2. flag[at[u]] = NoSysId
        BY <2>2, <3>4, <3>7, <4>1
      <4>. QED
        BY <2>2, <4>1, <4>2 DEF OwnBinds
    <3>. QED
      BY <3>6, <3>7 DEF OwnBinds
  <2>6. CASE ~ProcessBind(t)
    <3>1. UNCHANGED flag
      BY <1>10, <2>6 DEF Process, ProcessBadSequence, ProcessInvalid, ProcessSubmitSm, Store,
         ProcessUnbind, ProcessEnquireLink, ProcessQuerySm, ProcessDeliverSmResp,
         ProcessMalformedResp, sessionVars
    <3>. QED
      BY <2>4, <3>1
  <2>. QED
    BY <2>5, <2>6
<1>. QED
  BY <1>2, <1>3, <1>4, <1>5, <1>6, <1>7, <1>8, <1>9, <1>10 DEF Next, TaskThread

-----------------------------------------------------------------------------
(* A message is acked once, after it was processed                         *)

LEMMA AckFacts ==
  /\ \A p \in Out : \A m : m \in InAck[p] <=> p.type = "SubmitSmResp" /\ m = p.sm
  /\ \A p \in SessionOut : p \in Out /\ InAck[p] = {}
  /\ \A p \in Out : p.type = "Dlr" => InAck[p] = {}
  /\ \A x : AcksIn(x)' = All(out_A'[x], InAck) /\ AckedTo(x)' = All(written'[x], InAck)
BY DEF InAck, SessionOut, AcksIn, AckedTo

\* What is asked, part by part.
LEMMA AskedParts ==
  /\ \A c \in Conn : All(todo[c], InRequest) \subseteq Asked /\ All(private_in[c], InItem) \subseteq Asked
  /\ OnArrival \subseteq Asked
  /\ \A s \in SysId : All(in_queue[s], InItem) \subseteq Asked
  /\ \A t \in Thread : InProcess(t) \subseteq Asked
BY DEF Asked

LEMMA AskedAfter ==
  ASSUME NEW M,
         \A c \in Conn : All(todo'[c], InRequest) \subseteq M /\ All(private_in'[c], InItem) \subseteq M,
         OnArrival' \subseteq M,
         \A s \in SysId : All(in_queue'[s], InItem) \subseteq M,
         \A t \in Thread : InProcess(t)' \subseteq M
  PROVE  Asked' \subseteq M
<1>1. ASSUME NEW m \in Asked' PROVE m \in M
  <2>1. \/ \E c \in Conn : m \in All(todo'[c], InRequest) \/ m \in All(private_in'[c], InItem)
        \/ m \in OnArrival'
        \/ \E s \in SysId : m \in All(in_queue'[s], InItem)
        \/ \E t \in Thread : m \in InProcess(t)'
    BY <1>1 DEF Asked
  <2>. QED
    BY <2>1
<1>. QED
  BY <1>1

\* No request goes from one place to another, and no thread gets one.
LEMMA SameAsked ==
  ASSUME UNCHANGED <<todo, arriving, in_queue>>,
         \A c \in Conn : private_in'[c] = private_in[c] \/ private_in'[c] = << >>,
         \A t \in Thread : tpc'[t] = "process" => tpc[t] = "process" /\ req'[t] = req[t]
  PROVE  Asked' \subseteq Asked
<1>1. OnArrival' = OnArrival /\ \A t \in Thread : InProcess(t)' \subseteq InProcess(t)
  BY DEF OnArrival, InProcess
<1>2. \A c \in Conn : All(private_in'[c], InItem) \subseteq Asked
  BY AskedParts, CarryEmpty
<1>. QED
  BY <1>1, <1>2, AskedParts, AskedAfter

LEMMA AskedStep ==
  ASSUME TypeInv, [Next]_vars
  PROVE  Asked' \subseteq Asked
<1>0. /\ tpc \in [Thread -> ThreadPcs] /\ todo \in [Conn -> Seq(Request)]
      /\ private_in \in [Conn -> Seq(ReadItem)] /\ in_queue \in [SysId -> Seq(ReadItem)]
  BY DEF TypeInv, TypeOK, ThreadTypeOK, ConnTypeOK, QueueTypeOK
<1>1. ASSUME NEW c \in Conn, Read(c) PROVE Asked' \subseteq Asked
  <2>1. PICK r \in Request : r = Head(todo[c]) /\ todo[c] # << >> /\ todo[c] \in Seq(Request)
    BY <1>0, <1>1 DEF Read
  <2>2. /\ todo'[c] = Tail(todo[c]) /\ \A d \in Conn \ {c} : todo'[d] = todo[d]
        /\ arriving' # << >> /\ arriving'[1].req = r
        /\ UNCHANGED <<private_in, in_queue, tpc, req>>
    BY <1>0, <1>1, <2>1 DEF Read, inVars
  <2>3. All(todo[c], InRequest) = InRequest[r] \union All(todo'[c], InRequest)
    BY <2>1, <2>2, CarryTail
  <2>4. OnArrival' = InRequest[r]
    BY <2>2 DEF OnArrival
  <2>5. \A t \in Thread : InProcess(t)' = InProcess(t)
    BY <2>2 DEF InProcess
  <2>6. \A d \in Conn : All(todo'[d], InRequest) \subseteq Asked
    BY <2>2, <2>3, AskedParts
  <2>. QED
    BY <2>2, <2>3, <2>4, <2>5, <2>6, AskedParts, AskedAfter
<1>2. ASSUME Arrive PROVE Asked' \subseteq Asked
  <2>. DEFINE Arriving == [from : Conn, req : Request, queue : SysId \union {NoSysId}]
  <2>1. arriving \in Seq(Arriving) /\ arriving # << >>
    BY <1>2 DEF Arrive, TypeInv, TypeOK, ConnTypeOK
  <2>2. arriving[1] \in Arriving
    <3>. HIDE DEF Arriving
    <3>. QED
      BY <2>1
  <2>3. PICK c \in Conn, r \in Request, s \in SysId \union {NoSysId} :
          /\ arriving[1].from = c /\ arriving[1].req = r /\ arriving[1].queue = s
          /\ IF s = NoSysId
             THEN /\ private_in' = [private_in EXCEPT ![c] = Append(@, [from |-> c, req |-> r])]
                  /\ UNCHANGED in_queue
             ELSE /\ in_queue' = [in_queue EXCEPT ![s] = Append(@, [from |-> c, req |-> r])]
                  /\ UNCHANGED private_in
    BY <1>2, <2>2 DEF Arrive
  <2>. HIDE DEF Arriving
  <2>4. PICK x \in ReadItem : x = [from |-> c, req |-> r] /\ x.req = r
    <3>1. [from |-> c, req |-> r] \in ReadItem /\ [from |-> c, req |-> r].req = r
      BY DEF ReadItem
    <3>. QED
      BY <3>1
  <2>5. arriving' = << >> /\ UNCHANGED <<todo, tpc, req>>
    BY <1>2 DEF Arrive
  <2>6. InItem[x] \subseteq Asked
    <3>1. InItem[x] = InRequest[r] /\ OnArrival = InRequest[r]
      BY <2>1, <2>3, <2>4, CarryFacts DEF OnArrival
    <3>. QED
      BY <3>1, AskedParts
  <2>7. \A q \in Seq(ReadItem) : All(Append(q, x), InItem) = All(q, InItem) \union InItem[x]
    BY CarryAppend
  <2>8. OnArrival' = {} /\ \A t \in Thread : InProcess(t)' = InProcess(t)
    BY <2>5 DEF OnArrival, InProcess
  <2>9. \A d \in Conn : private_in'[d] = private_in[d] \/ private_in'[d] = Append(private_in[d], x)
    BY <1>0, <2>3, <2>4
  <2>10. \A z \in SysId : in_queue'[z] = in_queue[z] \/ in_queue'[z] = Append(in_queue[z], x)
    BY <1>0, <2>3, <2>4
  <2>11. /\ \A d \in Conn : All(private_in'[d], InItem) \subseteq Asked
         /\ \A z \in SysId : All(in_queue'[z], InItem) \subseteq Asked
    BY <1>0, <2>6, <2>7, <2>9, <2>10, AskedParts
  <2>. QED
    BY <2>5, <2>8, <2>11, AskedParts, AskedAfter
<1>3. ASSUME NEW c \in Conn, PeerClosed(c) PROVE Asked' \subseteq Asked
  BY <1>0, <1>3, SameAsked DEF PeerClosed, ClearResource
<1>4. ASSUME NEW c \in Conn, Accept(c) \/ Elapse(c) PROVE Asked' \subseteq Asked
  BY <1>4, SameAsked DEF Accept, Elapse, connVars, inVars
<1>5. ASSUME Vendor(Sender) \/ Vendor(Reporter) PROVE Asked' \subseteq Asked
  BY <1>5, SameAsked DEF Vendor, connVars, inVars
<1>6. ASSUME NEW t \in Thread, Send(t) \/ SendB(t) PROVE Asked' \subseteq Asked
  BY <1>6, SendFacts, SameAsked DEF HasRequest, connVars, inVars
<1>7. ASSUME NEW t \in Thread, NEW c \in Conn, Examine(t, c) PROVE Asked' \subseteq Asked
  BY <1>0, <1>7, SameAsked DEF Examine, connVars, inVars
<1>8. ASSUME NEW t \in Thread, NeedSend(t) PROVE Asked' \subseteq Asked
  <2>1. PICK pc : pc = IF SomethingToSend(at[t], out_B')
                       THEN ThenSend[tpc[t]] ELSE ElseGoOn[tpc[t]]
    OBVIOUS
  <2>2. tpc[t] \in Looks /\ tpc' = [tpc EXCEPT ![t] = pc]
    BY <1>8, <2>1 DEF NeedSend
  <2>3. pc # "process"
    BY <2>1, <2>2 DEF Looks, ThenSend, ElseGoOn
  <2>. QED
    BY <1>0, <1>8, <2>2, <2>3, SameAsked DEF NeedSend, connVars, inVars
<1>9. ASSUME NEW t \in Thread, Check(t) PROVE Asked' \subseteq Asked
  BY <1>0, <1>9, SameAsked DEF Check, ThreadAt, inVars
<1>10. ASSUME NEW t \in Thread, Free(t) PROVE Asked' \subseteq Asked
  BY <1>0, <1>10, SameAsked DEF Free, ThreadAt, ClearResource, connVars
<1>11. ASSUME NEW t \in Thread, Process(t) PROVE Asked' \subseteq Asked
  <2>1. tpc'[t] # "process"
    BY <1>0, <1>11 DEF Process, Processes, ThreadAt, ProcessBadSequence, ProcessInvalid,
       ProcessBind, ProcessSubmitSm, Store, ProcessUnbind, ProcessEnquireLink,
       ProcessQuerySm, ProcessDeliverSmResp, ProcessMalformedResp
  <2>. QED
    BY <1>11, <2>1, ProcessFacts, SameAsked DEF connVars, inVars
<1>12. ASSUME NEW t \in Thread, Receive(t) PROVE Asked' \subseteq Asked
  <2>1. PICK c \in Conn : c = at[t]
    BY <1>12, ReceiveFacts
  <2>2. /\ UNCHANGED <<todo, arriving>> /\ ~HasRequest(t)
        /\ \A u \in Thread \ {t} : tpc'[u] = tpc[u] /\ req'[u] = req[u]
    BY <1>12, ReceiveFacts DEF connVars
  <2>3. OnArrival' = OnArrival /\ \A u \in Thread \ {t} : InProcess(u)' = InProcess(u)
    BY <2>2 DEF OnArrival, InProcess
  <2>4. \A q \in Seq(ReadItem) : q # << >> => All(q, InItem) = InItem[Head(q)] \union All(Tail(q), InItem)
    BY CarryTail
  <2>5. CASE TakesOwn(t)
    <3>1. PICK x \in ReadItem : /\ private_in[c] # << >> /\ x = Head(private_in[c])
                                /\ req'[t] = x.req /\ UNCHANGED in_queue
                                /\ private_in' = [private_in EXCEPT ![c] = Tail(@)]
      BY <2>1, <2>5 DEF TakesOwn
    <3>2. All(private_in[c], InItem) = InItem[x] \union All(private_in'[c], InItem)
      BY <1>0, <2>4, <3>1
    <3>3. \A d \in Conn : All(private_in'[d], InItem) \subseteq Asked
      BY <1>0, <3>1, <3>2, AskedParts
    <3>4. InProcess(t)' \subseteq Asked
      BY <3>1, <3>2, CarryFacts, AskedParts DEF InProcess
    <3>. QED
      BY <2>2, <2>3, <3>1, <3>3, <3>4, AskedParts, AskedAfter
  <2>6. CASE TakesShared(t)
    <3>0. PICK s \in SysId : s = flag[c]
      BY <2>1, <2>6 DEF TakesShared
    <3>1. PICK x \in ReadItem : /\ in_queue[s] # << >> /\ x = Head(in_queue[s])
                                /\ req'[t] = x.req /\ UNCHANGED private_in
                                /\ in_queue' = [in_queue EXCEPT ![s] = Tail(@)]
      BY <2>1, <2>6, <3>0 DEF TakesShared
    <3>2. All(in_queue[s], InItem) = InItem[x] \union All(in_queue'[s], InItem)
      BY <1>0, <2>4, <3>1
    <3>3. \A z \in SysId : All(in_queue'[z], InItem) \subseteq Asked
      BY <1>0, <3>1, <3>2, AskedParts
    <3>4. InProcess(t)' \subseteq Asked
      BY <3>1, <3>2, CarryFacts, AskedParts DEF InProcess
    <3>. QED
      BY <2>2, <2>3, <3>1, <3>3, <3>4, AskedParts, AskedAfter
  <2>7. CASE ~HasRequest(t)' /\ UNCHANGED inVars
    BY <2>2, <2>7, SameAsked DEF HasRequest, inVars
  <2>. QED
    BY <1>12, <2>5, <2>6, <2>7, ReceiveFacts
<1>13. CASE UNCHANGED vars
  BY <1>13, SameAsked DEF vars, connVars, inVars
<1>. QED
  BY <1>1, <1>2, <1>3, <1>4, <1>5, <1>6, <1>7, <1>8, <1>9, <1>10, <1>11, <1>12, <1>13
     DEF Next, IoThread, TaskThread

\* What is written is either lost or comes last.
LEMMA WriteAck ==
  ASSUME QueueTypeOK, NEW c \in Conn, NEW p \in Out, Write(c, p),
         Once(written[c], InAck), AckedTo(c) \intersect InAck[p] = {}
  PROVE  /\ \A d \in Conn \ {c} : written'[d] = written[d] /\ AckedTo(d)' = AckedTo(d)
         /\ AckedTo(c) \subseteq AckedTo(c)' /\ AckedTo(c)' \subseteq AckedTo(c) \union InAck[p]
         /\ sock[c] = "open" => AckedTo(c)' = AckedTo(c) \union InAck[p]
         /\ Once(written'[c], InAck)
<1>1. written \in [Conn -> Seq(Out)]
  BY DEF QueueTypeOK
<1>2. CASE UNCHANGED written /\ sock[c] # "open"
  BY <1>2, AckFacts DEF AckedTo
<1>3. CASE written' = [written EXCEPT ![c] = Append(@, p)]
  <2>1. /\ written'[c] = Append(written[c], p) /\ written[c] \in Seq(Out)
        /\ \A d \in Conn \ {c} : written'[d] = written[d]
    BY <1>1, <1>3
  <2>2. /\ All(written'[c], InAck) = All(written[c], InAck) \union InAck[p]
        /\ Once(written'[c], InAck)
    BY <2>1, CarryAppend DEF AckedTo
  <2>. QED
    BY <2>1, <2>2, AckFacts DEF AckedTo
<1>. QED
  BY <1>2, <1>3 DEF Write

\* Own answers and reports are no acks.
LEMMA QuietSends ==
  ASSUME Owners, NEW c \in Conn, SendsOwn(c) \/ SendsB(c)
  PROVE  \E p \in Out : InAck[p] = {} /\ Write(c, p) /\ UNCHANGED out_A
<1>1. CASE SendsOwn(c)
  <2>1. private_out[c] \in Seq(SessionOut) /\ private_out[c] # << >>
    BY <1>1 DEF SendsOwn, Owners, OutInv
  <2>2. PICK p \in SessionOut : p = Head(private_out[c])
    BY <2>1, HeadTailProperties
  <2>. QED
    BY <1>1, <2>2, AckFacts DEF SendsOwn
<1>2. CASE SendsB(c)
  <2>1. PICK s \in SysId : s = flag[c] /\ out_B[s] # << >>
    BY <1>2 DEF SendsB
  <2>2. PICK p \in AccountDlr(s) : p = Head(out_B[s])
    BY <2>1, HeadTailProperties DEF Owners, OutInv
  <2>3. p \in Out /\ InAck[p] = {}
    BY AckFacts DEF AccountDlr
  <2>. QED
    BY <1>2, <2>1, <2>2, <2>3 DEF SendsB
<1>. QED
  BY <1>1, <1>2

LEMMA SentAcks ==
  ASSUME QueueTypeOK, AckedOnce, NEW c \in Conn, SendsA(c)
  PROVE  \E s \in SysId, p \in Out :
           /\ s = flag[c] /\ out_A[s] # << >> /\ p = Head(out_A[s]) /\ Write(c, p)
           /\ AcksIn(s) = InAck[p] \union AcksIn(s)' /\ AcksIn(s)' \intersect InAck[p] = {}
           /\ Once(out_A'[s], InAck)
           /\ \A z \in SysId \ {s} : out_A'[z] = out_A[z] /\ AcksIn(z)' = AcksIn(z)
<1>0. out_A \in [SysId -> Seq(Out)]
  BY DEF QueueTypeOK
<1>1. PICK s \in SysId : s = flag[c] /\ out_A[s] # << >>
  BY DEF SendsA
<1>2. PICK p \in Out : p = Head(out_A[s])
  BY <1>0, <1>1
<1>3. /\ out_A[s] \in Seq(Out) /\ out_A'[s] = Tail(out_A[s])
      /\ \A z \in SysId \ {s} : out_A'[z] = out_A[z]
  BY <1>0, <1>1 DEF SendsA
<1>4. /\ All(out_A[s], InAck) = InAck[p] \union All(out_A'[s], InAck)
      /\ Once(out_A'[s], InAck)
      /\ All(out_A'[s], InAck) \intersect InAck[p] = {}
  BY <1>1, <1>2, <1>3, CarryTail DEF AckedOnce
<1>5. /\ AcksIn(s) = InAck[p] \union AcksIn(s)' /\ AcksIn(s)' \intersect InAck[p] = {}
      /\ \A z \in SysId \ {s} : AcksIn(z)' = AcksIn(z)
  BY <1>3, <1>4, AckFacts DEF AcksIn
<1>. QED
  BY <1>1, <1>2, <1>3, <1>4, <1>5 DEF SendsA

LEMMA AnswerAcks ==
  ASSUME QueueTypeOK, AckedOnce, NEW c \in Conn, Answers(c), NEW s \in SysId
  PROVE  AcksIn(s)' = AcksIn(s) /\ Once(out_A'[s], InAck)
<1>0. out_A \in [SysId -> Seq(Out)] /\ Once(out_A[s], InAck)
  BY DEF QueueTypeOK, AckedOnce
<1>1. CASE UNCHANGED out_A
  BY <1>0, <1>1, AckFacts DEF AcksIn
<1>2. ASSUME NEW p \in SessionOut, flag[c] \in SysId,
             out_A' = [out_A EXCEPT ![flag[c]] = Append(@, p)]
      PROVE  AcksIn(s)' = AcksIn(s) /\ Once(out_A'[s], InAck)
  <2>1. PICK q \in Seq(Out) : q = out_A[s]
    BY <1>0
  <2>2. PICK y \in Out : y = p /\ InAck[y] = {}
    BY AckFacts
  <2>3. out_A'[s] = q \/ out_A'[s] = Append(q, y)
    BY <1>0, <1>2, <2>1, <2>2
  <2>4. All(Append(q, y), InAck) = All(q, InAck) \union InAck[y]
    BY CarryAppend
  <2>5. Once(q, InAck) /\ All(q, InAck) \intersect InAck[y] = {}
    BY <1>0, <2>1, <2>2
  <2>6. Once(Append(q, y), InAck)
    BY <2>5, CarryAppend
  <2>7. All(Append(q, y), InAck) = All(q, InAck)
    BY <2>2, <2>4
  <2>. QED
    BY <2>1, <2>3, <2>5, <2>6, <2>7, AckFacts DEF AcksIn
<1>. QED
  BY <1>1, <1>2 DEF Answers

LEMMA AcceptAcks ==
  ASSUME QueueTypeOK, NEW t \in Thread, Accepts(t)
  PROVE  \E m \in Sm, s \in SysId, p \in Out :
           /\ m = req[t].sm /\ s = flag[at[t]] /\ InAck[p] = {m}
           /\ out_A[s] \in Seq(Out) /\ out_A'[s] = Append(out_A[s], p)
           /\ AcksIn(s)' = AcksIn(s) \union {m}
           /\ \A z \in SysId \ {s} : out_A'[z] = out_A[z] /\ AcksIn(z)' = AcksIn(z)
<1>0. out_A \in [SysId -> Seq(Out)]
  BY DEF QueueTypeOK
<1>1. PICK m \in Sm, s \in SysId :
        /\ m = req[t].sm /\ s = flag[at[t]]
        /\ out_A' = [out_A EXCEPT ![s] = Append(@, [type |-> "SubmitSmResp", sm |-> m])]
  BY DEF Accepts
<1>2. PICK p \in Out : p = [type |-> "SubmitSmResp", sm |-> m] /\ InAck[p] = {m}
  <2>1. m \in Sm
    OBVIOUS
  <2>2. [type |-> "SubmitSmResp", sm |-> m] \in Out
    BY <2>1 DEF Out
  <2>3. InAck[[type |-> "SubmitSmResp", sm |-> m]] = {m}
    BY <2>2 DEF InAck
  <2>. QED
    BY <2>2, <2>3
<1>3. /\ out_A[s] \in Seq(Out) /\ out_A'[s] = Append(out_A[s], p)
      /\ \A z \in SysId \ {s} : out_A'[z] = out_A[z]
  BY <1>0, <1>1, <1>2
<1>4. All(out_A'[s], InAck) = All(out_A[s], InAck) \union {m}
  BY <1>2, <1>3, CarryAppend
<1>5. AcksIn(s)' = AcksIn(s) \union {m} /\ \A z \in SysId \ {s} : AcksIn(z)' = AcksIn(z)
  BY <1>3, <1>4, AckFacts DEF AcksIn
<1>. QED
  BY <1>1, <1>2, <1>3, <1>5

LEMMA AckedOnceStep ==
  ASSUME TypeInv, Owners, OneSpot, AckedOnce, [Next]_vars
  PROVE  AckedOnce'
<1>0. QueueTypeOK
  BY DEF TypeInv, TypeOK
<1>1. Asked' \subseteq Asked
  BY AskedStep
\* No message is acked.
<1>2. ASSUME \A s \in SysId : AcksIn(s)' = AcksIn(s) /\ Once(out_A'[s], InAck),
             \A c \in Conn : AckedTo(c)' = AckedTo(c) /\ Once(written'[c], InAck)
      PROVE  AckedOnce'
  BY <1>1, <1>2 DEF AckedOnce
<1>3. /\ UNCHANGED out_A => \A s \in SysId : AcksIn(s)' = AcksIn(s) /\ Once(out_A'[s], InAck)
      /\ UNCHANGED written => \A c \in Conn : AckedTo(c)' = AckedTo(c) /\ Once(written'[c], InAck)
  BY AckFacts DEF AckedOnce, AcksIn, AckedTo
<1>4. ASSUME NEW t \in Thread, Send(t) \/ SendB(t) PROVE AckedOnce'
  <2>1. PICK c \in Conn : c = at[t]
    BY <1>4, SendFacts
  <2>2. CASE SendsOwn(c) \/ SendsB(c)
    <3>1. PICK p \in Out : InAck[p] = {} /\ Write(c, p) /\ UNCHANGED out_A
      BY <2>2, QuietSends
    <3>2. AckedTo(c) \intersect InAck[p] = {} /\ \A d \in Conn : Once(written[d], InAck)
      BY <3>1 DEF AckedOnce
    <3>3. /\ \A d \in Conn \ {c} : written'[d] = written[d] /\ AckedTo(d)' = AckedTo(d)
          /\ AckedTo(c) \subseteq AckedTo(c)' /\ AckedTo(c)' \subseteq AckedTo(c) \union InAck[p]
          /\ Once(written'[c], InAck)
      BY <1>0, <3>1, <3>2, WriteAck
    <3>4. AckedTo(c)' = AckedTo(c)
      BY <3>1, <3>3
    <3>5. \A d \in Conn : AckedTo(d)' = AckedTo(d) /\ Once(written'[d], InAck)
      BY <3>2, <3>3, <3>4
    <3>. QED
      BY <1>2, <1>3, <3>1, <3>5
  <2>3. CASE SendsA(c)
    <3>1. PICK s \in SysId, p \in Out :
           /\ s = flag[c] /\ Write(c, p)
           /\ AcksIn(s) = InAck[p] \union AcksIn(s)' /\ AcksIn(s)' \intersect InAck[p] = {}
           /\ Once(out_A'[s], InAck)
           /\ \A z \in SysId \ {s} : out_A'[z] = out_A[z] /\ AcksIn(z)' = AcksIn(z)
      BY <1>0, <2>3, SentAcks
    <3>2. AckedTo(c) \intersect InAck[p] = {} /\ Once(written[c], InAck)
      BY <3>1 DEF AckedOnce
    <3>3. /\ \A d \in Conn \ {c} : AckedTo(d)' = AckedTo(d) /\ written'[d] = written[d]
          /\ AckedTo(c)' \subseteq AckedTo(c) \union InAck[p]
          /\ Once(written'[c], InAck)
      BY <1>0, <3>1, <3>2, WriteAck
    <3>4. \A z \in SysId : AcksIn(z)' \subseteq AcksIn(z) /\ AcksIn(z)' \intersect InAck[p] = {}
      BY <3>1 DEF AckedOnce
    <3>5. \A z \in SysId : Once(out_A'[z], InAck)
      BY <3>1 DEF AckedOnce
    <3>6. \A d \in Conn : AckedTo(d)' \subseteq AckedTo(d) \union InAck[p] /\ Once(written'[d], InAck)
      BY <3>3 DEF AckedOnce
    <3>7. InAck[p] \intersect Asked = {}
      BY <3>1 DEF AckedOnce
    <3>8. \A z, y \in SysId : z # y => AcksIn(z)' \intersect AcksIn(y)' = {}
      BY <3>4 DEF AckedOnce
    <3>9. \A z \in SysId : AcksIn(z)' \intersect Asked' = {}
      BY <1>1, <3>4 DEF AckedOnce
    <3>10. \A d \in Conn : /\ AckedTo(d)' \intersect Asked' = {}
                           /\ \A z \in SysId : AckedTo(d)' \intersect AcksIn(z)' = {}
      BY <1>1, <3>4, <3>6, <3>7 DEF AckedOnce
    <3>11. \A d, e \in Conn : d # e => AckedTo(d)' \intersect AckedTo(e)' = {}
      <4>1. \A e \in Conn : AckedTo(e) \intersect InAck[p] = {}
        BY <3>1 DEF AckedOnce
      <4>2. \A d, e \in Conn : d # e => AckedTo(d) \intersect AckedTo(e) = {}
        BY DEF AckedOnce
      <4>. QED
        BY <3>3, <4>1, <4>2
    <3>. QED
      BY <3>5, <3>6, <3>8, <3>9, <3>10, <3>11 DEF AckedOnce
  <2>. QED
    BY <1>2, <1>3, <1>4, <2>1, <2>2, <2>3, SendFacts DEF outVars
<1>5. ASSUME NEW t \in Thread, Process(t) PROVE AckedOnce'
  <2>1. PICK c \in Conn : c = at[t]
    BY <1>5, ProcessFacts
  <2>2. UNCHANGED <<connVars, inVars, written>>
    BY <1>5, ProcessFacts
  <2>3. CASE Answers(c)
    BY <1>0, <1>2, <1>3, <2>2, <2>3, AnswerAcks
  <2>4. CASE UNCHANGED out_A
    BY <1>2, <1>3, <2>2, <2>4
  <2>5. CASE Accepts(t)
    <3>1. PICK m \in Sm, s \in SysId, p \in Out :
           /\ m = req[t].sm /\ s = flag[at[t]] /\ InAck[p] = {m}
           /\ out_A[s] \in Seq(Out) /\ out_A'[s] = Append(out_A[s], p)
           /\ AcksIn(s)' = AcksIn(s) \union {m}
           /\ \A z \in SysId \ {s} : out_A'[z] = out_A[z] /\ AcksIn(z)' = AcksIn(z)
      BY <1>0, <2>5, AcceptAcks
    <3>2. /\ req[t].type = "SubmitSm" /\ tpc[t] = "process" /\ tpc'[t] = "store"
          /\ req'[t] = req[t]
      BY <2>5 DEF Accepts
    <3>3. InRequest[req[t]] = {m} /\ req[t] \in Request
      BY <1>5, <3>1, <3>2, ProcessFacts, CarryFacts
    <3>4. m \in Asked
      BY <3>2, <3>3, AskedParts DEF InProcess
    <3>5. m \in In("hand", t)
      BY <3>2, <3>3, SpotIs DEF InHand, HasRequest
    <3>6. Asked' \subseteq Asked \ {m}
      <4>1. /\ \A d \in Conn : m \notin In("todo", d) /\ m \notin In("private", d)
            /\ m \notin In("arriving", NoConn)
            /\ \A z \in SysId : m \notin In("shared", z)
            /\ \A u \in Thread \ {t} : m \notin In("hand", u)
        BY <3>5, KindFacts DEF OneSpot
      <4>2. /\ \A d \in Conn : m \notin All(todo'[d], InRequest) /\ m \notin All(private_in'[d], InItem)
            /\ m \notin OnArrival' /\ OnArrival' = OnArrival
            /\ \A z \in SysId : m \notin All(in_queue'[z], InItem)
        BY <2>2, <4>1, SpotIs DEF connVars, inVars, OnArrival
      <4>3. InProcess(t)' = {}
        BY <3>2 DEF InProcess
      <4>4. \A u \in Thread \ {t} : InProcess(u)' = InProcess(u) /\ m \notin InProcess(u)
        BY <1>5, <4>1, ProcessFacts, SpotIs DEF InProcess, InHand, HasRequest
      <4>5. \A u \in Thread : InProcess(u)' \subseteq Asked \ {m}
        BY <4>3, <4>4, AskedParts
      <4>6. PICK M : M = Asked \ {m}
        OBVIOUS
      <4>7. /\ \A d \in Conn : All(todo'[d], InRequest) \subseteq M /\ All(private_in'[d], InItem) \subseteq M
            /\ OnArrival' \subseteq M /\ \A z \in SysId : All(in_queue'[z], InItem) \subseteq M
        BY <2>2, <4>2, <4>6, AskedParts DEF connVars, inVars
      <4>8. \A u \in Thread : InProcess(u)' \subseteq M
        BY <4>5, <4>6
      <4>9. Asked' \subseteq M
        BY <4>7, <4>8, AskedAfter
      <4>. QED
        BY <4>6, <4>9
    <3>7. /\ \A z \in SysId : m \notin AcksIn(z)
          /\ \A d \in Conn : m \notin AckedTo(d)
      BY <3>4 DEF AckedOnce
    <3>8. Once(out_A'[s], InAck)
      <4>1. Once(out_A[s], InAck) /\ All(out_A[s], InAck) \intersect InAck[p] = {}
        BY <3>1, <3>7 DEF AckedOnce, AcksIn
      <4>. QED
        BY <3>1, <4>1, CarryAppend
    <3>9. \A z \in SysId : Once(out_A'[z], InAck)
      BY <3>1, <3>8 DEF AckedOnce
    <3>10. \A z, y \in SysId : z # y => AcksIn(z)' \intersect AcksIn(y)' = {}
      BY <3>1, <3>7 DEF AckedOnce
    <3>11. \A z \in SysId : AcksIn(z)' \intersect Asked' = {}
      BY <3>1, <3>6 DEF AckedOnce
    <3>12. \A d \in Conn : AckedTo(d)' = AckedTo(d) /\ Once(written'[d], InAck)
      BY <1>3, <2>2
    <3>13. \A d \in Conn : /\ AckedTo(d)' \intersect Asked' = {}
                           /\ \A z \in SysId : AckedTo(d)' \intersect AcksIn(z)' = {}
      BY <3>1, <3>6, <3>7, <3>12 DEF AckedOnce
    <3>14. \A d, e \in Conn : d # e => AckedTo(d)' \intersect AckedTo(e)' = {}
      BY <3>12 DEF AckedOnce
    <3>. QED
      BY <3>9, <3>10, <3>11, <3>12, <3>13, <3>14 DEF AckedOnce
  <2>. QED
    BY <1>5, <2>1, <2>3, <2>4, <2>5, ProcessFacts DEF Binds, Stores, Removes, Refuses
<1>6. CASE UNCHANGED <<out_A, written>>
  BY <1>2, <1>3, <1>6
<1>7. ASSUME NEW t \in Thread, NeedSend(t) \/ Receive(t) \/ Check(t) \/ Free(t)
      PROVE  AckedOnce'
  BY <1>6, <1>7 DEF NeedSend, Receive, Check, Free, outVars
<1>8. ASSUME NEW t \in Thread, NEW c \in Conn, Examine(t, c) PROVE AckedOnce'
  BY <1>6, <1>8 DEF Examine
<1>9. CASE IoThread \/ \E c \in Conn : Elapse(c)
  BY <1>6, <1>9 DEF IoThread, Accept, Read, Arrive, PeerClosed, Elapse, outVars
<1>10. ASSUME Vendor(Sender) \/ Vendor(Reporter) PROVE AckedOnce'
  BY <1>6, <1>10 DEF Vendor, outVars
<1>11. CASE UNCHANGED vars
  BY <1>6, <1>11 DEF vars, outVars
<1>. QED
  BY <1>4, <1>5, <1>7, <1>8, <1>9, <1>10, <1>11 DEF Next, TaskThread

-----------------------------------------------------------------------------
(* What is kept                                                            *)

LEMMA KeptParts ==
  /\ All(received_smis, InSmi) \subseteq Kept /\ All(sending, InSmi) \subseteq Kept
  /\ All(wait_dlr_list, InSmi) \subseteq Kept /\ All(reporting, InSmi) \subseteq Kept
  /\ All(dlr_list, InEntry) \subseteq Kept /\ \A t \in Thread : InStore(t) \subseteq Kept
BY DEF Kept

LEMMA KeptAfter ==
  ASSUME NEW M, \A t \in Thread : InStore(t)' \subseteq M,
         All(received_smis', InSmi) \subseteq M, All(sending', InSmi) \subseteq M,
         All(wait_dlr_list', InSmi) \subseteq M, All(reporting', InSmi) \subseteq M,
         All(dlr_list', InEntry) \subseteq M
  PROVE  Kept' \subseteq M
BY DEF Kept

LEMMA SameKept ==
  ASSUME UNCHANGED dsVars,
         \A t \in Thread : tpc'[t] = "store" => tpc[t] = "store" /\ req'[t] = req[t]
  PROVE  Kept' \subseteq Kept
<1>1. \A t \in Thread : InStore(t)' \subseteq InStore(t)
  BY DEF InStore
<1>. QED
  BY <1>1, KeptParts, KeptAfter DEF dsVars

LEMMA VendorKept ==
  ASSUME TypeInv, Vendor(Sender) \/ Vendor(Reporter)
  PROVE  Kept' \subseteq Kept
<1>0. UNCHANGED <<tpc, req>>
  BY DEF Vendor
<1>1. /\ received_smis \in Seq(Smi) /\ sending \in Seq(Smi)
      /\ wait_dlr_list \in Seq(Smi) /\ reporting \in Seq(Smi) /\ dlr_list \in Seq(DlrEntry)
  BY DEF TypeInv, TypeOK, DsTypeOK
<1>2. \A t \in Thread : InStore(t)' \subseteq Kept
  BY <1>0, KeptParts DEF InStore
<1>3. \A q \in Seq(Smi) : q # << >> =>
        /\ Head(q) \in Smi /\ InSmi[Head(q)] \subseteq All(q, InSmi)
        /\ All(Tail(q), InSmi) \subseteq All(q, InSmi)
        /\ All(<<Head(q)>>, InSmi) \subseteq All(q, InSmi)
  BY CarryTail, CarryOne
<1>4. CASE SenderTakes
  <2>1. /\ received_smis # << >> /\ received_smis' = Tail(received_smis)
        /\ sending' = << >> \/ sending' = <<Head(received_smis)>>
        /\ UNCHANGED <<wait_dlr_list, dlr_list, reporting>>
    BY <1>4 DEF SenderTakes
  <2>2. All(received_smis', InSmi) \subseteq Kept /\ All(sending', InSmi) \subseteq Kept
    BY <1>1, <1>3, <2>1, CarryEmpty, KeptParts
  <2>. QED
    BY <1>2, <2>1, <2>2, KeptParts, KeptAfter
<1>5. CASE SenderAdds
  <2>1. wait_dlr_list' = wait_dlr_list \o sending /\ sending' = << >>
        /\ UNCHANGED <<received_smis, dlr_list, reporting>>
    BY <1>5 DEF SenderAdds
  <2>2. PICK w : w = wait_dlr_list \o sending
    OBVIOUS
  <2>3. All(w, InSmi) = All(wait_dlr_list, InSmi) \union All(sending, InSmi)
    <3>1. \A r : r = wait_dlr_list \o sending =>
            /\ All(r, InSmi) = All(wait_dlr_list, InSmi) \union All(sending, InSmi)
            /\ /\ Once(wait_dlr_list, InSmi) /\ Once(sending, InSmi)
               /\ All(wait_dlr_list, InSmi) \intersect All(sending, InSmi) = {}
               => Once(r, InSmi)
      BY <1>1, CarryConcat
    <3>. QED
      BY <2>2, <3>1
  <2>4. All(wait_dlr_list', InSmi) \subseteq Kept /\ All(sending', InSmi) \subseteq Kept
    BY <2>1, <2>2, <2>3, CarryEmpty, KeptParts
  <2>. QED
    BY <1>2, <2>1, <2>4, KeptParts, KeptAfter
<1>6. CASE ReporterTakes
  <2>1. /\ wait_dlr_list # << >> /\ wait_dlr_list' = Tail(wait_dlr_list)
        /\ reporting' = <<Head(wait_dlr_list)>> /\ UNCHANGED <<received_smis, dlr_list, sending>>
    BY <1>6 DEF ReporterTakes, Erased
  <2>2. All(wait_dlr_list', InSmi) \subseteq Kept /\ All(reporting', InSmi) \subseteq Kept
    BY <1>1, <1>3, <2>1, KeptParts
  <2>. QED
    BY <1>2, <2>1, <2>2, KeptParts, KeptAfter
<1>7. CASE ReporterAdds
  <2>1. PICK x : x = reporting[1]
    OBVIOUS
  <2>2. /\ reporting # << >> /\ reporting' = << >>
        /\ dlr_list' = Append(dlr_list, [sm |-> x.sm, sysid |-> x.sysid, state |-> "DELIVERIED"])
        /\ UNCHANGED <<received_smis, wait_dlr_list, sending>>
    BY <1>7, <2>1 DEF ReporterAdds
  <2>3. x \in Smi /\ x.sm \in All(reporting, InSmi)
    <3>1. reporting[1] \in Smi /\ Head(reporting) = reporting[1]
      BY <1>1, <2>2
    <3>2. InSmi[x] = {x.sm}
      BY <2>1, <3>1, CarryFacts
    <3>. QED
      BY <1>1, <1>3, <2>1, <2>2, <3>1, <3>2
  <2>4. PICK e \in DlrEntry : /\ e = [sm |-> x.sm, sysid |-> x.sysid, state |-> "DELIVERIED"]
                              /\ InEntry[e] = {x.sm}
    <3>1. [sm |-> x.sm, sysid |-> x.sysid, state |-> "DELIVERIED"] \in DlrEntry
      BY <2>3 DEF Smi, DlrEntry, DlrState
    <3>2. InEntry[[sm |-> x.sm, sysid |-> x.sysid, state |-> "DELIVERIED"]] = {x.sm}
      BY <3>1 DEF InEntry
    <3>. QED
      BY <3>1, <3>2
  <2>5. All(dlr_list', InEntry) = All(dlr_list, InEntry) \union {x.sm}
    BY <1>1, <2>2, <2>4, CarryAppend
  <2>6. All(dlr_list', InEntry) \subseteq Kept /\ All(reporting', InSmi) \subseteq Kept
    BY <2>2, <2>3, <2>5, CarryEmpty, KeptParts
  <2>. QED
    BY <1>2, <2>2, <2>6, KeptParts, KeptAfter
<1>. QED
  BY <1>4, <1>5, <1>6, <1>7 DEF Vendor, Sender, Reporter

\* Marking a report or removing it adds none.
LEMMA EntriesStay ==
  ASSUME TypeInv, NoneTwice
  PROVE  /\ \A c \in Conn : SendDeliverySm(c) => All(dlr_list', InEntry) \subseteq All(dlr_list, InEntry)
         /\ \A m : RemoveDlr(m) => All(dlr_list', InEntry) \subseteq All(dlr_list, InEntry)
<1>0. DsTypeOK /\ dlr_list \in Seq(DlrEntry) /\ Once(dlr_list, InEntry)
  BY DEF TypeInv, TypeOK, DsTypeOK, NoneTwice
<1>1. ASSUME NEW c \in Conn, SendDeliverySm(c)
      PROVE  All(dlr_list', InEntry) \subseteq All(dlr_list, InEntry)
  <2>1. CASE UNCHANGED dlr_list
    BY <2>1
  <2>2. ASSUME NEW i \in DOMAIN dlr_list, IsNextToPush(flag[c], i), dlr_list' = Marked(i)
        PROVE  All(dlr_list', InEntry) \subseteq All(dlr_list, InEntry)
    BY <1>0, <2>2, MarkFacts DEF IsNextToPush, ToPush
  <2>. QED
    BY <1>1, <2>1, <2>2 DEF SendDeliverySm
<1>2. ASSUME NEW m, RemoveDlr(m)
      PROVE  All(dlr_list', InEntry) \subseteq All(dlr_list, InEntry)
  <2>1. CASE UNCHANGED dlr_list
    BY <2>1
  <2>2. ASSUME NEW k \in 1..Len(dlr_list),
               dlr_list' = SubSeq(dlr_list, 1, k - 1) \o SubSeq(dlr_list, k + 1, Len(dlr_list))
        PROVE  All(dlr_list', InEntry) \subseteq All(dlr_list, InEntry)
    <3>1. PICK u : u = SubSeq(dlr_list, 1, k - 1) \o SubSeq(dlr_list, k + 1, Len(dlr_list))
      OBVIOUS
    <3>2. /\ u \in Seq(DlrEntry) /\ Len(u) = Len(dlr_list) - 1
          /\ \A i \in 1..(Len(dlr_list) - 1) :
               u[i] = IF i < k THEN dlr_list[i] ELSE dlr_list[i + 1]
      BY <1>0, <3>1, WithoutFacts
    <3>3. dlr_list' = u
      BY <2>2, <3>1
    <3>4. All(u, InEntry) \subseteq All(dlr_list, InEntry)
      BY <1>0, <3>2, CarryWithout
    <3>. QED
      BY <3>3, <3>4
  <2>. QED
    BY <1>0, <1>2, <2>1, <2>2, RemoveDlrFacts
<1>. QED
  BY <1>1, <1>2

\* Only a message that is being acked comes to be kept.
LEMMA KeptStep ==
  ASSUME TypeInv, NoneTwice, [Next]_vars
  PROVE  \/ Kept' \subseteq Kept
         \/ \E t \in Thread : /\ Process(t) /\ Accepts(t)
                              /\ Kept' \subseteq Kept \union {req[t].sm}
<1>. DEFINE Goal == \/ Kept' \subseteq Kept
                    \/ \E t \in Thread : /\ Process(t) /\ Accepts(t)
                                         /\ Kept' \subseteq Kept \union {req[t].sm}
<1>0. tpc \in [Thread -> ThreadPcs]
  BY DEF TypeInv, TypeOK, ThreadTypeOK
<1>1. ASSUME NEW c \in Conn, SendDeliverySm(c),
             UNCHANGED <<received_smis, wait_dlr_list, sending, reporting>>,
             \A t \in Thread : InStore(t)' \subseteq InStore(t)
      PROVE  Kept' \subseteq Kept
  BY <1>1, EntriesStay, KeptParts, KeptAfter
<1>2. ASSUME NEW t \in Thread, NEW c \in Conn, Examine(t, c) PROVE Kept' \subseteq Kept
  <2>1. /\ UNCHANGED <<received_smis, wait_dlr_list, sending, reporting, req>>
        /\ UNCHANGED dlr_list \/ SendDeliverySm(c)
        /\ tpc' = tpc \/ (tpc[t] = "idle" /\ tpc' = [tpc EXCEPT ![t] = "need_send"])
    BY <1>2 DEF Examine
  <2>2. \A u \in Thread : tpc'[u] = "store" => tpc[u] = "store" /\ req'[u] = req[u]
    BY <1>0, <2>1
  <2>3. \A u \in Thread : InStore(u)' \subseteq InStore(u)
    BY <2>2 DEF InStore
  <2>. QED
    BY <1>1, <2>1, <2>2, <2>3, SameKept DEF dsVars
<1>3. ASSUME NEW t \in Thread, NeedSend(t) PROVE Kept' \subseteq Kept
  <2>1. PICK pc : pc = IF SomethingToSend(at[t], out_B')
                       THEN ThenSend[tpc[t]] ELSE ElseGoOn[tpc[t]]
    OBVIOUS
  <2>2. tpc[t] \in Looks /\ tpc' = [tpc EXCEPT ![t] = pc]
    BY <1>3, <2>1 DEF NeedSend
  <2>3. pc # "store" /\ at[t] \in Conn
    BY <2>1, <2>2, HasConn DEF Looks, ThenSend, ElseGoOn, TypeInv, TypeOK
  <2>4. \A u \in Thread : InStore(u)' \subseteq InStore(u)
    BY <1>0, <1>3, <2>2, <2>3 DEF InStore, NeedSend
  <2>. QED
    BY <1>1, <1>3, <2>3, <2>4 DEF NeedSend
<1>4. ASSUME NEW t \in Thread, Send(t) \/ SendB(t) PROVE Kept' \subseteq Kept
  BY <1>4, SendFacts, SameKept DEF HasRequest
<1>5. ASSUME NEW t \in Thread, Receive(t) PROVE Kept' \subseteq Kept
  BY <1>5, ReceiveFacts, SameKept DEF HasRequest, TakesOwn, TakesShared
<1>6. ASSUME NEW t \in Thread, Check(t) \/ Free(t) PROVE Kept' \subseteq Kept
  BY <1>0, <1>6, SameKept DEF Check, Free, ThreadAt
<1>7. CASE IoThread \/ \E c \in Conn : Elapse(c)
  BY <1>7, SameKept DEF IoThread, Accept, Read, Arrive, PeerClosed, Elapse
<1>8. ASSUME NEW t \in Thread, Process(t) PROVE Goal
  <2>1. PICK r \in Request : r = req[t]
    BY <1>8, ProcessFacts
  <2>2. \A u \in Thread \ {t} : InStore(u)' = InStore(u)
    BY <1>8, ProcessFacts DEF InStore
  <2>3. CASE ~HasRequest(t)' /\ UNCHANGED dsVars
    BY <1>8, <2>3, ProcessFacts, SameKept DEF HasRequest
  <2>4. CASE Accepts(t)
    <3>1. PICK M : M = Kept \union {r.sm}
      OBVIOUS
    <3>2. InStore(t)' \subseteq {r.sm}
      BY <2>1, <2>4, CarryFacts DEF Accepts, InStore
    <3>3. \A u \in Thread : InStore(u)' \subseteq M
      BY <2>2, <3>1, <3>2, KeptParts
    <3>4. Kept \subseteq M /\ UNCHANGED dsVars
      BY <2>4, <3>1 DEF Accepts
    <3>5. Kept' \subseteq M
      BY <3>3, <3>4, KeptParts, KeptAfter DEF dsVars
    <3>. QED
      BY <1>8, <2>1, <2>4, <3>1, <3>5
  <2>5. CASE Stores(t)
    <3>1. /\ tpc[t] = "store" /\ r.type = "SubmitSm" /\ r.sm \in Sm /\ ~HasRequest(t)'
          /\ received_smis' = Append(received_smis, [sm |-> r.sm, sysid |-> flag[at[t]]])
          /\ flag[at[t]] \in SysId
          /\ UNCHANGED <<wait_dlr_list, dlr_list, sending, reporting>>
      BY <2>1, <2>5 DEF Stores
    <3>2. r.sm \in InStore(t) /\ InStore(t)' = {}
      BY <2>1, <3>1, CarryFacts DEF InStore, HasRequest
    <3>3. PICK x \in Smi : x = [sm |-> r.sm, sysid |-> flag[at[t]]] /\ x.sm = r.sm
      <4>1. [sm |-> r.sm, sysid |-> flag[at[t]]] \in Smi
        BY <3>1 DEF Smi
      <4>. QED
        BY <4>1
    <3>4. received_smis \in Seq(Smi)
      BY DEF TypeInv, TypeOK, DsTypeOK
    <3>5. All(received_smis', InSmi) = All(received_smis, InSmi) \union {r.sm}
      BY <3>1, <3>3, <3>4, CarryAppend, CarryFacts
    <3>6. All(received_smis', InSmi) \subseteq Kept
      BY <3>2, <3>5, KeptParts
    <3>7. \A u \in Thread : InStore(u)' \subseteq Kept
      BY <2>2, <3>2, KeptParts
    <3>8. Kept' \subseteq Kept
      BY <3>1, <3>6, <3>7, KeptParts, KeptAfter
    <3>. QED
      BY <3>8
  <2>6. CASE Removes(t)
    <3>1. /\ ~HasRequest(t)' /\ RemoveDlr(r.sm)
          /\ UNCHANGED <<received_smis, wait_dlr_list, sending, reporting>>
      BY <2>1, <2>6 DEF Removes
    <3>2. All(dlr_list', InEntry) \subseteq Kept
      BY <3>1, EntriesStay, KeptParts
    <3>3. InStore(t)' = {}
      BY <3>1 DEF InStore, HasRequest
    <3>4. \A u \in Thread : InStore(u)' \subseteq Kept
      BY <2>2, <3>3, KeptParts
    <3>5. Kept' \subseteq Kept
      BY <3>1, <3>2, <3>4, KeptParts, KeptAfter
    <3>. QED
      BY <3>5
  <2>. QED
    BY <1>8, <2>3, <2>4, <2>5, <2>6, ProcessFacts DEF Binds, Refuses
<1>9. CASE UNCHANGED vars
  BY <1>9, SameKept DEF vars
<1>. QED
  BY <1>2, <1>3, <1>4, <1>5, <1>6, <1>7, <1>8, <1>9, VendorKept DEF Next, TaskThread

-----------------------------------------------------------------------------
(* The client that submits alone                                           *)

LEMMA LoneFacts ==
  ASSUME LoneSession, TypeInv, Owners, OwnBinds, NEW L, L = Lone
  PROVE  /\ L \in Conn
         /\ \A d \in Conn \ {L} : flag[d] # NoSysId => flag[d] # flag[L]
         /\ \A s, m : m \in Owned(s) => s = flag[L] /\ s # NoSysId
         /\ \A s \in SysId : s # flag[L] => AcksIn(s) = {} /\ All(out_B[s], InOut) = {}
         /\ \A t \in Thread : HasRequest(t) /\ req[t].type = "SubmitSm" /\ flag[at[t]] \in SysId
                                => at[t] = L
<1>1. L \in Conn
  BY DEF LoneSession, Lone
<1>2. \A d \in Conn \ {L} : (\A m \in Sm : ~Submits(d, m)) /\ BindsTo(d) \intersect BindsTo(L) = {}
  BY DEF LoneSession
<1>3. ASSUME NEW d \in Conn \ {L}, flag[d] # NoSysId PROVE flag[d] # flag[L]
  BY <1>1, <1>2, <1>3 DEF OwnBinds
<1>4. ASSUME NEW s, NEW m, m \in Owned(s) PROVE s = flag[L] /\ s # NoSysId
  <2>1. PICK d \in Conn : m \in Sm /\ s # NoSysId /\ flag[d] = s /\ Submits(d, m)
    BY <1>4 DEF Owned
  <2>. QED
    BY <1>2, <2>1
<1>5. ASSUME NEW s \in SysId, s # flag[L] PROVE AcksIn(s) = {} /\ All(out_B[s], InOut) = {}
  <2>1. out_A[s] \in Seq(AccountAck(s)) /\ out_B[s] \in Seq(AccountDlr(s))
    BY DEF Owners, OutInv
  <2>2. \A m : m \notin Owned(s)
    BY <1>4, <1>5
  <2>3. \A p \in AccountAck(s) : InAck[p] = {}
    BY <2>2, AckFacts DEF AccountAck
  <2>4. \A p \in AccountDlr(s) : InOut[p] = {}
    BY <2>2 DEF AccountDlr
  <2>. QED
    BY <2>1, <2>3, <2>4 DEF AcksIn, All
<1>6. ASSUME NEW t \in Thread, HasRequest(t), req[t].type = "SubmitSm", flag[at[t]] \in SysId
      PROVE  at[t] = L
  <2>1. at[t] \in Conn /\ req[t] \in Request /\ flag[at[t]] # NoSysId
    BY <1>6, HasConn, NamesAssumption DEF HasRequest, TypeInv, TypeOK, ThreadTypeOK
  <2>2. req[t].sm \in Sm
    BY <1>6, <2>1, RequestFacts
  <2>3. CASE Submits(at[t], req[t].sm)
    BY <1>2, <2>1, <2>2, <2>3
  <2>4. CASE req[t].sm \in Owned(flag[at[t]])
    BY <1>3, <1>4, <2>1, <2>4
  <2>. QED
    BY <1>6, <2>3, <2>4 DEF Owners, HandInv, HasRequest
<1>. QED
  BY <1>1, <1>3, <1>4, <1>5, <1>6

\* An ack is on its way or written before its message is kept.
AckOf(L, m) == m \in AckedTo(L) \/ \E s \in SysId : m \in AcksIn(s)

LEMMA AckFirstAfter ==
  ASSUME AckFirst, NEW L, L = Lone,
         \A s \in SysId : AcksIn(s)' \subseteq AcksIn(s),
         sock'[L] # "closed" =>
           /\ sock[L] # "closed" /\ Kept' \subseteq Kept
           /\ \A m : AckOf(L, m) => m \in AckedTo(L)' \/ \E s \in SysId : m \in AcksIn(s)',
         state'[L] \in {"OPEN", "BOUND_RX"} => state[L] \in {"OPEN", "BOUND_RX"},
         \A t \in Thread : tpc'[t] \in QueueBPcs /\ at'[t] = L =>
           \/ tpc[t] \in QueueBPcs /\ at[t] = L
           \/ \A s \in SysId : AcksIn(s) = {}
  PROVE  AckFirst'
<1>1. sock'[L] # "closed" => Kept' \subseteq AckedTo(L)' \union UNION {AcksIn(s)' : s \in SysId}
  BY DEF AckFirst, AckOf
<1>2. state'[L] \in {"OPEN", "BOUND_RX"} => \A s \in SysId : AcksIn(s)' = {}
  BY DEF AckFirst
<1>3. \A t \in Thread : tpc'[t] \in QueueBPcs /\ at'[t] = L => \A s \in SysId : AcksIn(s)' = {}
  BY DEF AckFirst
<1>. QED
  BY <1>1, <1>2, <1>3 DEF AckFirst

LEMMA AckFirstStep ==
  ASSUME LoneSession, TypeInv, Owners, NoneTwice, Connected, Protocol, OwnBinds, AckedOnce,
         AckFirst, [Next]_vars
  PROVE  AckFirst'
<1>0. /\ tpc \in [Thread -> ThreadPcs] /\ state \in [Conn -> States] /\ QueueTypeOK
      /\ sock \in [Conn -> Socks] /\ at \in [Thread -> Conn \union {NoConn}]
  BY DEF TypeInv, TypeOK, ThreadTypeOK, SessionTypeOK, ConnTypeOK
<1>. PICK L : L = Lone
  OBVIOUS
<1>1. /\ L \in Conn
      /\ \A d \in Conn \ {L} : flag[d] # NoSysId => flag[d] # flag[L]
      /\ \A s \in SysId : s # flag[L] => AcksIn(s) = {}
      /\ \A t \in Thread : HasRequest(t) /\ req[t].type = "SubmitSm" /\ flag[at[t]] \in SysId
                             => at[t] = L
  BY LoneFacts
<1>2. ASSUME NEW t \in Thread, Process(t), Accepts(t) PROVE AckFirst'
  <2>1. PICK m \in Sm, s \in SysId, p \in Out :
          /\ m = req[t].sm /\ s = flag[at[t]] /\ InAck[p] = {m}
          /\ out_A[s] \in Seq(Out) /\ out_A'[s] = Append(out_A[s], p)
          /\ AcksIn(s)' = AcksIn(s) \union {m}
          /\ \A z \in SysId \ {s} : out_A'[z] = out_A[z] /\ AcksIn(z)' = AcksIn(z)
    BY <1>0, <1>2, AcceptAcks
  <2>2. at[t] = L /\ tpc'[t] = "store"
    BY <1>1, <1>2, <2>1 DEF Accepts, HasRequest
  <2>3. /\ UNCHANGED <<at, sock, written>>
        /\ \A u \in Thread \ {t} : tpc'[u] = tpc[u] /\ at[u] # L
    BY <1>1, <1>2, <2>2, ProcessFacts, NamesAssumption DEF connVars, TypeInv, WorkInvariant, OneWorker
  <2>4. TxAble(state[L]) /\ UNCHANGED state
    <3>1. ProcessSubmitSm(t)
      BY <1>0, <1>2, <2>2 DEF Process, Processes, ThreadAt, ProcessBadSequence, ProcessInvalid,
         ProcessBind, Store, ProcessUnbind, ProcessEnquireLink, ProcessQuerySm,
         ProcessDeliverSmResp, ProcessMalformedResp
    <3>. QED
      BY <2>2, <3>1 DEF ProcessSubmitSm, Valid, sessionVars
  <2>5. Kept' \subseteq Kept \union {m}
    <3>1. ASSUME NEW u \in Thread, Process(u), Accepts(u) PROVE u = t
      BY <1>2, <3>1, ProcessFacts DEF Accepts
    <3>. QED
      BY <2>1, <3>1, KeptStep
  <2>6. AckedTo(L)' = AckedTo(L)
    BY <2>3, AckFacts DEF AckedTo
  <2>7. sock'[L] # "closed" => Kept' \subseteq AckedTo(L)' \union UNION {AcksIn(z)' : z \in SysId}
    BY <2>1, <2>3, <2>5, <2>6 DEF AckFirst
  <2>8. state'[L] \notin {"OPEN", "BOUND_RX"}
    BY <2>4 DEF TxAble
  <2>9. \A u \in Thread : tpc'[u] \in QueueBPcs => at'[u] # L
    BY <2>2, <2>3 DEF QueueBPcs
  <2>. QED
    BY <2>7, <2>8, <2>9 DEF AckFirst
<1>3. ASSUME ~ \E t \in Thread : Process(t) /\ Accepts(t) PROVE AckFirst'
  <2>1. Kept' \subseteq Kept
    BY <1>3, KeptStep
  \* Nothing is acked, nothing is bound, no thread comes to look at a queue B.
  <2>2. ASSUME UNCHANGED <<out_A, written, state>>,
               \A c \in Conn : sock'[c] = "closed" \/ sock[c] # "closed",
               \A t \in Thread : tpc'[t] \in QueueBPcs => tpc[t] \in QueueBPcs /\ at'[t] = at[t]
        PROVE  AckFirst'
    <3>1. AckedTo(L)' = AckedTo(L) /\ \A s \in SysId : AcksIn(s)' = AcksIn(s)
      BY <2>2, AckFacts DEF AckedTo, AcksIn
    <3>. QED
      BY <1>1, <2>1, <2>2, <3>1, AckFirstAfter DEF AckOf
  <2>3. CASE UNCHANGED vars
    BY <2>2, <2>3 DEF vars, connVars, sessionVars, outVars
  <2>4. ASSUME NEW c \in Conn, Accept(c) PROVE AckFirst'
    BY <1>0, <2>2, <2>4 DEF Accept, sessionVars, outVars
  <2>5. CASE Arrive \/ \E c \in Conn : Read(c) \/ Elapse(c)
    BY <2>2, <2>5 DEF Arrive, Read, Elapse, connVars, sessionVars, outVars
  <2>6. ASSUME NEW c \in Conn, PeerClosed(c) PROVE AckFirst'
    BY <1>0, <2>2, <2>6 DEF PeerClosed, RemoveConnection, sessionVars
  <2>7. ASSUME Vendor(Sender) \/ Vendor(Reporter) PROVE AckFirst'
    BY <2>2, <2>7 DEF Vendor, connVars, sessionVars, outVars
  <2>8. ASSUME NEW t \in Thread, NEW c \in Conn, Examine(t, c) PROVE AckFirst'
    <3>1. \A u \in Thread : tpc'[u] \in QueueBPcs => tpc[u] \in QueueBPcs /\ at'[u] = at[u]
      BY <1>0, <2>8 DEF Examine, QueueBPcs
    <3>. QED
      BY <2>2, <2>8, <3>1 DEF Examine, connVars, sessionVars
  <2>9. ASSUME NEW t \in Thread, NeedSend(t) PROVE AckFirst'
    <3>1. PICK pc : pc = IF SomethingToSend(at[t], out_B')
                         THEN ThenSend[tpc[t]] ELSE ElseGoOn[tpc[t]]
      OBVIOUS
    <3>2. tpc[t] \in Looks /\ tpc' = [tpc EXCEPT ![t] = pc]
      BY <2>9, <3>1 DEF NeedSend
    <3>3. pc \notin QueueBPcs
      BY <3>1, <3>2 DEF Looks, ThenSend, ElseGoOn, QueueBPcs
    <3>4. \A u \in Thread : tpc'[u] \in QueueBPcs => tpc[u] \in QueueBPcs
      BY <1>0, <3>2, <3>3
    <3>. QED
      BY <2>2, <2>9, <3>4 DEF NeedSend, connVars, sessionVars
  <2>10. ASSUME NEW t \in Thread, Receive(t) PROVE AckFirst'
    <3>1. tpc'[t] \notin QueueBPcs
      BY <1>0, <2>10 DEF Receive, ThreadAt, QueueBPcs
    <3>2. /\ UNCHANGED <<at, state, out_A, written, sock>>
          /\ \A u \in Thread \ {t} : tpc'[u] = tpc[u]
      BY <2>10, ReceiveFacts DEF sessionVars, connVars, outVars
    <3>. QED
      BY <2>2, <3>1, <3>2
  <2>11. ASSUME NEW t \in Thread, Check(t) \/ Free(t) PROVE AckFirst'
    <3>1. /\ tpc'[t] \notin QueueBPcs
          /\ \A u \in Thread \ {t} : tpc'[u] = tpc[u] /\ at'[u] = at[u]
          /\ UNCHANGED <<state, out_A, written>>
      BY <1>0, <2>11 DEF Check, Free, ThreadAt, QueueBPcs, sessionVars, outVars
    <3>2. \A c \in Conn : sock'[c] = "closed" \/ sock[c] # "closed"
      BY <1>0, <2>11 DEF Check, Free, RemoveConnection, connVars
    <3>. QED
      BY <2>2, <3>1, <3>2
  <2>12. ASSUME NEW t \in Thread, Send(t) \/ SendB(t) PROVE AckFirst'
    <3>0. PICK c \in Conn : c = at[t]
      BY <2>12, SendFacts
    <3>1. /\ UNCHANGED <<at, state, sock, flag>>
          /\ \A u \in Thread \ {t} : tpc'[u] = tpc[u]
      BY <2>12, SendFacts DEF connVars, sessionVars
    <3>2. sock[c] = "open" \/ sock[c] = "closed"
      BY <1>0, <3>0 DEF Connected, TypeInv, WorkInvariant, OneWorker, Socks
    <3>3. tpc[t] \in QueueBPcs => private_out[at[t]] = << >>
      BY DEF Protocol
    <3>4. ASSUME \A s \in SysId : AcksIn(s)' \subseteq AcksIn(s),
                 sock[L] # "closed" =>
                   \A m : AckOf(L, m) => m \in AckedTo(L)' \/ \E s \in SysId : m \in AcksIn(s)',
                 tpc'[t] \in QueueBPcs /\ c = L => \A s \in SysId : AcksIn(s) = {}
          PROVE  AckFirst'
      BY <2>1, <3>0, <3>1, <3>4, AckFirstAfter
    <3>5. CASE (SendsOwn(c) \/ SendsB(c)) /\ tpc'[t] \notin QueueBPcs
      <4>1. PICK p \in Out : InAck[p] = {} /\ Write(c, p) /\ UNCHANGED out_A
        BY <3>5, QuietSends
      <4>2. AckedTo(c) \intersect InAck[p] = {} /\ \A d \in Conn : Once(written[d], InAck)
        BY <4>1 DEF AckedOnce
      <4>3. \A d \in Conn : AckedTo(d) \subseteq AckedTo(d)'
        BY <1>0, <4>1, <4>2, WriteAck
      <4>4. \A s \in SysId : AcksIn(s)' = AcksIn(s)
        BY <4>1, AckFacts DEF AcksIn
      <4>. QED
        BY <1>1, <3>4, <3>5, <4>3, <4>4 DEF AckOf
    <3>6. CASE SendsA(c) /\ tpc'[t] \notin QueueBPcs
      <4>1. PICK s \in SysId, p \in Out :
           /\ s = flag[c] /\ Write(c, p) /\ AcksIn(s) = InAck[p] \union AcksIn(s)'
           /\ \A z \in SysId \ {s} : AcksIn(z)' = AcksIn(z)
        BY <1>0, <3>6, SentAcks
      <4>2. AckedTo(c) \intersect InAck[p] = {} /\ Once(written[c], InAck)
        BY <4>1 DEF AckedOnce
      <4>3. /\ \A d \in Conn : AckedTo(d) \subseteq AckedTo(d)'
            /\ sock[c] = "open" => AckedTo(c)' = AckedTo(c) \union InAck[p]
        BY <1>0, <4>1, <4>2, WriteAck
      <4>4. c # L => InAck[p] = {}
        BY <1>1, <4>1, NamesAssumption
      <4>5. \A z \in SysId : AcksIn(z)' \subseteq AcksIn(z) /\ AcksIn(z) \subseteq AcksIn(z)' \union InAck[p]
        BY <4>1
      <4>6. sock[L] # "closed" => InAck[p] \subseteq AckedTo(L)'
        BY <3>2, <4>3, <4>4
      <4>7. sock[L] # "closed" =>
              \A m : AckOf(L, m) => m \in AckedTo(L)' \/ \E z \in SysId : m \in AcksIn(z)'
        BY <1>1, <4>3, <4>5, <4>6 DEF AckOf
      <4>. QED
        BY <3>4, <3>6, <4>5, <4>7
    <3>7. CASE /\ UNCHANGED <<private_out, out_A, out_B, written>>
               /\ tpc'[t] \in QueueBPcs =>
                    /\ private_out[c] = << >> /\ RxAble(state[c])
                    /\ TxAble(state[c]) => out_A[flag[c]] = << >>
      <4>1. AckedTo(L)' = AckedTo(L) /\ \A s \in SysId : AcksIn(s)' = AcksIn(s)
        BY <3>7, AckFacts DEF AckedTo, AcksIn
      <4>2. ASSUME tpc'[t] \in QueueBPcs, c = L PROVE \A s \in SysId : AcksIn(s) = {}
        <5>1. CASE TxAble(state[L])
          BY <1>1, <3>7, <4>2, <5>1, CarryEmpty DEF AcksIn
        <5>2. CASE ~TxAble(state[L])
          <6>1. state[L] = "BOUND_RX"
            BY <3>7, <4>2, <5>2 DEF TxAble, RxAble
          <6>. QED
            BY <6>1 DEF AckFirst
        <5>. QED
          BY <5>1, <5>2
      <4>. QED
        BY <3>4, <4>1, <4>2 DEF AckOf
    <3>. QED
      BY <2>12, <3>0, <3>3, <3>5, <3>6, <3>7, SendKinds
  <2>13. ASSUME NEW t \in Thread, Process(t) PROVE AckFirst'
    <3>0. PICK c \in Conn : c = at[t]
      BY <2>13, ProcessFacts
    <3>1. /\ UNCHANGED <<at, sock, written>>
          /\ \A u \in Thread \ {t} : tpc'[u] = tpc[u]
      BY <2>13, ProcessFacts DEF connVars
    <3>2. /\ tpc'[t] \notin QueueBPcs
          /\ \A d \in Conn : state'[d] = state[d] \/ state[d] = "OPEN" \/ state'[d] = "CLOSED"
      BY <2>13, <3>0, ProcessSays DEF MaySay
    <3>3. \A s \in SysId : AcksIn(s)' = AcksIn(s)
      <4>1. UNCHANGED out_A => \A s \in SysId : AcksIn(s)' = AcksIn(s)
        BY AckFacts DEF AcksIn
      <4>. QED
        BY <1>0, <1>3, <2>13, <3>0, <4>1, ProcessFacts, AnswerAcks
           DEF Binds, Stores, Removes, Refuses
    <3>4. AckedTo(L)' = AckedTo(L)
      BY <3>1, AckFacts DEF AckedTo
    <3>5. state'[L] \in {"OPEN", "BOUND_RX"} => state[L] \in {"OPEN", "BOUND_RX"}
      BY <1>1, <3>2
    <3>6. \A u \in Thread : tpc'[u] \in QueueBPcs => tpc[u] \in QueueBPcs /\ at'[u] = at[u]
      BY <3>1, <3>2
    <3>. QED
      BY <2>1, <3>1, <3>3, <3>4, <3>5, <3>6, AckFirstAfter DEF AckOf
  <2>. QED
    BY <2>3, <2>4, <2>5, <2>6, <2>7, <2>8, <2>9, <2>10, <2>11, <2>12, <2>13
       DEF Next, IoThread, TaskThread
<1>. QED
  BY <1>2, <1>3

-----------------------------------------------------------------------------
(* The session as its client sees it                                       *)

\* The phase after the PDUs of q, and how often they say something.
PhaseIn(q) == IF \E j \in DOMAIN q : q[j].type = "UnbindResp" THEN "unbound"
              ELSE IF \E i \in DOMAIN q : Confirms(q[i]) THEN "bound"
              ELSE "open"
Counts(q, type) == [m \in Sm |-> Occurrences(q, type, m)]

\* From one phase to the next, or nothing changes.
Goes(from, to) == \/ to = from
                  \/ from = "open" /\ to = "bound"
                  \/ from = "bound" /\ to = "unbound"

\* From the count f to the count g a first m is counted.
First(f, g, m) == f[m] = 0 /\ g = [f EXCEPT ![m] = 1]

LEMMA AppendIs ==
  ASSUME NEW q \in Seq(Out), NEW p \in Out, NEW r, r = Append(q, p)
  PROVE  /\ \A i \in DOMAIN q : i \in DOMAIN r /\ r[i] = q[i]
         /\ \A i \in DOMAIN r : (i \in DOMAIN q /\ r[i] = q[i]) \/ (i = Len(q) + 1 /\ r[i] = p)
         /\ Len(q) + 1 \in DOMAIN r /\ r[Len(q) + 1] = p
<1>1. /\ DOMAIN q = 1..Len(q) /\ DOMAIN r = 1..(Len(q) + 1) /\ Len(q) \in Nat
      /\ \A i \in 1..Len(q) : r[i] = q[i]
      /\ r[Len(q) + 1] = p
  BY LenProperties, AppendProperties
<1>. QED
  BY <1>1

LEMMA PhaseAppend ==
  ASSUME NEW q \in Seq(Out), NEW p \in Out, NEW r, r = Append(q, p)
  PROVE  /\ p.type = "UnbindResp" => PhaseIn(r) = "unbound"
         /\ p.type # "UnbindResp" =>
              PhaseIn(r) = PhaseIn(q) \/ (PhaseIn(q) = "open" /\ PhaseIn(r) = "bound")
         /\ p.type \notin {"BindResp", "UnbindResp"} => PhaseIn(r) = PhaseIn(q)
<1>1. /\ \A i \in DOMAIN q : i \in DOMAIN r /\ r[i] = q[i]
      /\ \A i \in DOMAIN r : (i \in DOMAIN q /\ r[i] = q[i]) \/ (i = Len(q) + 1 /\ r[i] = p)
      /\ Len(q) + 1 \in DOMAIN r /\ r[Len(q) + 1] = p
  BY AppendIs
<1>3. p.type = "UnbindResp" => PhaseIn(r) = "unbound"
  BY <1>1 DEF PhaseIn
<1>4. ASSUME p.type # "UnbindResp"
      PROVE  PhaseIn(r) = PhaseIn(q) \/ (PhaseIn(q) = "open" /\ PhaseIn(r) = "bound")
  BY <1>1, <1>4 DEF PhaseIn
<1>5. ASSUME p.type \notin {"BindResp", "UnbindResp"} PROVE PhaseIn(r) = PhaseIn(q)
  <2>1. ~Confirms(p)
    BY <1>5 DEF Confirms
  <2>. QED
    BY <1>1, <1>5, <2>1 DEF PhaseIn
<1>. QED
  BY <1>3, <1>4, <1>5

\* What a session says of its own accord binds it, unbinds it, or is neither.
LEMMA PhaseSaid ==
  ASSUME NEW q \in Seq(Out), NEW p \in Out, NEW rest \in Seq(Out), NEW st, NEW r, r = Append(q, p),
         NEW z, z = r \o rest, Follows(z, st)
  PROVE  Goes(PhaseIn(q), PhaseIn(r))
<1>1. CASE p.type # "UnbindResp"
  BY <1>1, PhaseAppend DEF Goes
<1>2. CASE p.type = "UnbindResp"
  <2>1. /\ r \in Seq(Out) /\ DOMAIN q = 1..Len(q) /\ Len(r) = Len(q) + 1 /\ Len(q) \in Nat
        /\ \A i \in 1..Len(q) : r[i] = q[i]
        /\ r[Len(q) + 1] = p
    BY LenProperties, AppendProperties
  <2>2. /\ DOMAIN z = 1..Len(z) /\ Len(z) \in Nat /\ Len(z) >= Len(q) + 1
        /\ \A i \in 1..(Len(q) + 1) : z[i] = r[i]
    <3>1. /\ z \in Seq(Out) /\ Len(z) = Len(r) + Len(rest)
          /\ \A i \in 1..Len(z) : z[i] = IF i <= Len(r) THEN r[i] ELSE rest[i - Len(r)]
      BY <2>1, ConcatProperties
    <3>2. Len(rest) \in Nat /\ DOMAIN z = 1..Len(z) /\ Len(z) \in Nat
      BY <3>1, LenProperties
    <3>. QED
      BY <2>1, <3>1, <3>2
  <2>3. Len(q) + 1 \in DOMAIN z /\ z[Len(q) + 1].type = "UnbindResp"
    BY <1>2, <2>1, <2>2
  <2>4. PICK i \in DOMAIN z : i < Len(q) + 1 /\ Confirms(z[i])
    BY <2>3 DEF Follows
  <2>5. i \in DOMAIN q /\ Confirms(q[i])
    BY <2>1, <2>2, <2>4
  <2>6. PhaseIn(q) \in {"bound", "unbound"}
    BY <2>5 DEF PhaseIn
  <2>. QED
    BY <1>2, <2>6, PhaseAppend DEF Goes
<1>. QED
  BY <1>1, <1>2

LEMMA SameCounts ==
  ASSUME NEW q \in Seq(Out), NEW p \in Out, NEW r, r = Append(q, p), NEW type, p.type # type
  PROVE  Counts(r, type) = Counts(q, type)
<1>1. /\ \A i \in DOMAIN q : i \in DOMAIN r /\ r[i] = q[i]
      /\ \A i \in DOMAIN r : (i \in DOMAIN q /\ r[i] = q[i]) \/ (i = Len(q) + 1 /\ r[i] = p)
      /\ Len(q) + 1 \in DOMAIN r /\ r[Len(q) + 1] = p
  BY AppendIs
<1>2. ASSUME NEW m PROVE Occurrences(r, type, m) = Occurrences(q, type, m)
  <2>1. {i \in DOMAIN r : r[i].type = type /\ r[i].sm = m}
          = {i \in DOMAIN q : q[i].type = type /\ q[i].sm = m}
    BY <1>1
  <2>. QED
    BY <2>1 DEF Occurrences
<1>. QED
  BY <1>2 DEF Counts

LEMMA OneMoreCounted ==
  ASSUME NEW q \in Seq(Out), NEW p \in Out, NEW r, r = Append(q, p), NEW type, NEW m \in Sm,
         p.type = type, p.sm = m, ~Has(q, type, m)
  PROVE  First(Counts(q, type), Counts(r, type), m)
<1>1. /\ \A i \in DOMAIN q : i \in DOMAIN r /\ r[i] = q[i]
      /\ \A i \in DOMAIN r : (i \in DOMAIN q /\ r[i] = q[i]) \/ (i = Len(q) + 1 /\ r[i] = p)
      /\ Len(q) + 1 \in DOMAIN r /\ r[Len(q) + 1] = p
  BY AppendIs
<1>2. ASSUME NEW n, n # m
      PROVE  Occurrences(r, type, n) = Occurrences(q, type, n)
  <2>1. {i \in DOMAIN r : r[i].type = type /\ r[i].sm = n}
          = {i \in DOMAIN q : q[i].type = type /\ q[i].sm = n}
    BY <1>1, <1>2
  <2>. QED
    BY <2>1 DEF Occurrences
<1>3. Occurrences(q, type, m) = 0 /\ Occurrences(r, type, m) = 1
  <2>1. {i \in DOMAIN q : q[i].type = type /\ q[i].sm = m} = {}
    BY DEF Has
  <2>2. {i \in DOMAIN r : r[i].type = type /\ r[i].sm = m} = {Len(q) + 1}
    BY <1>1, <2>1
  <2>. QED
    BY <2>1, <2>2, FS_EmptySet, FS_Singleton DEF Occurrences
<1>. QED
  BY <1>2, <1>3 DEF Counts, First

\* What writing the PDU p does to the counts.
LEMMA WrittenCounts ==
  ASSUME NEW q \in Seq(Out), NEW p \in Out, NEW r, r = Append(q, p)
  PROVE  /\ p.type # "SubmitSmResp" => Counts(r, "SubmitSmResp") = Counts(q, "SubmitSmResp")
         /\ p.type # "Dlr" => Counts(r, "Dlr") = Counts(q, "Dlr")
         /\ \A m \in Sm :
              p.type = "SubmitSmResp" /\ p.sm = m /\ ~Has(q, "SubmitSmResp", m) =>
                First(Counts(q, "SubmitSmResp"), Counts(r, "SubmitSmResp"), m)
         /\ \A m \in Sm :
              p.type = "Dlr" /\ p.sm = m /\ ~Has(q, "Dlr", m) =>
                First(Counts(q, "Dlr"), Counts(r, "Dlr"), m)
<1>1. ASSUME p.type # "SubmitSmResp" PROVE Counts(r, "SubmitSmResp") = Counts(q, "SubmitSmResp")
  BY <1>1, SameCounts
<1>2. ASSUME p.type # "Dlr" PROVE Counts(r, "Dlr") = Counts(q, "Dlr")
  BY <1>2, SameCounts
<1>3. ASSUME NEW m \in Sm, p.type = "SubmitSmResp", p.sm = m, ~Has(q, "SubmitSmResp", m)
      PROVE  First(Counts(q, "SubmitSmResp"), Counts(r, "SubmitSmResp"), m)
  BY <1>3, OneMoreCounted
<1>4. ASSUME NEW m \in Sm, p.type = "Dlr", p.sm = m, ~Has(q, "Dlr", m)
      PROVE  First(Counts(q, "Dlr"), Counts(r, "Dlr"), m)
  BY <1>4, OneMoreCounted
<1>. QED
  BY <1>1, <1>2, <1>3, <1>4

LEMMA AckCounts ==
  ASSUME NEW q \in Seq(Out), NEW m \in Sm
  PROVE  /\ Has(q, "SubmitSmResp", m) <=> m \in All(q, InAck)
         /\ Once(q, InAck) /\ m \in All(q, InAck) => Counts(q, "SubmitSmResp")[m] = 1
<1>1. \A i \in DOMAIN q : m \in InAck[q[i]] <=> q[i].type = "SubmitSmResp" /\ q[i].sm = m
  <2>1. \A i \in DOMAIN q : q[i] \in Out
    OBVIOUS
  <2>. QED
    BY <2>1, AckFacts
<1>2. Has(q, "SubmitSmResp", m) <=> m \in All(q, InAck)
  BY <1>1 DEF Has, All
<1>3. ASSUME Once(q, InAck), m \in All(q, InAck) PROVE Counts(q, "SubmitSmResp")[m] = 1
  <2>1. PICK i \in DOMAIN q : m \in InAck[q[i]]
    BY <1>3 DEF All
  <2>2. \A j \in DOMAIN q : m \in InAck[q[j]] => j = i
    BY <1>3, <2>1 DEF Once
  <2>3. {j \in DOMAIN q : q[j].type = "SubmitSmResp" /\ q[j].sm = m} = {i}
    BY <1>1, <2>1, <2>2
  <2>. QED
    BY <2>3, FS_Singleton DEF Counts, Occurrences
<1>. QED
  BY <1>2, <1>3

SessionInv ==
  Connected /\ Shared /\ Protocol /\ OwnBinds /\ AckedOnce /\ (LoneSession => AckFirst)

LEMMA InitSession == Init => SessionInv
<1>. SUFFICES ASSUME Init PROVE SessionInv
  OBVIOUS
<1>0. /\ arriving = << >> /\ DsInit
      /\ \A c \in Conn : /\ sock[c] = "none" /\ state[c] = "OPEN" /\ flag[c] = NoSysId
                         /\ private_in[c] = << >> /\ private_out[c] = << >>
                         /\ written[c] = << >> /\ ~working[c]
      /\ \A s \in SysId : in_queue[s] = << >> /\ out_A[s] = << >> /\ out_B[s] = << >>
      /\ \A t \in Thread : tpc[t] = "idle"
      /\ connections = {}
  BY DEF Init
<1>1. Connected
  BY <1>0 DEF Connected
<1>2. Shared
  <2>1. << >> \in Seq(SharedOut)
    OBVIOUS
  <2>. QED
    BY <1>0, <2>1 DEF Shared
<1>3. Protocol
  <2>1. \A c \in Conn : Said(c) = << >> \o << >> /\ state[c] = "OPEN"
    BY <1>0 DEF Said
  <2>2. << >> \in Seq(Out)
    OBVIOUS
  <2>3. << >> \o << >> = << >>
    BY <2>2, SaidFacts
  <2>4. Follows(<< >>, "OPEN")
    BY DEF Follows
  <2>5. \A c \in Conn : Follows(Said(c), state[c])
    BY <2>1, <2>3, <2>4
  <2>. QED
    BY <1>0, <2>5 DEF Protocol, QueueBPcs
<1>4. OwnBinds
  BY <1>0 DEF OwnBinds
<1>5. /\ \A s \in SysId : AcksIn(s) = {} /\ Once(out_A[s], InAck)
      /\ \A c \in Conn : AckedTo(c) = {} /\ Once(written[c], InAck)
  BY <1>0, CarryEmpty DEF AcksIn, AckedTo
<1>6. AckedOnce
  BY <1>5 DEF AckedOnce
<1>7. ASSUME LoneSession PROVE AckFirst
  <2>1. Kept = {}
    BY <1>0, CarryEmpty DEF Kept, InStore, DsInit
  <2>. QED
    BY <1>0, <1>5, <2>1 DEF AckFirst, QueueBPcs
<1>. QED
  BY <1>1, <1>2, <1>3, <1>4, <1>6, <1>7 DEF SessionInv

LEMMA SessionInvStep ==
  ASSUME ServerInv, SessionInv, [Next]_vars
  PROVE  SessionInv'
<1>0. /\ TypeInv /\ Owners /\ OneSpot /\ NoneTwice
      /\ Connected /\ Shared /\ Protocol /\ OwnBinds /\ AckedOnce
  BY DEF ServerInv, Places, SessionInv
<1>1. Connected' /\ Shared' /\ Protocol' /\ OwnBinds' /\ AckedOnce'
  BY <1>0, ConnectedStep, SharedStep, ProtocolStep, OwnBindsStep, AckedOnceStep
<1>2. LoneSession => AckFirst'
  BY <1>0, AckFirstStep DEF SessionInv
<1>3. LoneSession' => LoneSession
  BY DEF LoneSession, Submits, BindsTo, RequestsOf, Lone
<1>. QED
  BY <1>1, <1>2, <1>3 DEF SessionInv

LEMMA SessionInvHolds == Spec => []SessionInv
<1>1. Init => SessionInv
  BY InitSession
<1>2. ServerInv /\ SessionInv /\ [Next]_vars => SessionInv'
  BY SessionInvStep
<1>. QED
  BY <1>1, <1>2, ServerInvHolds, PTL DEF Spec

\* The variables of SmscSession, of the session that submits.
session == <<PhaseOf(Lone), Counts(written[Lone], "SubmitSmResp"), Counts(written[Lone], "Dlr")>>

LEMMA SessionIs ==
  ASSUME NEW L, L = Lone
  PROVE  /\ session = <<PhaseIn(written[L]), Counts(written[L], "SubmitSmResp"),
                        Counts(written[L], "Dlr")>>
         /\ session' = <<PhaseIn(written'[L]), Counts(written'[L], "SubmitSmResp"),
                         Counts(written'[L], "Dlr")>>
<1>1. PhaseOf(L) = PhaseIn(written[L]) /\ PhaseOf(L)' = PhaseIn(written'[L])
  BY DEF PhaseOf, PhaseIn, Wrote, Confirms
<1>. QED
  BY <1>1 DEF session, Counts, Occurrences

\* The phases and counts that a step of SmscSession goes through.
LEMMA SessionSteps ==
  ASSUME NEW L, L = Lone, NEW q, NEW r, q = written[L], r = written'[L]
  PROVE  /\ /\ Counts(r, "SubmitSmResp") = Counts(q, "SubmitSmResp")
            /\ Counts(r, "Dlr") = Counts(q, "Dlr")
            /\ Goes(PhaseIn(q), PhaseIn(r))
            => [Session!Next]_session
         /\ \A m \in Sm :
              /\ PhaseIn(q) = "bound" /\ PhaseIn(r) = "bound"
              /\ First(Counts(q, "SubmitSmResp"), Counts(r, "SubmitSmResp"), m)
              /\ Counts(r, "Dlr") = Counts(q, "Dlr")
              => [Session!Next]_session
         /\ \A m \in Sm :
              /\ PhaseIn(q) = "bound" /\ PhaseIn(r) = "bound"
              /\ Counts(q, "SubmitSmResp")[m] = 1
              /\ First(Counts(q, "Dlr"), Counts(r, "Dlr"), m)
              /\ Counts(r, "SubmitSmResp") = Counts(q, "SubmitSmResp")
              => [Session!Next]_session
<1>1. /\ PhaseOf(Lone) = PhaseIn(q) /\ PhaseOf(Lone)' = PhaseIn(r)
  BY DEF PhaseOf, PhaseIn, Wrote, Confirms
<1>2. /\ [m \in Sm |-> Occurrences(written[Lone], "SubmitSmResp", m)] = Counts(q, "SubmitSmResp")
      /\ [m \in Sm |-> Occurrences(written[Lone], "Dlr", m)] = Counts(q, "Dlr")
      /\ [m \in Sm |-> Occurrences(written[Lone], "SubmitSmResp", m)]' = Counts(r, "SubmitSmResp")
      /\ [m \in Sm |-> Occurrences(written[Lone], "Dlr", m)]' = Counts(r, "Dlr")
  BY DEF Counts, Occurrences
<1>3. session = <<PhaseIn(q), Counts(q, "SubmitSmResp"), Counts(q, "Dlr")>>
      /\ session' = <<PhaseIn(r), Counts(r, "SubmitSmResp"), Counts(r, "Dlr")>>
  BY SessionIs
<1>4. session' = session => [Session!Next]_session
  OBVIOUS
<1>5. ASSUME Counts(r, "SubmitSmResp") = Counts(q, "SubmitSmResp"), Counts(r, "Dlr") = Counts(q, "Dlr"),
             Goes(PhaseIn(q), PhaseIn(r))
      PROVE  [Session!Next]_session
  <2>1. CASE PhaseIn(r) = PhaseIn(q)
    BY <1>3, <1>4, <1>5, <2>1
  <2>2. CASE PhaseIn(q) = "open" /\ PhaseIn(r) = "bound"
    <3>1. Session!Bind
      BY <1>1, <1>2, <1>5, <2>2 DEF Session!Bind
    <3>. QED
      BY <3>1 DEF Session!Next
  <2>3. CASE PhaseIn(q) = "bound" /\ PhaseIn(r) = "unbound"
    <3>1. Session!Unbind
      BY <1>1, <1>2, <1>5, <2>3 DEF Session!Unbind
    <3>. QED
      BY <3>1 DEF Session!Next
  <2>. QED
    BY <1>5, <2>1, <2>2, <2>3 DEF Goes
<1>6. ASSUME NEW m \in Sm, PhaseIn(q) = "bound", PhaseIn(r) = "bound",
             First(Counts(q, "SubmitSmResp"), Counts(r, "SubmitSmResp"), m),
             Counts(r, "Dlr") = Counts(q, "Dlr")
      PROVE  [Session!Next]_session
  <2>1. Session!Ack(m)
    BY <1>1, <1>2, <1>6 DEF Session!Ack, First
  <2>. QED
    BY <2>1 DEF Session!Next
<1>7. ASSUME NEW m \in Sm, PhaseIn(q) = "bound", PhaseIn(r) = "bound",
             Counts(q, "SubmitSmResp")[m] = 1, First(Counts(q, "Dlr"), Counts(r, "Dlr"), m),
             Counts(r, "SubmitSmResp") = Counts(q, "SubmitSmResp")
      PROVE  [Session!Next]_session
  <2>1. Session!Deliver(m)
    BY <1>1, <1>2, <1>7 DEF Session!Deliver, First
  <2>. QED
    BY <2>1 DEF Session!Next
<1>. QED
  BY <1>5, <1>6, <1>7

LEMMA OnlySendersWrite ==
  ASSUME [Next]_vars, ~ \E t \in Thread : Send(t) \/ SendB(t)
  PROVE  UNCHANGED written
<1>1. CASE UNCHANGED vars
  BY <1>1 DEF vars
<1>2. CASE IoThread \/ \E c \in Conn : Elapse(c)
  BY <1>2 DEF IoThread, Arrive, Accept, Read, PeerClosed, Elapse
<1>3. CASE Vendor(Sender) \/ Vendor(Reporter)
  BY <1>3 DEF Vendor
<1>4. ASSUME NEW t \in Thread, Process(t) PROVE UNCHANGED written
  BY <1>4 DEF Process, ProcessBadSequence, ProcessInvalid, ProcessBind, ProcessSubmitSm,
     Store, ProcessUnbind, ProcessEnquireLink, ProcessQuerySm, ProcessDeliverSmResp,
     ProcessMalformedResp, processUnchanged
<1>5. ASSUME NEW t \in Thread,
             \/ \E c \in Conn : Examine(t, c)
             \/ NeedSend(t) \/ Receive(t) \/ Check(t) \/ Free(t)
      PROVE  UNCHANGED written
  BY <1>5 DEF Examine, NeedSend, Receive, Check, Free
<1>. QED
  BY <1>1, <1>2, <1>3, <1>4, <1>5 DEF Next, TaskThread

\* A session that takes from the queues of its system id is bound, as far as its
\* client knows.
LEMMA BoundWhenDrained ==
  ASSUME TypeInv, Protocol, NEW c \in Conn, sock[c] # "closed", private_out[c] = << >>,
         TxAble(state[c]) \/ RxAble(state[c])
  PROVE  PhaseIn(written[c]) = "bound"
<1>1. Follows(Said(c), state[c])
  BY DEF Protocol
<1>2. Said(c) = written[c]
  <2>1. written[c] \in Seq(Out) /\ << >> \in Seq(Out)
    BY DEF TypeInv, TypeOK, QueueTypeOK
  <2>. QED
    BY <2>1, SaidFacts DEF Said
<1>3. state[c] \notin {"OPEN", "CLOSED"}
  BY DEF TxAble, RxAble
<1>. QED
  BY <1>1, <1>2, <1>3 DEF Follows, PhaseIn

\* What the session says of its own accord.
LEMMA OwnStep ==
  ASSUME ServerInv, SessionInv, NEW L \in Conn, L = Lone, sock[L] = "open", SendsOwn(L)
  PROVE  [Session!Next]_session
<1>0. TypeInv /\ Owners /\ Protocol
  BY DEF ServerInv, SessionInv
<1>. PICK q \in Seq(Out), o \in Seq(Out) : q = written[L] /\ o = private_out[L]
  BY <1>0 DEF TypeInv, TypeOK, QueueTypeOK
<1>1. PICK p \in Out, rest \in Seq(Out) :
        p = Head(o) /\ rest = Tail(o) /\ p.type \notin {"SubmitSmResp", "Dlr"}
  <2>1. o \in Seq(SessionOut) /\ o # << >>
    BY <1>0 DEF Owners, OutInv, SendsOwn
  <2>2. Head(o) \in SessionOut /\ Tail(o) \in Seq(SessionOut)
    BY <2>1, HeadTailProperties
  <2>3. Head(o) \in Out /\ Tail(o) \in Seq(Out)
    BY <2>1, HeadTailProperties
  <2>. QED
    BY <2>2, <2>3 DEF SessionOut
<1>. PICK r : r = Append(q, p)
  OBVIOUS
<1>2. written'[L] = r
  BY <1>0, <1>1 DEF SendsOwn, Write, TypeInv, TypeOK, QueueTypeOK
<1>. PICK st, z : st = state[L] /\ z = r \o rest
  OBVIOUS
<1>3. Follows(z, st)
  <2>1. o # << >>
    BY DEF SendsOwn
  <2>2. Append(q, Head(o)) \o Tail(o) = q \o o
    BY <2>1, SaidFacts
  <2>3. r \o rest = q \o o
    BY <1>1, <2>2
  <2>. QED
    BY <1>0, <2>3 DEF Protocol, Said
<1>4. /\ Counts(r, "SubmitSmResp") = Counts(q, "SubmitSmResp")
      /\ Counts(r, "Dlr") = Counts(q, "Dlr")
  <2>1. p.type # "SubmitSmResp" /\ p.type # "Dlr"
    BY <1>1
  <2>. QED
    BY <2>1, WrittenCounts
<1>5. Goes(PhaseIn(q), PhaseIn(r))
  BY <1>3, PhaseSaid
<1>. QED
  BY <1>2, <1>4, <1>5, SessionSteps

\* An ack, or another answer, from the queue of the system id.
LEMMA AckStep ==
  ASSUME ServerInv, SessionInv, NEW L \in Conn, L = Lone, sock[L] = "open", SendsA(L),
         private_out[L] = << >>, TxAble(state[L])
  PROVE  [Session!Next]_session
<1>0. TypeInv /\ QueueTypeOK /\ Shared /\ Protocol /\ AckedOnce
  BY DEF ServerInv, SessionInv, TypeInv, TypeOK
<1>. PICK q \in Seq(Out) : q = written[L]
  BY <1>0 DEF QueueTypeOK
<1>1. PICK s \in SysId, p \in Out :
        /\ s = flag[L] /\ out_A[s] # << >> /\ p = Head(out_A[s]) /\ Write(L, p)
        /\ AcksIn(s) = InAck[p] \union AcksIn(s)'
  BY <1>0, SentAcks
<1>. PICK r : r = Append(q, p)
  OBVIOUS
<1>2. written'[L] = r
  BY <1>0, <1>1 DEF Write, QueueTypeOK
<1>3. PhaseIn(q) = "bound"
  BY <1>0, BoundWhenDrained
<1>4. p.type \notin {"BindResp", "UnbindResp"}
  <2>1. out_A[s] \in Seq(SharedOut)
    BY <1>0 DEF Shared
  <2>2. p \in SharedOut
    BY <1>1, <2>1, HeadTailProperties
  <2>. QED
    BY <2>2 DEF SharedOut
<1>5. PhaseIn(r) = "bound"
  BY <1>3, <1>4, PhaseAppend
<1>6. CASE p.type = "SubmitSmResp"
  <2>1. p.sm \in Sm
    BY <1>6 DEF Out
  <2>. PICK m \in Sm : m = p.sm
    BY <2>1
  <2>2. m \in InAck[p]
    BY <1>6, AckFacts
  <2>3. ~Has(q, "SubmitSmResp", m)
    <3>1. m \notin AckedTo(L)
      BY <1>0, <1>1, <2>2 DEF AckedOnce
    <3>. QED
      BY <3>1, AckCounts DEF AckedTo
  <2>4. First(Counts(q, "SubmitSmResp"), Counts(r, "SubmitSmResp"), m)
    BY <1>6, <2>3, WrittenCounts
  <2>5. Counts(r, "Dlr") = Counts(q, "Dlr")
    <3>1. p.type # "Dlr"
      BY <1>6
    <3>. QED
      BY <3>1, WrittenCounts
  <2>. QED
    BY <1>2, <1>3, <1>5, <2>4, <2>5, SessionSteps
<1>7. CASE p.type # "SubmitSmResp"
  <2>1. p.type # "Dlr"
    <3>1. out_A[s] \in Seq(AccountAck(s))
      BY DEF ServerInv, Owners, OutInv
    <3>2. p \in AccountAck(s)
      BY <1>1, <3>1, HeadTailProperties
    <3>. QED
      BY <3>2 DEF AccountAck
  <2>2. /\ Counts(r, "SubmitSmResp") = Counts(q, "SubmitSmResp")
        /\ Counts(r, "Dlr") = Counts(q, "Dlr")
    BY <1>7, <2>1, WrittenCounts
  <2>. QED
    BY <1>2, <1>3, <1>5, <2>2, SessionSteps DEF Goes
<1>. QED
  BY <1>6, <1>7

\* A report: its message was acked, and it is the first.
LEMMA ReportStep ==
  ASSUME LoneSession, ServerInv, SessionInv, NEW L \in Conn, L = Lone, sock[L] = "open",
         SendsB(L), private_out[L] = << >>, RxAble(state[L]),
         NEW t \in Thread, at[t] = L, tpc[t] \in QueueBPcs
  PROVE  [Session!Next]_session
<1>0. TypeInv /\ QueueTypeOK /\ Owners /\ Protocol /\ AckedOnce /\ AckFirst
  BY DEF ServerInv, SessionInv, TypeInv, TypeOK
<1>. PICK q \in Seq(Out) : q = written[L]
  BY <1>0 DEF QueueTypeOK
<1>1. PICK s \in SysId, p \in Out :
        s = flag[L] /\ out_B[s] # << >> /\ p = Head(out_B[s]) /\ Write(L, p)
  <2>1. flag[L] \in SysId /\ out_B[flag[L]] # << >> /\ Write(L, Head(out_B[flag[L]]))
    BY DEF SendsB
  <2>2. out_B[flag[L]] \in Seq(Out)
    BY <1>0, <2>1 DEF QueueTypeOK
  <2>3. Head(out_B[flag[L]]) \in Out
    BY <2>1, <2>2, HeadTailProperties
  <2>. QED
    BY <2>1, <2>3
<1>. PICK r : r = Append(q, p)
  OBVIOUS
<1>2. written'[L] = r
  BY <1>0, <1>1 DEF Write, QueueTypeOK
<1>3. PhaseIn(q) = "bound"
  BY <1>0, BoundWhenDrained
<1>4. p.type = "Dlr"
  <2>1. out_B[s] \in Seq(AccountDlr(s))
    BY <1>0 DEF Owners, OutInv
  <2>2. p \in AccountDlr(s)
    BY <1>1, <2>1, HeadTailProperties
  <2>. QED
    BY <2>2 DEF AccountDlr
<1>5. PhaseIn(r) = "bound"
  BY <1>3, <1>4, PhaseAppend
<1>6. p.sm \in Sm
  BY <1>4 DEF Out
<1>. PICK m \in Sm : m = p.sm
  BY <1>6
<1>7. m \in All(out_B[s], InOut)
  <2>1. out_B[s] \in Seq(Out)
    BY <1>0 DEF QueueTypeOK
  <2>2. 1 \in DOMAIN out_B[s] /\ p = out_B[s][1]
    BY <1>1, <2>1, EmptySeq, LenProperties, HeadTailProperties
  <2>3. m \in InOut[p]
    BY <1>4, CarryFacts
  <2>. QED
    BY <2>2, <2>3 DEF All
<1>8. Counts(q, "SubmitSmResp")[m] = 1
  <2>1. m \in Kept
    <3>1. m \in Pushing
      BY <1>7 DEF ServerInv, Places, PushingApart
    <3>2. Pushing \subseteq All(dlr_list, InEntry)
      <4>1. \A d \in DlrEntry : InPushing[d] \subseteq InEntry[d]
        BY DEF InEntry, InPushing
      <4>2. \A i \in DOMAIN dlr_list : dlr_list[i] \in DlrEntry
        BY <1>0 DEF TypeInv, TypeOK, DsTypeOK
      <4>. QED
        BY <4>1, <4>2 DEF All, Pushing
    <3>. QED
      BY <3>1, <3>2, KeptParts
  <2>2. m \in AckedTo(L)
    BY <1>0, <2>1 DEF AckFirst
  <2>3. Once(q, InAck)
    BY <1>0 DEF AckedOnce
  <2>. QED
    BY <2>2, <2>3, AckCounts DEF AckedTo
<1>9. ~Has(q, "Dlr", m)
  <2>1. m \in In("queued", s)
    BY <1>7, SpotIs
  <2>2. m \notin In("written", L)
    BY <2>1, KindFacts DEF ServerInv, Places, OneSpot
  <2>. QED
    BY <2>2, HoldsFacts, SpotIs
<1>10. /\ First(Counts(q, "Dlr"), Counts(r, "Dlr"), m)
       /\ Counts(r, "SubmitSmResp") = Counts(q, "SubmitSmResp")
  BY <1>4, <1>9, WrittenCounts
<1>. QED
  BY <1>2, <1>3, <1>5, <1>8, <1>10, SessionSteps

LEMMA SessionStep ==
  ASSUME LoneSession, ServerInv, SessionInv, [Next]_vars
  PROVE  [Session!Next]_session
<1>0. TypeInv /\ QueueTypeOK /\ Protocol
  BY DEF ServerInv, SessionInv, TypeInv, TypeOK
<1>. PICK L \in Conn : L = Lone
  BY DEF LoneSession, Lone
<1>1. CASE written'[L] = written[L]
  BY <1>1, SessionSteps DEF Goes
<1>2. ASSUME written'[L] # written[L] PROVE [Session!Next]_session
  <2>1. PICK t \in Thread : Send(t) \/ SendB(t)
    BY <1>2, OnlySendersWrite
  <2>2. PICK c : c = at[t]
    OBVIOUS
  <2>3. \/ SendsOwn(c)
        \/ SendsA(c) /\ private_out[c] = << >> /\ TxAble(state[c])
        \/ SendsB(c) /\ private_out[c] = << >> /\ RxAble(state[c]) /\ tpc[t] \in QueueBPcs
    BY <1>0, <1>2, <2>1, <2>2, SendKinds DEF Protocol
  <2>4. c = L /\ sock[L] = "open"
    <3>1. \E p : Write(c, p)
      BY <2>3 DEF SendsOwn, SendsA, SendsB
    <3>2. written \in [Conn -> Seq(Out)]
      BY <1>0 DEF QueueTypeOK
    <3>. QED
      BY <1>2, <3>1, <3>2 DEF Write
  <2>. QED
    BY <2>2, <2>3, <2>4, OwnStep, AckStep, ReportStep
<1>. QED
  BY <1>1, <1>2

LEMMA SessionInit ==
  ASSUME LoneSession, Init
  PROVE  Session!Init
<1>. PICK L \in Conn : L = Lone
  BY DEF LoneSession, Lone
<1>1. written[L] = << >>
  BY DEF Init
<1>2. PhaseOf(Lone) = "open"
  BY <1>1 DEF PhaseOf, Wrote
<1>3. \A type : \A m \in Sm : Occurrences(written[Lone], type, m) = 0
  BY <1>1, FS_EmptySet DEF Occurrences
<1>. QED
  BY <1>2, <1>3 DEF Session!Init, Session!Never

(***************************************************************************)
(* Whoever binds and submits: a message is acked only after a thread has   *)
(* processed it, and once, to one client, though sessions of a system id   *)
(* take each other's requests and send each other's acks.                  *)
(***************************************************************************)
THEOREM AckedOnceHolds == Spec => []AckedOnce
<1>1. SessionInv => AckedOnce
  BY DEF SessionInv
<1>. QED
  BY <1>1, SessionInvHolds, PTL

(***************************************************************************)
(* On every connection, as long as it is not closed: an unbind response    *)
(* comes only in a session that its state calls closed and after a         *)
(* response that confirmed the bind, and a session that its state calls    *)
(* bound has confirmed its bind, or is going to before it takes anything   *)
(* from a shared queue.                                                    *)
(***************************************************************************)
THEOREM ProtocolHolds == Spec => []Protocol
<1>1. SessionInv => Protocol
  BY DEF SessionInv
<1>. QED
  BY <1>1, SessionInvHolds, PTL

(***************************************************************************)
(* If one client submits and nobody else binds under its system id, its    *)
(* session is what SmscSession promises, however many connections and      *)
(* threads there are and whatever the other clients do: what it is sent    *)
(* passes through three queues that all threads drain, and no ack or       *)
(* report comes before the bind response or after the unbind response,     *)
(* none comes twice, and no report overtakes the ack of its message.       *)
(***************************************************************************)
THEOREM KeepsSessionHolds ==
  ASSUME LoneSession
  PROVE  Spec => KeepsSession
<1>1. Init => Session!Init
  BY SessionInit
<1>2. ServerInv /\ SessionInv /\ [Next]_vars => [Session!Next]_session
  BY SessionStep
<1>. QED
  BY <1>1, <1>2, ServerInvHolds, SessionInvHolds, PTL
     DEF Spec, KeepsSession, Session!Spec, Session!sessionVars, session, Counts

=============================================================================
