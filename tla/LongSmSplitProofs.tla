------------------------- MODULE LongSmSplitProofs -------------------------
(***************************************************************************)
(* What the splitting of a long text gives, for every text and every       *)
(* setting of the limits, and what mode 2 makes of a text for different    *)
(* destinations.  The facts about numbers and recursive functions that     *)
(* these and other proofs need come first.                                 *)
(***************************************************************************)
EXTENDS LongSmSplit, WellFoundedInduction, SequenceTheorems, FiniteSetTheorems, TLAPS

-----------------------------------------------------------------------------
(* Induction.  The library's rules take the statement as an operator; over *)
(* a set of numbers they follow from its theorem on minimal elements.      *)

\* Every nonempty set of naturals has a smallest element.
LEMMA Smallest ==
  ASSUME NEW T \in SUBSET Nat, T # {}
  PROVE  \E n \in T : \A k \in T : n <= k
<1>1. PICK R : IsWellFoundedOn(R, Nat) /\ \A x, y \in Nat : y < x => <<y, x>> \in R
  <2>1. IsWellFoundedOn(OpToRel(<, Nat), Nat)
    BY NatLessThanWellFounded
  <2>2. \A x, y \in Nat : y < x => <<y, x>> \in OpToRel(<, Nat)
    BY DEF OpToRel
  <2>. QED
    BY <2>1, <2>2, Zenon
<1>2. PICK x \in T : \A y \in T : ~ (<<y, x>> \in R)
  BY <1>1, WFMin
<1>3. \A y \in T : ~(y < x)
  BY <1>1, <1>2
<1>. QED
  BY <1>3

\* Min of the community modules is that element.
LEMMA MinFacts ==
  ASSUME NEW T \in SUBSET Nat, T # {}
  PROVE  Min(T) \in T /\ \A k \in T : Min(T) <= k
  BY Smallest DEF Min

\* A set with 0 that has the successor of each of its naturals has them all.
LEMMA Induction ==
  ASSUME NEW T, 0 \in T, \A n \in Nat : n \in T => n + 1 \in T
  PROVE  Nat \subseteq T
<1>1. SUFFICES ASSUME Nat \ T # {} PROVE FALSE
  OBVIOUS
<1>2. PICK n \in Nat \ T : \A k \in Nat \ T : n <= k
  BY <1>1, Smallest
<1>3. n # 0 /\ n - 1 \in Nat
  BY <1>2
<1>4. n - 1 \in T
  BY <1>2, <1>3
<1>5. (n - 1) + 1 \in T
  BY <1>3, <1>4
<1>. QED
  BY <1>2, <1>5

\* The functions on 0 .. k that start with a and go on by F: there is one.
Recursions(D, a, F, k) ==
  {g \in [0 .. k -> D] : g[0] = a /\ \A i \in 1 .. k : g[i] = F[<<g[i - 1], i>>]}

LEMMA RecursionExists ==
  ASSUME NEW D, NEW a \in D, NEW F \in [D \X Nat -> D], NEW k \in Nat
  PROVE  Recursions(D, a, F, k) # {}
<1>. DEFINE Ok == {j \in Nat : \E g \in [0 .. j -> D] :
                     g[0] = a /\ \A i \in 1 .. j : g[i] = F[<<g[i - 1], i>>]}
<1>1. 0 \in Ok
  <2>. DEFINE g == [i \in 0 .. 0 |-> a]
  <2>1. g \in [0 .. 0 -> D] /\ g[0] = a
    OBVIOUS
  <2>2. \A i \in 1 .. 0 : g[i] = F[<<g[i - 1], i>>]
    OBVIOUS
  <2>. HIDE DEF g
  <2>. QED
    BY <2>1, <2>2
<1>2. ASSUME NEW j \in Nat, j \in Ok PROVE j + 1 \in Ok
  <2>1. PICK g \in [0 .. j -> D] :
                     g[0] = a /\ \A i \in 1 .. j : g[i] = F[<<g[i - 1], i>>]
    BY <1>2
  <2>. DEFINE h == [i \in 0 .. j + 1 |-> IF i = j + 1 THEN F[<<g[j], j + 1>>] ELSE g[i]]
  <2>2. h \in [0 .. j + 1 -> D]
    OBVIOUS
  <2>3. h[0] = a
    BY <2>1
  <2>4. \A i \in 1 .. j + 1 : h[i] = F[<<h[i - 1], i>>]
    BY <2>1
  <2>. HIDE DEF h
  <2>. QED
    BY <2>2, <2>3, <2>4
<1>. HIDE DEF Ok
<1>3. Nat \subseteq Ok
  BY <1>1, <1>2, Induction
<1>4. \E g \in [0 .. k -> D] : g[0] = a /\ \A i \in 1 .. k : g[i] = F[<<g[i - 1], i>>]
  BY <1>3 DEF Ok
<1>. QED
  BY <1>4 DEF Recursions

-----------------------------------------------------------------------------
(* Division                                                                *)

LEMMA DivFacts ==
  ASSUME NEW n \in Nat, NEW d \in Nat \ {0}
  PROVE  /\ n \div d \in Nat /\ n % d \in 0 .. d - 1
         /\ n = d * (n \div d) + (n % d)
  OBVIOUS

LEMMA ProductOrder ==
  ASSUME NEW a \in Int, NEW b \in Int, NEW d \in Nat \ {0}
  PROVE  /\ a <= b <=> a * d <= b * d
         /\ a < b <=> a * d < b * d
  OBVIOUS

LEMMA ProductNext ==
  ASSUME NEW a \in Int, NEW d \in Int
  PROVE  /\ a * d = d * a /\ a * d \in Int
         /\ (a - 1) * d = a * d - d /\ (a + 1) * d = a * d + d
  OBVIOUS

\* Division rounded up: the least number of pieces of d that hold n.
PiecesOf(n, d) == n \div d + (IF n % d > 0 THEN 1 ELSE 0)

LEMMA PiecesFacts ==
  ASSUME NEW n \in Nat, NEW d \in Nat \ {0}
  PROVE  /\ PiecesOf(n, d) \in Nat /\ n <= PiecesOf(n, d) * d
         /\ n > 0 => PiecesOf(n, d) > 0 /\ (PiecesOf(n, d) - 1) * d < n
         /\ \A j \in Nat : n <= j * d => PiecesOf(n, d) <= j
<1>1. PICK q \in Nat, m \in 0 .. d - 1 :
        n = d * q + m /\ PiecesOf(n, d) = q + (IF m > 0 THEN 1 ELSE 0)
  BY DivFacts DEF PiecesOf
<1>2. PICK k \in Nat : k = PiecesOf(n, d)
  BY <1>1
<1>3. PICK x \in Nat : x = q * d /\ n = x + m
  BY <1>1, ProductNext
<1>4. k * d \in Int /\ (k - 1) * d = k * d - d
  BY ONLY <1>2, ProductNext, d \in Nat \ {0}
<1>5. /\ m > 0 => k = q + 1
      /\ ~(m > 0) => k = q
  BY <1>1, <1>2
<1>6. k * d = IF m > 0 THEN x + d ELSE x
  BY ONLY <1>3, <1>5, ProductNext, d \in Nat \ {0}, q \in Nat
<1>7. n <= k * d /\ (n > 0 => k > 0 /\ (k - 1) * d < n)
  <2>1. PICK y \in Int : y = k * d /\ (k - 1) * d = y - d
    BY <1>4
  <2>2. n <= y /\ (n > 0 => y - d < n)
    BY <1>3, <1>6, <2>1
  <2>3. n > 0 => k > 0
    BY <1>3, <1>5
  <2>. QED
    BY <2>1, <2>2, <2>3
<1>8. ASSUME NEW j \in Nat, n <= j * d
      PROVE  k <= j
  <2>1. PICK y \in Int : y = k * d /\ (k - 1) * d = y - d
    BY <1>4
  <2>2. PICK z \in Int : z = j * d
    BY ProductNext
  <2>3. CASE n = 0
    BY <1>3, <1>5, <2>3
  <2>4. CASE n > 0
    <3>1. (k - 1) * d < j * d
      BY <1>7, <1>8, <2>1, <2>2, <2>4
    <3>2. k - 1 < j
      BY ONLY <3>1, ProductOrder, k \in Nat, j \in Nat, d \in Nat \ {0}
    <3>. QED
      BY <3>2
  <2>. QED
    BY <2>3, <2>4
<1>. QED
  BY <1>2, <1>7, <1>8

-----------------------------------------------------------------------------
(* How many segments                                                       *)

LEMMA LimitFacts ==
  ASSUME NEW text
  PROVE  /\ MaxMultipart(text) \in Nat \ {0} /\ MaxSingle(text) \in Nat
         /\ MaxMultipart(text) <= MaxSingle(text)
         /\ MaxSegments \in Nat \ {0}
  BY LimitsAssumption DEF MaxMultipart, MaxSingle

\* The length the code counts with, and the number of segments: as many as
\* the length needs.
LEMMA CountFacts ==
  ASSUME NEW text \in Seq(Char)
  PROVE  /\ MessageLength(text) \in 0 .. Len(text)
         /\ Len(text) <= Capacity(text) => MessageLength(text) = Len(text)
         /\ MessageLength(text) <= Capacity(text) + MaxMultipart(text)
         /\ NumberOfSegments(text) \in Nat
         /\ MessageLength(text) <= NumberOfSegments(text) * MaxMultipart(text)
         /\ MessageLength(text) > 0 =>
              /\ NumberOfSegments(text) > 0
              /\ (NumberOfSegments(text) - 1) * MaxMultipart(text) < MessageLength(text)
         /\ Len(text) <= Capacity(text) => NumberOfSegments(text) <= MaxSegments
<1>. DEFINE d == MaxMultipart(text)
            n == Len(text)
            k == NumberOfSegments(text)
            len == MessageLength(text)
<1>1. d \in Nat \ {0} /\ MaxSegments \in Nat \ {0} /\ n \in Nat
  BY LimitFacts
<1>2. /\ Capacity(text) = MaxSegments * d
      /\ len = IF n \div d > MaxSegments THEN MaxSegments * d ELSE n
      /\ k = PiecesOf(len, d)
  BY DEF Capacity, MessageLength, NumberOfSegments, PiecesOf
<1>. HIDE DEF d, n, k, len
<1>3. n \div d \in Nat /\ n % d \in 0 .. d - 1 /\ n = d * (n \div d) + (n % d)
  BY <1>1, DivFacts
<1>4. MaxSegments * d \in Nat
  BY <1>1
<1>5. ASSUME n \div d > MaxSegments PROVE MaxSegments * d < n
  <2>1. MaxSegments * d < (n \div d) * d
    BY <1>1, <1>3, <1>5, ProductOrder
  <2>. QED
    BY <1>1, <1>3, <2>1, <1>4
<1>6. ASSUME n \div d <= MaxSegments PROVE n <= MaxSegments * d + d
  <2>1. (n \div d) * d <= MaxSegments * d
    BY <1>1, <1>3, <1>6, ProductOrder
  <2>. QED
    BY <1>1, <1>3, <2>1, <1>4
<1>7. /\ len \in 0 .. n
      /\ n <= MaxSegments * d => len = n
      /\ len <= MaxSegments * d + d
  BY <1>1, <1>2, <1>3, <1>4, <1>5, <1>6
<1>8. /\ k \in Nat /\ len <= k * d
      /\ len > 0 => k > 0 /\ (k - 1) * d < len
      /\ \A j \in Nat : len <= j * d => k <= j
  <2>1. len \in Nat
    BY <1>1, <1>7
  <2>2. /\ PiecesOf(len, d) \in Nat /\ len <= PiecesOf(len, d) * d
        /\ len > 0 => PiecesOf(len, d) > 0 /\ (PiecesOf(len, d) - 1) * d < len
        /\ \A j \in Nat : len <= j * d => PiecesOf(len, d) <= j
    BY <1>1, <2>1, PiecesFacts
  <2>3. k = PiecesOf(len, d)
    BY <1>2
  <2>. QED
    BY ONLY <2>2, <2>3
<1>9. n <= MaxSegments * d => k <= MaxSegments
  BY <1>1, <1>7, <1>8
<1>. QED
  BY <1>2, <1>7, <1>8, <1>9 DEF d, n, k, len

\* A text is one short message or at least one segment.
LEMMA PartsFacts ==
  ASSUME NEW text \in Seq(Char)
  PROVE  LET parts == SplitLongSm(text)
         IN  /\ Len(parts) \in Nat \ {0} /\ DOMAIN parts = 1 .. Len(parts)
             /\ MessageLength(text) > MaxSingle(text) => Len(parts) = NumberOfSegments(text)
             /\ MessageLength(text) <= MaxSingle(text) => Len(parts) = 1
<1>1. /\ MessageLength(text) \in Nat /\ MaxSingle(text) \in Nat
      /\ NumberOfSegments(text) \in Nat
      /\ MessageLength(text) > 0 => NumberOfSegments(text) > 0
  BY CountFacts, LimitFacts
<1>2. CASE MessageLength(text) > MaxSingle(text)
  BY <1>1, <1>2 DEF SplitLongSm
<1>3. CASE ~(MessageLength(text) > MaxSingle(text))
  BY <1>1, <1>3 DEF SplitLongSm
<1>. QED
  BY <1>2, <1>3


-----------------------------------------------------------------------------
(* What the segments say                                                   *)

LEMMA SmallRemainder ==
  ASSUME NEW d \in Nat \ {0}, NEW n \in 0 .. d - 1
  PROVE  n % d = n
  OBVIOUS

(***************************************************************************)
(* A text that fits the header of its segments is split so that a receiver *)
(* can tell when it has them all: every segment carries its place, and the *)
(* number of segments.  The byte of the header loses nothing.              *)
(***************************************************************************)
THEOREM SegmentsTellPlace ==
  ASSUME NEW text \in Seq(Char), Len(text) <= Capacity(text)
  PROVE  \A j \in DOMAIN SplitLongSm(text) :
           /\ SplitLongSm(text)[j].index = j
           /\ SplitLongSm(text)[j].total = Len(SplitLongSm(text))
<1>. DEFINE n == NumberOfSegments(text)
<1>1. n \in Nat /\ n <= MaxSegments /\ MaxSegments \in Nat
  BY CountFacts, LimitFacts
<1>2. \A i \in 0 .. MaxSegments : Byte(i) = i
  BY <1>1, SmallRemainder DEF Byte
<1>3. CASE MessageLength(text) > MaxSingle(text)
  <2>1. SplitLongSm(text) =
          [i \in 1 .. n |-> [content |-> SegmentContent(text, i),
                             total |-> Byte(n), index |-> Byte(i)]]
    BY <1>3 DEF SplitLongSm
  <2>. HIDE DEF n
  <2>2. Len(SplitLongSm(text)) = n /\ DOMAIN SplitLongSm(text) = 1 .. n
    BY <1>1, <2>1
  <2>3. \A j \in 1 .. n : Byte(n) = n /\ Byte(j) = j
    BY <1>1, <1>2
  <2>4. \A j \in 1 .. n : /\ SplitLongSm(text)[j].index = Byte(j)
                          /\ SplitLongSm(text)[j].total = Byte(n)
    BY <2>1
  <2>. QED
    BY <2>2, <2>3, <2>4
<1>4. CASE ~(MessageLength(text) > MaxSingle(text))
  BY <1>4 DEF SplitLongSm
<1>. QED
  BY <1>3, <1>4

LEMMA LessTransitive ==
  ASSUME NEW a \in Int, NEW b \in Nat, NEW c \in Nat, a < b, b <= c
  PROVE  a < c
  OBVIOUS

\* What a segment may hold, if there are n of them.
Limit(text, n) == IF n = 1 THEN MaxSingle(text) ELSE MaxMultipart(text)

\* Segment j of an ASCII text begins behind this many characters.
Before(text, j) == (j - 1) * MaxMultipart(text)

(***************************************************************************)
(* An ASCII text of any length, also one beyond the capacity of the        *)
(* header, is in its segments whole and in order: each has the characters  *)
(* behind those of the segments before it, all but the last have the same  *)
(* number of them, and the last ends where the text ends.  No segment is   *)
(* empty, and up to the capacity each is within the limit of its encoding, *)
(* which is lower where there are several and each has a header.           *)
(***************************************************************************)
THEOREM AsciiSegmentsSpell ==
  ASSUME NEW text \in Seq(Char), IsPureAscii(text), text # << >>
  PROVE  LET n == Len(SplitLongSm(text))
             Content(j) == SplitLongSm(text)[j].content
         IN  /\ \A j \in 1 .. n :
                  /\ Content(j) \in Seq(Char) /\ Content(j) # << >>
                  /\ \A k \in 1 .. Len(Content(j)) :
                       Content(j)[k] = text[Before(text, j) + k]
                  /\ Len(text) <= Capacity(text) => Len(Content(j)) <= Limit(text, n)
             /\ \A j \in 1 .. n - 1 : Len(Content(j)) = MaxMultipart(text)
             /\ Before(text, n) + Len(Content(n)) = Len(text)
<1>. DEFINE d == MaxMultipart(text)
            m == NumberOfSegments(text)
            Content(j) == SplitLongSm(text)[j].content
<1>0. d \in Nat \ {0} /\ MaxSingle(text) \in Nat /\ d <= MaxSingle(text)
  BY LimitFacts
<1>1. CASE MessageLength(text) > MaxSingle(text)
  <2>1. /\ m \in Nat \ {0} /\ MessageLength(text) \in 0 .. Len(text) /\ Len(text) \in Nat
        /\ (m - 1) * d < MessageLength(text) /\ MessageLength(text) <= m * d
        /\ Len(text) <= Capacity(text) => MessageLength(text) = Len(text)
    BY <1>0, <1>1, CountFacts
  <2>2. /\ Len(SplitLongSm(text)) = m
        /\ \A j \in 1 .. m : Content(j) = SegmentContent(text, j)
    BY <1>1, <2>1 DEF SplitLongSm
  <2>3. \A j \in Int : Before(text, j) \in Int /\ Before(text, j + 1) = Before(text, j) + d
    <3>1. ASSUME NEW j \in Int PROVE (j + 1) - 1 = (j - 1) + 1 /\ j - 1 \in Int
      OBVIOUS
    <3>. QED
      BY <1>0, <3>1, ProductNext DEF Before
  <2>4. \A i, j \in Int : i <= j => Before(text, i) <= Before(text, j)
    <3>1. ASSUME NEW i \in Int, NEW j \in Int, i <= j
          PROVE  i - 1 <= j - 1 /\ i - 1 \in Int /\ j - 1 \in Int
      BY <3>1
    <3>. QED
      BY <1>0, <3>1, ProductOrder DEF Before
  <2>5. Before(text, 1) = 0 /\ Before(text, m) < Len(text) /\ Len(text) \in Nat
    <3>1. Before(text, m) \in Int /\ Len(text) \in Nat
      BY <2>1, <2>3
    <3>2. Before(text, m) < MessageLength(text)
      BY <2>1 DEF Before
    <3>3. MessageLength(text) \in Nat /\ MessageLength(text) <= Len(text)
      BY <2>1
    <3>4. Before(text, m) < Len(text)
      BY <3>1, <3>2, <3>3, LessTransitive
    <3>5. (1 - 1) * d = 0
      BY <1>0
    <3>6. Before(text, 1) = 0
      BY <3>5 DEF Before
    <3>. QED
      BY <2>1, <3>4, <3>6
  <2>6. ASSUME NEW j \in 1 .. m
        PROVE  /\ Content(j) = SubSeq(text, Before(text, j) + 1,
                                      IF j = m THEN Len(text) ELSE Before(text, j) + d)
               /\ Before(text, j) \in Nat
               /\ j # m => Before(text, j) + d < Len(text)
    <3>1. Content(j) = SegmentContent(text, j)
      BY <2>2
    <3>2. Before(text, j) \in Nat
      BY <2>1, <2>3, <2>4, <2>5
    <3>3. j # m => Before(text, j + 1) <= Before(text, m)
      BY <2>1, <2>4
    <3>4. j # m => Before(text, j) + d < Len(text)
      <4>1. /\ Before(text, j + 1) = Before(text, j) + d /\ Before(text, m) \in Int
            /\ Before(text, j) \in Int
        BY <2>1, <2>3
      <4>. QED
        BY <1>0, <2>5, <3>3, <4>1
    <3>. QED
      BY <3>1, <3>2, <3>4 DEF SegmentContent, Before
  <2>7. ASSUME NEW b \in Nat, NEW e \in Nat, b < e, e <= Len(text)
        PROVE  /\ SubSeq(text, b + 1, e) \in Seq(Char)
               /\ Len(SubSeq(text, b + 1, e)) = e - b
               /\ \A k \in 1 .. e - b : SubSeq(text, b + 1, e)[k] = text[b + k]
    <3>1. \A i \in b + 1 .. e : text[i] \in Char
      BY <2>5, <2>7
    <3>2. b + 1 \in Int /\ e \in Int
      OBVIOUS
    <3>. QED
      BY <2>7, <3>1, <3>2, SubSeqProperties
  <2>8. /\ Before(text, m) + d >= MessageLength(text)
        /\ Len(text) <= Capacity(text) => Len(text) <= Before(text, m) + d
    <3>1. Before(text, m) = m * d - d /\ m * d \in Int
      BY <1>0, <2>1, ProductNext DEF Before
    <3>. QED
      BY <1>0, <2>1, <3>1
  <2>9. ASSUME NEW j \in 1 .. m
        PROVE  /\ Content(j) \in Seq(Char) /\ Content(j) # << >>
               /\ \A k \in 1 .. Len(Content(j)) : Content(j)[k] = text[Before(text, j) + k]
               /\ Len(text) <= Capacity(text) => Len(Content(j)) <= d
               /\ Len(Content(j)) = IF j = m THEN Len(text) - Before(text, m) ELSE d
    <3>. DEFINE b == Before(text, j)
                e == IF j = m THEN Len(text) ELSE b + d
    <3>1. b \in Nat /\ e \in Nat /\ b < e /\ e <= Len(text)
      BY <1>0, <2>5, <2>6
    <3>2. Content(j) = SubSeq(text, b + 1, e)
      BY <2>6
    <3>. HIDE DEF b, e, Content
    <3>3. /\ Content(j) \in Seq(Char) /\ Len(Content(j)) = e - b
          /\ \A k \in 1 .. e - b : Content(j)[k] = text[b + k]
      BY <2>7, <3>1, <3>2
    <3>4. Len(Content(j)) = IF j = m THEN Len(text) - b ELSE d
      BY <1>0, <2>5, <3>1, <3>3 DEF e
    <3>5. Content(j) # << >>
      BY <3>1, <3>3
    <3>6. Len(text) <= Capacity(text) => Len(Content(j)) <= d
      BY <1>0, <2>5, <2>8, <3>1, <3>4 DEF b
    <3>. QED
      BY <3>3, <3>4, <3>5, <3>6 DEF b
  <2>10. Before(text, m) + Len(Content(m)) = Len(text)
    <3>. HIDE DEF Content, m
    <3>1. m \in 1 .. m
      BY <2>1
    <3>2. Len(Content(m)) = Len(text) - Before(text, m)
      BY <2>9, <3>1
    <3>3. Before(text, m) \in Int
      BY <2>1, <2>3
    <3>. QED
      BY <2>5, <3>2, <3>3
  <2>11. \A j \in 1 .. m - 1 : Len(Content(j)) = d
    <3>1. \A j \in 1 .. m - 1 : j \in 1 .. m /\ j # m
      BY <2>1
    <3>. HIDE DEF Content, m, d
    <3>. QED
      BY <2>9, <3>1
  <2>12. m # 1 /\ Limit(text, m) = d
    <3>1. m = 1 => MessageLength(text) <= d
      BY <1>0, <2>1
    <3>. QED
      BY <1>0, <1>1, <2>1, <3>1 DEF Limit
  <2>. HIDE DEF m
  <2>. QED
    BY <2>2, <2>9, <2>10, <2>11, <2>12
<1>2. CASE ~(MessageLength(text) > MaxSingle(text))
  <2>1. /\ Len(SplitLongSm(text)) = 1 /\ Content(1) = text
        /\ Len(text) \in Nat
    BY <1>2 DEF SplitLongSm
  <2>2. Before(text, 1) = 0
    BY <1>0 DEF Before
  <2>3. Len(text) <= Capacity(text) => Len(text) <= Limit(text, 1)
    BY <1>0, <1>2, CountFacts DEF Limit
  <2>. QED
    BY <2>1, <2>2, <2>3
<1>. QED
  BY <1>1, <1>2


-----------------------------------------------------------------------------
(* Mode 2: a text of its own for every destination                         *)

LEMMA InsertFacts ==
  ASSUME NEW text \in Seq(Char), NEW place \in 1 .. Len(text) + 1, NEW x \in Ascii
  PROVE  /\ InsertAt(text, place, x) \in Seq(Char)
         /\ Len(InsertAt(text, place, x)) = Len(text) + 1
         /\ InsertAt(text, place, x)[place] = x
         /\ \A p \in 1 .. Len(text) + 1 :
              p # place => \E k \in 1 .. Len(text) : InsertAt(text, place, x)[p] = text[k]
<1>1. PICK n \in Nat : n = Len(text) /\ \A i \in 1 .. n : text[i] \in Char
  OBVIOUS
<1>2. place \in Nat /\ 1 <= place /\ place <= n + 1
  BY <1>1
<1>3. PICK a \in Seq(Char) :
        /\ a = SubSeq(text, 1, place - 1) /\ Len(a) = place - 1
        /\ \A i \in 1 .. place - 1 : a[i] = text[i]
  <2>1. \A i \in 1 .. place - 1 : text[i] \in Char
    BY <1>1, <1>2
  <2>2. 1 \in Int /\ place - 1 \in Int
    BY <1>2
  <2>3. /\ SubSeq(text, 1, place - 1) \in Seq(Char)
        /\ Len(SubSeq(text, 1, place - 1)) = IF 1 <= place - 1 THEN (place - 1) - 1 + 1 ELSE 0
        /\ \A i \in 1 .. (place - 1) - 1 + 1 : SubSeq(text, 1, place - 1)[i] = text[1 + i - 1]
    BY <2>1, <2>2, SubSeqProperties
  <2>4. Len(SubSeq(text, 1, place - 1)) = place - 1
    BY <1>2, <2>3
  <2>5. \A i \in 1 .. place - 1 : SubSeq(text, 1, place - 1)[i] = text[i]
    <3>1. ASSUME NEW i \in 1 .. place - 1
          PROVE  i \in 1 .. (place - 1) - 1 + 1 /\ 1 + i - 1 = i
      BY <1>2
    <3>. QED
      BY <2>3, <3>1
  <2>. QED
    BY <2>3, <2>4, <2>5, Zenon
<1>4. PICK b \in Seq(Char) :
        /\ b = SubSeq(text, place, Len(text)) /\ Len(b) = n - place + 1
        /\ \A i \in 1 .. n - place + 1 : b[i] = text[place + i - 1]
  <2>1. \A i \in place .. n : text[i] \in Char
    BY <1>1, <1>2
  <2>2. place \in Int /\ n \in Int
    BY <1>1, <1>2
  <2>3. /\ SubSeq(text, place, n) \in Seq(Char)
        /\ Len(SubSeq(text, place, n)) = IF place <= n THEN n - place + 1 ELSE 0
        /\ \A i \in 1 .. n - place + 1 : SubSeq(text, place, n)[i] = text[place + i - 1]
    BY <2>1, <2>2, SubSeqProperties
  <2>4. Len(SubSeq(text, place, n)) = n - place + 1
    BY <1>1, <1>2, <2>3
  <2>. QED
    BY <1>1, <2>3, <2>4, Zenon
<1>5. PICK e \in Seq(Char) : e = <<x>> /\ Len(e) = 1 /\ e[1] = x
  <2>1. x \in Char
    BY DEF Char
  <2>2. <<x>> \in Seq(Char) /\ Len(<<x>>) = 1 /\ <<x>>[1] = x
    BY <2>1
  <2>. QED
    BY <2>2, Zenon
<1>6. PICK ax \in Seq(Char) :
        /\ ax = a \o e /\ Len(ax) = place /\ ax[place] = x
        /\ \A i \in 1 .. place - 1 : ax[i] = text[i]
  <2>1. /\ a \o e \in Seq(Char) /\ Len(a \o e) = Len(a) + Len(e)
        /\ \A i \in 1 .. Len(a) + Len(e) : (a \o e)[i] = IF i <= Len(a) THEN a[i] ELSE e[i - Len(a)]
    BY ConcatProperties
  <2>2. Len(a) + Len(e) = place /\ place - Len(a) = 1 /\ ~(place <= Len(a)) /\ place \in 1 .. place
    BY <1>2, <1>3, <1>5
  <2>3. (a \o e)[place] = x
    BY <1>5, <2>1, <2>2
  <2>4. \A i \in 1 .. place - 1 : (a \o e)[i] = text[i]
    BY <1>2, <1>3, <2>1, <2>2
  <2>. QED
    BY <2>1, <2>2, <2>3, <2>4
<1>7. PICK s : /\ s = ax \o b /\ s \in Seq(Char) /\ Len(s) = n + 1
               /\ \A i \in 1 .. n + 1 : s[i] = IF i <= place THEN ax[i] ELSE b[i - place]
  <2>1. /\ ax \o b \in Seq(Char) /\ Len(ax \o b) = Len(ax) + Len(b)
        /\ \A i \in 1 .. Len(ax) + Len(b) : (ax \o b)[i] = IF i <= Len(ax) THEN ax[i] ELSE b[i - Len(ax)]
    BY ConcatProperties
  <2>2. Len(ax) + Len(b) = n + 1
    BY <1>1, <1>2, <1>4, <1>6
  <2>. QED
    BY <1>6, <2>1, <2>2
<1>8. s = InsertAt(text, place, x)
  BY <1>3, <1>4, <1>5, <1>6, <1>7 DEF InsertAt
<1>9. ASSUME NEW p \in 1 .. n + 1, p # place
      PROVE  \E k \in 1 .. n : s[p] = text[k]
  <2>1. CASE p < place
    <3>1. p \in 1 .. place - 1 /\ p <= place /\ p \in 1 .. n
      BY <1>2, <2>1
    <3>2. s[p] = ax[p] /\ ax[p] = text[p]
      BY <1>6, <1>7, <3>1
    <3>. QED
      BY <3>1, <3>2
  <2>2. CASE p > place
    <3>1. p - place \in 1 .. n - place + 1 /\ place + (p - place) - 1 = p - 1 /\ p - 1 \in 1 .. n
      BY <1>2, <2>2
    <3>2. s[p] = text[p - 1]
      BY <1>2, <1>4, <1>7, <2>2, <3>1
    <3>. QED
      BY <3>1, <3>2
  <2>. QED
    BY <1>2, <1>9, <2>1, <2>2
<1>10. s[place] = x
  BY <1>2, <1>6, <1>7
<1>. QED
  BY <1>1, <1>7, <1>8, <1>9, <1>10

LEMMA AllMultiByte ==
  ASSUME NEW text \in Seq(Char), Cardinality(MultiByte(text)) = Len(text)
  PROVE  MultiByte(text) = 1 .. Len(text)
<1>1. MultiByte(text) \in SUBSET (1 .. Len(text)) /\ Len(text) \in Nat
  BY DEF MultiByte
<1>2. IsFiniteSet(1 .. Len(text)) /\ Cardinality(1 .. Len(text)) = Len(text)
  <2>1. PICK n \in Nat : n = Len(text)
    BY <1>1
  <2>2. /\ IsFiniteSet(1 .. n)
        /\ Cardinality(1 .. n) = IF 1 > n THEN 0 ELSE n - 1 + 1
    <3>1. 1 \in Int /\ n \in Int
      OBVIOUS
    <3>. QED
      BY ONLY <3>1, FS_Interval
  <2>. QED
    BY <2>1, <2>2
<1>. QED
  BY <1>1, <1>2, FS_Subset

\* In a text of multi-byte characters the place is the next in a circle, and
\* the character the next one each time the circle is round.
LEMMA InsertRounds ==
  ASSUME NEW text \in Seq(Char), Cardinality(MultiByte(text)) = Len(text),
         Len(text) # 0, NEW index \in Nat
  PROVE  /\ InsertPlace(text, index) = (index % Len(text)) + 1
         /\ InsertedChar(text, index) =
              InsertedChars[((index \div Len(text)) % Len(InsertedChars)) + 1]
<1>1. PICK n \in Nat \ {0} : n = Len(text)
  <2>1. Len(text) \in Nat \ {0}
    OBVIOUS
  <2>. QED
    BY <2>1, Zenon
<1>2. PICK r \in 0 .. n - 1 : r = index % n
  BY DivFacts
<1>3. MultiByte(text) = 1 .. n
  BY <1>1, AllMultiByte
<1>4. PICK T \in SUBSET Nat : T = {k \in 1 .. n : k - 1 >= r}
  <2>1. {k \in 1 .. n : k - 1 >= r} \in SUBSET Nat
    OBVIOUS
  <2>. QED
    BY <2>1, Zenon
<1>5. r + 1 \in T /\ \A k \in T : r + 1 <= k
  BY <1>4
<1>6. Min(T) \in T /\ \A k \in T : Min(T) <= k
  BY <1>5, MinFacts
<1>7. Min(T) \in Nat /\ Min(T) = r + 1
  <2>1. PICK m \in Nat : m = Min(T) /\ m <= r + 1 /\ r + 1 <= m
    BY <1>5, <1>6
  <2>. QED
    BY <2>1
<1>8. InsertPlace(text, index) = Min(T)
  BY <1>1, <1>2, <1>3, <1>4 DEF InsertPlace
<1>9. InsertedChar(text, index) =
        InsertedChars[((index \div n) % Len(InsertedChars)) + 1]
  BY <1>1 DEF InsertedChar
<1>. QED
  BY <1>1, <1>2, <1>7, <1>8, <1>9

\* What is inserted for one destination, and where: q rounds, r places and
\* the character number m, from 0.
Inserts(text, index, q, r, m) ==
  /\ index = Len(text) * q + r /\ m = q % Len(InsertedChars)
  /\ InsertCharToString(text, index)[r + 2] = InsertedChars[m + 1]
  /\ InsertedChars[m + 1] \in Ascii
  /\ \A p \in 1 .. Len(text) + 1 : p # r + 2 =>
       InsertCharToString(text, index)[p] \notin Ascii

LEMMA InsertedFacts ==
  ASSUME NEW text \in Seq(Char), Cardinality(MultiByte(text)) = Len(text),
         NEW n \in Nat \ {0}, n = Len(text),
         NEW c \in Nat \ {0}, c = Len(InsertedChars), NEW index \in Nat
  PROVE  \E q \in Nat, r \in 0 .. n - 1, m \in 0 .. c - 1 : Inserts(text, index, q, r, m)
<1>1. PICK q \in Nat, r \in 0 .. n - 1 :
        q = index \div n /\ r = index % n /\ index = n * q + r
  <2>1. /\ index \div n \in Nat /\ index % n \in 0 .. n - 1
        /\ index = n * (index \div n) + (index % n)
    BY DivFacts
  <2>. QED
    BY <2>1, Zenon
<1>2. PICK m \in 0 .. c - 1 : m = q % c
  <2>1. q % c \in 0 .. c - 1
    BY DivFacts
  <2>. QED
    BY <2>1, Zenon
<1>3. PICK x \in Ascii : x = InsertedChars[m + 1]
  <2>1. m + 1 \in 1 .. c
    OBVIOUS
  <2>. QED
    BY <2>1, CharsAssumption
<1>4. InsertPlace(text, index) = r + 1 /\ InsertedChar(text, index) = x
  BY <1>1, <1>2, <1>3, InsertRounds
<1>5. InsertCharToString(text, index) = InsertAt(text, r + 2, x)
  <2>1. r + 1 + 1 = r + 2
    OBVIOUS
  <2>. QED
    BY <1>4, <2>1 DEF InsertCharToString
<1>6. r + 2 \in 1 .. Len(text) + 1
  OBVIOUS
<1>7. /\ InsertAt(text, r + 2, x)[r + 2] = x
      /\ \A p \in 1 .. Len(text) + 1 :
           p # r + 2 => \E k \in 1 .. Len(text) : InsertAt(text, r + 2, x)[p] = text[k]
  BY <1>6, InsertFacts
<1>8. \A k \in 1 .. Len(text) : text[k] \notin Ascii
  BY AllMultiByte DEF MultiByte
<1>9. Inserts(text, index, q, r, m)
  BY <1>1, <1>2, <1>3, <1>5, <1>7, <1>8 DEF Inserts
<1>. QED
  BY <1>9

(***************************************************************************)
(* Mode 2 makes the text of every destination another one: for a text of   *)
(* multi-byte characters no two destinations get the same, before every    *)
(* character of the table has been put into every place.                   *)
(***************************************************************************)
THEOREM TextsDiffer ==
  ASSUME NEW text \in Seq(Char), Cardinality(MultiByte(text)) = Len(text),
         NEW i \in Nat \ {0}, NEW j \in Nat \ {0}, i < j,
         j <= Len(text) * Len(InsertedChars)
  PROVE  InsertCharToString(text, i - 1) # InsertCharToString(text, j - 1)
<1>1. SUFFICES ASSUME InsertCharToString(text, i - 1) = InsertCharToString(text, j - 1)
               PROVE  FALSE
  OBVIOUS
<1>2. PICK n \in Nat, c \in Nat : n = Len(text) /\ c = Len(InsertedChars)
  BY CharsAssumption
<1>3. n # 0 /\ c # 0
  <2>1. n = 0 \/ c = 0 => n * c = 0
    OBVIOUS
  <2>. QED
    BY <1>2, <2>1
<1>4. i - 1 \in Nat /\ j - 1 \in Nat
  OBVIOUS
<1>5. n \in Nat \ {0} /\ c \in Nat \ {0}
  BY <1>3
<1>6. /\ \E q \in Nat, r \in 0 .. n - 1, m \in 0 .. c - 1 : Inserts(text, i - 1, q, r, m)
      /\ \E q \in Nat, r \in 0 .. n - 1, m \in 0 .. c - 1 : Inserts(text, j - 1, q, r, m)
  BY <1>2, <1>4, <1>5, InsertedFacts
<1>7. PICK qi \in Nat, ri \in 0 .. n - 1, mi \in 0 .. c - 1 : Inserts(text, i - 1, qi, ri, mi)
  BY <1>6
<1>8. PICK qj \in Nat, rj \in 0 .. n - 1, mj \in 0 .. c - 1 : Inserts(text, j - 1, qj, rj, mj)
  BY <1>6
<1>9. /\ i - 1 = n * qi + ri /\ mi = qi % c
      /\ InsertCharToString(text, i - 1)[ri + 2] = InsertedChars[mi + 1]
      /\ InsertedChars[mi + 1] \in Ascii
  BY <1>2, <1>7 DEF Inserts
<1>10. /\ j - 1 = n * qj + rj /\ mj = qj % c
      /\ InsertCharToString(text, j - 1)[rj + 2] = InsertedChars[mj + 1]
      /\ \A p \in 1 .. n + 1 : p # rj + 2 =>
           InsertCharToString(text, j - 1)[p] \notin Ascii
  BY <1>2, <1>8 DEF Inserts
<1>11. ri = rj
  <2>1. ri + 2 \in 1 .. n + 1 /\ (ri + 2 = rj + 2 => ri = rj)
    OBVIOUS
  <2>. QED
    BY <1>1, <1>9, <1>10, <2>1
<1>12. mi = mj
  <2>1. mi + 1 \in 1 .. c /\ mj + 1 \in 1 .. c /\ (mi + 1 = mj + 1 => mi = mj)
    OBVIOUS
  <2>2. \A k, l \in 1 .. c : InsertedChars[k] = InsertedChars[l] => k = l
    BY <1>2, CharsAssumption DEF IsInjective
  <2>3. InsertedChars[mi + 1] = InsertedChars[mj + 1]
    BY <1>1, <1>9, <1>10, <1>11
  <2>. QED
    BY <2>1, <2>2, <2>3
<1>13. ASSUME NEW q \in Nat, NEW r \in 0 .. n - 1, n * q + r < n * c
      PROVE  q < c
  <2>1. PICK y \in Int : y = n * q /\ y = q * n
    BY ProductNext
  <2>2. PICK z \in Int : z = n * c /\ z = c * n
    BY ProductNext
  <2>3. q * n < c * n
    BY <1>13, <2>1, <2>2
  <2>. QED
    BY <1>3, <2>3, ProductOrder
<1>14. PICK z \in Int : z = n * c /\ i - 1 < z /\ j - 1 < z
  BY <1>2, ProductNext
<1>15. qi < c /\ qj < c
  BY <1>9, <1>10, <1>13, <1>14
<1>16. mi = qi /\ mj = qj
  <2>1. qi \in 0 .. c - 1 /\ qj \in 0 .. c - 1 /\ c \in Nat \ {0}
    BY <1>3, <1>15
  <2>. QED
    BY <1>9, <1>10, <2>1, SmallRemainder
<1>17. i - 1 = j - 1
  BY <1>9, <1>10, <1>11, <1>12, <1>16
<1>. QED
  BY <1>17

\* Whatever the text, one with a multi-byte character gets the character in
\* front of one of its own or at its end.
LEMMA InsertIsText ==
  ASSUME NEW text \in Seq(Char), CanInsert(text), NEW index \in Nat
  PROVE  InsertCharToString(text, index) \in Seq(Char)
<1>1. PICK n \in Nat : n = Len(text) /\ MultiByte(text) \in SUBSET (1 .. n)
  <2>1. Len(text) \in Nat /\ MultiByte(text) \in SUBSET (1 .. Len(text))
    BY DEF MultiByte
  <2>. QED
    BY <2>1
<1>2. IsFiniteSet(MultiByte(text))
  <2>1. 1 \in Int /\ n \in Int
    OBVIOUS
  <2>2. IsFiniteSet(1 .. n)
    BY ONLY <2>1, FS_Interval
  <2>. QED
    BY <1>1, <2>2, FS_Subset
<1>3. PICK c \in Nat \ {0} : c = Cardinality(MultiByte(text))
  <2>1. Cardinality(MultiByte(text)) \in Nat
    BY <1>2, FS_CardinalityType
  <2>2. Cardinality(MultiByte(text)) # 0
    BY <1>2, FS_EmptySet DEF CanInsert
  <2>. QED
    BY <2>1, <2>2
<1>4. \E k \in MultiByte(text) : k >= c
  <2>1. SUFFICES ASSUME \A k \in MultiByte(text) : k < c
                 PROVE  FALSE
    BY <1>1
  <2>2. MultiByte(text) \in SUBSET (1 .. c - 1)
    BY <1>1, <2>1
  <2>3. 1 \in Int /\ c - 1 \in Int
    OBVIOUS
  <2>4. /\ IsFiniteSet(1 .. c - 1)
        /\ Cardinality(1 .. c - 1) = IF 1 > c - 1 THEN 0 ELSE (c - 1) - 1 + 1
    BY ONLY <2>3, FS_Interval
  <2>5. c <= Cardinality(1 .. c - 1)
    BY <1>3, <2>2, <2>4, FS_Subset
  <2>. QED
    BY <2>4, <2>5
<1>5. PICK r \in 0 .. c - 1 : r = index % c
  <2>1. index % c \in 0 .. c - 1
    BY DivFacts
  <2>. QED
    BY <2>1, Zenon
<1>6. PICK T \in SUBSET Nat : T = {k \in MultiByte(text) : k - 1 >= r}
  <2>1. {k \in MultiByte(text) : k - 1 >= r} \in SUBSET Nat
    BY <1>1
  <2>. QED
    BY <2>1, Zenon
<1>7. T # {}
  BY <1>1, <1>4, <1>6
<1>8. Min(T) \in 1 .. n
  BY <1>1, <1>6, <1>7, MinFacts
<1>9. InsertPlace(text, index) = Min(T)
  BY <1>3, <1>5, <1>6 DEF InsertPlace
<1>10. InsertedChar(text, index) \in Ascii
  <2>1. PICK l \in Nat \ {0} : l = Len(InsertedChars)
    <3>1. Len(InsertedChars) \in Nat \ {0}
      BY CharsAssumption
    <3>. QED
      BY <3>1, Zenon
  <2>2. index \div c \in Nat
    BY DivFacts
  <2>3. (index \div c) % l \in 0 .. l - 1
    BY <2>2, DivFacts
  <2>4. ((index \div c) % l) + 1 \in 1 .. l
    BY <2>3
  <2>5. \A k \in 1 .. l : InsertedChars[k] \in Ascii
    BY <2>1, CharsAssumption
  <2>. QED
    BY <1>3, <2>1, <2>4, <2>5 DEF InsertedChar
<1>11. Min(T) + 1 \in 1 .. Len(text) + 1
  BY <1>1, <1>8
<1>. QED
  BY <1>9, <1>10, <1>11, InsertFacts DEF InsertCharToString


-----------------------------------------------------------------------------
(* Sequences put together, and what remains of them                        *)

\* FlattenSeq goes through the sequences one after the other.
Flattens(S, s, n, g) ==
  /\ g \in [0 .. n -> Seq(S)]
  /\ g[0] = << >> /\ \A i \in 1 .. n : g[i] = g[i - 1] \o s[i]
  /\ FlattenSeq(s) = g[n]

LEMMA FlattenSteps ==
  ASSUME NEW S, NEW n \in Nat, NEW s \in Seq(Seq(S)), Len(s) = n
  PROVE  \E g : Flattens(S, s, n, g)
<1>0. DOMAIN s = 1 .. n /\ \A i \in 1 .. n : s[i] \in Seq(S)
  OBVIOUS
<1>1. PICK D : D = Seq(S)
  OBVIOUS
<1>2. PICK F : F = [x \in D \X Nat |-> IF x[2] \in 1 .. n THEN x[1] \o s[x[2]] ELSE x[1]]
  OBVIOUS
<1>3. F \in [D \X Nat -> D]
  <2>1. \A x \in D \X Nat : (IF x[2] \in 1 .. n THEN x[1] \o s[x[2]] ELSE x[1]) \in D
    BY <1>0, <1>1, ConcatProperties
  <2>. QED
    BY <1>2, <2>1
<1>4. PICK a \in D : a = << >>
  <2>1. << >> \in Seq(S)
    OBVIOUS
  <2>. QED
    BY <1>1, <2>1
<1>5. PICK g \in [0 .. n -> D] : g[0] = a /\ \A i \in 1 .. n : g[i] = F[<<g[i - 1], i>>]
  <2>1. Recursions(D, a, F, n) # {}
    BY <1>3, RecursionExists
  <2>. QED
    BY <2>1 DEF Recursions
<1>6. \A i \in 1 .. n : g[i - 1] \in D /\ g[i] = g[i - 1] \o s[i]
  <2>1. ASSUME NEW i \in 1 .. n PROVE g[i - 1] \in D /\ g[i] = g[i - 1] \o s[i]
    <3>0. i - 1 \in 0 .. n
      OBVIOUS
    <3>1. PICK b \in D : b = g[i - 1]
      BY <1>5, <3>0
    <3>2. <<b, i>> \in D \X Nat /\ <<b, i>>[1] = b /\ <<b, i>>[2] = i
      OBVIOUS
    <3>3. F[<<b, i>>] = b \o s[i]
      BY <1>2, <3>2
    <3>. QED
      BY <1>5, <3>1, <3>3
  <2>. QED
    BY <2>1
<1>7. CASE n = 0
  <2>1. FlattenSeq(s) = << >>
    BY <1>7 DEF FlattenSeq
  <2>. QED
    BY <1>1, <1>4, <1>5, <1>6, <1>7, <2>1 DEF Flattens
<1>8. CASE n # 0
  <2>1. PICK h : h = [i \in 1 .. n |-> g[i]]
    OBVIOUS
  <2>2. ASSUME NEW i \in 1 .. n
        PROVE  h[i] = IF i = 1 THEN s[i] ELSE h[i - 1] \o s[i]
    <3>1. CASE i = 1
      <4>1. g[1] = << >> \o s[1]
        <5>1. 1 \in 1 .. n /\ 1 - 1 = 0
          BY <3>1
        <5>2. g[1] = g[1 - 1] \o s[1]
          BY <1>6, <5>1
        <5>. QED
          BY <1>4, <1>5, <5>1, <5>2
      <4>2. << >> \o s[1] = s[1]
        BY <1>0, <3>1, ConcatEmptySeq
      <4>. QED
        BY <2>1, <3>1, <4>1, <4>2
    <3>2. CASE i # 1
      <4>1. i - 1 \in 1 .. n
        BY <3>2
      <4>. QED
        BY <1>6, <2>1, <3>2, <4>1
    <3>. QED
      BY <3>1, <3>2
  <2>3. h = [i \in 1 .. n |-> IF i = 1 THEN s[i] ELSE h[i - 1] \o s[i]]
    BY <2>1, <2>2
  <2>4. PICK f : f = CHOOSE all : all = [i \in 1 .. n |-> IF i = 1 THEN s[i] ELSE all[i - 1] \o s[i]]
    OBVIOUS
  <2>5. f = [i \in 1 .. n |-> IF i = 1 THEN s[i] ELSE f[i - 1] \o s[i]]
    BY <2>3, <2>4, Zenon
  <2>6. FlattenSeq(s) = f[n]
    BY <1>8, <2>4 DEF FlattenSeq
  <2>7. n \in {i \in Nat : i \in 1 .. n => f[i] = g[i]}
    <3>. DEFINE T == {i \in Nat : i \in 1 .. n => f[i] = g[i]}
    <3>1. 0 \in T
      OBVIOUS
    <3>2. ASSUME NEW i \in Nat, i \in T PROVE i + 1 \in T
      <4>1. SUFFICES ASSUME i + 1 \in 1 .. n PROVE f[i + 1] = g[i + 1]
        OBVIOUS
      <4>2. f[i + 1] = IF i + 1 = 1 THEN s[i + 1] ELSE f[(i + 1) - 1] \o s[i + 1]
        BY <2>5, <4>1
      <4>3. CASE i = 0
        BY <2>1, <2>2, <4>1, <4>2, <4>3
      <4>4. CASE i # 0
        <5>1. f[i] = g[i] /\ (i + 1) - 1 = i /\ i + 1 # 1
          BY <3>2, <4>1, <4>4
        <5>2. g[i + 1] = g[(i + 1) - 1] \o s[i + 1]
          BY <1>6, <4>1
        <5>. QED
          BY <4>2, <5>1, <5>2
      <4>. QED
        BY <4>3, <4>4
    <3>3. Nat \subseteq T
      BY <3>1, <3>2, Induction
    <3>. QED
      BY <3>3
  <2>8. FlattenSeq(s) = g[n]
    BY <1>8, <2>6, <2>7
  <2>. QED
    BY <1>1, <1>4, <1>5, <1>6, <2>8 DEF Flattens
<1>. QED
  BY <1>7, <1>8

LEMMA FlattenType ==
  ASSUME NEW S, NEW s \in Seq(Seq(S))
  PROVE  FlattenSeq(s) \in Seq(S)
<1>1. PICK n \in Nat : Len(s) = n
  OBVIOUS
<1>2. PICK g : Flattens(S, s, n, g)
  BY <1>1, FlattenSteps
<1>3. n \in 0 .. n
  OBVIOUS
<1>. QED
  BY <1>2, <1>3, Zenon DEF Flattens

LEMMA FlattenEmpty == FlattenSeq(<< >>) = << >>
  BY DEF FlattenSeq

\* One more sequence comes behind the others.
LEMMA FlattenAppend ==
  ASSUME NEW S, NEW s \in Seq(Seq(S)), NEW x \in Seq(S)
  PROVE  FlattenSeq(Append(s, x)) = FlattenSeq(s) \o x
<1>1. PICK n \in Nat : Len(s) = n
  OBVIOUS
<1>2. PICK t \in Seq(Seq(S)) :
        /\ t = Append(s, x) /\ Len(t) = n + 1
        /\ t[n + 1] = x /\ \A k \in 1 .. n : t[k] = s[k]
  <2>1. /\ Append(s, x) \in Seq(Seq(S)) /\ Len(Append(s, x)) = Len(s) + 1
        /\ Append(s, x)[Len(s) + 1] = x /\ \A k \in 1 .. Len(s) : Append(s, x)[k] = s[k]
    BY AppendProperties
  <2>. QED
    BY <1>1, <2>1
<1>11. PICK gg : Flattens(S, s, n, gg)
  BY <1>1, FlattenSteps
<1>3. PICK g \in [0 .. n -> Seq(S)] :
        /\ g[0] = << >> /\ \A i \in 1 .. n : g[i] = g[i - 1] \o s[i]
        /\ FlattenSeq(s) = g[n]
  BY <1>11 DEF Flattens
<1>4. PICK h \in [0 .. n + 1 -> Seq(S)] :
        /\ h[0] = << >> /\ \A i \in 1 .. n + 1 : h[i] = h[i - 1] \o t[i]
        /\ FlattenSeq(t) = h[n + 1]
  <2>1. PICK m \in Nat : m = n + 1
    OBVIOUS
  <2>2. PICK h : Flattens(S, t, m, h)
    BY <1>2, <2>1, FlattenSteps
  <2>. QED
    BY <2>1, <2>2 DEF Flattens
<1>. DEFINE T == {i \in Nat : i <= n => h[i] = g[i]}
<1>5. 0 \in T
  BY <1>3, <1>4
<1>6. ASSUME NEW i \in Nat, i \in T PROVE i + 1 \in T
  <2>1. SUFFICES ASSUME i + 1 <= n PROVE h[i + 1] = g[i + 1]
    OBVIOUS
  <2>2. /\ i + 1 \in 1 .. n /\ i + 1 \in 1 .. n + 1 /\ (i + 1) - 1 = i
        /\ h[i] = g[i]
    BY <1>6, <2>1
  <2>3. g[i + 1] = g[i] \o s[i + 1] /\ h[i + 1] = h[i] \o t[i + 1]
    BY <1>3, <1>4, <2>2
  <2>. QED
    BY <1>2, <2>2, <2>3
<1>7. Nat \subseteq T
  BY <1>5, <1>6, Induction
<1>8. h[n] = g[n]
  BY <1>7
<1>9. n + 1 \in 1 .. n + 1 /\ (n + 1) - 1 = n
  OBVIOUS
<1>10. h[n + 1] = h[n] \o t[n + 1]
  BY <1>4, <1>9
<1>. QED
  BY <1>2, <1>3, <1>4, <1>8, <1>10

\* A set of sequences with the empty one that is closed under Append.
LEMMA SeqInduction ==
  ASSUME NEW S, NEW T, << >> \in T,
         \A s \in Seq(S), x \in S : s \in T => Append(s, x) \in T
  PROVE  Seq(S) \subseteq T
<1>. DEFINE N == {n \in Nat : \A s \in Seq(S) : Len(s) = n => s \in T}
<1>1. 0 \in N
  <2>1. \A s \in Seq(S) : Len(s) = 0 => s = << >>
    BY EmptySeq
  <2>. QED
    BY <2>1
<1>2. ASSUME NEW n \in Nat, n \in N PROVE n + 1 \in N
  <2>1. SUFFICES ASSUME NEW s \in Seq(S), Len(s) = n + 1 PROVE s \in T
    OBVIOUS
  <2>2. s # << >>
    BY <2>1
  <2>3. PICK r \in Seq(S), x \in S : s = Append(r, x)
    BY <2>2, SequenceEmptyOrAppend
  <2>4. Len(s) = Len(r) + 1 /\ Len(r) \in Nat
    BY <2>3, AppendProperties
  <2>5. Len(r) = n
    BY <2>1, <2>4
  <2>. QED
    BY <1>2, <2>3, <2>5
<1>3. Nat \subseteq N
  BY <1>1, <1>2, Induction
<1>. QED
  BY <1>3

\* What Only puts together.
Kept(seq, K) == [i \in DOMAIN seq |-> IF seq[i] \in K THEN <<seq[i]>> ELSE << >>]

LEMMA KeptType ==
  ASSUME NEW S, NEW s \in Seq(S), NEW K
  PROVE  Kept(s, K) \in Seq(Seq(S))
<1>1. PICK n \in Nat : DOMAIN s = 1 .. n /\ \A i \in 1 .. n : s[i] \in S
  BY LenProperties
<1>2. \A i \in 1 .. n : (IF s[i] \in K THEN <<s[i]>> ELSE << >>) \in Seq(S)
  BY <1>1
<1>3. Kept(s, K) = [i \in 1 .. n |-> IF s[i] \in K THEN <<s[i]>> ELSE << >>]
  BY <1>1 DEF Kept
<1>. QED
  BY <1>2, <1>3

LEMMA OnlyType ==
  ASSUME NEW S, NEW s \in Seq(S), NEW K
  PROVE  Only(s, K) \in Seq(S)
<1>1. Only(s, K) = FlattenSeq(Kept(s, K))
  BY DEF Only, Kept
<1>. QED
  BY <1>1, KeptType, FlattenType

LEMMA OnlyEmpty ==
  ASSUME NEW K
  PROVE  Only(<< >>, K) = << >>
<1>1. Kept(<< >>, K) = << >>
  BY DEF Kept
<1>2. Only(<< >>, K) = FlattenSeq(Kept(<< >>, K))
  BY DEF Only, Kept
<1>. QED
  BY <1>1, <1>2, FlattenEmpty

LEMMA OnlyAppend ==
  ASSUME NEW S, NEW s \in Seq(S), NEW x \in S, NEW K
  PROVE  Only(Append(s, x), K) = IF x \in K THEN Append(Only(s, K), x) ELSE Only(s, K)
<1>1. PICK n \in Nat, t \in Seq(S) :
        /\ DOMAIN s = 1 .. n /\ t = Append(s, x) /\ DOMAIN t = 1 .. n + 1
        /\ t[n + 1] = x /\ \A k \in 1 .. n : t[k] = s[k]
  <2>1. /\ Append(s, x) \in Seq(S) /\ Len(Append(s, x)) = Len(s) + 1
        /\ Append(s, x)[Len(s) + 1] = x /\ \A k \in 1 .. Len(s) : Append(s, x)[k] = s[k]
    BY AppendProperties
  <2>2. Len(s) \in Nat /\ DOMAIN s = 1 .. Len(s) /\ DOMAIN Append(s, x) = 1 .. Len(Append(s, x))
    BY <2>1, LenProperties
  <2>. QED
    BY <2>1, <2>2
<1>2. PICK y \in Seq(S) : y = IF x \in K THEN <<x>> ELSE << >>
  <2>1. <<x>> \in Seq(S) /\ << >> \in Seq(S)
    OBVIOUS
  <2>. QED
    BY <2>1
<1>3. PICK k \in Seq(Seq(S)), l \in Seq(Seq(S)) : k = Kept(s, K) /\ l = Append(k, y)
  <2>1. PICK k \in Seq(Seq(S)) : k = Kept(s, K)
    BY KeptType
  <2>2. Append(k, y) \in Seq(Seq(S))
    BY <1>2, <2>1, AppendProperties
  <2>. QED
    BY <2>1, <2>2
<1>4. /\ DOMAIN k = 1 .. n /\ Len(k) = n /\ Len(l) = n + 1 /\ DOMAIN l = 1 .. n + 1
      /\ l[n + 1] = y /\ \A i \in 1 .. n : l[i] = k[i]
  <2>1. DOMAIN k = 1 .. n
    BY <1>1, <1>3 DEF Kept
  <2>2. Len(k) = n
    BY <2>1, LenProperties
  <2>3. Len(l) = Len(k) + 1 /\ l[Len(k) + 1] = y /\ \A i \in 1 .. Len(k) : l[i] = k[i]
    BY <1>3, AppendProperties
  <2>4. DOMAIN l = 1 .. Len(l)
    BY LenProperties
  <2>. QED
    BY <2>1, <2>2, <2>3, <2>4
<1>5. Kept(t, K) = l
  <2>1. Kept(t, K) \in Seq(Seq(S)) /\ DOMAIN Kept(t, K) = 1 .. n + 1
    BY <1>1, KeptType DEF Kept
  <2>2. \A i \in 1 .. n + 1 : Kept(t, K)[i] = IF t[i] \in K THEN <<t[i]>> ELSE << >>
    BY <1>1 DEF Kept
  <2>3. \A i \in 1 .. n : k[i] = IF s[i] \in K THEN <<s[i]>> ELSE << >>
    BY <1>1, <1>3 DEF Kept
  <2>4. \A i \in 1 .. n + 1 : Kept(t, K)[i] = l[i]
    <3>1. ASSUME NEW i \in 1 .. n + 1 PROVE Kept(t, K)[i] = l[i]
      <4>1. CASE i \in 1 .. n
        BY <1>1, <1>4, <2>2, <2>3, <4>1
      <4>2. CASE i = n + 1
        BY <1>1, <1>2, <1>4, <2>2, <4>2
      <4>. QED
        BY <4>1, <4>2
    <3>. QED
      BY <3>1
  <2>5. Len(Kept(t, K)) = n + 1
    BY <2>1, LenProperties
  <2>. QED
    BY <1>4, <2>1, <2>4, <2>5, SeqEqual
<1>6. Only(t, K) = FlattenSeq(l) /\ Only(s, K) = FlattenSeq(k)
  BY <1>3, <1>5 DEF Only, Kept
<1>7. FlattenSeq(l) = FlattenSeq(k) \o y
  BY <1>3, FlattenAppend
<1>8. Only(s, K) \in Seq(S)
  BY OnlyType
<1>9. CASE x \in K
  <2>1. Append(Only(s, K), x) = Only(s, K) \o <<x>>
    BY <1>8, AppendIsConcat
  <2>. QED
    BY <1>1, <1>2, <1>6, <1>7, <1>9, <2>1
<1>10. CASE x \notin K
  <2>1. Only(s, K) \o << >> = Only(s, K)
    BY <1>8, ConcatEmptySeq
  <2>. QED
    BY <1>1, <1>2, <1>6, <1>7, <1>10, <2>1
<1>. QED
  BY <1>9, <1>10

LEMMA AppendConcat ==
  ASSUME NEW S, NEW a \in Seq(S), NEW b \in Seq(S), NEW x \in S
  PROVE  a \o Append(b, x) = Append(a \o b, x)
<1>1. <<x>> \in Seq(S) /\ a \o b \in Seq(S)
  BY ConcatProperties
<1>2. Append(b, x) = b \o <<x>> /\ Append(a \o b, x) = (a \o b) \o <<x>>
  BY <1>1, AppendIsConcat
<1>3. (a \o b) \o <<x>> = a \o (b \o <<x>>)
  BY <1>1, ConcatAssociative
<1>. QED
  BY <1>2, <1>3

LEMMA OnlyConcat ==
  ASSUME NEW S, NEW a \in Seq(S), NEW b \in Seq(S), NEW K
  PROVE  Only(a \o b, K) = Only(a, K) \o Only(b, K)
<1>. DEFINE T == {c \in Seq(S) : Only(a \o c, K) = Only(a, K) \o Only(c, K)}
<1>1. << >> \in T
  <2>1. a \o << >> = a /\ Only(a, K) \o << >> = Only(a, K)
    BY OnlyType, ConcatEmptySeq
  <2>2. << >> \in Seq(S)
    OBVIOUS
  <2>. QED
    BY <2>1, <2>2, OnlyEmpty
<1>2. ASSUME NEW c \in Seq(S), NEW x \in S, c \in T PROVE Append(c, x) \in T
  <2>1. PICK ac \in Seq(S) : ac = a \o c
    BY ConcatProperties
  <2>2. PICK oa \in Seq(S), oc \in Seq(S), oac \in Seq(S) :
          oa = Only(a, K) /\ oc = Only(c, K) /\ oac = Only(ac, K)
    BY OnlyType
  <2>3. oac = oa \o oc
    BY <1>2, <2>1, <2>2
  <2>4. a \o Append(c, x) = Append(ac, x)
    BY <2>1, AppendConcat
  <2>5. Only(Append(ac, x), K) = IF x \in K THEN Append(oac, x) ELSE oac
    BY <2>2, OnlyAppend
  <2>6. Only(Append(c, x), K) = IF x \in K THEN Append(oc, x) ELSE oc
    BY <2>2, OnlyAppend
  <2>7. oa \o Append(oc, x) = Append(oa \o oc, x)
    BY <2>2, AppendConcat
  <2>8. Append(c, x) \in Seq(S)
    BY AppendProperties
  <2>9. Only(a \o Append(c, x), K) = Only(a, K) \o Only(Append(c, x), K)
    BY <2>2, <2>3, <2>4, <2>5, <2>6, <2>7
  <2>. QED
    BY <2>8, <2>9
<1>3. Seq(S) \subseteq T
  BY <1>1, <1>2, SeqInduction
<1>. QED
  BY <1>3

LEMMA OnlyAll ==
  ASSUME NEW S, NEW K, S \subseteq K, NEW s \in Seq(S)
  PROVE  Only(s, K) = s
<1>. DEFINE T == {c \in Seq(S) : Only(c, K) = c}
<1>1. << >> \in T
  BY OnlyEmpty
<1>2. ASSUME NEW c \in Seq(S), NEW x \in S, c \in T PROVE Append(c, x) \in T
  <2>1. Only(Append(c, x), K) = Append(Only(c, K), x)
    BY OnlyAppend
  <2>2. Append(c, x) \in Seq(S)
    BY AppendProperties
  <2>. QED
    BY <1>2, <2>1, <2>2
<1>3. Seq(S) \subseteq T
  BY <1>1, <1>2, SeqInduction
<1>. QED
  BY <1>3

LEMMA OnlyNone ==
  ASSUME NEW S, NEW K, S \intersect K = {}, NEW s \in Seq(S)
  PROVE  Only(s, K) = << >>
<1>. DEFINE T == {c \in Seq(S) : Only(c, K) = << >>}
<1>1. << >> \in T
  BY OnlyEmpty
<1>2. ASSUME NEW c \in Seq(S), NEW x \in S, c \in T PROVE Append(c, x) \in T
  <2>1. Only(Append(c, x), K) = Only(c, K)
    BY OnlyAppend
  <2>2. Append(c, x) \in Seq(S)
    BY AppendProperties
  <2>. QED
    BY <1>2, <2>1, <2>2
<1>3. Seq(S) \subseteq T
  BY <1>1, <1>2, SeqInduction
<1>. QED
  BY <1>3

\* Nothing is added, and nothing remains only of what has nothing to keep.
LEMMA OnlyLength ==
  ASSUME NEW S, NEW K, NEW s \in Seq(S)
  PROVE  /\ Len(Only(s, K)) <= Len(s)
         /\ Only(s, K) = << >> => \A i \in 1 .. Len(s) : s[i] \notin K
<1>. DEFINE T == {c \in Seq(S) : /\ Len(Only(c, K)) <= Len(c)
                                 /\ Only(c, K) = << >> => \A i \in 1 .. Len(c) : c[i] \notin K}
<1>1. << >> \in T
  BY OnlyEmpty
<1>2. ASSUME NEW c \in Seq(S), NEW x \in S, c \in T PROVE Append(c, x) \in T
  <2>1. PICK o \in Seq(S), d \in Seq(S) : o = Only(c, K) /\ d = Append(c, x)
    BY OnlyType, AppendProperties
  <2>2. /\ Len(d) = Len(c) + 1 /\ Len(c) \in Nat /\ Len(o) \in Nat
        /\ d[Len(c) + 1] = x /\ \A i \in 1 .. Len(c) : d[i] = c[i]
    BY <2>1, AppendProperties
  <2>3. Len(Append(o, x)) = Len(o) + 1 /\ Append(o, x) # << >>
    BY <2>1, AppendProperties
  <2>4. Only(d, K) = IF x \in K THEN Append(o, x) ELSE o
    BY <2>1, OnlyAppend
  <2>5. Len(o) <= Len(c) /\ (o = << >> => \A i \in 1 .. Len(c) : c[i] \notin K)
    BY <1>2, <2>1
  <2>6. Len(Only(d, K)) <= Len(d)
    BY <2>2, <2>3, <2>4, <2>5
  <2>7. ASSUME Only(d, K) = << >>, NEW i \in 1 .. Len(d) PROVE d[i] \notin K
    <3>1. x \notin K /\ o = << >>
      BY <2>3, <2>4, <2>7
    <3>2. CASE i \in 1 .. Len(c)
      BY <2>2, <2>5, <3>1, <3>2
    <3>3. CASE i = Len(c) + 1
      BY <2>2, <3>1, <3>3
    <3>. QED
      BY <2>2, <3>2, <3>3
  <2>. QED
    BY <2>1, <2>6, <2>7
<1>3. Seq(S) \subseteq T
  BY <1>1, <1>2, SeqInduction
<1>. QED
  BY <1>3


\* Only the elements that there are matter.
LEMMA OnlySame ==
  ASSUME NEW S, NEW K, NEW L, \A x \in S : x \in K <=> x \in L, NEW s \in Seq(S)
  PROVE  Only(s, K) = Only(s, L)
<1>1. PICK n \in Nat : DOMAIN s = 1 .. n /\ \A i \in 1 .. n : s[i] \in S
  BY LenProperties
<1>2. \A i \in 1 .. n : (IF s[i] \in K THEN <<s[i]>> ELSE << >>)
                          = (IF s[i] \in L THEN <<s[i]>> ELSE << >>)
  BY <1>1
<1>3. Kept(s, K) = Kept(s, L)
  BY <1>1, <1>2 DEF Kept
<1>. QED
  BY <1>3 DEF Only, Kept



-----------------------------------------------------------------------------
(* All segments of a text together                                         *)

\* Where the segments of a text that needs several begin, l characters of it
\* being counted in.
LEMMA SegmentBounds ==
  ASSUME NEW text \in Seq(Char), MessageLength(text) > MaxSingle(text)
  PROVE  \E m \in Nat, d \in Nat \ {0}, l \in 1 .. Len(text) :
           /\ m = NumberOfSegments(text) /\ d = MaxMultipart(text) /\ l = MessageLength(text)
           /\ m > 1 /\ d <= MaxSingle(text) /\ d < l
           /\ Before(text, 1) = 0
           /\ \A j \in 1 .. m : Before(text, j) \in Nat /\ Before(text, j) < l
           /\ \A j \in 1 .. m : j # m => /\ Before(text, j + 1) = Before(text, j) + d
                                         /\ Before(text, j) + d < l
           /\ l <= Before(text, m) + d
<1>1. PICK m, d, l : m = NumberOfSegments(text) /\ d = MaxMultipart(text) /\ l = MessageLength(text)
  OBVIOUS
<1>2. d \in Nat \ {0} /\ MaxSingle(text) \in Nat /\ d <= MaxSingle(text) /\ l > MaxSingle(text)
  BY <1>1, LimitFacts
<1>3. m \in Nat /\ l \in 0 .. Len(text) /\ Len(text) \in Nat /\ l <= m * d
  BY <1>1, CountFacts
<1>4. l \in 1 .. Len(text) /\ d < l
  BY <1>2, <1>3
<1>5. m > 0 /\ (m - 1) * d < l
  BY <1>1, <1>4, CountFacts
<1>6. m > 1
  <2>1. m = 1 => m * d = d
    BY <1>2
  <2>. QED
    BY <1>2, <1>3, <1>4, <1>5, <2>1
<1>7. \A j \in Int : Before(text, j) = (j - 1) * d
  BY <1>1 DEF Before
<1>8. ASSUME NEW j \in 1 .. m PROVE Before(text, j) \in Nat /\ Before(text, j) < l
  <2>1. j - 1 \in Nat /\ m - 1 \in Nat /\ j - 1 <= m - 1
    BY <1>3, <1>5
  <2>2. (j - 1) * d \in Nat /\ (m - 1) * d \in Nat
    BY <1>2, <2>1
  <2>3. (j - 1) * d <= (m - 1) * d
    BY <1>2, <2>1, ProductOrder
  <2>4. Before(text, j) = (j - 1) * d
    BY <1>3, <1>7
  <2>. QED
    BY <1>4, <1>5, <2>2, <2>3, <2>4
<1>9. ASSUME NEW j \in 1 .. m, j # m
      PROVE  Before(text, j + 1) = Before(text, j) + d /\ Before(text, j) + d < l
  <2>1. j + 1 \in 1 .. m /\ (j + 1) - 1 = (j - 1) + 1 /\ j - 1 \in Int /\ j \in Int
    BY <1>3, <1>9
  <2>2. ((j - 1) + 1) * d = (j - 1) * d + d
    BY <1>2, <2>1, ProductNext
  <2>3. Before(text, j + 1) = Before(text, j) + d
    BY <1>7, <2>1, <2>2
  <2>. QED
    BY <1>8, <2>1, <2>3
<1>10. Before(text, 1) = 0
  BY <1>2, <1>7
<1>11. l <= Before(text, m) + d
  <2>1. (m - 1) * d = m * d - d /\ m * d \in Int
    BY <1>2, <1>3, ProductNext
  <2>. QED
    BY <1>2, <1>3, <1>7, <2>1
<1>. QED
  BY <1>1, <1>2, <1>3, <1>4, <1>6, <1>8, <1>9, <1>10, <1>11

\* A piece of a text.
LEMMA PieceFacts ==
  ASSUME NEW text \in Seq(Char), NEW b \in Nat, NEW e \in Nat, b <= e, e <= Len(text)
  PROVE  /\ SubSeq(text, b + 1, e) \in Seq(Char)
         /\ Len(SubSeq(text, b + 1, e)) = e - b
         /\ \A k \in 1 .. e - b : SubSeq(text, b + 1, e)[k] = text[b + k]
<1>1. Len(text) \in Nat /\ \A i \in 1 .. Len(text) : text[i] \in Char
  BY LenProperties
<1>2. b + 1 \in Int /\ e \in Int /\ \A i \in b + 1 .. e : text[i] \in Char
  BY <1>1
<1>3. /\ SubSeq(text, b + 1, e) \in Seq(Char)
      /\ Len(SubSeq(text, b + 1, e)) = IF b + 1 <= e THEN e - (b + 1) + 1 ELSE 0
      /\ \A k \in 1 .. e - (b + 1) + 1 : SubSeq(text, b + 1, e)[k] = text[(b + 1) + k - 1]
  BY <1>2, SubSeqProperties
<1>. QED
  BY <1>3

\* The units that a conversion back loses are lost characters.
LEMMA ConvertedFacts ==
  ASSUME NEW u \in Seq(Char)
  PROVE  /\ Ucs2ToUtf8(u) \in Seq(Char) /\ Len(Ucs2ToUtf8(u)) <= Len(u)
         /\ Ucs2ToUtf8(u) = << >> => \A k \in 1 .. Len(u) : u[k] \in Lost
<1>1. Only(u, Char \ Lost) \in Seq(Char)
  BY OnlyType
<1>2. /\ Len(Only(u, Char \ Lost)) <= Len(u)
      /\ Only(u, Char \ Lost) = << >> => \A k \in 1 .. Len(u) : u[k] \notin Char \ Lost
  BY OnlyLength
<1>3. \A k \in 1 .. Len(u) : u[k] \in Char
  BY LenProperties
<1>. QED
  BY <1>1, <1>2, <1>3 DEF Ucs2ToUtf8

LEMMA ConvertedConcat ==
  ASSUME NEW a \in Seq(Char), NEW b \in Seq(Char)
  PROVE  Ucs2ToUtf8(a \o b) = Ucs2ToUtf8(a) \o Ucs2ToUtf8(b)
<1>1. PICK K : K = Char \ Lost
  OBVIOUS
<1>2. PICK D : D = Char
  OBVIOUS
<1>3. a \in Seq(D) /\ b \in Seq(D)
  BY <1>2
<1>4. Only(a \o b, K) = Only(a, K) \o Only(b, K)
  BY <1>3, OnlyConcat
<1>. QED
  BY <1>1, <1>4 DEF Ucs2ToUtf8

(***************************************************************************)
(* Each segment of a text that the header can count is within the limit of *)
(* its encoding, with and without a header, and is empty only if its       *)
(* characters were lost in conversion.                                     *)
(***************************************************************************)
THEOREM SegmentsFit ==
  ASSUME NEW text \in Seq(Char), Len(text) <= Capacity(text)
  PROVE  \A j \in DOMAIN SplitLongSm(text) :
           /\ Len(SplitLongSm(text)[j].content) <= Limit(text, Len(SplitLongSm(text)))
           /\ SplitLongSm(text)[j].content = << >> => text = << >> \/ Holds(text, Lost)
<1>. DEFINE Content(j) == SplitLongSm(text)[j].content
<1>0. Len(text) \in Nat /\ DOMAIN text = 1 .. Len(text)
  BY LenProperties
<1>1. CASE MessageLength(text) > MaxSingle(text)
  <2>1. PICK m \in Nat, d \in Nat \ {0}, l \in 1 .. Len(text) :
          /\ m = NumberOfSegments(text) /\ d = MaxMultipart(text) /\ l = MessageLength(text)
          /\ m > 1 /\ d <= MaxSingle(text) /\ d < l
          /\ Before(text, 1) = 0
          /\ \A j \in 1 .. m : Before(text, j) \in Nat /\ Before(text, j) < l
          /\ \A j \in 1 .. m : j # m => /\ Before(text, j + 1) = Before(text, j) + d
                                        /\ Before(text, j) + d < l
          /\ l <= Before(text, m) + d
    BY <1>1, SegmentBounds
  <2>2. /\ DOMAIN SplitLongSm(text) = 1 .. m /\ Len(SplitLongSm(text)) = m
        /\ \A j \in 1 .. m : Content(j) = SegmentContent(text, j)
        /\ Limit(text, m) = d
    BY <1>1, <2>1 DEF SplitLongSm, Limit
  <2>3. SUFFICES ASSUME NEW j \in 1 .. m
                 PROVE  /\ Len(Content(j)) <= Limit(text, m)
                        /\ Content(j) = << >> => text = << >> \/ Holds(text, Lost)
    BY <2>2
  <2>4. CASE IsPureAscii(text)
    <3>1. text # << >>
      BY <2>1
    <3>2. Len(SplitLongSm(text)) = m
      BY <1>1, <2>1, PartsFacts
    <3>3. /\ Content(j) # << >>
          /\ Len(text) <= Capacity(text) => Len(Content(j)) <= Limit(text, m)
      BY <2>4, <3>1, <3>2, AsciiSegmentsSpell
    <3>. QED
      BY <3>3
  <2>5. CASE ~IsPureAscii(text)
    <3>1. PICK b \in Nat, e \in Nat :
            /\ b < e /\ e <= Len(text) /\ e - b <= d
            /\ Content(j) = Ucs2ToUtf8(SubSeq(text, b + 1, e))
      <4>1. Content(j) = Ucs2ToUtf8(IF j = m THEN SubSeq(text, Before(text, j) + 1, l)
                                    ELSE SubSeq(text, 1, d))
        BY <2>1, <2>2, <2>5 DEF SegmentContent, Before
      <4>2. CASE j = m
        <5>1. PICK b \in Nat : b = Before(text, j)
          BY <2>1
        <5>2. b < l /\ l \in Nat /\ l <= Len(text) /\ l - b <= d
          BY <1>0, <2>1, <4>2, <5>1
        <5>3. Content(j) = Ucs2ToUtf8(SubSeq(text, b + 1, l))
          BY <4>1, <4>2, <5>1
        <5>. HIDE DEF Content
        <5>. QED
          BY <5>2, <5>3
      <4>3. CASE j # m
        <5>1. 0 \in Nat /\ d \in Nat /\ 0 < d /\ d <= Len(text) /\ d - 0 <= d /\ 0 + 1 = 1
          BY <1>0, <2>1
        <5>2. Content(j) = Ucs2ToUtf8(SubSeq(text, 0 + 1, d))
          BY <4>1, <4>3, <5>1
        <5>. HIDE DEF Content
        <5>. QED
          BY <5>1, <5>2
      <4>. QED
        BY <4>2, <4>3
    <3>2. PICK u \in Seq(Char) :
            /\ u = SubSeq(text, b + 1, e) /\ Len(u) = e - b
            /\ \A k \in 1 .. e - b : u[k] = text[b + k]
      <4>1. b <= e
        BY <3>1
      <4>2. /\ SubSeq(text, b + 1, e) \in Seq(Char)
            /\ Len(SubSeq(text, b + 1, e)) = e - b
            /\ \A k \in 1 .. e - b : SubSeq(text, b + 1, e)[k] = text[b + k]
        BY <3>1, <4>1, PieceFacts
      <4>. QED
        BY <4>2
    <3>3. Len(Content(j)) <= Limit(text, m)
      <4>1. Len(Ucs2ToUtf8(u)) <= Len(u) /\ Len(Ucs2ToUtf8(u)) \in Nat
        BY ConvertedFacts, LenProperties
      <4>2. Limit(text, m) = d
        BY <2>2
      <4>3. Content(j) = Ucs2ToUtf8(u)
        BY <3>1, <3>2
      <4>. HIDE DEF Content
      <4>. QED
        BY <2>1, <3>1, <3>2, <4>1, <4>2, <4>3
    <3>4. ASSUME Content(j) = << >> PROVE Holds(text, Lost)
      <4>1. 1 \in 1 .. Len(u) /\ 1 \in 1 .. e - b /\ b + 1 \in DOMAIN text
        BY <1>0, <3>1, <3>2
      <4>2. u[1] \in Lost
        BY <3>1, <3>2, <3>4, <4>1, ConvertedFacts
      <4>. QED
        BY <3>2, <4>1, <4>2 DEF Holds
    <3>. QED
      BY <3>3, <3>4
  <2>. QED
    BY <2>4, <2>5
<1>2. CASE ~(MessageLength(text) > MaxSingle(text))
  <2>1. /\ DOMAIN SplitLongSm(text) = 1 .. 1 /\ Content(1) = text
        /\ Limit(text, Len(SplitLongSm(text))) = MaxSingle(text)
    BY <1>2 DEF SplitLongSm, Limit
  <2>2. MessageLength(text) = Len(text) /\ MaxSingle(text) \in Nat
    BY CountFacts, LimitFacts
  <2>. QED
    BY <1>0, <1>2, <2>1, <2>2
<1>. QED
  BY <1>1, <1>2


\* What the segments of a text say, put together.
AllContents(text) ==
  FlattenSeq([j \in DOMAIN SplitLongSm(text) |-> SplitLongSm(text)[j].content])

LEMMA AppendTwo ==
  ASSUME NEW S, NEW x \in S, NEW y \in S
  PROVE  Append(<<x>>, y) = <<x, y>>
<1>0. <<x>> \in Seq(S) /\ <<x, y>> \in Seq(S)
  OBVIOUS
<1>1. PICK one \in Seq(S) : one = <<x>>
  BY <1>0
<1>2. PICK two \in Seq(S) : two = <<x, y>>
  BY <1>0
<1>3. Len(one) = 1 /\ Len(two) = 2 /\ one[1] = x /\ two[1] = x /\ two[2] = y
  BY <1>1, <1>2
<1>4. PICK t : t = Append(one, y)
  OBVIOUS
<1>5. t \in Seq(S) /\ Len(t) = Len(one) + 1 /\ t[Len(one) + 1] = y
      /\ \A i \in 1 .. Len(one) : t[i] = one[i]
  BY <1>4, AppendProperties
<1>6. Len(t) = 2 /\ t[1] = x /\ t[2] = y
  BY <1>3, <1>5
<1>7. t = two
  <2>1. \A i \in 1 .. Len(t) : t[i] = two[i]
    BY <1>3, <1>6
  <2>. QED
    BY <1>3, <1>5, <1>6, <2>1, SeqEqual
<1>. QED
  BY <1>1, <1>2, <1>4, <1>7

LEMMA FlattenTwo ==
  ASSUME NEW S, NEW x \in Seq(S), NEW y \in Seq(S)
  PROVE  /\ FlattenSeq(<<x>>) = x
         /\ FlattenSeq(<<x, y>>) = x \o y
<1>1. << >> \in Seq(Seq(S)) /\ Append(<< >>, x) = <<x>>
  OBVIOUS
<1>6. Append(<<x>>, y) = <<x, y>>
  BY AppendTwo
<1>2. FlattenSeq(Append(<< >>, x)) = FlattenSeq(<< >>) \o x
  BY <1>1, FlattenAppend
<1>3. << >> \o x = x
  BY ConcatEmptySeq
<1>4. <<x>> \in Seq(Seq(S))
  BY <1>1, AppendProperties
<1>5. FlattenSeq(Append(<<x>>, y)) = FlattenSeq(<<x>>) \o y
  BY <1>4, FlattenAppend
<1>. QED
  BY <1>1, <1>2, <1>3, <1>5, <1>6, FlattenEmpty

\* Pieces of a text that follow each other, from its first character on.
LEMMA PiecesSpell ==
  ASSUME NEW text \in Seq(Char), NEW m \in Nat \ {0}, NEW end \in [0 .. m -> 0 .. Len(text)],
         end[0] = 0, \A j \in 1 .. m : end[j - 1] <= end[j],
         NEW s \in Seq(Seq(Char)), Len(s) = m,
         \A j \in 1 .. m : s[j] = SubSeq(text, end[j - 1] + 1, end[j])
  PROVE  FlattenSeq(s) = SubSeq(text, 1, end[m])
<1>0. Len(text) \in Nat
  BY LenProperties
<1>1. PICK g : Flattens(Char, s, m, g)
  BY FlattenSteps
<1>. DEFINE T == {j \in Nat : j <= m => g[j] = SubSeq(text, 1, end[j])}
<1>2. 0 \in T
  <2>1. SubSeq(text, 1, 0) = << >>
    BY SubSeqEmpty
  <2>. QED
    BY <1>1, <2>1 DEF Flattens
<1>3. ASSUME NEW j \in Nat, j \in T PROVE j + 1 \in T
  <2>1. SUFFICES ASSUME j + 1 <= m PROVE g[j + 1] = SubSeq(text, 1, end[j + 1])
    OBVIOUS
  <2>2. j + 1 \in 1 .. m /\ (j + 1) - 1 = j /\ j \in 0 .. m /\ j + 1 \in 0 .. m /\ j <= m
    BY <2>1
  <2>3. g[j + 1] = g[j] \o s[j + 1]
    BY <1>1, <2>2 DEF Flattens
  <2>4. PICK k \in 0 .. Len(text), n \in 0 .. Len(text) : k = end[j] /\ n = end[j + 1] /\ k <= n
    BY <2>2
  <2>5. s[j + 1] = SubSeq(text, k + 1, n) /\ g[j] = SubSeq(text, 1, k)
    BY <1>3, <2>2, <2>4
  <2>6. SubSeq(text, 1, k) \o SubSeq(text, k + 1, n) = SubSeq(text, 1, n)
    <3>1. 1 \in 1 .. Len(text) + 1 /\ k \in 1 - 1 .. Len(text) /\ n \in k .. Len(text)
      BY <1>0, <2>4
    <3>. QED
      BY <3>1, ConcatAdjacentSubSeq
  <2>. QED
    BY <2>3, <2>4, <2>5, <2>6
<1>4. Nat \subseteq T
  BY <1>2, <1>3, Induction
<1>5. g[m] = SubSeq(text, 1, end[m])
  BY <1>4
<1>. QED
  BY <1>1, <1>5 DEF Flattens

(***************************************************************************)
(* The segments of an ASCII text of any length, and those of a UCS2 text   *)
(* that needs at most two, spell the text: all of it, or all that the      *)
(* conversion does not lose.  A header that could count no more than two   *)
(* segments would cut a longer text to two.                                *)
(***************************************************************************)
THEOREM SegmentsSpell ==
  ASSUME NEW text \in Seq(Char), MaxSegments > 2,
         IsPureAscii(text) \/ NumberOfSegments(text) <= 2
  PROVE  AllContents(text) \in {text, Ucs2ToUtf8(text)}
<1>0. Len(text) \in Nat /\ DOMAIN text = 1 .. Len(text) /\ SubSeq(text, 1, Len(text)) = text
  BY LenProperties, SubSeqFull
<1>1. CASE ~(MessageLength(text) > MaxSingle(text))
  <2>1. DOMAIN SplitLongSm(text) = 1 .. 1 /\ SplitLongSm(text)[1].content = text
    BY <1>1 DEF SplitLongSm
  <2>2. [j \in DOMAIN SplitLongSm(text) |-> SplitLongSm(text)[j].content] = <<text>>
    BY <2>1
  <2>3. FlattenSeq(<<text>>) = text
    BY FlattenTwo
  <2>. QED
    BY <2>2, <2>3 DEF AllContents
<1>2. CASE MessageLength(text) > MaxSingle(text)
  <2>1. PICK m \in Nat, d \in Nat \ {0}, l \in 1 .. Len(text) :
          /\ m = NumberOfSegments(text) /\ d = MaxMultipart(text) /\ l = MessageLength(text)
          /\ m > 1 /\ d <= MaxSingle(text) /\ d < l
          /\ Before(text, 1) = 0
          /\ \A j \in 1 .. m : Before(text, j) \in Nat /\ Before(text, j) < l
          /\ \A j \in 1 .. m : j # m => /\ Before(text, j + 1) = Before(text, j) + d
                                        /\ Before(text, j) + d < l
          /\ l <= Before(text, m) + d
    BY <1>2, SegmentBounds
  <2>2. PICK s : s = [j \in 1 .. m |-> SegmentContent(text, j)]
    OBVIOUS
  <2>3. AllContents(text) = FlattenSeq(s)
    <3>1. SplitLongSm(text) = [i \in 1 .. m |-> [content |-> SegmentContent(text, i),
                                                 total |-> Byte(m), index |-> Byte(i)]]
      BY <1>2, <2>1 DEF SplitLongSm
    <3>2. DOMAIN SplitLongSm(text) = 1 .. m
          /\ \A j \in 1 .. m : SplitLongSm(text)[j].content = SegmentContent(text, j)
      BY <3>1
    <3>. QED
      BY <2>2, <3>2 DEF AllContents
  <2>4. CASE IsPureAscii(text)
    <3>1. PICK end : end = [j \in 0 .. m |-> IF j = m THEN Len(text) ELSE Before(text, j + 1)]
      OBVIOUS
    <3>2. end \in [0 .. m -> 0 .. Len(text)] /\ end[0] = 0 /\ end[m] = Len(text)
      <4>1. ASSUME NEW j \in 0 .. m, j # m PROVE Before(text, j + 1) \in 0 .. Len(text)
        <5>1. j + 1 \in 1 .. m
          BY <4>1
        <5>2. PICK b \in Nat : b = Before(text, j + 1) /\ b < l
          BY <2>1, <5>1
        <5>. QED
          BY <1>0, <5>2
      <4>2. 0 \in 0 .. m /\ 0 # m /\ 0 + 1 = 1 /\ m \in 0 .. m
        BY <2>1
      <4>3. Len(text) \in 0 .. Len(text)
        BY <1>0
      <4>. QED
        BY <2>1, <3>1, <4>1, <4>2, <4>3
    <3>3. ASSUME NEW j \in 1 .. m
          PROVE  /\ end[j - 1] <= end[j]
                 /\ s[j] = SubSeq(text, end[j - 1] + 1, end[j])
                 /\ s[j] \in Seq(Char)
      <4>1. j - 1 \in 0 .. m /\ j - 1 # m /\ (j - 1) + 1 = j /\ j \in 0 .. m
        BY <2>1
      <4>2. end[j - 1] = Before(text, j)
        BY <3>1, <4>1
      <4>3. PICK b \in Nat, e \in Nat : b = end[j - 1] /\ e = end[j] /\ b <= Len(text) /\ e <= Len(text)
        BY <1>0, <3>2, <4>1
      <4>4. s[j] = SubSeq(text, b + 1, IF j = m THEN Len(text) ELSE b + d)
        BY <2>1, <2>2, <2>4, <4>2, <4>3 DEF SegmentContent, Before
      <4>5. e = IF j = m THEN Len(text) ELSE b + d
        BY <2>1, <3>1, <3>2, <4>1, <4>2, <4>3
      <4>6. b <= e
        BY <4>3, <4>5
      <4>7. SubSeq(text, b + 1, e) \in Seq(Char)
        BY <4>3, <4>6, PieceFacts
      <4>. QED
        BY <4>3, <4>4, <4>5, <4>6, <4>7
    <3>4. s \in Seq(Seq(Char)) /\ Len(s) = m
      BY <2>2, <3>3
    <3>5. FlattenSeq(s) = SubSeq(text, 1, end[m])
      <4>1. m \in Nat \ {0}
        BY <2>1
      <4>. QED
        BY <3>2, <3>3, <3>4, <4>1, PiecesSpell
    <3>. QED
      BY <1>0, <2>3, <3>2, <3>5
  <2>5. CASE ~IsPureAscii(text)
    <3>1. m = 2
      BY <2>1, <2>5
    <3>2. l = Len(text)
      <4>1. l = Capacity(text) \/ l = Len(text)
        BY <2>1 DEF MessageLength
      <4>2. Before(text, 2) = d
        <5>1. 1 \in 1 .. m /\ 1 # m /\ 1 + 1 = 2
          BY <3>1
        <5>. QED
          BY <2>1, <5>1
      <4>3. l <= 2 * d
        BY <2>1, <3>1, <4>2
      <4>4. 2 * d < MaxSegments * d /\ MaxSegments * d \in Int
        <5>1. 2 \in Int /\ MaxSegments \in Int
          BY LimitsAssumption
        <5>2. MaxSegments * d \in Int
          BY <5>1
        <5>. QED
          BY <5>1, <5>2, ProductOrder
      <4>5. Capacity(text) = MaxSegments * d
        BY <2>1 DEF Capacity
      <4>. QED
        BY <4>1, <4>3, <4>4, <4>5
    <3>3. PICK a \in Seq(Char), b \in Seq(Char) :
            a = SubSeq(text, 1, d) /\ b = SubSeq(text, d + 1, Len(text))
      <4>1. 0 + 1 = 1 /\ 0 \in Nat /\ d \in Nat /\ 0 <= d /\ d <= Len(text) /\ Len(text) <= Len(text)
        BY <1>0, <2>1
      <4>2. SubSeq(text, 1, d) \in Seq(Char)
        BY <4>1, PieceFacts
      <4>3. SubSeq(text, d + 1, Len(text)) \in Seq(Char)
        BY <1>0, <4>1, PieceFacts
      <4>. QED
        BY <4>2, <4>3
    <3>4. a \o b = text
      <4>1. 1 \in 1 .. Len(text) + 1 /\ d \in 1 - 1 .. Len(text) /\ Len(text) \in d .. Len(text)
        BY <1>0, <2>1
      <4>. QED
        BY <1>0, <3>3, <4>1, ConcatAdjacentSubSeq
    <3>5. s[1] = Ucs2ToUtf8(a) /\ s[2] = Ucs2ToUtf8(b)
      <4>1. 1 \in 1 .. m /\ 2 \in 1 .. m /\ 1 # m /\ 2 = m
        BY <3>1
      <4>2. s[1] = Ucs2ToUtf8(SubSeq(text, 1, d))
        BY <2>1, <2>2, <2>5, <4>1 DEF SegmentContent
      <4>3. s[2] = Ucs2ToUtf8(SubSeq(text, (2 - 1) * d + 1, l))
        BY <2>1, <2>2, <2>5, <4>1 DEF SegmentContent
      <4>4. (2 - 1) * d = d
        OBVIOUS
      <4>. QED
        BY <3>2, <3>3, <4>2, <4>3, <4>4
    <3>6. PICK x \in Seq(Char), y \in Seq(Char) : x = Ucs2ToUtf8(a) /\ y = Ucs2ToUtf8(b)
      BY ConvertedFacts
    <3>7. s = <<x, y>>
      BY <2>2, <3>1, <3>5, <3>6
    <3>8. FlattenSeq(s) = x \o y
      BY <3>7, FlattenTwo
    <3>9. Ucs2ToUtf8(text) = x \o y
      BY <3>4, <3>6, ConvertedConcat
    <3>. QED
      BY <2>3, <3>8, <3>9
  <2>. QED
    BY <2>4, <2>5
<1>. QED
  BY <1>1, <1>2


=============================================================================
