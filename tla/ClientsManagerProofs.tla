------------------------ MODULE ClientsManagerProofs ------------------------
(***************************************************************************)
(* Proofs about the client program around its connections, for every       *)
(* number of web threads, clients and requests, every text, every list of  *)
(* destinations and every moment the signal may come.                      *)
(***************************************************************************)
EXTENDS ClientsManagerProperties, LongSmSplitProofs

USE ThreadsAssumption

-----------------------------------------------------------------------------
(* What formatting gives                                                   *)

Text(how, r, i) == TextFor(how, TextOf(r), i)

LEMMA TextIsText ==
  ASSUME NEW how, NEW r, <<how, r>> \in Jobs, NEW i \in Destinations(r)
  PROVE  Text(how, r, i) \in Seq(Char)
<1>1. /\ how \in 0 .. 2 /\ Divides(how, r)
      /\ TextOf(r) \in Seq(Char) /\ DstsOf(r) \in Seq(ToSet(DstsOf(r)))
  BY ManagerAssumption, RequestAssumption DEF Jobs
<1>2. i \in DOMAIN DstsOf(r)
  BY DEF Destinations
<1>3. i - 1 \in Nat
  BY <1>1, <1>2
<1>4. CASE how = 0
  BY <1>1, <1>4 DEF Text, TextFor
<1>5. CASE how = 1
  <2>1. Header \in Seq(Char)
    BY CharsAssumption
  <2>2. Header \o TextOf(r) \in Seq(Char)
    BY <1>1, <2>1, ConcatProperties
  <2>. QED
    BY <1>5, <2>2 DEF Text, TextFor, AppendHeaderToString
<1>6. CASE how = 2
  <2>1. CanInsert(TextOf(r))
    BY <1>1, <1>6 DEF Divides
  <2>2. InsertCharToString(TextOf(r), i - 1) \in Seq(Char)
    BY <1>1, <1>3, <2>1, InsertIsText
  <2>. QED
    BY <1>6, <2>2 DEF Text, TextFor
<1>. QED
  BY <1>1, <1>4, <1>5, <1>6

\* The messages that a request becomes.
MessagesOf(how, r) ==
  UNION {ToSet(Messages(r, i, Text(how, r, i))) : i \in Destinations(r)}

\* As many as the text has segments go to each destination.
Segments(how, m) == Len(SplitLongSm(TextFor(how, TextOf(m.req), m.dst)))

LEMMA MessagesFacts ==
  ASSUME NEW how, NEW r, <<how, r>> \in Jobs, NEW i \in Destinations(r)
  PROVE  \E s \in Seq(MessagesOf(how, r)) :
           /\ s = Messages(r, i, Text(how, r, i))
           /\ \A j \in DOMAIN s : /\ s[j].req = r /\ s[j].dst = i /\ s[j].nr = j
                                  /\ Segments(how, s[j]) = Len(s)
<1>1. PICK parts : parts = SplitLongSm(Text(how, r, i))
  OBVIOUS
<1>2. PICK n \in Nat \ {0} : Len(parts) = n /\ DOMAIN parts = 1 .. n
  BY <1>1, TextIsText, PartsFacts
<1>3. PICK s : s = [j \in 1 .. n |-> [req |-> r, dst |-> i, nr |-> j, part |-> parts[j]]]
  OBVIOUS
<1>4. s = Messages(r, i, Text(how, r, i))
  BY <1>1, <1>2, <1>3 DEF Messages
<1>5. \A j \in 1 .. n : s[j] \in MessagesOf(how, r)
  BY <1>3, <1>4 DEF MessagesOf, ToSet
<1>6. s \in Seq(MessagesOf(how, r)) /\ Len(s) = n /\ DOMAIN s = 1 .. n
  BY <1>3, <1>5
<1>7. \A j \in 1 .. n : s[j].req = r /\ s[j].dst = i /\ s[j].nr = j
  BY <1>3
<1>8. \A j \in 1 .. n : Segments(how, s[j]) = n
  BY <1>1, <1>2, <1>7 DEF Segments, Text
<1>. QED
  BY <1>4, <1>6, <1>7, <1>8

\* Every part but the last of its text is followed by the next one.
Whole(how, q) ==
  \A p \in DOMAIN q :
    q[p].nr < Segments(how, q[p]) =>
      /\ p < Len(q)
      /\ q[p + 1].req = q[p].req /\ q[p + 1].dst = q[p].dst /\ q[p + 1].nr = q[p].nr + 1

LEMMA WholeConcat ==
  ASSUME NEW S, NEW a \in Seq(S), NEW b \in Seq(S), NEW how, Whole(how, a), Whole(how, b)
  PROVE  Whole(how, a \o b)
<1>1. PICK s \in Seq(S) :
        /\ s = a \o b /\ Len(s) = Len(a) + Len(b)
        /\ \A i \in 1 .. Len(a) + Len(b) : s[i] = IF i <= Len(a) THEN a[i] ELSE b[i - Len(a)]
  <2>1. /\ a \o b \in Seq(S) /\ Len(a \o b) = Len(a) + Len(b)
        /\ \A i \in 1 .. Len(a) + Len(b) : (a \o b)[i] = IF i <= Len(a) THEN a[i] ELSE b[i - Len(a)]
    BY ConcatProperties
  <2>. QED
    BY <2>1, Zenon
<1>2. PICK m \in Nat, n \in Nat : m = Len(a) /\ n = Len(b) /\ DOMAIN a = 1 .. m /\ DOMAIN b = 1 .. n
  <2>1. Len(a) \in Nat /\ Len(b) \in Nat /\ DOMAIN a = 1 .. Len(a) /\ DOMAIN b = 1 .. Len(b)
    OBVIOUS
  <2>. QED
    BY <2>1, Zenon
<1>3. DOMAIN s = 1 .. m + n /\ Len(s) = m + n
  BY <1>1, <1>2
<1>4. ASSUME NEW p \in 1 .. m + n, s[p].nr < Segments(how, s[p])
      PROVE  /\ p < m + n
             /\ s[p + 1].req = s[p].req /\ s[p + 1].dst = s[p].dst /\ s[p + 1].nr = s[p].nr + 1
  <2>1. CASE p <= m
    <3>1. p \in 1 .. m /\ s[p] = a[p]
      BY <1>1, <1>2, <2>1
    <3>2. /\ p < m
          /\ a[p + 1].req = a[p].req /\ a[p + 1].dst = a[p].dst /\ a[p + 1].nr = a[p].nr + 1
      BY <1>2, <1>4, <3>1 DEF Whole
    <3>3. s[p + 1] = a[p + 1]
      BY <1>1, <1>2, <3>1, <3>2
    <3>. QED
      BY <3>1, <3>2, <3>3
  <2>2. CASE p > m
    <3>1. p - m \in 1 .. n /\ s[p] = b[p - m]
      BY <1>1, <1>2, <2>2
    <3>2. /\ p - m < n
          /\ b[(p - m) + 1].req = b[p - m].req /\ b[(p - m) + 1].dst = b[p - m].dst
          /\ b[(p - m) + 1].nr = b[p - m].nr + 1
      BY <1>2, <1>4, <3>1 DEF Whole
    <3>3. p + 1 \in 1 .. m + n /\ ~(p + 1 <= m) /\ (p + 1) - m = (p - m) + 1
      BY <2>2, <3>1, <3>2
    <3>4. s[p + 1] = b[(p - m) + 1]
      BY <1>1, <1>2, <3>3
    <3>. QED
      BY <3>1, <3>2, <3>3, <3>4
  <2>. QED
    BY <2>1, <2>2
<1>5. Whole(how, s)
  BY <1>3, <1>4 DEF Whole
<1>. QED
  BY <1>1, <1>5

LEMMA WholeTail ==
  ASSUME NEW S, NEW a \in Seq(S), a # << >>, NEW how, Whole(how, a)
  PROVE  Whole(how, Tail(a))
<1>1. PICK n \in Nat, t \in Seq(S) :
        /\ t = Tail(a) /\ Len(a) = n + 1 /\ Len(t) = n
        /\ \A i \in 1 .. n : t[i] = a[i + 1]
  <2>1. /\ Tail(a) \in Seq(S) /\ Len(Tail(a)) = Len(a) - 1
        /\ \A i \in 1 .. Len(Tail(a)) : Tail(a)[i] = a[i + 1]
    BY HeadTailProperties
  <2>2. Len(a) - 1 \in Nat /\ Len(a) = (Len(a) - 1) + 1
    OBVIOUS
  <2>. QED
    BY <2>1, <2>2
<1>2. ASSUME NEW p \in 1 .. n, t[p].nr < Segments(how, t[p])
      PROVE  /\ p < n
             /\ t[p + 1].req = t[p].req /\ t[p + 1].dst = t[p].dst /\ t[p + 1].nr = t[p].nr + 1
  <2>1. p + 1 \in DOMAIN a /\ t[p] = a[p + 1]
    BY <1>1
  <2>2. /\ p + 1 < Len(a)
        /\ a[(p + 1) + 1].req = a[p + 1].req /\ a[(p + 1) + 1].dst = a[p + 1].dst
        /\ a[(p + 1) + 1].nr = a[p + 1].nr + 1
    BY <1>2, <2>1 DEF Whole
  <2>3. p < n /\ t[p + 1] = a[(p + 1) + 1]
    BY <1>1, <2>2
  <2>. QED
    BY <2>1, <2>2, <2>3
<1>3. DOMAIN t = 1 .. n /\ Len(t) = n
  BY <1>1
<1>. QED
  BY <1>1, <1>2, <1>3 DEF Whole

-----------------------------------------------------------------------------
(* The batches of a request: no message twice, no text torn apart          *)

Distinct(L) ==
  \A k, l \in DOMAIN L : \A p \in DOMAIN L[k], q \in DOMAIN L[l] :
    L[k][p] = L[l][q] => k = l /\ p = q

\* What holds of the batches, the open one last, after i destinations.
Good(how, r, L, i) ==
  /\ L \in Seq(Seq(MessagesOf(how, r)))
  /\ \A k \in DOMAIN L : /\ Whole(how, L[k])
                         /\ \A p \in DOMAIN L[k] : L[k][p].req = r /\ L[k][p].dst \in 1 .. i
  /\ Distinct(L)

\* t is s, which has n elements, and x.
Appended(s, x, n, t) ==
  /\ n = Len(s) /\ DOMAIN s = 1 .. n
  /\ t = Append(s, x) /\ Len(t) = n + 1 /\ DOMAIN t = 1 .. n + 1
  /\ t[n + 1] = x /\ \A k \in 1 .. n : t[k] = s[k]

LEMMA AppendFacts ==
  ASSUME NEW S, NEW s \in Seq(S), NEW x \in S
  PROVE  \E n \in Nat, t \in Seq(S) : Appended(s, x, n, t)
<1>1. /\ Len(s) \in Nat /\ DOMAIN s = 1 .. Len(s)
      /\ Append(s, x) \in Seq(S) /\ Len(Append(s, x)) = Len(s) + 1
      /\ DOMAIN Append(s, x) = 1 .. Len(s) + 1
      /\ Append(s, x)[Len(s) + 1] = x /\ \A k \in 1 .. Len(s) : Append(s, x)[k] = s[k]
  BY AppendProperties, LenProperties
<1>. QED
  BY <1>1 DEF Appended

LEMMA GoodCloses ==
  ASSUME NEW how, NEW r, NEW L, NEW i \in Nat, Good(how, r, L, i)
  PROVE  Good(how, r, Append(L, << >>), i)
<1>1. L \in Seq(Seq(MessagesOf(how, r))) /\ << >> \in Seq(MessagesOf(how, r))
  BY DEF Good
<1>0. PICK n \in Nat, t \in Seq(Seq(MessagesOf(how, r))) : Appended(L, << >>, n, t)
  BY <1>1, AppendFacts
<1>2. /\ n = Len(L) /\ DOMAIN L = 1 .. n
      /\ t = Append(L, << >>) /\ Len(t) = n + 1 /\ DOMAIN t = 1 .. n + 1
      /\ t[n + 1] = << >> /\ \A k \in 1 .. n : t[k] = L[k]
  BY <1>0 DEF Appended
<1>3. DOMAIN t[n + 1] = {} /\ Whole(how, t[n + 1])
  <2>1. DOMAIN << >> = {}
    OBVIOUS
  <2>. QED
    BY <1>2, <2>1 DEF Whole
<1>4. \A k \in DOMAIN t : \A p \in DOMAIN t[k] : k \in DOMAIN L /\ t[k] = L[k]
  BY <1>2, <1>3
<1>5. Distinct(t)
  BY <1>4 DEF Distinct, Good
<1>6. \A k \in DOMAIN t : /\ Whole(how, t[k])
                          /\ \A p \in DOMAIN t[k] : t[k][p].req = r /\ t[k][p].dst \in 1 .. i
  BY <1>2, <1>3 DEF Good
<1>. QED
  BY <1>2, <1>5, <1>6 DEF Good

LEMMA GoodShrinks ==
  ASSUME NEW how, NEW r, NEW i \in Nat,
         NEW js \in Seq(Seq(MessagesOf(how, r))), NEW sis \in Seq(MessagesOf(how, r)),
         Good(how, r, Append(js, sis), i)
  PROVE  Good(how, r, js, i)
<1>0. PICK n \in Nat, t \in Seq(Seq(MessagesOf(how, r))) : Appended(js, sis, n, t)
  BY AppendFacts
<1>1. /\ n = Len(js) /\ DOMAIN js = 1 .. n
      /\ t = Append(js, sis) /\ Len(t) = n + 1 /\ DOMAIN t = 1 .. n + 1
      /\ t[n + 1] = sis /\ \A k \in 1 .. n : t[k] = js[k]
  BY <1>0 DEF Appended
<1>2. \A k \in DOMAIN js : k \in DOMAIN t /\ t[k] = js[k]
  BY <1>1
<1>. QED
  BY <1>1, <1>2 DEF Good, Distinct

\* One more destination, whose messages come into the open batch.
LEMMA GoodGrows ==
  ASSUME NEW how, NEW r, <<how, r>> \in Jobs, NEW i \in Destinations(r), NEW j \in Nat, i = j + 1,
         NEW js \in Seq(Seq(MessagesOf(how, r))), NEW sis \in Seq(MessagesOf(how, r)),
         Good(how, r, Append(js, sis), j)
  PROVE  /\ sis \o Messages(r, i, Text(how, r, i)) \in Seq(MessagesOf(how, r))
         /\ Good(how, r, Append(js, sis \o Messages(r, i, Text(how, r, i))), i)
<1>. DEFINE M == MessagesOf(how, r)
<1>0. i \notin 1 .. j /\ i \in 1 .. i /\ \A d \in 1 .. j : d \in 1 .. i
  OBVIOUS
<1>1. PICK new \in Seq(M) :
           /\ new = Messages(r, i, Text(how, r, i))
           /\ \A k \in DOMAIN new : /\ new[k].req = r /\ new[k].dst = i /\ new[k].nr = k
                                    /\ Segments(how, new[k]) = Len(new)
  BY MessagesFacts
<1>. HIDE DEF M
<1>2. js \in Seq(Seq(M)) /\ sis \in Seq(M)
  BY DEF M
<1>3. PICK m \in Nat, w \in Nat :
        m = Len(sis) /\ DOMAIN sis = 1 .. m /\ w = Len(new) /\ DOMAIN new = 1 .. w
  <2>1. Len(sis) \in Nat /\ DOMAIN sis = 1 .. Len(sis) /\ Len(new) \in Nat /\ DOMAIN new = 1 .. Len(new)
    BY <1>2, LenProperties
  <2>. QED
    BY <2>1, Zenon
<1>4. PICK c \in Seq(M) :
        /\ c = sis \o new /\ Len(c) = m + w /\ DOMAIN c = 1 .. m + w
        /\ \A p \in 1 .. m + w : c[p] = IF p <= m THEN sis[p] ELSE new[p - m]
  <2>1. /\ sis \o new \in Seq(M) /\ Len(sis \o new) = Len(sis) + Len(new)
        /\ \A p \in 1 .. Len(sis) + Len(new) :
             (sis \o new)[p] = IF p <= Len(sis) THEN sis[p] ELSE new[p - Len(sis)]
    BY <1>2, ConcatProperties
  <2>2. DOMAIN (sis \o new) = 1 .. Len(sis \o new)
    BY <2>1, LenProperties
  <2>. QED
    BY <1>3, <2>1, <2>2, Zenon
<1>16. PICK n \in Nat, L \in Seq(Seq(M)) : Appended(js, sis, n, L)
  BY <1>2, AppendFacts
<1>17. PICK nn \in Nat, N \in Seq(Seq(M)) : Appended(js, c, nn, N)
  BY <1>2, AppendFacts
<1>5. /\ n = Len(js) /\ DOMAIN js = 1 .. n
      /\ L = Append(js, sis) /\ Len(L) = n + 1 /\ DOMAIN L = 1 .. n + 1
      /\ L[n + 1] = sis /\ \A k \in 1 .. n : L[k] = js[k]
  BY <1>16 DEF Appended
<1>6. /\ nn = Len(js)
      /\ N = Append(js, c) /\ Len(N) = nn + 1 /\ DOMAIN N = 1 .. nn + 1
      /\ N[nn + 1] = c /\ \A k \in 1 .. nn : N[k] = js[k]
  BY <1>17 DEF Appended
<1>7. nn = n /\ DOMAIN N = DOMAIN L /\ \A k \in 1 .. n : N[k] = L[k]
  BY <1>5, <1>6
<1>8. Good(how, r, L, j)
  BY <1>5
<1>9. ASSUME NEW k \in DOMAIN N, NEW p \in DOMAIN N[k]
      PROVE  \/ p \in DOMAIN L[k] /\ N[k][p] = L[k][p]
             \/ k = n + 1 /\ p \in Nat /\ N[k][p].req = r /\ N[k][p].dst = i /\ N[k][p].nr = p - m
  <2>1. CASE k \in 1 .. n
    BY <1>7, <2>1
  <2>2. CASE k = n + 1 /\ p <= m
    BY <1>3, <1>4, <1>5, <1>6, <1>7, <2>2
  <2>3. CASE k = n + 1 /\ ~(p <= m)
    <3>1. N[k] = c /\ p \in 1 .. m + w
      BY <1>4, <1>6, <1>7, <2>3
    <3>2. p - m \in 1 .. w /\ p \in Nat
      BY <2>3, <3>1
    <3>3. c[p] = new[p - m]
      BY <1>4, <2>3, <3>1
    <3>4. new[p - m].req = r /\ new[p - m].dst = i /\ new[p - m].nr = p - m
      BY <1>1, <1>3, <3>2
    <3>. QED
      BY <2>3, <3>1, <3>2, <3>3, <3>4
  <2>. QED
    BY <1>5, <1>7, <2>1, <2>2, <2>3
<1>10. ASSUME NEW k \in DOMAIN L, NEW p \in DOMAIN L[k]
       PROVE  L[k][p].req = r /\ L[k][p].dst \in 1 .. j
  BY <1>8 DEF Good
<1>11. Distinct(N)
  <2>1. ASSUME NEW k \in DOMAIN N, NEW l \in DOMAIN N, NEW p \in DOMAIN N[k], NEW q \in DOMAIN N[l],
               N[k][p] = N[l][q]
        PROVE  k = l /\ p = q
    <3>1. CASE p \in DOMAIN L[k] /\ N[k][p] = L[k][p] /\ q \in DOMAIN L[l] /\ N[l][q] = L[l][q]
      <4>1. k \in DOMAIN L /\ l \in DOMAIN L /\ L[k][p] = L[l][q] /\ Distinct(L)
        BY <1>7, <1>8, <2>1, <3>1 DEF Good
      <4>. QED
        BY <3>1, <4>1 DEF Distinct
    <3>2. CASE p \in DOMAIN L[k] /\ N[k][p] = L[k][p] /\ N[l][q].dst = i
      <4>1. N[k][p].dst \in 1 .. j
        BY <1>7, <1>10, <3>2
      <4>. QED
        BY <1>0, <2>1, <3>2, <4>1
    <3>3. CASE q \in DOMAIN L[l] /\ N[l][q] = L[l][q] /\ N[k][p].dst = i
      <4>1. N[l][q].dst \in 1 .. j
        BY <1>7, <1>10, <3>3
      <4>. QED
        BY <1>0, <2>1, <3>3, <4>1
    <3>4. CASE /\ k = n + 1 /\ p \in Nat /\ N[k][p].nr = p - m
               /\ l = n + 1 /\ q \in Nat /\ N[l][q].nr = q - m
      BY <2>1, <3>4
    <3>. QED
      BY <1>9, <3>1, <3>2, <3>3, <3>4
  <2>. QED
    BY <2>1 DEF Distinct
<1>12. Whole(how, new)
  <2>1. \A p \in DOMAIN new : new[p].nr < Segments(how, new[p]) =>
           p + 1 \in DOMAIN new /\ p < Len(new)
    BY <1>1, <1>3
  <2>. QED
    BY <1>1, <2>1 DEF Whole
<1>13. Whole(how, c)
  <2>1. n + 1 \in DOMAIN L /\ L[n + 1] = sis
    BY <1>5
  <2>2. Whole(how, sis)
    BY <1>8, <2>1 DEF Good
  <2>. QED
    BY <1>2, <1>4, <1>12, <2>2, WholeConcat
<1>14. \A k \in DOMAIN N : Whole(how, N[k])
  BY <1>5, <1>6, <1>7, <1>8, <1>13 DEF Good
<1>15. \A k \in DOMAIN N : \A p \in DOMAIN N[k] : N[k][p].req = r /\ N[k][p].dst \in 1 .. i
  <2>1. ASSUME NEW k \in DOMAIN N, NEW p \in DOMAIN N[k]
        PROVE  N[k][p].req = r /\ N[k][p].dst \in 1 .. i
    <3>1. CASE p \in DOMAIN L[k] /\ N[k][p] = L[k][p]
      <4>1. L[k][p].req = r /\ L[k][p].dst \in 1 .. j
        BY <1>7, <1>10, <3>1
      <4>. QED
        BY <1>0, <3>1, <4>1
    <3>2. CASE N[k][p].req = r /\ N[k][p].dst = i
      BY <1>0, <3>2
    <3>. QED
      BY <1>9, <3>1, <3>2
  <2>. QED
    BY <2>1
<1>18. c = sis \o Messages(r, i, Text(how, r, i)) /\ N = Append(js, c)
  BY <1>1, <1>4, <1>6
<1>19. /\ c \in Seq(MessagesOf(how, r)) /\ N \in Seq(Seq(MessagesOf(how, r)))
  BY DEF M
<1>20. Good(how, r, N, i)
  BY <1>11, <1>14, <1>15, <1>19, Zenon DEF Good
<1>. QED
  BY <1>18, <1>19, <1>20, Zenon



Acc(how, r) == [jsons : Seq(Seq(MessagesOf(how, r))), sis : Seq(MessagesOf(how, r))]

LEMMA AddType ==
  ASSUME NEW how, NEW r, <<how, r>> \in Jobs, NEW i, NEW acc \in Acc(how, r)
  PROVE  AddDestination(how, r, acc, i) \in Acc(how, r)
<1>1. CASE i \notin Destinations(r)
  BY <1>1 DEF AddDestination
<1>2. CASE i \in Destinations(r)
  <2>1. acc.jsons \in Seq(Seq(MessagesOf(how, r))) /\ acc.sis \in Seq(MessagesOf(how, r))
    BY DEF Acc
  <2>2. Messages(r, i, Text(how, r, i)) \in Seq(MessagesOf(how, r))
    BY <1>2, MessagesFacts
  <2>3. PICK sis : sis = acc.sis \o Messages(r, i, Text(how, r, i))
    OBVIOUS
  <2>4. sis \in Seq(MessagesOf(how, r)) /\ << >> \in Seq(MessagesOf(how, r))
    BY <2>1, <2>2, <2>3, ConcatProperties
  <2>5. Append(acc.jsons, sis) \in Seq(Seq(MessagesOf(how, r)))
    BY <2>1, <2>4, AppendProperties
  <2>6. AddDestination(how, r, acc, i) =
          IF Len(sis) >= CountOfBatch
          THEN [jsons |-> Append(acc.jsons, sis), sis |-> << >>]
          ELSE [jsons |-> acc.jsons, sis |-> sis]
    BY <1>2, <2>3 DEF AddDestination, Text
  <2>. QED
    BY <2>1, <2>4, <2>5, <2>6 DEF Acc
<1>. QED
  BY <1>1, <1>2

LEMMA AddGood ==
  ASSUME NEW how, NEW r, <<how, r>> \in Jobs, NEW j \in Nat, NEW i, i = j + 1, NEW acc \in Acc(how, r),
         Good(how, r, Append(acc.jsons, acc.sis), j)
  PROVE  LET new == AddDestination(how, r, acc, i)
         IN  Good(how, r, Append(new.jsons, new.sis), i)
<1>1. CASE i \notin Destinations(r)
  <2>1. AddDestination(how, r, acc, i) = acc
    BY <1>1 DEF AddDestination
  <2>2. \A d \in 1 .. j : d \in 1 .. i
    OBVIOUS
  <2>3. Good(how, r, Append(acc.jsons, acc.sis), i)
    BY <2>2 DEF Good
  <2>. QED
    BY <2>1, <2>3
<1>2. CASE i \in Destinations(r)
  <2>1. acc.jsons \in Seq(Seq(MessagesOf(how, r))) /\ acc.sis \in Seq(MessagesOf(how, r))
    BY DEF Acc
  <2>2. PICK sis \in Seq(MessagesOf(how, r)) :
          /\ sis = acc.sis \o Messages(r, i, Text(how, r, i))
          /\ Good(how, r, Append(acc.jsons, sis), i)
    BY <1>2, <2>1, GoodGrows
  <2>3. AddDestination(how, r, acc, i) =
          IF Len(sis) >= CountOfBatch
          THEN [jsons |-> Append(acc.jsons, sis), sis |-> << >>]
          ELSE [jsons |-> acc.jsons, sis |-> sis]
    BY <1>2, <2>2 DEF AddDestination, Text
  <2>4. i \in Nat
    OBVIOUS
  <2>5. Good(how, r, Append(Append(acc.jsons, sis), << >>), i)
    BY <2>2, <2>4, GoodCloses
  <2>6. CASE Len(sis) >= CountOfBatch
    <3>1. PICK new : new = [jsons |-> Append(acc.jsons, sis), sis |-> << >>]
      OBVIOUS
    <3>2. new = AddDestination(how, r, acc, i)
      BY <2>3, <2>6, <3>1
    <3>3. new.jsons = Append(acc.jsons, sis) /\ new.sis = << >>
      BY <3>1
    <3>4. Good(how, r, Append(new.jsons, new.sis), i)
      BY <2>5, <3>3
    <3>. QED
      BY <3>2, <3>4, Zenon
  <2>7. CASE ~(Len(sis) >= CountOfBatch)
    <3>1. PICK new : new = [jsons |-> acc.jsons, sis |-> sis]
      OBVIOUS
    <3>2. new = AddDestination(how, r, acc, i)
      BY <2>3, <2>7, <3>1
    <3>3. new.jsons = acc.jsons /\ new.sis = sis
      BY <3>1
    <3>4. Good(how, r, Append(new.jsons, new.sis), i)
      BY <2>2, <3>3
    <3>. QED
      BY <3>2, <3>4, Zenon
  <2>. QED
    BY <2>6, <2>7
<1>. QED
  BY <1>1, <1>2

\* The recursion over the destinations, unfolded.
LEMMA AfterFacts ==
  ASSUME NEW how, NEW r, <<how, r>> \in Jobs, NEW n \in Nat, n = Len(DstsOf(r))
  PROVE  LET after == AfterDestinations(how, r)
         IN  /\ after \in [0 .. n -> Acc(how, r)]
             /\ after[0] = [jsons |-> << >>, sis |-> << >>]
             /\ \A i \in 1 .. n : after[i] = AddDestination(how, r, after[i - 1], i)
<1>1. PICK D, a : D = Acc(how, r) /\ a \in D /\ a = [jsons |-> << >>, sis |-> << >>]
  <2>1. [jsons |-> << >>, sis |-> << >>] \in Acc(how, r)
    BY DEF Acc
  <2>. QED
    BY <2>1
<1>2. PICK F : F = [x \in D \X Nat |-> AddDestination(how, r, x[1], x[2])]
  OBVIOUS
<1>3. F \in [D \X Nat -> D]
  BY <1>1, <1>2, AddType
<1>4. PICK g \in [0 .. n -> D] : g[0] = a /\ \A i \in 1 .. n : g[i] = F[<<g[i - 1], i>>]
  <2>1. a \in D
    BY <1>1
  <2>2. Recursions(D, a, F, n) # {}
    BY <1>3, <2>1, RecursionExists
  <2>. QED
    BY <2>2 DEF Recursions
<1>5. \A i \in 1 .. n : g[i - 1] \in D /\ g[i] = AddDestination(how, r, g[i - 1], i)
  <2>1. ASSUME NEW i \in 1 .. n PROVE g[i - 1] \in D /\ g[i] = AddDestination(how, r, g[i - 1], i)
    <3>1. PICK b \in D : b = g[i - 1]
      BY <1>4
    <3>2. <<b, i>> \in D \X Nat /\ <<b, i>>[1] = b /\ <<b, i>>[2] = i
      OBVIOUS
    <3>3. F[<<b, i>>] = AddDestination(how, r, b, i)
      BY <1>2, <3>2
    <3>. QED
      BY <1>4, <3>1, <3>3
  <2>. QED
    BY <2>1
<1>6. g = [i \in 0 .. n |-> IF i = 0 THEN [jsons |-> << >>, sis |-> << >>]
                            ELSE AddDestination(how, r, g[i - 1], i)]
  BY <1>1, <1>4, <1>5
<1>7. PICK after : after = AfterDestinations(how, r)
  OBVIOUS
<1>8. after = CHOOSE f : f = [i \in 0 .. n |-> IF i = 0 THEN [jsons |-> << >>, sis |-> << >>]
                                               ELSE AddDestination(how, r, f[i - 1], i)]
  BY <1>7 DEF AfterDestinations
<1>9. after = [i \in 0 .. n |-> IF i = 0 THEN [jsons |-> << >>, sis |-> << >>]
                                ELSE AddDestination(how, r, after[i - 1], i)]
  BY <1>6, <1>8, Zenon
<1>10. after[0] = a /\ \A i \in 1 .. n : after[i] = AddDestination(how, r, after[i - 1], i)
  BY <1>1, <1>9
<1>11. \A i \in Nat : i \in 0 .. n => after[i] \in D
  <2>. DEFINE T == {i \in Nat : i \in 0 .. n => after[i] \in D}
  <2>1. 0 \in T
    BY <1>1, <1>10
  <2>2. ASSUME NEW i \in Nat, i \in T PROVE i + 1 \in T
    <3>1. SUFFICES ASSUME i + 1 \in 0 .. n PROVE after[i + 1] \in D
      OBVIOUS
    <3>2. after[i] \in D /\ i + 1 \in 1 .. n /\ (i + 1) - 1 = i
      BY <2>2, <3>1
    <3>3. after[i + 1] = AddDestination(how, r, after[i], i + 1)
      BY <1>10, <3>2
    <3>. QED
      BY <1>1, <3>2, <3>3, AddType
  <2>3. Nat \subseteq T
    BY <2>1, <2>2, Induction
  <2>. QED
    BY <2>3
<1>12. DOMAIN after = 0 .. n
  BY <1>9
<1>13. after \in [0 .. n -> D]
  <2>1. after = [i \in 0 .. n |-> after[i]]
    BY <1>9
  <2>. QED
    BY <1>11, <2>1
<1>. QED
  BY <1>1, <1>7, <1>10, <1>13


LEMMA AfterGood ==
  ASSUME NEW how, NEW r, <<how, r>> \in Jobs, NEW n \in Nat, n = Len(DstsOf(r))
  PROVE  /\ AfterDestinations(how, r)[n] \in Acc(how, r)
         /\ Good(how, r, Append(AfterDestinations(how, r)[n].jsons,
                                AfterDestinations(how, r)[n].sis), n)
<1>1. PICK after : after = AfterDestinations(how, r)
  OBVIOUS
<1>2. /\ after \in [0 .. n -> Acc(how, r)]
      /\ after[0] = [jsons |-> << >>, sis |-> << >>]
      /\ \A i \in 1 .. n : after[i] = AddDestination(how, r, after[i - 1], i)
  BY <1>1, AfterFacts
<1>3. PICK T : T = {i \in Nat : i <= n => Good(how, r, Append(after[i].jsons, after[i].sis), i)}
  OBVIOUS
<1>4. 0 \in T
  <2>1. after[0].jsons = << >> /\ after[0].sis = << >>
    BY <1>2
  <2>2. << >> \in Seq(MessagesOf(how, r)) /\ << >> \in Seq(Seq(MessagesOf(how, r)))
    OBVIOUS
  <2>3. Good(how, r, << >>, 0)
    BY <2>2 DEF Good, Distinct
  <2>4. Good(how, r, Append(<< >>, << >>), 0)
    BY <2>3, GoodCloses
  <2>. QED
    BY <1>3, <2>1, <2>4
<1>5. ASSUME NEW i \in Nat, i \in T PROVE i + 1 \in T
  <2>1. SUFFICES ASSUME i + 1 <= n
                 PROVE  Good(how, r, Append(after[i + 1].jsons, after[i + 1].sis), i + 1)
    BY <1>3
  <2>2. PICK acc \in Acc(how, r) : acc = after[i]
    BY <1>2, <2>1
  <2>3. Good(how, r, Append(acc.jsons, acc.sis), i)
    BY <1>3, <1>5, <2>1, <2>2
  <2>4. i + 1 \in 1 .. n /\ (i + 1) - 1 = i
    BY <2>1
  <2>5. after[i + 1] = AddDestination(how, r, acc, i + 1)
    BY <1>2, <2>2, <2>4
  <2>. QED
    BY <2>3, <2>5, AddGood
<1>6. n \in T
  BY <1>4, <1>5, Induction
<1>. QED
  BY <1>1, <1>2, <1>3, <1>6

\* A request's batches: messages of the request, no text torn, none twice.
GoodBatches(how, r, L) ==
  /\ L \in Seq(Seq(Message))
  /\ \A k \in DOMAIN L : Whole(how, L[k]) /\ \A p \in DOMAIN L[k] : L[k][p].req = r
  /\ Distinct(L)

LEMMA FormatGood ==
  ASSUME NEW how, NEW r, <<how, r>> \in Jobs
  PROVE  FormatSms(how, r) = BatchesOf(how, r) /\ GoodBatches(how, r, BatchesOf(how, r))
<1>1. PICK n \in Nat : n = Len(DstsOf(r))
  <2>1. DstsOf(r) \in Seq(ToSet(DstsOf(r)))
    BY RequestAssumption DEF Jobs
  <2>. QED
    BY <2>1
<1>2. PICK last \in Acc(how, r) : last = AfterDestinations(how, r)[n]
  BY <1>1, AfterGood
<1>3. Good(how, r, Append(last.jsons, last.sis), n)
  BY <1>1, <1>2, AfterGood
<1>4. PICK js \in Seq(Seq(MessagesOf(how, r))), sis \in Seq(MessagesOf(how, r)) :
        js = last.jsons /\ sis = last.sis
  BY DEF Acc
<1>5. PICK L : L = FormatSms(how, r)
  OBVIOUS
<1>6. L = js \o (IF Len(sis) > 0 THEN <<sis>> ELSE << >>)
  BY <1>1, <1>2, <1>4, <1>5 DEF FormatSms, Flush
<1>7. L = Append(js, sis) \/ L = js
  <2>1. CASE Len(sis) > 0
    BY <1>6, <2>1
  <2>2. CASE ~(Len(sis) > 0)
    <3>1. L = js \o << >>
      BY <1>6, <2>2
    <3>. QED
      BY <1>4, <3>1, ConcatEmptySeq
  <2>. QED
    BY <2>1, <2>2
<1>8. Good(how, r, L, n)
  BY <1>1, <1>3, <1>4, <1>7, GoodShrinks
<1>9. L = Formats[<<how, r>>] /\ L = BatchesOf(how, r)
  BY <1>5 DEF Formats, BatchesOf
<1>10. ASSUME NEW k \in DOMAIN L, NEW p \in DOMAIN L[k] PROVE L[k][p] \in Message
  <2>1. L[k] \in ToSet(Formats[<<how, r>>]) /\ L[k][p] \in ToSet(L[k])
    BY <1>9 DEF ToSet
  <2>2. L[k][p] \in UNION {ToSet(b) : b \in ToSet(Formats[<<how, r>>])}
    BY <2>1
  <2>. QED
    BY <2>2 DEF Message
<1>11. L \in Seq(Seq(Message))
  <2>1. ASSUME NEW k \in DOMAIN L PROVE L[k] \in Seq(Message)
    <3>1. L[k] \in Seq(MessagesOf(how, r))
      BY <1>8 DEF Good
    <3>. QED
      BY <1>10, <3>1
  <2>2. L \in Seq(Seq(MessagesOf(how, r)))
    BY <1>8 DEF Good
  <2>. QED
    BY <2>1, <2>2
<1>12. GoodBatches(how, r, L)
  BY <1>8, <1>11 DEF Good, GoodBatches
<1>. QED
  BY <1>5, <1>9, <1>12

LEMMA BatchesFacts ==
  ASSUME NEW how, NEW r
  PROVE  GoodBatches(how, r, BatchesOf(how, r))
<1>1. CASE <<how, r>> \in Jobs
  BY <1>1, FormatGood
<1>2. CASE <<how, r>> \notin Jobs
  <2>1. BatchesOf(how, r) = << >>
    BY <1>2 DEF BatchesOf
  <2>. QED
    BY <2>1 DEF GoodBatches, Distinct
<1>. QED
  BY <1>1, <1>2

\* Every message is of the batches of its own request.
LEMMA MessageFacts ==
  ASSUME NEW m \in Message
  PROVE  m.req \in Request /\ \E j \in Jobs : j[2] = m.req
<1>1. PICK j \in Jobs : \E b \in ToSet(Formats[j]) : m \in ToSet(b)
  BY DEF Message
<1>2. PICK how, r : j = <<how, r>> /\ r \in Request /\ j[2] = r
  BY DEF Jobs
<1>3. Formats[j] = BatchesOf(how, r)
  BY <1>2 DEF BatchesOf
<1>4. \E k \in DOMAIN BatchesOf(how, r) : \E p \in DOMAIN BatchesOf(how, r)[k] :
        m = BatchesOf(how, r)[k][p]
  BY <1>1, <1>3 DEF ToSet
<1>5. m.req = r
  BY <1>4, BatchesFacts DEF GoodBatches
<1>. QED
  BY <1>2, <1>5


-----------------------------------------------------------------------------
(* The messages of one destination, in the batches                         *)

\* All that formatting has put together so far.
Together(acc) == FlattenSeq(acc.jsons) \o acc.sis

LEMMA AddGives ==
  ASSUME NEW how, NEW r, <<how, r>> \in Jobs, NEW i, NEW acc \in Acc(how, r)
  PROVE  /\ Together(acc) \in Seq(MessagesOf(how, r))
         /\ Together(AddDestination(how, r, acc, i)) =
              IF i \in Destinations(r) THEN Together(acc) \o Messages(r, i, Text(how, r, i))
              ELSE Together(acc)
<1>. DEFINE M == MessagesOf(how, r)
<1>0. PICK js \in Seq(Seq(M)), old \in Seq(M), all \in Seq(M) :
        js = acc.jsons /\ old = acc.sis /\ all = FlattenSeq(js)
  <2>1. PICK js \in Seq(Seq(M)) : js = acc.jsons
    BY DEF Acc
  <2>2. PICK old \in Seq(M) : old = acc.sis
    BY DEF Acc
  <2>3. FlattenSeq(js) \in Seq(M)
    BY <2>1, FlattenType
  <2>. QED
    BY <2>1, <2>2, <2>3
<1>1. Together(acc) = all \o old /\ all \o old \in Seq(M)
  BY <1>0, ConcatProperties DEF Together
<1>2. CASE i \notin Destinations(r)
  BY <1>1, <1>2 DEF AddDestination
<1>3. CASE i \in Destinations(r)
  <2>1. PICK new \in Seq(M) : new = Messages(r, i, Text(how, r, i))
    BY <1>3, MessagesFacts
  <2>2. PICK sis \in Seq(M) : sis = old \o new
    BY ConcatProperties
  <2>3. PICK acc2 : acc2 = AddDestination(how, r, acc, i)
    OBVIOUS
  <2>4. acc2 = IF Len(sis) >= CountOfBatch
               THEN [jsons |-> Append(js, sis), sis |-> << >>]
               ELSE [jsons |-> js, sis |-> sis]
    BY <1>0, <1>3, <2>1, <2>2, <2>3 DEF AddDestination, Text
  <2>5. Together(acc2) = all \o sis
    <3>1. CASE Len(sis) >= CountOfBatch
      <4>1. acc2.jsons = Append(js, sis) /\ acc2.sis = << >>
        BY <2>4, <3>1
      <4>2. FlattenSeq(Append(js, sis)) = all \o sis
        BY <1>0, FlattenAppend
      <4>3. (all \o sis) \o << >> = all \o sis
        <5>1. all \o sis \in Seq(M)
          BY ConcatProperties
        <5>. QED
          BY <5>1, ConcatEmptySeq
      <4>. QED
        BY <4>1, <4>2, <4>3 DEF Together
    <3>2. CASE ~(Len(sis) >= CountOfBatch)
      <4>1. acc2.jsons = js /\ acc2.sis = sis
        BY <2>4, <3>2
      <4>. QED
        BY <1>0, <4>1 DEF Together
    <3>. QED
      BY <3>1, <3>2
  <2>6. all \o sis = (all \o old) \o new
    BY <2>2, ConcatAssociative
  <2>. QED
    BY <1>1, <1>3, <2>1, <2>3, <2>5, <2>6
<1>. QED
  BY <1>2, <1>3

Mine(how, r, i) == {m \in MessagesOf(how, r) : m.dst = i}

LEMMA OnlyMine ==
  ASSUME NEW how, NEW r, <<how, r>> \in Jobs, NEW i \in Destinations(r), NEW j \in Destinations(r)
  PROVE  Only(Messages(r, j, Text(how, r, j)), Mine(how, r, i)) =
           IF i = j THEN Messages(r, j, Text(how, r, j)) ELSE << >>
<1>1. PICK s \in Seq(MessagesOf(how, r)) :
        s = Messages(r, j, Text(how, r, j)) /\ \A k \in DOMAIN s : s[k].dst = j
  BY MessagesFacts
<1>2. \A k \in DOMAIN s : s[k] \in Mine(how, r, j)
  BY <1>1 DEF Mine
<1>3. s \in Seq(Mine(how, r, j))
  BY <1>1, <1>2
<1>4. CASE i = j
  BY <1>1, <1>3, <1>4, OnlyAll
<1>5. CASE i # j
  <2>1. Mine(how, r, j) \intersect Mine(how, r, i) = {}
    BY <1>5 DEF Mine
  <2>. QED
    BY <1>1, <1>3, <1>5, <2>1, OnlyNone
<1>. QED
  BY <1>4, <1>5

\* What is destination i's in all that there is after the first j destinations.
Half(how, r, i, j) == IF i <= j THEN Messages(r, i, Text(how, r, i)) ELSE << >>

LEMMA AddMine ==
  ASSUME NEW how, NEW r, <<how, r>> \in Jobs, NEW i \in Destinations(r), NEW j \in Nat,
         i \in Nat, NEW acc \in Acc(how, r),
         Only(Together(acc), Mine(how, r, i)) = Half(how, r, i, j)
  PROVE  Only(Together(AddDestination(how, r, acc, j + 1)), Mine(how, r, i)) = Half(how, r, i, j + 1)
<1>. DEFINE M == MessagesOf(how, r)
<1>1. PICK all \in Seq(M) : all = Together(acc)
  BY AddGives
<1>2. PICK mine \in Seq(M) : mine = Messages(r, i, Text(how, r, i))
  BY MessagesFacts
<1>3. mine \o << >> = mine /\ << >> \o mine = mine
  BY ConcatEmptySeq
<1>4. CASE j + 1 \notin Destinations(r)
  <2>1. Together(AddDestination(how, r, acc, j + 1)) = all
    BY <1>1, <1>4, AddGives
  <2>2. i # j + 1
    BY <1>4
  <2>3. Half(how, r, i, j + 1) = Half(how, r, i, j)
    BY <2>2 DEF Half
  <2>. QED
    BY <1>1, <2>1, <2>3
<1>5. CASE j + 1 \in Destinations(r)
  <2>1. PICK new \in Seq(M) : new = Messages(r, j + 1, Text(how, r, j + 1))
    BY <1>5, MessagesFacts
  <2>2. Together(AddDestination(how, r, acc, j + 1)) = all \o new
    BY <1>1, <1>5, <2>1, AddGives
  <2>3. Only(all \o new, Mine(how, r, i)) = Only(all, Mine(how, r, i)) \o Only(new, Mine(how, r, i))
    BY OnlyConcat
  <2>4. Only(new, Mine(how, r, i)) = IF i = j + 1 THEN new ELSE << >>
    BY <1>5, <2>1, OnlyMine
  <2>5. CASE i = j + 1
    <3>1. ~(i <= j) /\ i <= j + 1 /\ new = mine
      BY <1>2, <2>1, <2>5
    <3>. QED
      BY <1>1, <1>2, <1>3, <2>2, <2>3, <2>4, <2>5, <3>1 DEF Half
  <2>6. CASE i # j + 1
    <3>1. Half(how, r, i, j + 1) = Half(how, r, i, j)
      BY <2>6 DEF Half
    <3>2. PICK h \in Seq(M) : h = Half(how, r, i, j)
      <4>1. << >> \in Seq(M)
        OBVIOUS
      <4>. QED
        BY <1>2, <4>1 DEF Half
    <3>3. h \o << >> = h
      BY ConcatEmptySeq
    <3>. QED
      BY <1>1, <2>2, <2>3, <2>4, <2>6, <3>1, <3>2, <3>3
  <2>. QED
    BY <2>5, <2>6
<1>. QED
  BY <1>4, <1>5

\* In the batches of a request, what goes to one destination is its text in
\* messages, in their order.
LEMMA BatchesMine ==
  ASSUME NEW how, NEW r, <<how, r>> \in Jobs, NEW i \in Destinations(r)
  PROVE  Only(FlattenSeq(BatchesOf(how, r)), {m \in Message : m.dst = i})
           = Messages(r, i, Text(how, r, i))
<1>. DEFINE M == MessagesOf(how, r)
<1>1. PICK n \in Nat : n = Len(DstsOf(r)) /\ i \in 1 .. n
  <2>1. DstsOf(r) \in Seq(ToSet(DstsOf(r)))
    BY RequestAssumption DEF Jobs
  <2>2. Len(DstsOf(r)) \in Nat /\ DOMAIN DstsOf(r) = 1 .. Len(DstsOf(r))
    BY <2>1, LenProperties
  <2>. QED
    BY <2>2 DEF Destinations
<1>2. PICK after : after = AfterDestinations(how, r)
  OBVIOUS
<1>3. /\ after \in [0 .. n -> Acc(how, r)]
      /\ after[0] = [jsons |-> << >>, sis |-> << >>]
      /\ \A k \in 1 .. n : after[k] = AddDestination(how, r, after[k - 1], k)
  BY <1>1, <1>2, AfterFacts
<1>4. PICK T : T = {j \in Nat : j <= n => Only(Together(after[j]), Mine(how, r, i)) = Half(how, r, i, j)}
  OBVIOUS
<1>5. 0 \in T
  <2>1. after[0].jsons = << >> /\ after[0].sis = << >>
    BY <1>3
  <2>2. << >> \o << >> = << >>
    OBVIOUS
  <2>3. Together(after[0]) = << >>
    BY <2>1, <2>2, FlattenEmpty DEF Together
  <2>4. Half(how, r, i, 0) = << >>
    BY <1>1 DEF Half
  <2>. QED
    BY <1>4, <2>3, <2>4, OnlyEmpty
<1>6. ASSUME NEW j \in Nat, j \in T PROVE j + 1 \in T
  <2>1. SUFFICES ASSUME j + 1 <= n
                 PROVE  Only(Together(after[j + 1]), Mine(how, r, i)) = Half(how, r, i, j + 1)
    BY <1>4
  <2>2. PICK acc \in Acc(how, r) : acc = after[j]
    BY <1>3, <2>1
  <2>3. j + 1 \in 1 .. n /\ (j + 1) - 1 = j /\ j <= n
    BY <2>1
  <2>4. after[j + 1] = AddDestination(how, r, acc, j + 1)
    BY <1>3, <2>2, <2>3
  <2>5. Only(Together(acc), Mine(how, r, i)) = Half(how, r, i, j)
    BY <1>4, <1>6, <2>2, <2>3
  <2>6. i \in Nat
    BY <1>1
  <2>. QED
    BY <2>4, <2>5, <2>6, AddMine
<1>7. n \in T
  BY <1>5, <1>6, Induction
<1>8. PICK last \in Acc(how, r) : last = after[n]
  BY <1>3
<1>9. Only(Together(last), Mine(how, r, i)) = Messages(r, i, Text(how, r, i))
  BY <1>1, <1>4, <1>7, <1>8 DEF Half
<1>10. PICK js \in Seq(Seq(M)), sis \in Seq(M), all \in Seq(M) :
        js = last.jsons /\ sis = last.sis /\ all = FlattenSeq(js)
  <2>1. PICK js \in Seq(Seq(M)) : js = last.jsons
    BY DEF Acc
  <2>2. PICK sis \in Seq(M) : sis = last.sis
    BY DEF Acc
  <2>3. FlattenSeq(js) \in Seq(M)
    BY <2>1, FlattenType
  <2>. QED
    BY <2>1, <2>2, <2>3
<1>11. PICK L : L = BatchesOf(how, r)
  OBVIOUS
<1>12. L = js \o (IF Len(sis) > 0 THEN <<sis>> ELSE << >>)
  BY <1>1, <1>2, <1>8, <1>10, <1>11, FormatGood DEF FormatSms, Flush
<1>13. FlattenSeq(L) = Together(last) /\ L \in Seq(Seq(M))
  <2>1. Together(last) = all \o sis
    BY <1>10 DEF Together
  <2>2. CASE Len(sis) > 0
    <3>1. L = Append(js, sis)
      BY <1>12, <2>2, AppendIsConcat
    <3>2. FlattenSeq(Append(js, sis)) = all \o sis
      BY <1>10, FlattenAppend
    <3>3. Append(js, sis) \in Seq(Seq(M))
      BY AppendProperties
    <3>. QED
      BY <2>1, <3>1, <3>2, <3>3
  <2>3. CASE ~(Len(sis) > 0)
    <3>1. sis = << >>
      <4>1. sis # << >> => Len(sis) \in Nat \ {0}
        BY EmptySeq
      <4>. QED
        BY <2>3, <4>1
    <3>2. L = js
      BY <1>12, <2>3, ConcatEmptySeq
    <3>3. all \o sis = all
      BY <3>1, ConcatEmptySeq
    <3>. QED
      BY <1>10, <2>1, <3>2, <3>3
  <2>. QED
    BY <2>2, <2>3
<1>14. PICK f : f = FlattenSeq(L)
  OBVIOUS
<1>15. f \in Seq(M)
  BY <1>13, <1>14, FlattenType
<1>16. f \in Seq(Message)
  <2>1. L \in Seq(Seq(Message))
    BY <1>11, BatchesFacts DEF GoodBatches
  <2>. QED
    BY <1>14, <2>1, FlattenType
<1>17. f \in Seq(M \intersect Message)
  BY <1>15, <1>16
<1>18. \A x \in M \intersect Message : x \in Mine(how, r, i) <=> x \in {m \in Message : m.dst = i}
  BY DEF Mine
<1>19. Only(f, Mine(how, r, i)) = Only(f, {m \in Message : m.dst = i})
  BY <1>17, <1>18, OnlySame
<1>. QED
  BY <1>9, <1>11, <1>13, <1>14, <1>19


-----------------------------------------------------------------------------
(* Threads, the mutex and the stop                                         *)

WaitingInManager == {"lock_dlrs", "lock_mos", "in_dlrs", "in_mos"}
RestPcs == {"sleep", "log_mos", "log_sleep"}
MainPcs == RestPcs \union {"inst_mos", "dlrs", "inst_dlrs", "log_dlrs"} \union WaitingInManager
WebPcs == {"idle", "format", "submit", "lock_submit"} \union WaitingInManager
PcsOf(t) == IF t = MainThread THEN MainPcs ELSE WebPcs
Pcs == MainPcs \union WebPcs

BusyPcs == {"format", "submit", "lock_submit"}
SubmitPcs == {"submit", "lock_submit"}
InsidePcs == {"in_dlrs", "in_mos"}

\* What a thread is doing agrees with what it has in hand; the calls that
\* the main loop has left; who has the old pointer waits for the mutex.
PcInv ==
  /\ \A t \in Threads : pc[t] \in PcsOf(t)
  /\ \A t \in Web : pc[t] \in BusyPcs => req[t] \in Request
  /\ \A t \in Web : pc[t] \in SubmitPcs => batches[t] # << >>
  /\ pc[MainThread] \notin RestPcs => polls > 0
  /\ \A t \in stale : pc[t] \in Waiting

\* The holder of clients_mutex_ is the one that is inside, or the handler,
\* which never finds the main loop inside; what is collected is of one kind.
LockInv ==
  /\ \A t \in Threads : pc[t] \in InsidePcs => holder = t
  /\ sig = "stop" => holder = MainThread /\ pc[MainThread] \notin InsidePcs
  /\ holder = None \/ sig = "stop" => got = << >>
  /\ \A t \in Threads : pc[t] = "in_dlrs" => got \in Seq(Message) /\ Len(got) <= ToGet
  /\ \A t \in Threads : pc[t] = "in_mos" => got \in Seq(Mo)

StopInv ==
  /\ freed <=> sig = "done"
  /\ clients_ = IF freed THEN << >> ELSE Clients

TypeInv == TypeOK /\ PcInv /\ LockInv /\ StopInv

LEMMA ConstantFacts ==
  ToGet \in Nat \ {0} /\ PollsPerWake \in Nat \ {0} /\ Clients \in Seq(ToSet(Clients))
BY ManagerAssumption

LEMMA PcFacts ==
  /\ Pcs = ControlPoints
  /\ Waiting = {"lock_submit", "lock_dlrs", "lock_mos"}
  /\ LockPc["dlrs"] = "lock_dlrs" /\ LockPc["mos"] = "lock_mos"
  /\ InPc["dlrs"] = "in_dlrs" /\ InPc["mos"] = "in_mos"
  /\ InstPc["dlrs"] = "inst_dlrs" /\ InstPc["mos"] = "inst_mos"
  /\ MainThread \in Threads /\ Web \subseteq Threads
  /\ \A t \in Threads : t # MainThread => t \in Web
  /\ \A t \in Web : t # MainThread
<1>1. /\ LockPc["dlrs"] = "lock_dlrs" /\ LockPc["mos"] = "lock_mos"
      /\ InPc["dlrs"] = "in_dlrs" /\ InPc["mos"] = "in_mos"
      /\ InstPc["dlrs"] = "inst_dlrs" /\ InstPc["mos"] = "inst_mos"
  BY DEF LockPc, InPc, InstPc
<1>2. /\ {InPc[op] : op \in Ops} = {"in_dlrs", "in_mos"}
      /\ {InstPc[op] : op \in Ops} = {"inst_dlrs", "inst_mos"}
  BY <1>1 DEF Ops
<1>3. Pcs = ControlPoints
  BY <1>2 DEF Pcs, MainPcs, RestPcs, WebPcs, WaitingInManager, Waiting, ControlPoints
<1>. QED
  BY <1>1, <1>3 DEF Waiting, Threads

\* What the constants make of the control points does not change.
LEMMA PointsSame == ControlPoints' = ControlPoints
BY DEF ControlPoints, Waiting, InPc, InstPc

LEMMA GotoFacts ==
  ASSUME TypeInv, NEW t \in Threads, NEW l \in PcsOf(t), Goto(t, l)
  PROVE  /\ pc' \in [Threads -> Pcs] /\ pc'[t] = l
         /\ \A u \in Threads : u # t => pc'[u] = pc[u]
         /\ \A u \in Threads : pc'[u] \in PcsOf(u)
<1>1. pc \in [Threads -> Pcs] /\ l \in Pcs
  BY PcFacts DEF TypeInv, TypeOK, ProgramTypeOK, PcsOf, Pcs
<1>. QED
  BY <1>1 DEF Goto, TypeInv, PcInv

LEMMA PcStep ==
  ASSUME TypeInv, NEW t \in Threads, NEW l \in PcsOf(t), Goto(t, l),
         stale' \subseteq stale, t \in stale' => l \in Waiting,
         pc'[MainThread] \notin RestPcs => polls' > 0,
         \A u \in Web : u # t => req'[u] = req[u] /\ batches'[u] = batches[u],
         t \in Web /\ l \in BusyPcs => req'[t] \in Request,
         t \in Web /\ l \in SubmitPcs => batches'[t] # << >>
  PROVE  PcInv'
<1>1. /\ pc'[t] = l /\ \A u \in Threads : u # t => pc'[u] = pc[u]
      /\ \A u \in Threads : pc'[u] \in PcsOf(u)
  BY GotoFacts
<1>2. /\ \A u \in Web : pc[u] \in BusyPcs => req[u] \in Request
      /\ \A u \in Web : pc[u] \in SubmitPcs => batches[u] # << >>
      /\ \A u \in stale : pc[u] \in Waiting
      /\ stale \subseteq Threads
  BY DEF TypeInv, PcInv, TypeOK, ManagerTypeOK
<1>3. \A u \in Web : pc'[u] \in BusyPcs => req'[u] \in Request
  BY <1>1, <1>2, PcFacts
<1>4. \A u \in Web : pc'[u] \in SubmitPcs => batches'[u] # << >>
  BY <1>1, <1>2, PcFacts
<1>5. \A u \in stale' : pc'[u] \in Waiting
  BY <1>1, <1>2
<1>. QED
  BY <1>1, <1>3, <1>4, <1>5 DEF PcInv, Waiting

\* A step outside the two operations leaves the mutex alone.
LEMMA LockStep ==
  ASSUME TypeInv, NEW t \in Threads, NEW l \in PcsOf(t), Goto(t, l), l \notin InsidePcs,
         UNCHANGED <<holder, got, sig>>
  PROVE  LockInv'
<1>1. /\ pc'[t] = l /\ \A u \in Threads : u # t => pc'[u] = pc[u]
  BY GotoFacts
<1>2. \A u \in Threads : pc'[u] \in InsidePcs => pc'[u] = pc[u]
  BY <1>1
<1>. QED
  BY <1>2, PcFacts DEF TypeInv, LockInv, InsidePcs

\* One that does not move any thread.
LEMMA PcSame ==
  ASSUME TypeInv, UNCHANGED <<pc, req, batches, polls, stale>>
  PROVE  PcInv'
BY DEF TypeInv, PcInv, Waiting

LEMMA LockSame ==
  ASSUME TypeInv, UNCHANGED <<pc, holder, got, sig>>
  PROVE  LockInv'
BY DEF TypeInv, LockInv

LEMMA StopSame ==
  ASSUME TypeInv, UNCHANGED <<freed, clients_, sig>>
  PROVE  StopInv'
BY DEF TypeInv, StopInv

LEMMA SourcesSame ==
  ASSUME TypeInv, UNCHANGED sourceVars
  PROVE  SourceTypeOK'
BY DEF TypeInv, TypeOK, SourceTypeOK, sourceVars

LEMMA ManagerSame ==
  ASSUME TypeInv, UNCHANGED managerVars
  PROVE  ManagerTypeOK'
BY DEF TypeInv, TypeOK, ManagerTypeOK, managerVars

LEMMA ProgramSame ==
  ASSUME TypeInv, UNCHANGED <<programVars, polls, sig, fetched>>
  PROVE  ProgramTypeOK'
BY PointsSame DEF TypeInv, TypeOK, ProgramTypeOK, programVars


LEMMA ProgramStep ==
  ASSUME TypeInv, NEW t \in Threads, NEW l \in PcsOf(t), Goto(t, l),
         alive' \in BOOLEAN, UNCHANGED <<mode, sig>>, arriving' \subseteq arriving,
         req' \in [Web -> Request \union {NoRequest}], batches' \in [Web -> Seq(Seq(Message))],
         answer' \in [Request -> Seq(BOOLEAN)], polls' \in 0 .. PollsPerWake,
         fetched' \subseteq Message \union Mo
  PROVE  ProgramTypeOK'
<1>1. pc' \in [Threads -> ControlPoints]
  BY GotoFacts, PcFacts
<1>2. mode \in Modes /\ arriving \subseteq Request /\ sig \in {"no", "run", "stop", "done"}
  BY DEF TypeInv, TypeOK, ProgramTypeOK
<1>. QED
  BY <1>1, <1>2, PointsSame DEF ProgramTypeOK

\* What the variables that the web threads write to are.
LEMMA ProgramFacts ==
  ASSUME TypeInv
  PROVE  /\ alive \in BOOLEAN /\ mode \in Modes /\ arriving \subseteq Request
         /\ req \in [Web -> Request \union {NoRequest}]
         /\ batches \in [Web -> Seq(Seq(Message))] /\ answer \in [Request -> Seq(BOOLEAN)]
         /\ polls \in 0 .. PollsPerWake /\ fetched \subseteq Message \union Mo
BY DEF TypeInv, TypeOK, ProgramTypeOK

\* The response: the thread is idle and works on no request.
LEMMA DoneType ==
  ASSUME TypeInv, NEW t \in Web, Done(t)
  PROVE  /\ Goto(t, "idle") /\ "idle" \in PcsOf(t)
         /\ req' \in [Web -> Request \union {NoRequest}]
         /\ \A u \in Web : u # t => req'[u] = req[u]
<1>1. req \in [Web -> Request \union {NoRequest}] /\ req' = [req EXCEPT ![t] = NoRequest]
  BY ProgramFacts DEF Done
<1>2. "idle" \in PcsOf(t)
  BY PcFacts DEF PcsOf, WebPcs
<1>. QED
  BY <1>1, <1>2 DEF Done

LEMMA TakeRequestType ==
  ASSUME TypeInv, NEW t \in Web, NEW r \in Request, TakeRequest(t, r)
  PROVE  TypeInv'
<1>1. /\ pc[t] = "idle" /\ arriving' = arriving \ {r} /\ req' = [req EXCEPT ![t] = r]
      /\ Goto(t, "format")
      /\ UNCHANGED <<alive, mode, batches, answer, managerVars, sourceVars, polls, sig, fetched>>
  BY DEF TakeRequest
<1>2. UNCHANGED <<clients_, holder, got, freed, stale>>
  BY <1>1 DEF managerVars
<1>3. t \in Threads /\ t # MainThread /\ "format" \in PcsOf(t)
  BY PcFacts DEF PcsOf, WebPcs
<1>4. /\ req' \in [Web -> Request \union {NoRequest}] /\ req'[t] = r
      /\ \A u \in Web : u # t => req'[u] = req[u]
  BY <1>1, ProgramFacts
<1>5. ProgramTypeOK'
  BY <1>1, <1>3, <1>4, ProgramFacts, ProgramStep
<1>6. PcInv'
  <2>1. t \notin stale
    BY <1>1 DEF TypeInv, PcInv, Waiting
  <2>2. pc'[MainThread] \notin RestPcs => polls > 0
    BY <1>1, <1>3, GotoFacts, PcFacts DEF TypeInv, PcInv
  <2>. QED
    BY <1>1, <1>2, <1>3, <1>4, <2>1, <2>2, PcStep DEF SubmitPcs
<1>7. LockInv'
  BY <1>1, <1>2, <1>3, LockStep DEF InsidePcs
<1>. QED
  BY <1>1, <1>2, <1>5, <1>6, <1>7, StopSame, SourcesSame, ManagerSame DEF TypeInv, TypeOK

LEMMA FormatType ==
  ASSUME TypeInv, NEW t \in Web, Format(t)
  PROVE  TypeInv' /\ <<mode, req[t]>> \in Jobs /\ batches'[t] = BatchesOf(mode, req[t])
<1>1. /\ pc[t] = "format" /\ Divides(mode, req[t]) /\ Splits(mode, req[t])
      /\ batches' = [batches EXCEPT ![t] = FormatSms(mode, req[t])]
      /\ IF batches'[t] = << >>
         THEN Done(t) ELSE Goto(t, "submit") /\ req' = req
      /\ UNCHANGED <<alive, mode, arriving, answer, managerVars, sourceVars, polls, sig, fetched>>
  BY DEF Format
<1>2. UNCHANGED <<clients_, holder, got, freed, stale>>
  BY <1>1 DEF managerVars
<1>3. t \in Threads /\ t # MainThread /\ "submit" \in PcsOf(t)
  BY PcFacts DEF PcsOf, WebPcs
<1>4. req[t] \in Request
  BY <1>1 DEF TypeInv, PcInv, BusyPcs
<1>5. <<mode, req[t]>> \in Jobs
  BY <1>1, <1>4, ProgramFacts DEF Jobs
<1>6. /\ batches' \in [Web -> Seq(Seq(Message))] /\ batches'[t] = BatchesOf(mode, req[t])
      /\ \A u \in Web : u # t => batches'[u] = batches[u]
  <2>1. FormatSms(mode, req[t]) = BatchesOf(mode, req[t]) /\ BatchesOf(mode, req[t]) \in Seq(Seq(Message))
    BY <1>5, FormatGood DEF GoodBatches
  <2>. QED
    BY <1>1, <2>1, ProgramFacts
<1>7. PICK l \in PcsOf(t) :
        /\ Goto(t, l) /\ l \in {"idle", "submit"}
        /\ l = "submit" => batches'[t] # << >>
        /\ l = "submit" => req' = req
        /\ req' \in [Web -> Request \union {NoRequest}]
        /\ \A u \in Web : u # t => req'[u] = req[u]
  <2>1. CASE batches'[t] = << >>
    <3>1. Done(t)
      BY <1>1, <2>1
    <3>. QED
      BY <3>1, DoneType
  <2>2. CASE batches'[t] # << >>
    BY <1>1, <1>3, <2>2, ProgramFacts
  <2>. QED
    BY <2>1, <2>2
<1>8. ProgramTypeOK'
  BY <1>1, <1>3, <1>6, <1>7, ProgramFacts, ProgramStep
<1>9. PcInv'
  <2>1. t \notin stale
    BY <1>1 DEF TypeInv, PcInv, Waiting
  <2>2. pc'[MainThread] \notin RestPcs => polls > 0
    BY <1>1, <1>3, <1>7, GotoFacts, PcFacts DEF TypeInv, PcInv
  <2>. QED
    BY <1>1, <1>2, <1>3, <1>4, <1>6, <1>7, <2>1, <2>2, PcStep DEF SubmitPcs, BusyPcs
<1>10. LockInv'
  BY <1>1, <1>2, <1>3, <1>7, LockStep DEF InsidePcs
<1>. QED
  BY <1>1, <1>2, <1>5, <1>6, <1>8, <1>9, <1>10, StopSame, SourcesSame, ManagerSame DEF TypeInv, TypeOK


\* The ends of the process change nothing else.
LEMMA CrashType ==
  ASSUME TypeInv, alive' = FALSE,
         UNCHANGED <<mode, arriving, pc, req, batches, answer, managerVars, sourceVars,
                     polls, sig, fetched>>
  PROVE  TypeInv'
<1>1. UNCHANGED <<clients_, holder, got, freed, stale>>
  BY DEF managerVars
<1>2. ProgramTypeOK'
  BY PointsSame DEF TypeInv, TypeOK, ProgramTypeOK
<1>. QED
  BY <1>1, <1>2, PcSame, LockSame, StopSame, SourcesSame, ManagerSame DEF TypeInv, TypeOK

LEMMA GetInstanceType ==
  ASSUME TypeInv, NEW t \in Web, GetInstance(t)
  PROVE  TypeInv'
<1>1. /\ pc[t] = "submit" /\ Goto(t, "lock_submit")
      /\ UNCHANGED <<alive, mode, arriving, req, batches, answer, managerVars, sourceVars,
                     polls, sig, fetched>>
  BY DEF GetInstance
<1>2. UNCHANGED <<clients_, holder, got, freed, stale>>
  BY <1>1 DEF managerVars
<1>3. t \in Threads /\ t # MainThread /\ "lock_submit" \in PcsOf(t)
  BY PcFacts DEF PcsOf, WebPcs
<1>4. ProgramTypeOK'
  BY <1>1, <1>3, ProgramFacts, ProgramStep
<1>5. PcInv'
  <2>1. req[t] \in Request /\ batches[t] # << >>
    BY <1>1 DEF TypeInv, PcInv, BusyPcs, SubmitPcs
  <2>2. pc'[MainThread] \notin RestPcs => polls > 0
    BY <1>1, <1>3, GotoFacts, PcFacts DEF TypeInv, PcInv
  <2>3. "lock_submit" \in Waiting
    BY PcFacts
  <2>. QED
    BY <1>1, <1>2, <1>3, <2>1, <2>2, <2>3, PcStep
<1>6. LockInv'
  BY <1>1, <1>2, <1>3, LockStep DEF InsidePcs
<1>. QED
  BY <1>1, <1>2, <1>4, <1>5, <1>6, StopSame, SourcesSame, ManagerSame DEF TypeInv, TypeOK

LEMMA TailEmpty ==
  ASSUME NEW S, NEW s \in Seq(S), s # << >>, Len(s) # 1
  PROVE  Tail(s) # << >>
<1>1. Len(s) \in Nat /\ Len(s) # 0
  BY EmptySeq
<1>2. PICK t \in Seq(S) : t = Tail(s) /\ Len(t) = Len(s) - 1
  BY HeadTailProperties
<1>3. Len(t) # 0
  BY <1>1, <1>2
<1>4. t # << >>
  BY <1>3
<1>. QED
  BY <1>2, <1>4

\* An answer to a batch, from the manager or from the old pointer.
LEMMA AnsweredType ==
  ASSUME TypeInv, NEW t \in Web, pc[t] = "lock_submit", NEW ok \in BOOLEAN, Answered(t, ok),
         UNCHANGED <<alive, mode, arriving, polls, sig, fetched, holder, got>>,
         stale' \subseteq stale, t \notin stale'
  PROVE  /\ ProgramTypeOK' /\ PcInv' /\ LockInv'
         /\ req[t] \in Request /\ batches[t] # << >>
<1>1. req[t] \in Request /\ batches[t] \in Seq(Seq(Message)) /\ batches[t] # << >>
  BY ProgramFacts DEF TypeInv, PcInv, BusyPcs, SubmitPcs
<1>2. /\ answer' = [answer EXCEPT ![req[t]] = Append(@, ok)]
      /\ batches' = [batches EXCEPT ![t] = Tail(@)]
      /\ IF Len(batches[t]) = 1 THEN Done(t) ELSE Goto(t, "submit") /\ req' = req
  BY DEF Answered
<1>3. answer' \in [Request -> Seq(BOOLEAN)]
  BY <1>1, <1>2, ProgramFacts, AppendProperties
<1>4. PICK rest \in Seq(Seq(Message)) : rest = Tail(batches[t]) /\ (Len(batches[t]) # 1 => rest # << >>)
  <2>1. PICK b \in Seq(Seq(Message)) : b = batches[t] /\ b # << >>
    BY <1>1
  <2>2. Tail(b) \in Seq(Seq(Message)) /\ Len(Tail(b)) = Len(b) - 1
    BY <2>1, HeadTailProperties
  <2>3. Len(b) # 1 => Tail(b) # << >>
    BY <2>1, TailEmpty
  <2>. QED
    BY <2>1, <2>2, <2>3
<1>5. /\ batches' \in [Web -> Seq(Seq(Message))] /\ batches'[t] = rest
      /\ \A u \in Web : u # t => batches'[u] = batches[u]
  BY <1>2, <1>4, ProgramFacts
<1>6. t \in Threads /\ t # MainThread /\ "submit" \in PcsOf(t)
  BY PcFacts DEF PcsOf, WebPcs
<1>7. PICK l \in PcsOf(t) :
        /\ Goto(t, l) /\ l \in {"idle", "submit"}
        /\ l = "submit" => batches'[t] # << >>
        /\ l = "submit" => req' = req
        /\ req' \in [Web -> Request \union {NoRequest}]
        /\ \A u \in Web : u # t => req'[u] = req[u]
  <2>1. CASE Len(batches[t]) = 1
    <3>1. Done(t)
      BY <1>2, <2>1
    <3>. QED
      BY <3>1, DoneType
  <2>2. CASE Len(batches[t]) # 1
    BY <1>2, <1>4, <1>5, <1>6, <2>2, ProgramFacts
  <2>. QED
    BY <2>1, <2>2
<1>8. ProgramTypeOK'
  BY <1>3, <1>5, <1>6, <1>7, ProgramFacts, ProgramStep
<1>9. PcInv'
  <2>1. pc'[MainThread] \notin RestPcs => polls > 0
    BY <1>6, <1>7, GotoFacts, PcFacts DEF TypeInv, PcInv
  <2>. QED
    BY <1>1, <1>5, <1>6, <1>7, <2>1, PcStep DEF SubmitPcs, BusyPcs
<1>10. LockInv'
  BY <1>6, <1>7, LockStep DEF InsidePcs
<1>. QED
  BY <1>1, <1>8, <1>9, <1>10

\* The client whose turn it is, and that may send.
LEMMA TurnFacts ==
  ASSUME TypeInv, NEW begin \in Nat, Senders(begin) # {}
  PROVE  LET c == Turn(begin, Min(Senders(begin)))
         IN  c \in ToSet(Clients) /\ CanSend(c) /\ SysIdOf(c) \in SysIds
<1>1. PICK n \in Nat : n = Len(clients_) /\ Senders(begin) \subseteq 0 .. n - 1
  <2>1. clients_ \in Seq(ToSet(Clients))
    BY ManagerAssumption DEF TypeInv, StopInv
  <2>. QED
    BY <2>1 DEF Senders
<1>2. PICK k \in Senders(begin) : k = Min(Senders(begin))
  <2>1. Senders(begin) \in SUBSET Nat
    BY <1>1
  <2>. QED
    BY <2>1, MinFacts
<1>3. n \in Nat \ {0} /\ clients_ = Clients /\ k \in Nat
  <2>1. n # 0 /\ k \in Nat
    BY <1>1, <1>2
  <2>2. ~freed
    <3>1. clients_ = << >> => n = 0
      BY <1>1
    <3>. QED
      BY <2>1, <3>1 DEF TypeInv, StopInv
  <2>. QED
    BY <2>1, <2>2 DEF TypeInv, StopInv
<1>4. PICK i \in 1 .. n : Turn(begin, k) = Clients[i]
  <2>1. PICK i : i = ((begin + k) % n) + 1
    OBVIOUS
  <2>2. (begin + k) % n \in 0 .. n - 1
    BY <1>3, DivFacts
  <2>3. i \in 1 .. n
    BY <1>3, <2>1, <2>2
  <2>4. Turn(begin, k) = Clients[i]
    BY <1>1, <1>3, <2>1 DEF Turn
  <2>. QED
    BY <2>3, <2>4
<1>5. Clients \in Seq(ToSet(Clients)) /\ n = Len(Clients)
  BY <1>1, <1>3, ManagerAssumption
<1>6. Clients[i] \in ToSet(Clients)
  BY <1>5
<1>7. CanSend(Turn(begin, k))
  BY <1>2 DEF Senders
<1>. QED
  BY <1>2, <1>4, <1>6, <1>7 DEF SysIds


\* The two ways in which submit_smis ends: the queue of a client that may
\* send takes the whole batch, or the batch is refused.
LEMMA SubmitEffect ==
  ASSUME TypeInv, NEW t \in Web, SubmitSmis(t)
  PROVE  /\ last_index' \in 0 .. Len(Clients) - 1
         /\ \/ /\ Answered(t, TRUE) /\ ~freed
               /\ \E c \in ToSet(Clients) :
                    /\ CanSend(c) /\ SysIdOf(c) \in SysIds
                    /\ to_submit' = [to_submit EXCEPT ![SysIdOf(c)] = @ \o Head(batches[t])]
            \/ Answered(t, FALSE) /\ to_submit' = to_submit
<1>1. PICK n \in Nat : n = Len(clients_)
  <2>1. clients_ \in Seq(ToSet(Clients))
    BY ManagerAssumption DEF TypeInv, StopInv
  <2>. QED
    BY <2>1
<1>2. CASE n > 0
  <2>1. clients_ = Clients /\ ~freed
    <3>1. clients_ # << >>
      BY <1>1, <1>2
    <3>. QED
      BY <3>1 DEF TypeInv, StopInv
  <2>2. last_index \in Nat
    BY DEF TypeInv, TypeOK, ManagerTypeOK
  <2>3. PICK begin \in Nat : begin = (last_index + 1) % n /\ begin \in 0 .. n - 1
    BY <1>2, <2>2, DivFacts
  <2>4. /\ last_index' = begin
        /\ IF Senders(begin) # {}
           THEN /\ to_submit' = [to_submit EXCEPT ![SysIdOf(Turn(begin, Min(Senders(begin))))] = @ \o Head(batches[t])]
                /\ Answered(t, TRUE)
           ELSE /\ to_submit' = to_submit
                /\ Answered(t, FALSE)
    BY <1>1, <1>2, <2>3 DEF SubmitSmis
  <2>5. last_index' \in 0 .. Len(Clients) - 1
    BY <1>1, <2>1, <2>3, <2>4
  <2>6. CASE Senders(begin) # {}
    <3>1. PICK c : c = Turn(begin, Min(Senders(begin)))
      OBVIOUS
    <3>2. c \in ToSet(Clients) /\ CanSend(c) /\ SysIdOf(c) \in SysIds
      BY <2>6, <3>1, TurnFacts
    <3>3. to_submit' = [to_submit EXCEPT ![SysIdOf(c)] = @ \o Head(batches[t])] /\ Answered(t, TRUE)
      BY <2>4, <2>6, <3>1
    <3>4. \E d \in ToSet(Clients) :
                    /\ CanSend(d) /\ SysIdOf(d) \in SysIds
                    /\ to_submit' = [to_submit EXCEPT ![SysIdOf(d)] = @ \o Head(batches[t])]
      BY <3>2, <3>3, Zenon
    <3>. QED
      BY <2>1, <2>5, <3>3, <3>4
  <2>7. CASE Senders(begin) = {}
    BY <2>4, <2>5, <2>7
  <2>. QED
    BY <2>6, <2>7
<1>3. CASE ~(n > 0)
  <2>1. UNCHANGED <<last_index, to_submit>> /\ Answered(t, FALSE)
    BY <1>1, <1>3 DEF SubmitSmis
  <2>. QED
    BY <2>1 DEF TypeInv, TypeOK, ManagerTypeOK
<1>. QED
  BY <1>1, <1>2, <1>3

LEMMA SubmitSmisType ==
  ASSUME TypeInv, NEW t \in Web, SubmitSmis(t)
  PROVE  TypeInv' /\ req[t] \in Request /\ batches[t] # << >> /\ pc[t] = "lock_submit"
<1>1. /\ pc[t] = "lock_submit" /\ t \notin stale
      /\ UNCHANGED <<alive, mode, arriving, clients_, holder, visit, got, freed, stale,
                     wire, delivered, mo_list, polls, sig, fetched>>
  BY DEF SubmitSmis
<1>2. PICK ok \in BOOLEAN : Answered(t, ok)
  BY SubmitEffect
<1>3. ProgramTypeOK' /\ PcInv' /\ LockInv' /\ req[t] \in Request /\ batches[t] # << >>
  BY <1>1, <1>2, AnsweredType
<1>4. ManagerTypeOK'
  BY <1>1, SubmitEffect DEF TypeInv, TypeOK, ManagerTypeOK
<1>5. to_submit' \in [SysIds -> Seq(Message)]
  <2>1. to_submit \in [SysIds -> Seq(Message)]
    BY DEF TypeInv, TypeOK, SourceTypeOK
  <2>2. Head(batches[t]) \in Seq(Message)
    BY <1>3, ProgramFacts
  <2>3. ASSUME NEW s \in SysIds, to_submit' = [to_submit EXCEPT ![s] = @ \o Head(batches[t])]
        PROVE  to_submit' \in [SysIds -> Seq(Message)]
    BY <2>1, <2>2, <2>3, ConcatProperties
  <2>. QED
    BY <2>1, <2>3, SubmitEffect
<1>6. SourceTypeOK'
  BY <1>1, <1>5 DEF TypeInv, TypeOK, SourceTypeOK
<1>. QED
  BY <1>1, <1>3, <1>4, <1>6, StopSame DEF TypeInv, TypeOK

LEMMA CallFacts ==
  ASSUME NEW t \in Threads, NEW op \in Ops
  PROVE  /\ CallPc(t, op) \in PcsOf(t)
         /\ op = "dlrs" => CallPc(t, op) \in {"lock_dlrs", "inst_dlrs"}
         /\ op = "mos" => CallPc(t, op) \in {"lock_mos", "inst_mos"}
BY PcFacts DEF CallPc, Ops, PcsOf, WebPcs, MainPcs, WaitingInManager

LEMMA GetDlrsType ==
  ASSUME TypeInv, NEW t \in Threads, GetDlrs(t)
  PROVE  TypeInv'
<1>1. /\ pc[t] \in {"idle", "dlrs"} /\ Goto(t, CallPc(t, "dlrs"))
      /\ UNCHANGED <<alive, mode, arriving, req, batches, answer, managerVars, sourceVars,
                     polls, sig, fetched>>
  BY DEF GetDlrs
<1>2. UNCHANGED <<clients_, holder, got, freed, stale>>
  BY <1>1 DEF managerVars
<1>3. PICK l \in PcsOf(t) : l = CallPc(t, "dlrs") /\ l \in {"lock_dlrs", "inst_dlrs"}
  BY CallFacts DEF Ops
<1>4. ProgramTypeOK'
  BY <1>1, <1>3, ProgramFacts, ProgramStep
<1>5. pc'[MainThread] \notin RestPcs => polls > 0
  <2>1. t = MainThread => pc[t] \notin RestPcs
    BY <1>1 DEF RestPcs
  <2>. QED
    BY <1>1, <1>3, <2>1, GotoFacts, PcFacts DEF TypeInv, PcInv
<1>6. PcInv'
  <2>1. t \notin stale
    BY <1>1, PcFacts DEF TypeInv, PcInv
  <2>. QED
    BY <1>1, <1>2, <1>3, <1>5, <2>1, PcStep DEF SubmitPcs, BusyPcs
<1>7. LockInv'
  BY <1>1, <1>2, <1>3, LockStep DEF InsidePcs
<1>. QED
  BY <1>1, <1>2, <1>4, <1>6, <1>7, StopSame, SourcesSame, ManagerSame DEF TypeInv, TypeOK

LEMMA GetMosType ==
  ASSUME TypeInv, NEW t \in Threads, GetMos(t)
  PROVE  TypeInv'
<1>1. /\ pc[t] \in {"idle", "sleep", "log_mos"} /\ Goto(t, CallPc(t, "mos"))
      /\ polls' = IF t = MainThread THEN PollsPerWake ELSE polls
      /\ UNCHANGED <<alive, mode, arriving, req, batches, answer, managerVars, sourceVars,
                     sig, fetched>>
  BY DEF GetMos
<1>2. UNCHANGED <<clients_, holder, got, freed, stale>>
  BY <1>1 DEF managerVars
<1>3. PICK l \in PcsOf(t) : l = CallPc(t, "mos") /\ l \in {"lock_mos", "inst_mos"}
  BY CallFacts DEF Ops
<1>4. polls' \in 0 .. PollsPerWake /\ PollsPerWake > 0
  <2>1. PollsPerWake \in Nat \ {0}
    BY ConstantFacts
  <2>2. polls \in 0 .. PollsPerWake /\ (polls' = PollsPerWake \/ polls' = polls)
    BY <1>1, ProgramFacts
  <2>. QED
    BY <2>1, <2>2
<1>5. ProgramTypeOK'
  BY <1>1, <1>3, <1>4, ProgramFacts, ProgramStep
<1>6. pc'[MainThread] \notin RestPcs => polls' > 0
  BY <1>1, <1>3, <1>4, GotoFacts, PcFacts DEF TypeInv, PcInv
<1>7. PcInv'
  <2>1. t \notin stale
    BY <1>1, PcFacts DEF TypeInv, PcInv
  <2>. QED
    BY <1>1, <1>2, <1>3, <1>6, <2>1, PcStep DEF SubmitPcs, BusyPcs
<1>8. LockInv'
  BY <1>1, <1>2, <1>3, LockStep DEF InsidePcs
<1>. QED
  BY <1>1, <1>2, <1>5, <1>7, <1>8, StopSame, SourcesSame, ManagerSame DEF TypeInv, TypeOK

\* The steps of the main loop in get_instance and at the log.
MainMove == (\E op \in Ops : HaveInstance(op)) \/ WriteStatistic \/ Logged

LEMMA MainMoveFacts ==
  ASSUME TypeInv, MainMove
  PROVE  \E l \in PcsOf(MainThread) :
           /\ Goto(MainThread, l) /\ l \notin InsidePcs /\ l \notin BusyPcs /\ l \notin SubmitPcs
           /\ l \notin RestPcs => pc[MainThread] \notin RestPcs
           /\ pc[MainThread] \notin Waiting
           /\ UNCHANGED <<alive, mode, arriving, req, batches, answer, managerVars, sourceVars,
                          polls, sig, fetched>>
<1>1. PcsOf(MainThread) = MainPcs
  BY DEF PcsOf
<1>2. CASE \E op \in Ops : HaveInstance(op)
  <2>1. PICK op \in Ops : HaveInstance(op)
    BY <1>2
  <2>2. /\ LockPc[op] \in {"lock_dlrs", "lock_mos"} /\ InstPc[op] \in {"inst_dlrs", "inst_mos"}
    BY PcFacts DEF Ops
  <2>3. /\ LockPc[op] \in MainPcs /\ LockPc[op] \notin InsidePcs /\ LockPc[op] \notin BusyPcs
        /\ LockPc[op] \notin SubmitPcs /\ InstPc[op] \notin RestPcs /\ InstPc[op] \notin Waiting
    BY <2>2 DEF MainPcs, WaitingInManager, InsidePcs, BusyPcs, SubmitPcs, RestPcs, Waiting
  <2>. QED
    BY <1>1, <2>1, <2>3 DEF HaveInstance
<1>3. CASE WriteStatistic
  <2>1. /\ "log_mos" \in MainPcs /\ "log_mos" \in RestPcs /\ "log_mos" \notin InsidePcs
        /\ "log_mos" \notin BusyPcs /\ "log_mos" \notin SubmitPcs /\ "sleep" \notin Waiting
    BY DEF MainPcs, RestPcs, InsidePcs, BusyPcs, SubmitPcs, Waiting
  <2>. QED
    BY <1>1, <1>3, <2>1 DEF WriteStatistic
<1>4. CASE Logged
  <2>1. PICK next \in {"dlrs", "sleep"} :
          /\ pc[MainThread] = LogPc[next] /\ Goto(MainThread, next)
          /\ LogPc[next] = IF next = "dlrs" THEN "log_dlrs" ELSE "log_sleep"
    BY <1>4 DEF Logged, LogPc
  <2>2. /\ next \in MainPcs /\ next \notin InsidePcs /\ next \notin BusyPcs /\ next \notin SubmitPcs
        /\ next \notin RestPcs => LogPc[next] \notin RestPcs
        /\ LogPc[next] \notin Waiting
    BY <2>1 DEF MainPcs, RestPcs, InsidePcs, BusyPcs, SubmitPcs, Waiting
  <2>. QED
    BY <1>1, <1>4, <2>1, <2>2 DEF Logged
<1>. QED
  BY <1>2, <1>3, <1>4 DEF MainMove

LEMMA MainMoveType ==
  ASSUME TypeInv, MainMove
  PROVE  TypeInv'
<1>1. PICK l \in PcsOf(MainThread) :
        /\ Goto(MainThread, l) /\ l \notin InsidePcs /\ l \notin BusyPcs /\ l \notin SubmitPcs
        /\ l \notin RestPcs => pc[MainThread] \notin RestPcs
        /\ pc[MainThread] \notin Waiting
        /\ UNCHANGED <<alive, mode, arriving, req, batches, answer, managerVars, sourceVars,
                       polls, sig, fetched>>
  BY MainMoveFacts
<1>2. UNCHANGED <<clients_, holder, got, freed, stale>>
  BY <1>1 DEF managerVars
<1>3. MainThread \in Threads /\ MainThread \notin Web
  BY PcFacts
<1>4. ProgramTypeOK'
  BY <1>1, <1>3, ProgramFacts, ProgramStep
<1>5. PcInv'
  <2>1. pc'[MainThread] = l
    BY <1>1, <1>3, GotoFacts
  <2>2. pc'[MainThread] \notin RestPcs => polls' > 0
    BY <1>1, <2>1 DEF TypeInv, PcInv
  <2>3. MainThread \notin stale
    BY <1>1 DEF TypeInv, PcInv
  <2>. QED
    BY <1>1, <1>2, <1>3, <2>2, <2>3, PcStep
<1>6. LockInv'
  BY <1>1, <1>2, <1>3, LockStep
<1>. QED
  BY <1>1, <1>2, <1>4, <1>5, <1>6, StopSame, SourcesSame, ManagerSame DEF TypeInv, TypeOK


LEMMA LockType ==
  ASSUME TypeInv, NEW t \in Threads, NEW op \in Ops, Lock(t, op)
  PROVE  TypeInv'
<1>1. /\ pc[t] = LockPc[op] /\ t \notin stale /\ holder = None
      /\ holder' = t /\ visit' = 0 /\ got' = << >> /\ Goto(t, InPc[op])
      /\ UNCHANGED <<alive, mode, arriving, req, batches, answer, clients_, last_index,
                     freed, stale, sourceVars, polls, sig, fetched>>
  BY DEF Lock
<1>2. PICK l \in InsidePcs : l = InPc[op] /\ l \in PcsOf(t)
  BY PcFacts DEF Ops, InsidePcs, PcsOf, WebPcs, MainPcs, WaitingInManager
<1>3. ProgramTypeOK'
  BY <1>1, <1>2, ProgramFacts, ProgramStep
<1>4. ManagerTypeOK'
  <2>1. Len(clients_) \in Nat
    BY ConstantFacts DEF TypeInv, StopInv
  <2>. QED
    BY <1>1, <2>1 DEF TypeInv, TypeOK, ManagerTypeOK
<1>5. PcInv'
  <2>1. t = MainThread => pc[t] \notin RestPcs
    BY <1>1, PcFacts DEF Ops, RestPcs
  <2>2. pc'[MainThread] \notin RestPcs => polls > 0
    BY <1>1, <1>2, <2>1, GotoFacts, PcFacts DEF TypeInv, PcInv
  <2>3. l \notin BusyPcs /\ l \notin SubmitPcs
    BY <1>2 DEF InsidePcs, BusyPcs, SubmitPcs
  <2>. QED
    BY <1>1, <1>2, <2>2, <2>3, PcStep
<1>6. LockInv'
  <2>1. sig # "stop" /\ sig' # "stop"
    <3>1. MainThread # None
      BY PcFacts
    <3>. QED
      BY <1>1, <3>1 DEF TypeInv, LockInv
  <2>2. \A u \in Threads : pc[u] \notin InsidePcs
    <3>1. \A u \in Threads : u # None
      BY PcFacts
    <3>. QED
      BY <1>1, <3>1 DEF TypeInv, LockInv
  <2>3. \A u \in Threads : pc'[u] \in InsidePcs => u = t
    BY <1>1, <1>2, <2>2, GotoFacts
  <2>4. got' \in Seq(Message) /\ got' \in Seq(Mo) /\ Len(got') <= ToGet
    BY <1>1, ConstantFacts
  <2>. QED
    BY <1>1, <2>1, <2>3, <2>4 DEF LockInv
<1>. QED
  BY <1>1, <1>3, <1>4, <1>5, <1>6, StopSame, SourcesSame DEF TypeInv, TypeOK

\* What visiting one client does to its data source and to the collection.
LEMMA VisitFacts ==
  ASSUME TypeInv, NEW t \in Threads, pc[t] \in InsidePcs, visit < Len(clients_)
  PROVE  /\ clients_ = Clients /\ clients_[visit + 1] \in ToSet(Clients)
         /\ SysIdOf(clients_[visit + 1]) \in SysIds
         /\ visit + 1 \in 0 .. Len(clients_)
         /\ holder = t /\ sig # "stop"
         /\ \A u \in Threads : pc[u] \in InsidePcs => u = t
<1>1. PICK n \in Nat : n = Len(clients_) /\ visit \in 0 .. n
  BY ConstantFacts DEF TypeInv, StopInv, TypeOK, ManagerTypeOK
<1>2. n # 0 /\ visit + 1 \in 1 .. n
  BY <1>1
<1>3. clients_ = Clients
  <2>1. clients_ # << >>
    BY <1>1, <1>2
  <2>. QED
    BY <2>1 DEF TypeInv, StopInv
<1>4. clients_[visit + 1] \in ToSet(Clients)
  BY <1>1, <1>2, <1>3, ConstantFacts
<1>. QED
  <2>1. \A u \in Threads : pc[u] \in InsidePcs => holder = u
    BY DEF TypeInv, LockInv
  <2>2. holder = t /\ \A u \in Threads : pc[u] \in InsidePcs => u = t
    BY <2>1
  <2>3. sig # "stop"
    BY <2>2 DEF TypeInv, LockInv
  <2>4. SysIdOf(clients_[visit + 1]) \in SysIds
    BY <1>4 DEF SysIds
  <2>. QED
    BY <1>1, <1>2, <1>3, <1>4, <2>2, <2>3, <2>4

\* The first n elements of q, and what they leave.
Cut(q, n, a, b) ==
  /\ a = SubSeq(q, 1, n) /\ b = SubSeq(q, n + 1, Len(q))
  /\ Len(a) = n /\ DOMAIN a = 1 .. n /\ \A i \in 1 .. n : a[i] = q[i]
  /\ Len(b) = Len(q) - n /\ DOMAIN b = 1 .. Len(q) - n /\ \A i \in 1 .. Len(q) - n : b[i] = q[n + i]

LEMMA CutFacts ==
  ASSUME NEW S, NEW q \in Seq(S), NEW n \in Nat, n <= Len(q)
  PROVE  \E a, b \in Seq(S) : Cut(q, n, a, b)
<1>1. PICK l \in Nat : l = Len(q) /\ DOMAIN q = 1 .. l /\ n <= l /\ \A i \in 1 .. l : q[i] \in S
  OBVIOUS
<1>2. PICK a : a = SubSeq(q, 1, n)
  OBVIOUS
<1>3. a \in Seq(S) /\ Len(a) = n /\ \A i \in 1 .. n : a[i] = q[i]
  <2>1. 1 \in Int /\ n \in Int /\ \A i \in 1 .. n : q[i] \in S
    BY <1>1
  <2>2. /\ a \in Seq(S) /\ Len(a) = IF 1 <= n THEN n - 1 + 1 ELSE 0
        /\ \A i \in 1 .. n - 1 + 1 : a[i] = q[1 + i - 1]
    BY <1>2, <2>1, SubSeqProperties
  <2>3. Len(a) = n
    BY <2>2
  <2>4. \A i \in 1 .. n : i \in 1 .. n - 1 + 1 /\ 1 + i - 1 = i
    OBVIOUS
  <2>. QED
    BY <2>2, <2>3, <2>4
<1>4. PICK b : b = SubSeq(q, n + 1, l)
  OBVIOUS
<1>5. b \in Seq(S) /\ Len(b) = l - n /\ \A i \in 1 .. l - n : b[i] = q[n + i]
  <2>1. n + 1 \in Int /\ l \in Int /\ \A i \in n + 1 .. l : q[i] \in S
    BY <1>1
  <2>2. /\ b \in Seq(S) /\ Len(b) = IF n + 1 <= l THEN l - (n + 1) + 1 ELSE 0
        /\ \A i \in 1 .. l - (n + 1) + 1 : b[i] = q[(n + 1) + i - 1]
    BY <1>4, <2>1, SubSeqProperties
  <2>3. Len(b) = l - n
    BY <1>1, <2>2
  <2>4. \A i \in 1 .. l - n : i \in 1 .. l - (n + 1) + 1 /\ (n + 1) + i - 1 = n + i
    BY <1>1
  <2>. QED
    BY <2>2, <2>3, <2>4
<1>6. DOMAIN a = 1 .. n /\ DOMAIN b = 1 .. l - n
  BY <1>3, <1>5
<1>7. Cut(q, n, a, b)
  BY <1>1, <1>2, <1>3, <1>4, <1>5, <1>6 DEF Cut
<1>. QED
  BY <1>3, <1>5, <1>7

\* The first n reports of a queue go to the collection.
StatusVisited(s, n, a, b) ==
  /\ Cut(delivered[s], n, a, b) /\ delivered[s] \in Seq(Message)
  /\ got \in Seq(Message) /\ Len(got) + n <= ToGet
  /\ got' = got \o a
  /\ delivered' = [delivered EXCEPT ![s] = b]

LEMMA VisitStatusEffect ==
  ASSUME TypeInv, NEW t \in Threads, VisitStatus(t)
  PROVE  \E s \in SysIds, n \in Nat, a, b \in Seq(Message) : StatusVisited(s, n, a, b)
<1>1. pc[t] = "in_dlrs" /\ visit < Len(clients_) /\ Len(got) < ToGet
  BY DEF VisitStatus
<1>2. PICK s \in SysIds : s = SysIdOf(clients_[visit + 1])
  BY <1>1, VisitFacts DEF InsidePcs
<1>3. PICK q \in Seq(Message) : q = delivered[s]
  BY DEF TypeInv, TypeOK, SourceTypeOK
<1>4. got \in Seq(Message)
  BY <1>1 DEF TypeInv, LockInv
<1>5. PICK g \in Nat, l \in Nat : g = Len(got) /\ l = Len(q)
  BY <1>3, <1>4
<1>6. PICK n : n = StatusBatch(s)
  OBVIOUS
<1>7. n \in Nat /\ n <= l /\ g + n <= ToGet
  <2>1. ToGet - g > 0 /\ ToGet \in Nat
    <3>1. PICK m \in Nat : m = ToGet
      BY ConstantFacts
    <3>2. g < m
      BY <1>1, <1>5, <3>1
    <3>. QED
      BY <3>1, <3>2
  <2>2. n = Smaller(ToGet - g, l)
    BY <1>3, <1>5, <1>6, <2>1 DEF StatusBatch
  <2>. QED
    BY <2>1, <2>2 DEF Smaller
<1>8. /\ got' = got \o SubSeq(q, 1, n)
      /\ delivered' = [delivered EXCEPT ![s] = SubSeq(q, n + 1, Len(q))]
  BY <1>2, <1>3, <1>6 DEF VisitStatus, Collected, Remaining
<1>9. PICK a, b \in Seq(Message) : Cut(q, n, a, b)
  BY <1>5, <1>7, CutFacts
<1>10. StatusVisited(s, n, a, b)
  BY <1>3, <1>4, <1>5, <1>7, <1>8, <1>9 DEF StatusVisited, Cut
<1>. QED
  BY <1>7, <1>10


LEMMA VisitStatusType ==
  ASSUME TypeInv, NEW t \in Threads, VisitStatus(t)
  PROVE  TypeInv'
<1>1. /\ pc[t] = "in_dlrs" /\ visit < Len(clients_) /\ visit' = visit + 1
      /\ UNCHANGED <<programVars, clients_, last_index, holder, freed, stale,
                     to_submit, wire, mo_list, polls, sig, fetched>>
  BY DEF VisitStatus
<1>2. UNCHANGED <<pc, req, batches>>
  BY <1>1 DEF programVars
<1>3. PICK s \in SysIds, n \in Nat, a, b \in Seq(Message) : StatusVisited(s, n, a, b)
  BY VisitStatusEffect
<1>4. got' \in Seq(Message) /\ Len(got') <= ToGet
  <2>1. Len(a) = n /\ got \in Seq(Message) /\ Len(got) + n <= ToGet /\ got' = got \o a
    BY <1>3 DEF StatusVisited, Cut
  <2>. QED
    BY <2>1, ConcatProperties
<1>5. ManagerTypeOK'
  <2>1. got' \in Seq(Message \union Mo)
    BY <1>4
  <2>2. visit' \in 0 .. Len(clients_)
    BY <1>1, VisitFacts DEF InsidePcs
  <2>. QED
    BY <1>1, <2>1, <2>2 DEF TypeInv, TypeOK, ManagerTypeOK
<1>6. SourceTypeOK'
  <2>1. delivered' \in [SysIds -> Seq(Message)]
    BY <1>3 DEF StatusVisited, TypeInv, TypeOK, SourceTypeOK
  <2>. QED
    BY <1>1, <2>1 DEF TypeInv, TypeOK, SourceTypeOK
<1>7. LockInv'
  <2>1. /\ holder = t /\ sig # "stop"
        /\ \A u \in Threads : pc[u] \in InsidePcs => u = t
    BY <1>1, VisitFacts DEF InsidePcs
  <2>2. t # None /\ \A u \in Threads : pc[u] # "in_mos"
    BY <1>1, <2>1, PcFacts DEF InsidePcs
  <2>. QED
    BY <1>1, <1>2, <1>4, <2>1, <2>2 DEF LockInv
<1>. QED
  BY <1>1, <1>2, <1>5, <1>6, <1>7, PcSame, StopSame, ProgramSame DEF TypeInv, TypeOK

LEMMA VisitMosEffect ==
  ASSUME TypeInv, NEW t \in Threads, VisitMos(t)
  PROVE  \E s \in SysIds : /\ got \in Seq(Mo) /\ mo_list[s] \in Seq(Mo)
                           /\ got' = got \o mo_list[s]
                           /\ mo_list' = [mo_list EXCEPT ![s] = << >>]
<1>1. pc[t] = "in_mos" /\ visit < Len(clients_)
  BY DEF VisitMos
<1>2. PICK s \in SysIds : s = SysIdOf(clients_[visit + 1])
  BY <1>1, VisitFacts DEF InsidePcs
<1>3. got' = got \o mo_list[s] /\ mo_list' = [mo_list EXCEPT ![s] = << >>]
  BY <1>2 DEF VisitMos, Collected
<1>4. mo_list[s] \in Seq(Mo)
  BY DEF TypeInv, TypeOK, SourceTypeOK
<1>5. got \in Seq(Mo)
  BY <1>1 DEF TypeInv, LockInv
<1>. QED
  BY <1>3, <1>4, <1>5

LEMMA VisitMosType ==
  ASSUME TypeInv, NEW t \in Threads, VisitMos(t)
  PROVE  TypeInv'
<1>1. /\ pc[t] = "in_mos" /\ visit < Len(clients_) /\ visit' = visit + 1
      /\ UNCHANGED <<programVars, clients_, last_index, holder, freed, stale,
                     to_submit, wire, delivered, polls, sig, fetched>>
  BY DEF VisitMos
<1>2. UNCHANGED <<pc, req, batches>>
  BY <1>1 DEF programVars
<1>3. PICK s \in SysIds : /\ got \in Seq(Mo) /\ mo_list[s] \in Seq(Mo)
                          /\ got' = got \o mo_list[s]
                          /\ mo_list' = [mo_list EXCEPT ![s] = << >>]
  BY VisitMosEffect
<1>4. got' \in Seq(Mo)
  BY <1>3, ConcatProperties
<1>5. ManagerTypeOK'
  <2>1. got' \in Seq(Message \union Mo)
    BY <1>4
  <2>2. visit' \in 0 .. Len(clients_)
    BY <1>1, VisitFacts DEF InsidePcs
  <2>. QED
    BY <1>1, <2>1, <2>2 DEF TypeInv, TypeOK, ManagerTypeOK
<1>6. SourceTypeOK'
  <2>1. mo_list' \in [SysIds -> Seq(Mo)]
    BY <1>3 DEF TypeInv, TypeOK, SourceTypeOK
  <2>. QED
    BY <1>1, <2>1 DEF TypeInv, TypeOK, SourceTypeOK
<1>7. LockInv'
  <2>1. /\ holder = t /\ sig # "stop"
        /\ \A u \in Threads : pc[u] \in InsidePcs => u = t
    BY <1>1, VisitFacts DEF InsidePcs
  <2>2. t # None /\ \A u \in Threads : pc[u] # "in_dlrs"
    BY <1>1, <2>1, PcFacts DEF InsidePcs
  <2>. QED
    BY <1>1, <1>2, <1>4, <2>1, <2>2 DEF LockInv
<1>. QED
  BY <1>1, <1>2, <1>5, <1>6, <1>7, PcSame, StopSame, ProgramSame DEF TypeInv, TypeOK


LEMMA AfterPc ==
  ASSUME NEW t \in Threads, NEW op \in Ops
  PROVE  /\ After(t, op) \in PcsOf(t)
         /\ After(t, op) \in {"idle", "dlrs", "sleep", "log_dlrs", "log_sleep"}
         /\ t = MainThread /\ op = "dlrs" /\ After(t, op) \notin RestPcs => polls > 1
<1>1. LogPc["dlrs"] = "log_dlrs" /\ LogPc["sleep"] = "log_sleep"
  BY DEF LogPc
<1>. QED
  BY <1>1 DEF After, PcsOf, WebPcs, MainPcs, RestPcs

LEMMA ReturnType ==
  ASSUME TypeInv, NEW t \in Threads, NEW op \in Ops, Return(t, op)
  PROVE  TypeInv'
<1>1. /\ pc[t] = InPc[op] /\ holder' = None /\ fetched' = fetched \union ToSet(got)
      /\ got' = << >> /\ visit' = 0
      /\ polls' = IF t = MainThread /\ op = "dlrs" THEN polls - 1 ELSE polls
      /\ UNCHANGED <<alive, mode, arriving, req, batches, answer, clients_, last_index,
                     freed, stale, sourceVars, sig>>
  BY DEF Return, Released
<1>2. PICK l \in PcsOf(t) : /\ l = After(t, op) /\ Goto(t, l) /\ l \in {"idle", "dlrs", "sleep", "log_dlrs", "log_sleep"}
                            /\ t = MainThread /\ op = "dlrs" /\ l \notin RestPcs => polls > 1
  BY AfterPc DEF Return
<1>3. pc[t] \in InsidePcs /\ pc[t] \notin Waiting /\ pc[t] \notin RestPcs
  BY <1>1, PcFacts DEF Ops, InsidePcs, RestPcs
<1>4. polls \in 0 .. PollsPerWake /\ (t = MainThread => polls > 0)
  BY <1>3, ProgramFacts DEF TypeInv, PcInv
<1>5. polls' \in 0 .. PollsPerWake /\ (polls' = polls \/ t = MainThread)
  BY <1>1, <1>4, ConstantFacts
<1>6. fetched' \subseteq Message \union Mo
  <2>1. got \in Seq(Message \union Mo)
    BY DEF TypeInv, TypeOK, ManagerTypeOK
  <2>2. ToSet(got) \subseteq Message \union Mo
    BY <2>1 DEF ToSet
  <2>. QED
    BY <1>1, <2>2, ProgramFacts
<1>7. ProgramTypeOK'
  BY <1>1, <1>2, <1>5, <1>6, ProgramFacts, ProgramStep
<1>8. ManagerTypeOK'
  <2>1. Len(clients_) \in Nat
    BY ConstantFacts DEF TypeInv, StopInv
  <2>. QED
    BY <1>1, <2>1 DEF TypeInv, TypeOK, ManagerTypeOK
<1>9. PcInv'
  <2>1. t \notin stale
    BY <1>3 DEF TypeInv, PcInv
  <2>2. CASE t = MainThread
    <3>1. pc'[MainThread] = l
      BY <1>2, <2>2, GotoFacts
    <3>2. l \notin RestPcs => polls' > 0
      <4>1. CASE op = "dlrs"
        BY <1>1, <1>2, <1>4, <2>2, <4>1
      <4>2. CASE op # "dlrs"
        BY <1>1, <1>4, <2>2, <4>2
      <4>. QED
        BY <4>1, <4>2
    <3>. QED
      BY <1>1, <1>2, <2>1, <2>2, <3>1, <3>2, PcFacts, PcStep DEF SubmitPcs, BusyPcs
  <2>3. CASE t # MainThread
    <3>1. polls' = polls
      BY <1>1, <2>3
    <3>2. pc'[MainThread] \notin RestPcs => polls' > 0
      BY <1>2, <2>3, <3>1, GotoFacts, PcFacts DEF TypeInv, PcInv
    <3>. QED
      BY <1>1, <1>2, <2>1, <3>2, PcStep DEF SubmitPcs, BusyPcs
  <2>. QED
    BY <2>2, <2>3
<1>10. LockInv'
  <2>1. \A u \in Threads : pc[u] \in InsidePcs => u = t
    BY <1>3 DEF TypeInv, LockInv
  <2>2. \A u \in Threads : pc'[u] \notin InsidePcs
    BY <1>2, <2>1, GotoFacts DEF InsidePcs
  <2>3. sig # "stop"
    BY <1>3 DEF TypeInv, LockInv
  <2>4. holder' = None /\ got' = << >> /\ sig' # "stop"
    BY <1>1, <2>3
  <2>. QED
    BY <2>2, <2>4 DEF LockInv, InsidePcs
<1>. QED
  BY <1>1, <1>7, <1>8, <1>9, <1>10, StopSame, SourcesSame DEF TypeInv, TypeOK

LEMMA SignalType ==
  ASSUME TypeInv, Signal
  PROVE  TypeInv'
<1>1. sig = "no" /\ sig' = "run" /\ UNCHANGED <<programVars, managerVars, sourceVars, polls, fetched>>
  BY DEF Signal
<1>2. UNCHANGED <<pc, req, batches, stale, freed, clients_, holder, got>>
  BY <1>1 DEF programVars, managerVars
<1>3. ProgramTypeOK'
  BY <1>1, PointsSame DEF TypeInv, TypeOK, ProgramTypeOK, programVars
<1>4. LockInv' /\ StopInv'
  BY <1>1, <1>2 DEF TypeInv, LockInv, StopInv
<1>. QED
  BY <1>1, <1>2, <1>3, <1>4, PcSame, SourcesSame, ManagerSame DEF TypeInv, TypeOK

LEMMA StopAllBeginType ==
  ASSUME TypeInv, StopAllBegin
  PROVE  TypeInv'
<1>1. /\ sig = "run" /\ holder = None /\ sig' = "stop" /\ holder' = MainThread /\ visit' = 0
      /\ UNCHANGED <<programVars, clients_, last_index, got, freed, stale, sourceVars, polls, fetched>>
  BY DEF StopAllBegin
<1>2. UNCHANGED <<pc, req, batches, stale>>
  BY <1>1 DEF programVars
<1>3. ProgramTypeOK'
  BY <1>1, PointsSame DEF TypeInv, TypeOK, ProgramTypeOK, programVars
<1>4. ManagerTypeOK'
  <2>1. Len(clients_) \in Nat
    BY ConstantFacts DEF TypeInv, StopInv
  <2>2. MainThread \in Threads
    BY PcFacts
  <2>. QED
    BY <1>1, <2>1, <2>2 DEF TypeInv, TypeOK, ManagerTypeOK
<1>5. LockInv'
  <2>1. \A u \in Threads : pc[u] \notin InsidePcs
    BY <1>1 DEF TypeInv, LockInv
  <2>2. got = << >> /\ MainThread \in Threads
    BY <1>1, PcFacts DEF TypeInv, LockInv
  <2>. QED
    BY <1>1, <1>2, <2>1, <2>2 DEF LockInv, InsidePcs
<1>6. StopInv'
  BY <1>1 DEF TypeInv, StopInv
<1>. QED
  BY <1>1, <1>2, <1>3, <1>4, <1>5, <1>6, PcSame, SourcesSame DEF TypeInv, TypeOK

LEMMA StopClientType ==
  ASSUME TypeInv, StopClient
  PROVE  TypeInv'
<1>1. /\ visit < Len(clients_) /\ visit' = visit + 1
      /\ UNCHANGED <<programVars, clients_, last_index, holder, got, freed, stale, sourceVars,
                     polls, sig, fetched>>
  BY DEF StopClient, ToStop
<1>2. UNCHANGED <<pc, req, batches>>
  BY <1>1 DEF programVars
<1>3. ManagerTypeOK'
  <2>1. PICK n \in Nat : n = Len(clients_) /\ visit \in 0 .. n
    BY ConstantFacts DEF TypeInv, StopInv, TypeOK, ManagerTypeOK
  <2>2. visit' \in 0 .. Len(clients_)
    BY <1>1, <2>1
  <2>. QED
    BY <1>1, <2>2 DEF TypeInv, TypeOK, ManagerTypeOK
<1>. QED
  BY <1>1, <1>2, <1>3, PcSame, LockSame, StopSame, SourcesSame, ProgramSame DEF TypeInv, TypeOK

LEMMA StopAllEndType ==
  ASSUME TypeInv, StopAllEnd
  PROVE  TypeInv'
<1>1. /\ sig = "stop" /\ clients_' = << >> /\ holder' = None /\ visit' = 0 /\ freed' = TRUE
      /\ stale' = {t \in Threads : pc[t] \in Waiting} /\ sig' = "done"
      /\ UNCHANGED <<programVars, last_index, got, sourceVars, polls, fetched>>
  BY DEF StopAllEnd, Cleared
<1>2. UNCHANGED <<pc, req, batches>>
  BY <1>1 DEF programVars
<1>3. ProgramTypeOK'
  BY <1>1, PointsSame DEF TypeInv, TypeOK, ProgramTypeOK, programVars
<1>4. ManagerTypeOK'
  BY <1>1 DEF TypeInv, TypeOK, ManagerTypeOK
<1>5. PcInv'
  BY <1>1, <1>2 DEF TypeInv, PcInv, Waiting
<1>6. LockInv'
  <2>1. holder = MainThread /\ got = << >> /\ MainThread \in Threads
    BY <1>1, PcFacts DEF TypeInv, LockInv
  <2>2. \A u \in Threads : pc[u] \notin InsidePcs
    BY <1>1, <2>1 DEF TypeInv, LockInv
  <2>. QED
    BY <1>1, <1>2, <2>1, <2>2 DEF LockInv, InsidePcs
<1>7. StopInv'
  BY <1>1 DEF StopInv
<1>. QED
  BY <1>1, <1>3, <1>4, <1>5, <1>6, <1>7, SourcesSame DEF TypeInv, TypeOK


LEMMA StaleCallEmptyType ==
  ASSUME TypeInv, NEW t \in Threads, StaleCallEmpty(t)
  PROVE  /\ TypeInv'
         /\ \/ /\ t \in Web /\ pc[t] = "lock_submit" /\ Answered(t, FALSE)
               /\ req[t] \in Request /\ batches[t] # << >>
            \/ \E l \in PcsOf(t) : Goto(t, l) /\ l \notin BusyPcs /\ UNCHANGED <<req, batches, answer>>
<1>1. /\ t \in stale /\ stale' = stale \ {t}
      /\ UNCHANGED <<alive, mode, arriving, clients_, last_index, holder,
                     visit, got, freed, sourceVars, polls, sig, fetched>>
  BY DEF StaleCallEmpty
<1>2. pc[t] \in Waiting
  BY <1>1 DEF TypeInv, PcInv
<1>3. ManagerTypeOK'
  BY <1>1 DEF TypeInv, TypeOK, ManagerTypeOK
<1>4. CASE pc[t] = "lock_submit"
  <2>1. t \in Web
    BY <1>4, PcFacts DEF TypeInv, PcInv, PcsOf, MainPcs, RestPcs, WaitingInManager
  <2>2. Answered(t, FALSE)
    BY <1>4 DEF StaleCallEmpty
  <2>3. ProgramTypeOK' /\ PcInv' /\ LockInv' /\ req[t] \in Request /\ batches[t] # << >>
    BY <1>1, <1>4, <2>1, <2>2, AnsweredType
  <2>. QED
    BY <1>1, <1>3, <1>4, <2>1, <2>2, <2>3, StopSame, SourcesSame DEF TypeInv, TypeOK
<1>5. CASE pc[t] # "lock_submit"
  <2>1. PICK op \in Ops : Goto(t, After(t, op)) /\ UNCHANGED <<req, batches, answer>>
    BY <1>5 DEF StaleCallEmpty, Ops
  <2>2. PICK l \in PcsOf(t) : l = After(t, op) /\ Goto(t, l) /\ l \in {"idle", "dlrs", "sleep", "log_dlrs", "log_sleep"}
    BY <2>1, AfterPc
  <2>3. l \notin BusyPcs /\ l \notin SubmitPcs /\ l \notin InsidePcs
    BY <2>2 DEF BusyPcs, SubmitPcs, InsidePcs
  <2>4. ProgramTypeOK'
    BY <1>1, <2>1, <2>2, ProgramFacts, ProgramStep
  <2>5. PcInv'
    <3>1. pc[t] \notin RestPcs
      BY <1>2, PcFacts DEF RestPcs
    <3>2. pc'[MainThread] \notin RestPcs => polls > 0
      BY <2>2, <3>1, GotoFacts, PcFacts DEF TypeInv, PcInv
    <3>. QED
      BY <1>1, <2>1, <2>2, <2>3, <3>2, PcStep
  <2>6. LockInv'
    BY <1>1, <2>2, <2>3, LockStep
  <2>. QED
    BY <1>1, <1>3, <2>1, <2>2, <2>3, <2>4, <2>5, <2>6, StopSame, SourcesSame DEF TypeInv, TypeOK
<1>. QED
  BY <1>4, <1>5

\* A client that works has the manager's list and a data source.
LEMMA WorkingFacts ==
  ASSUME TypeInv, NEW c \in Working
  PROVE  c \in ToSet(Clients) /\ SysIdOf(c) \in SysIds
BY DEF Working, SysIds

LEMMA SendEffect ==
  ASSUME TypeInv, NEW c \in ToSet(Clients), Send(c)
  PROVE  \E s \in SysIds : \E m \in Message, rest \in Seq(Message) :
           /\ to_submit[s] \in Seq(Message) /\ to_submit[s] # << >>
           /\ m = Head(to_submit[s]) /\ rest = Tail(to_submit[s])
           /\ to_submit' = [to_submit EXCEPT ![s] = rest]
           /\ wire' = [wire EXCEPT ![s] = @ \union {m}]
<1>1. PICK s \in SysIds : /\ s = SysIdOf(c) /\ to_submit[s] # << >>
                          /\ to_submit' = [to_submit EXCEPT ![s] = Tail(@)]
                          /\ wire' = [wire EXCEPT ![s] = @ \union {Head(to_submit[s])}]
  BY WorkingFacts DEF Send
<1>2. to_submit[s] \in Seq(Message)
  BY DEF TypeInv, TypeOK, SourceTypeOK
<1>3. PICK m \in Message, rest \in Seq(Message) : m = Head(to_submit[s]) /\ rest = Tail(to_submit[s])
  <2>1. Head(to_submit[s]) \in Message /\ Tail(to_submit[s]) \in Seq(Message)
    BY <1>1, <1>2, HeadTailProperties
  <2>. QED
    BY <2>1
<1>4. to_submit' = [to_submit EXCEPT ![s] = rest] /\ wire' = [wire EXCEPT ![s] = @ \union {m}]
  BY <1>1, <1>3
<1>. QED
  BY <1>1, <1>2, <1>3, <1>4, Zenon

LEMMA SendType ==
  ASSUME TypeInv, NEW c \in ToSet(Clients), Send(c)
  PROVE  TypeInv'
<1>1. UNCHANGED <<programVars, managerVars, delivered, mo_list, polls, sig, fetched>>
  BY DEF Send
<1>2. UNCHANGED <<pc, req, batches, stale, holder, got, freed, clients_>>
  BY <1>1 DEF programVars, managerVars
<1>3. SourceTypeOK'
  <2>1. PICK s \in SysIds : \E m \in Message, rest \in Seq(Message) :
           /\ to_submit' = [to_submit EXCEPT ![s] = rest]
           /\ wire' = [wire EXCEPT ![s] = @ \union {m}]
    BY SendEffect
  <2>2. to_submit' \in [SysIds -> Seq(Message)]
    BY <2>1 DEF TypeInv, TypeOK, SourceTypeOK
  <2>3. wire' \in [SysIds -> SUBSET Message]
    BY <2>1 DEF TypeInv, TypeOK, SourceTypeOK
  <2>. QED
    BY <1>1, <2>2, <2>3 DEF TypeInv, TypeOK, SourceTypeOK
<1>. QED
  BY <1>1, <1>2, <1>3, PcSame, LockSame, StopSame, ManagerSame, ProgramSame DEF TypeInv, TypeOK

LEMMA ReportType ==
  ASSUME TypeInv, NEW c \in ToSet(Clients), NEW m, Report(c, m)
  PROVE  /\ TypeInv'
         /\ m \in Message
         /\ \E s \in SysIds : /\ delivered[s] \in Seq(Message) /\ m \in wire[s]
                              /\ wire' = [wire EXCEPT ![s] = @ \ {m}]
                              /\ delivered' = [delivered EXCEPT ![s] = Append(@, m)]
<1>1. UNCHANGED <<programVars, managerVars, to_submit, mo_list, polls, sig, fetched>>
  BY DEF Report
<1>2. UNCHANGED <<pc, req, batches, stale, holder, got, freed, clients_>>
  BY <1>1 DEF programVars, managerVars
<1>3. PICK s \in SysIds : /\ m \in wire[s]
                          /\ wire' = [wire EXCEPT ![s] = @ \ {m}]
                          /\ delivered' = [delivered EXCEPT ![s] = Append(@, m)]
  BY WorkingFacts DEF Report
<1>4. delivered[s] \in Seq(Message) /\ m \in Message
  BY <1>3 DEF TypeInv, TypeOK, SourceTypeOK
<1>5. SourceTypeOK'
  <2>1. delivered' \in [SysIds -> Seq(Message)]
    BY <1>3, <1>4, AppendProperties DEF TypeInv, TypeOK, SourceTypeOK
  <2>2. wire' \in [SysIds -> SUBSET Message]
    BY <1>3 DEF TypeInv, TypeOK, SourceTypeOK
  <2>. QED
    BY <1>1, <2>1, <2>2 DEF TypeInv, TypeOK, SourceTypeOK
<1>6. TypeInv'
  BY <1>1, <1>2, <1>5, PcSame, LockSame, StopSame, ManagerSame, ProgramSame DEF TypeInv, TypeOK
<1>. QED
  BY <1>3, <1>4, <1>6

LEMMA MoReceivedType ==
  ASSUME TypeInv, NEW c \in ToSet(Clients), NEW x \in Mo, MoReceived(c, x)
  PROVE  /\ TypeInv'
         /\ \E s \in SysIds : mo_list[s] \in Seq(Mo) /\ mo_list' = [mo_list EXCEPT ![s] = Append(@, x)]
<1>1. UNCHANGED <<programVars, managerVars, to_submit, wire, delivered, polls, sig, fetched>>
  BY DEF MoReceived
<1>2. UNCHANGED <<pc, req, batches, stale, holder, got, freed, clients_>>
  BY <1>1 DEF programVars, managerVars
<1>3. PICK s \in SysIds : mo_list' = [mo_list EXCEPT ![s] = Append(@, x)]
  BY WorkingFacts DEF MoReceived
<1>4. mo_list[s] \in Seq(Mo)
  BY DEF TypeInv, TypeOK, SourceTypeOK
<1>5. SourceTypeOK'
  <2>1. mo_list' \in [SysIds -> Seq(Mo)]
    BY <1>3, <1>4, AppendProperties DEF TypeInv, TypeOK, SourceTypeOK
  <2>. QED
    BY <1>1, <2>1 DEF TypeInv, TypeOK, SourceTypeOK
<1>6. TypeInv'
  BY <1>1, <1>2, <1>5, PcSame, LockSame, StopSame, ManagerSame, ProgramSame DEF TypeInv, TypeOK
<1>. QED
  BY <1>3, <1>4, <1>6


LEMMA TypeStep ==
  ASSUME TypeInv, [Next]_vars
  PROVE  TypeInv'
<1>1. ASSUME NEW t \in Threads, CallStep(t) PROVE TypeInv'
  <2>1. ASSUME NEW op \in Ops, Lock(t, op) \/ Return(t, op) PROVE TypeInv'
    BY <2>1, LockType, ReturnType
  <2>2. CASE VisitStatus(t)
    BY <2>2, VisitStatusType
  <2>3. CASE VisitMos(t)
    BY <2>3, VisitMosType
  <2>4. CASE StaleCallEmpty(t)
    BY <2>4, StaleCallEmptyType
  <2>5. CASE StaleCallCrash(t)
    BY <2>5, CrashType DEF StaleCallCrash
  <2>. QED
    BY <1>1, <2>1, <2>2, <2>3, <2>4, <2>5 DEF CallStep
<1>2. ASSUME NEW t \in Web, Arrive(t) PROVE TypeInv'
  BY <1>2, TakeRequestType, GetDlrsType, GetMosType, PcFacts DEF Arrive
<1>3. ASSUME NEW t \in Web, WebStep(t) PROVE TypeInv'
  <2>1. CASE FormatCrash(t)
    BY <2>1, CrashType DEF FormatCrash
  <2>2. CASE Format(t) \/ GetInstance(t) \/ SubmitSmis(t)
    BY <2>2, FormatType, GetInstanceType, SubmitSmisType
  <2>3. CASE CallStep(t)
    BY <1>1, <2>3, PcFacts
  <2>. QED
    BY <1>3, <2>1, <2>2, <2>3 DEF WebStep
<1>4. ASSUME MainStep PROVE TypeInv'
  <2>1. MainThread \in Threads
    BY PcFacts
  <2>2. CASE Exit
    BY <2>2, CrashType DEF Exit
  <2>. QED
    BY <1>1, <1>4, <2>1, <2>2, GetDlrsType, GetMosType, MainMoveType DEF MainStep, MainMove
<1>5. ASSUME Signal \/ StopStep PROVE TypeInv'
  BY <1>5, SignalType, StopAllBeginType, StopClientType, StopAllEndType DEF StopStep
<1>6. ASSUME ConnectionStep PROVE TypeInv'
  BY <1>6, SendType, ReportType DEF ConnectionStep
<1>7. ASSUME NEW c \in ToSet(Clients), NEW x \in Mo, MoReceived(c, x) PROVE TypeInv'
  BY <1>7, MoReceivedType
<1>8. CASE UNCHANGED vars
  <2>1. /\ UNCHANGED <<programVars, managerVars, sourceVars, polls, sig, fetched>>
        /\ UNCHANGED <<pc, req, batches, stale, holder, got, freed, clients_>>
    BY <1>8 DEF vars, programVars, managerVars
  <2>. QED
    BY <2>1, PcSame, LockSame, StopSame, ManagerSame, ProgramSame, SourcesSame DEF TypeInv, TypeOK
<1>. QED
  BY <1>2, <1>3, <1>4, <1>5, <1>6, <1>7, <1>8 DEF Next, Finished

LEMMA TypeInit ==
  ASSUME Init
  PROVE  TypeInv
<1>1. ProgramTypeOK
  <2>1. pc \in [Threads -> ControlPoints]
    BY DEF Init, ControlPoints
  <2>2. polls \in 0 .. PollsPerWake
    BY ConstantFacts DEF Init
  <2>3. arriving \subseteq Request
    BY ManagerAssumption DEF Init
  <2>. QED
    BY <2>1, <2>2, <2>3 DEF Init, ProgramTypeOK
<1>2. ManagerTypeOK
  <2>1. Len(Clients) \in Nat
    BY ConstantFacts
  <2>2. last_index \in 0 .. Len(Clients) - 1
    BY ManagerAssumption DEF Init
  <2>3. clients_ = Clients /\ visit = 0 /\ visit \in 0 .. Len(clients_)
    BY <2>1 DEF Init
  <2>4. holder \in Threads \union {None} /\ freed \in BOOLEAN /\ stale \subseteq Threads
    BY DEF Init
  <2>5. got \in Seq(Message \union Mo)
    BY DEF Init
  <2>. QED
    BY <2>2, <2>3, <2>4, <2>5 DEF ManagerTypeOK
<1>3. SourceTypeOK
  BY DEF Init, SourceTypeOK
<1>4. PcInv
  BY PcFacts DEF Init, PcInv, PcsOf, MainPcs, RestPcs, WebPcs, BusyPcs, SubmitPcs
<1>5. LockInv
  BY DEF Init, LockInv, InsidePcs
<1>6. StopInv
  BY DEF Init, StopInv
<1>. QED
  BY <1>1, <1>2, <1>3, <1>4, <1>5, <1>6 DEF TypeInv, TypeOK

(***************************************************************************)
(* The types of all variables, for any number of threads, clients and      *)
(* requests: no thread uses a batch it does not have, the main loop never  *)
(* polls more often than it may, the position among the clients stays one. *)
(***************************************************************************)
THEOREM ManagerTypeCorrect == Spec => []TypeOK
<1>1. Init => TypeInv
  BY TypeInit
<1>2. TypeInv /\ [Next]_vars => TypeInv'
  BY TypeStep
<1>3. TypeInv => TypeOK
  BY DEF TypeInv
<1>. QED
  BY <1>1, <1>2, <1>3, PTL DEF Spec

(***************************************************************************)
(* No call of get_dlrs collects more reports than its caller asked for:    *)
(* only the holder of clients_mutex_ collects, and every client it visits  *)
(* is asked for what is left.                                              *)
(***************************************************************************)
THEOREM PerCallLimitHolds == Spec => []PerCallLimit
<1>1. Init => TypeInv
  BY TypeInit
<1>2. TypeInv /\ [Next]_vars => TypeInv'
  BY TypeStep
<1>3. TypeInv => PerCallLimit
  <2>1. InPc.dlrs = "in_dlrs"
    BY DEF InPc
  <2>. QED
    BY <2>1 DEF TypeInv, LockInv, PerCallLimit
<1>. QED
  BY <1>1, <1>2, <1>3, PTL DEF Spec


-----------------------------------------------------------------------------
(* The queues of what is to be submitted                                   *)

\* The steps that touch a queue.
LEMMA QueueSteps ==
  ASSUME TypeInv, [Next]_vars
  PROVE  \/ UNCHANGED to_submit
         \/ \E t \in Web : SubmitSmis(t)
         \/ \E c \in ToSet(Clients) : Send(c)
<1>1. ASSUME UNCHANGED sourceVars PROVE UNCHANGED to_submit
  BY <1>1 DEF sourceVars
<1>2. ASSUME NEW t \in Threads, CallStep(t) PROVE UNCHANGED to_submit
  <2>1. ASSUME NEW op \in Ops, Lock(t, op) \/ Return(t, op) PROVE UNCHANGED to_submit
    BY <1>1, <2>1 DEF Lock, Return
  <2>2. CASE VisitStatus(t) \/ VisitMos(t)
    BY <2>2 DEF VisitStatus, VisitMos
  <2>3. CASE StaleCallEmpty(t) \/ StaleCallCrash(t)
    BY <1>1, <2>3 DEF StaleCallEmpty, StaleCallCrash
  <2>. QED
    BY <1>2, <2>1, <2>2, <2>3 DEF CallStep
<1>3. ASSUME NEW t \in Web, Arrive(t) PROVE UNCHANGED to_submit
  BY <1>1, <1>3 DEF Arrive, TakeRequest, GetDlrs, GetMos
<1>4. ASSUME NEW t \in Web, WebStep(t) PROVE UNCHANGED to_submit \/ SubmitSmis(t)
  <2>1. CASE Format(t) \/ FormatCrash(t) \/ GetInstance(t)
    BY <1>1, <2>1 DEF Format, FormatCrash, GetInstance
  <2>. QED
    BY <1>2, <1>4, <2>1, PcFacts DEF WebStep
<1>5. ASSUME MainStep PROVE UNCHANGED to_submit
  <2>1. CASE GetMos(MainThread) \/ GetDlrs(MainThread) \/ Exit \/ MainMove
    BY <1>1, <2>1 DEF GetMos, GetDlrs, Exit, MainMove, HaveInstance, WriteStatistic, Logged
  <2>. QED
    BY <1>2, <1>5, <2>1, PcFacts DEF MainStep, MainMove
<1>6. ASSUME Signal \/ StopStep PROVE UNCHANGED to_submit
  BY <1>1, <1>6 DEF Signal, StopStep, StopAllBegin, StopClient, StopAllEnd
<1>7. ASSUME ConnectionStep PROVE UNCHANGED to_submit \/ \E c \in ToSet(Clients) : Send(c)
  BY <1>7 DEF ConnectionStep, Report
<1>8. ASSUME NEW c, NEW x, MoReceived(c, x) PROVE UNCHANGED to_submit
  BY <1>8 DEF MoReceived
<1>9. CASE UNCHANGED vars
  BY <1>1, <1>9 DEF vars
<1>. QED
  BY <1>3, <1>4, <1>5, <1>6, <1>7, <1>8, <1>9 DEF Next, Finished

(***************************************************************************)
(* After stop_all no batch enters a queue, whichever thread still comes to *)
(* the manager and with whichever of its instances: the list of clients it *)
(* searches is empty.                                                      *)
(***************************************************************************)
THEOREM NothingAfterStopHolds == Spec => NothingAfterStop
<1>1. Init => TypeInv
  BY TypeInit
<1>2. TypeInv /\ [Next]_vars => TypeInv'
  BY TypeStep
<1>3. TypeInv /\ [Next]_vars
        => [freed => \A s \in SysIds : Len(to_submit'[s]) <= Len(to_submit[s])]_vars
  <2>1. SUFFICES ASSUME TypeInv, [Next]_vars, freed, NEW s \in SysIds
                 PROVE  Len(to_submit'[s]) <= Len(to_submit[s])
    OBVIOUS
  <2>2. to_submit \in [SysIds -> Seq(Message)] /\ Len(to_submit[s]) \in Nat
    BY <2>1 DEF TypeInv, TypeOK, SourceTypeOK
  <2>3. CASE to_submit' = to_submit
    BY <2>2, <2>3
  <2>4. ASSUME NEW t \in Web, SubmitSmis(t) PROVE to_submit' = to_submit
    BY <2>1, <2>4, SubmitEffect
  <2>5. ASSUME NEW c \in ToSet(Clients), Send(c) PROVE Len(to_submit'[s]) <= Len(to_submit[s])
    <3>1. PICK u \in SysIds : \E m \in Message, rest \in Seq(Message) :
           /\ to_submit[u] \in Seq(Message) /\ to_submit[u] # << >>
           /\ rest = Tail(to_submit[u])
           /\ to_submit' = [to_submit EXCEPT ![u] = rest]
      BY <2>1, <2>5, SendEffect
    <3>2. Len(Tail(to_submit[u])) = Len(to_submit[u]) - 1
      BY <3>1, HeadTailProperties
    <3>3. CASE s = u
      BY <2>2, <3>1, <3>2, <3>3
    <3>4. CASE s # u
      BY <2>2, <3>1, <3>4
    <3>. QED
      BY <3>3, <3>4
  <2>. QED
    BY <2>1, <2>3, <2>4, <2>5, QueueSteps
<1>. QED
  BY <1>1, <1>2, <1>3, PTL DEF Spec, NothingAfterStop

(***************************************************************************)
(* A queue that holds a message has a client that may send it: a batch is  *)
(* given to the client whose turn it is among those that may send, never   *)
(* to the queue of a system id that only has receivers.                    *)
(***************************************************************************)
THEOREM QueuedCanBeSentHolds == Spec => []QueuedCanBeSent
<1>1. Init => TypeInv /\ QueuedCanBeSent
  BY TypeInit DEF Init, QueuedCanBeSent
<1>2. TypeInv /\ QueuedCanBeSent /\ [Next]_vars => (TypeInv /\ QueuedCanBeSent)'
  <2>1. SUFFICES ASSUME TypeInv, QueuedCanBeSent, [Next]_vars
                 PROVE  QueuedCanBeSent'
    BY TypeStep
  <2>2. to_submit \in [SysIds -> Seq(Message)]
    BY <2>1 DEF TypeInv, TypeOK, SourceTypeOK
  <2>3. CASE to_submit' = to_submit
    BY <2>1, <2>3 DEF QueuedCanBeSent
  <2>4. ASSUME NEW t \in Web, SubmitSmis(t) PROVE QueuedCanBeSent'
    <3>1. CASE to_submit' = to_submit
      BY <2>1, <3>1 DEF QueuedCanBeSent
    <3>2. ASSUME NEW c \in ToSet(Clients), CanSend(c), NEW b,
                 to_submit' = [to_submit EXCEPT ![SysIdOf(c)] = @ \o b]
          PROVE  QueuedCanBeSent'
      BY <2>1, <2>2, <3>2 DEF QueuedCanBeSent
    <3>. QED
      BY <2>1, <2>4, <3>1, <3>2, SubmitEffect
  <2>5. ASSUME NEW c \in ToSet(Clients), Send(c) PROVE QueuedCanBeSent'
    <3>1. PICK u \in SysIds : \E m \in Message, rest \in Seq(Message) :
           /\ to_submit[u] \in Seq(Message) /\ to_submit[u] # << >>
           /\ to_submit' = [to_submit EXCEPT ![u] = rest]
      BY <2>1, <2>5, SendEffect
    <3>2. \A s \in SysIds : to_submit'[s] # << >> => to_submit[s] # << >>
      BY <2>2, <3>1
    <3>. QED
      BY <2>1, <3>2 DEF QueuedCanBeSent
  <2>. QED
    BY <2>1, <2>3, <2>4, <2>5, QueueSteps
<1>. QED
  BY <1>1, <1>2, PTL DEF Spec


(***************************************************************************)
(* Whatever the text of multi-byte characters and the destinations of a    *)
(* request in mode 2, no two destinations get the same text before every   *)
(* character to insert has been behind every character of the text.        *)
(***************************************************************************)
THEOREM DestinationsDifferHolds == Spec => []DestinationsDiffer
<1>1. Init => TypeInv
  BY TypeInit
<1>2. TypeInv /\ [Next]_vars => TypeInv'
  BY TypeStep
<1>3. TypeInv => DestinationsDiffer
  <2>1. SUFFICES ASSUME TypeInv, NEW t \in Web, Formatted(t), mode = 2
                 PROVE  LET text == TextOf(req[t]) IN
                        Cardinality(MultiByte(text)) = Len(text) =>
                          \A i, j \in Destinations(req[t]) :
                            i < j /\ j <= Len(text) * Len(InsertedChars)
                              => TextFor(mode, text, i) # TextFor(mode, text, j)
    BY DEF DestinationsDiffer
  <2>2. PICK r \in Request : r = req[t]
    BY <2>1 DEF Formatted, TypeInv, PcInv, BusyPcs
  <2>3. PICK text \in Seq(Char) : text = TextOf(r)
    BY RequestAssumption
  <2>4. Destinations(r) \subseteq Nat \ {0}
    <3>1. DstsOf(r) \in Seq(ToSet(DstsOf(r)))
      BY RequestAssumption
    <3>. QED
      BY <3>1 DEF Destinations
  <2>5. ASSUME NEW i \in Nat \ {0} PROVE TextFor(mode, text, i) = InsertCharToString(text, i - 1)
    <3>1. mode = 2 /\ mode # 0 /\ mode # 1
      BY <2>1
    <3>. QED
      BY <3>1, Zenon DEF TextFor
  <2>6. ASSUME Cardinality(MultiByte(text)) = Len(text),
               NEW i \in Destinations(r), NEW j \in Destinations(r),
               i < j, j <= Len(text) * Len(InsertedChars)
        PROVE  TextFor(mode, text, i) # TextFor(mode, text, j)
    <3>1. InsertCharToString(text, i - 1) # InsertCharToString(text, j - 1)
      BY <2>4, <2>6, TextsDiffer
    <3>. QED
      BY <2>4, <2>5, <3>1
  <2>. QED
    BY <2>2, <2>3, <2>6
<1>. QED
  BY <1>1, <1>2, <1>3, PTL DEF Spec


-----------------------------------------------------------------------------
(* Requests and their batches                                              *)

\* q is what is left of all after the first n.
Rest(all, n, q) ==
  /\ n \in Nat /\ Len(q) + n = Len(all)
  /\ \A k \in 1 .. Len(q) : q[k] = all[n + k]

\* A request is worked on by one thread, which has answered as many batches
\* as it has not left to submit.
RequestInv ==
  /\ \A t \in Web : pc[t] \in BusyPcs => req[t] \notin arriving
  /\ \A t, u \in Web : pc[t] \in BusyPcs /\ pc[u] \in BusyPcs /\ req[t] = req[u] => t = u
  /\ \A r \in arriving : answer[r] = << >>
  /\ \A t \in Web : pc[t] = "format" => answer[req[t]] = << >>
  /\ \A t \in Web : pc[t] \in SubmitPcs =>
       Rest(BatchesOf(mode, req[t]), Len(answer[req[t]]), batches[t])
  /\ \A r \in Request : Len(answer[r]) <= Len(BatchesOf(mode, r))

\* The steps by which no thread comes to a request or gets on with one,
\* except from "submit" to the mutex.
Calm ==
  /\ UNCHANGED <<mode, arriving, req, batches, answer>>
  /\ \A t \in Web : \/ pc'[t] = pc[t]
                    \/ pc'[t] \notin BusyPcs
                    \/ pc[t] \in SubmitPcs /\ pc'[t] \in SubmitPcs

LEMMA CalmGoto ==
  ASSUME TypeInv, NEW t \in Threads, NEW l \in PcsOf(t), Goto(t, l),
         UNCHANGED <<mode, arriving, req, batches, answer>>,
         l \notin BusyPcs \/ (pc[t] \in SubmitPcs /\ l \in SubmitPcs)
  PROVE  Calm
BY GotoFacts, PcFacts DEF Calm

LEMMA RequestSteps ==
  ASSUME TypeInv, [Next]_vars
  PROVE  \/ Calm
         \/ \E t \in Web : \E r \in Request : TakeRequest(t, r)
         \/ \E t \in Web : Format(t)
         \/ \E t \in Web : \E ok \in BOOLEAN :
              /\ pc[t] = "lock_submit" /\ Answered(t, ok) /\ UNCHANGED <<mode, arriving>>
              /\ req[t] \in Request /\ batches[t] # << >>
<1>1. ASSUME UNCHANGED <<mode, arriving, pc, req, batches, answer>> PROVE Calm
  BY <1>1 DEF Calm
<1>2. ASSUME NEW t \in Threads, GetDlrs(t) \/ GetMos(t) PROVE Calm
  <2>1. PICK op \in Ops :
          Goto(t, CallPc(t, op)) /\ UNCHANGED <<mode, arriving, req, batches, answer>>
    BY <1>2 DEF GetDlrs, GetMos, Ops
  <2>2. CallPc(t, op) \in PcsOf(t) /\ CallPc(t, op) \notin BusyPcs
    BY CallFacts DEF BusyPcs, Ops
  <2>. QED
    BY <2>1, <2>2, CalmGoto
<1>3. ASSUME NEW t \in Threads, NEW op \in Ops, Lock(t, op) PROVE Calm
  <2>1. PICK l \in PcsOf(t) : l = InPc[op] /\ l \notin BusyPcs
    BY PcFacts DEF Ops, BusyPcs, PcsOf, WebPcs, MainPcs, WaitingInManager
  <2>. QED
    BY <1>3, <2>1, CalmGoto DEF Lock
<1>4. ASSUME NEW t \in Threads, NEW op \in Ops, Return(t, op) PROVE Calm
  <2>1. PICK l \in PcsOf(t) : l = After(t, op) /\ l \notin BusyPcs
    BY AfterPc DEF BusyPcs
  <2>. QED
    BY <1>4, <2>1, CalmGoto DEF Return
<1>5. ASSUME NEW t \in Threads, StaleCallEmpty(t)
      PROVE  \/ Calm
             \/ /\ t \in Web /\ pc[t] = "lock_submit" /\ Answered(t, FALSE)
                /\ UNCHANGED <<mode, arriving>> /\ req[t] \in Request /\ batches[t] # << >>
  <2>1. UNCHANGED <<mode, arriving>>
    BY <1>5 DEF StaleCallEmpty
  <2>. QED
    BY <1>5, <2>1, StaleCallEmptyType, CalmGoto
<1>6. ASSUME NEW t \in Threads, CallStep(t)
      PROVE  \/ Calm
             \/ /\ t \in Web /\ pc[t] = "lock_submit" /\ Answered(t, FALSE)
                /\ UNCHANGED <<mode, arriving>> /\ req[t] \in Request /\ batches[t] # << >>
  <2>1. ASSUME VisitStatus(t) \/ VisitMos(t) PROVE Calm
    BY <1>1, <2>1 DEF VisitStatus, VisitMos, programVars
  <2>2. ASSUME StaleCallCrash(t) PROVE Calm
    BY <1>1, <2>2 DEF StaleCallCrash
  <2>. QED
    BY <1>3, <1>4, <1>5, <1>6, <2>1, <2>2 DEF CallStep
<1>7. ASSUME NEW t \in Web, GetInstance(t) PROVE Calm
  <2>1. t \in Threads /\ "lock_submit" \in PcsOf(t)
    BY PcFacts DEF PcsOf, WebPcs
  <2>. QED
    BY <1>7, <2>1, CalmGoto DEF GetInstance, SubmitPcs
<1>8. ASSUME NEW t \in Web, SubmitSmis(t)
      PROVE  \E ok \in BOOLEAN :
              /\ pc[t] = "lock_submit" /\ Answered(t, ok) /\ UNCHANGED <<mode, arriving>>
              /\ req[t] \in Request /\ batches[t] # << >>
  <2>1. UNCHANGED <<mode, arriving>>
    BY <1>8 DEF SubmitSmis
  <2>2. req[t] \in Request /\ batches[t] # << >> /\ pc[t] = "lock_submit"
    BY <1>8, SubmitSmisType
  <2>3. Answered(t, TRUE) \/ Answered(t, FALSE)
    BY <1>8, SubmitEffect
  <2>. QED
    BY <2>1, <2>2, <2>3
<1>9. ASSUME NEW t \in Web, Arrive(t) PROVE Calm \/ \E r \in Request : TakeRequest(t, r)
  BY <1>2, <1>9, PcFacts DEF Arrive
<1>10. ASSUME NEW t \in Web, WebStep(t)
       PROVE  \/ Calm \/ Format(t)
              \/ \E ok \in BOOLEAN :
                   /\ pc[t] = "lock_submit" /\ Answered(t, ok) /\ UNCHANGED <<mode, arriving>>
                   /\ req[t] \in Request /\ batches[t] # << >>
  <2>1. ASSUME FormatCrash(t) PROVE Calm
    BY <1>1, <2>1 DEF FormatCrash
  <2>2. t \in Threads
    BY PcFacts
  <2>3. CASE CallStep(t)
    BY <1>6, <2>2, <2>3
  <2>. QED
    BY <1>7, <1>8, <1>10, <2>1, <2>3 DEF WebStep
<1>11. ASSUME MainStep PROVE Calm
  <2>1. ASSUME Exit PROVE Calm
    BY <1>1, <2>1 DEF Exit
  <2>2. ASSUME MainMove PROVE Calm
    BY <2>2, MainMoveFacts, CalmGoto, PcFacts
  <2>. QED
    BY <1>2, <1>6, <1>11, <2>1, <2>2, PcFacts DEF MainStep, MainMove
<1>12. ASSUME Signal \/ StopStep PROVE Calm
  BY <1>1, <1>12 DEF Signal, StopStep, StopAllBegin, StopClient, StopAllEnd, programVars
<1>13. ASSUME ConnectionStep PROVE Calm
  BY <1>1, <1>13 DEF ConnectionStep, Send, Report, programVars
<1>14. ASSUME NEW c, NEW x, MoReceived(c, x) PROVE Calm
  BY <1>1, <1>14 DEF MoReceived, programVars
<1>15. CASE UNCHANGED vars
  BY <1>1, <1>15 DEF vars, programVars
<1>. QED
  BY <1>9, <1>10, <1>11, <1>12, <1>13, <1>14, <1>15 DEF Next, Finished

LEMMA RestFacts ==
  ASSUME NEW S, NEW all \in Seq(S), NEW n \in Nat, NEW q \in Seq(S), q # << >>, Rest(all, n, q)
  PROVE  /\ n + 1 \in 1 .. Len(all) /\ Head(q) = all[n + 1]
         /\ Rest(all, n + 1, Tail(q))
<1>1. PICK l \in Nat, m \in Nat : l = Len(q) /\ m = Len(all) /\ l # 0
  <2>1. Len(q) \in Nat \ {0} /\ Len(all) \in Nat
    BY EmptySeq
  <2>. QED
    BY <2>1
<1>2. l + n = m /\ \A k \in 1 .. l : q[k] = all[n + k]
  BY <1>1 DEF Rest
<1>3. Head(q) = q[1] /\ q[1] = all[n + 1]
  BY <1>1, <1>2
<1>4. PICK t \in Seq(S) : t = Tail(q) /\ Len(t) = l - 1 /\ \A i \in 1 .. l - 1 : t[i] = q[i + 1]
  <2>1. /\ Tail(q) \in Seq(S) /\ Len(Tail(q)) = Len(q) - 1
        /\ \A i \in 1 .. Len(Tail(q)) : Tail(q)[i] = q[i + 1]
    BY HeadTailProperties
  <2>2. Len(Tail(q)) = l - 1
    BY <1>1, <2>1
  <2>. QED
    BY <2>1, <2>2
<1>5. \A k \in 1 .. l - 1 : t[k] = all[(n + 1) + k]
  <2>1. ASSUME NEW k \in 1 .. l - 1 PROVE t[k] = all[(n + 1) + k]
    <3>1. k + 1 \in 1 .. l /\ n + (k + 1) = (n + 1) + k
      BY <1>1
    <3>. QED
      BY <1>2, <1>4, <3>1
  <2>. QED
    BY <2>1
<1>6. Rest(all, n + 1, t)
  BY <1>1, <1>2, <1>4, <1>5 DEF Rest
<1>. QED
  BY <1>1, <1>2, <1>3, <1>4, <1>6

LEMMA RestAll ==
  ASSUME NEW S, NEW all \in Seq(S)
  PROVE  Rest(all, 0, all)
BY DEF Rest

LEMMA RequestInit ==
  ASSUME Init
  PROVE  RequestInv
<1>1. \A r \in Request : answer[r] = << >> /\ Len(answer[r]) = 0
  BY DEF Init
<1>2. \A r \in Request : Len(BatchesOf(mode, r)) \in Nat
  BY BatchesFacts DEF GoodBatches
<1>3. \A t \in Web : pc[t] = "idle"
  BY PcFacts DEF Init
<1>4. arriving \subseteq Request
  BY ManagerAssumption DEF Init
<1>5. \A r \in Request : Len(answer[r]) <= Len(BatchesOf(mode, r))
  <2>1. ASSUME NEW r \in Request PROVE Len(answer[r]) <= Len(BatchesOf(mode, r))
    <3>1. PICK n \in Nat : n = Len(BatchesOf(mode, r))
      BY <1>2
    <3>. QED
      BY <1>1, <3>1
  <2>. QED
    BY <2>1
<1>. QED
  BY <1>1, <1>3, <1>4, <1>5 DEF RequestInv, BusyPcs, SubmitPcs

LEMMA RequestStep ==
  ASSUME TypeInv, TypeInv', RequestInv, [Next]_vars
  PROVE  RequestInv'
<1>. USE DEF RequestInv
<1>1. CASE Calm
  <2>1. UNCHANGED <<mode, arriving, req, batches, answer>>
    BY <1>1 DEF Calm
  <2>2. \A t \in Web : pc'[t] \in BusyPcs =>
          /\ pc[t] \in BusyPcs
          /\ pc'[t] = "format" => pc[t] = "format"
          /\ pc'[t] \in SubmitPcs => pc[t] \in SubmitPcs
    BY <1>1 DEF Calm, BusyPcs, SubmitPcs
  <2>3. \A t \in Web : pc'[t] \in SubmitPcs \/ pc'[t] = "format" => pc'[t] \in BusyPcs
    BY DEF BusyPcs, SubmitPcs
  <2>. QED
    BY <2>1, <2>2, <2>3
<1>2. ASSUME NEW t \in Web, NEW r \in Request, TakeRequest(t, r) PROVE RequestInv'
  <2>1. /\ r \in arriving /\ arriving' = arriving \ {r} /\ req' = [req EXCEPT ![t] = r]
        /\ Goto(t, "format") /\ UNCHANGED <<mode, batches, answer>>
    BY <1>2 DEF TakeRequest
  <2>2. t \in Threads /\ "format" \in PcsOf(t) /\ "format" \notin SubmitPcs
    BY PcFacts DEF PcsOf, WebPcs, SubmitPcs
  <2>3. /\ pc'[t] = "format" /\ req'[t] = r
        /\ \A u \in Web : u # t => pc'[u] = pc[u] /\ req'[u] = req[u]
    BY <2>1, <2>2, GotoFacts, ProgramFacts, PcFacts
  <2>4. answer[r] = << >> /\ \A u \in Web : pc[u] \in BusyPcs => req[u] # r
    BY <2>1
  <2>. QED
    BY <2>1, <2>2, <2>3, <2>4
<1>3. ASSUME NEW t \in Web, Format(t) PROVE RequestInv'
  <2>1. /\ pc[t] = "format" /\ UNCHANGED <<mode, arriving, answer>>
        /\ batches' = [batches EXCEPT ![t] = FormatSms(mode, req[t])]
        /\ IF batches'[t] = << >> THEN Done(t) ELSE Goto(t, "submit") /\ req' = req
    BY <1>3 DEF Format
  <2>2. batches'[t] = BatchesOf(mode, req[t]) /\ \A u \in Web : u # t => batches'[u] = batches[u]
    BY <1>3, <2>1, FormatType, ProgramFacts
  <2>3. t \in Threads /\ "submit" \in PcsOf(t)
    BY PcFacts DEF PcsOf, WebPcs
  <2>4. PICK l \in PcsOf(t) : /\ Goto(t, l) /\ l \in {"idle", "submit"}
                              /\ l = "submit" => req'[t] = req[t]
                              /\ \A u \in Web : u # t => req'[u] = req[u]
    <3>1. CASE batches'[t] = << >>
      <4>1. Done(t)
        BY <2>1, <3>1
      <4>. QED
        BY <4>1, DoneType
    <3>2. CASE batches'[t] # << >>
      BY <2>1, <2>3, <3>2
    <3>. QED
      BY <3>1, <3>2
  <2>5. /\ pc'[t] = l /\ \A u \in Web : u # t => pc'[u] = pc[u]
    BY <2>3, <2>4, GotoFacts, PcFacts
  <2>6. /\ answer[req[t]] = << >> /\ req[t] \notin arriving
        /\ \A u \in Web : u # t /\ pc[u] \in BusyPcs => req[u] # req[t]
    BY <2>1 DEF BusyPcs
  <2>7. Rest(BatchesOf(mode, req[t]), 0, BatchesOf(mode, req[t]))
    BY BatchesFacts, RestAll DEF GoodBatches
  <2>8. Len(answer[req[t]]) = 0
    BY <2>6
  <2>9. l \in BusyPcs \/ l \in SubmitPcs => l = "submit"
    BY <2>4 DEF BusyPcs, SubmitPcs
  <2>. QED
    BY <2>1, <2>2, <2>4, <2>5, <2>6, <2>7, <2>8, <2>9
<1>4. ASSUME NEW t \in Web, NEW ok \in BOOLEAN, pc[t] = "lock_submit", Answered(t, ok),
             UNCHANGED <<mode, arriving>>, req[t] \in Request, batches[t] # << >>
      PROVE  RequestInv'
  <2>1. /\ answer' = [answer EXCEPT ![req[t]] = Append(@, ok)]
        /\ batches' = [batches EXCEPT ![t] = Tail(@)]
        /\ IF Len(batches[t]) = 1 THEN Done(t) ELSE Goto(t, "submit") /\ req' = req
    BY <1>4 DEF Answered
  <2>2. PICK r \in Request, all \in Seq(Seq(Message)), n \in Nat :
          /\ r = req[t] /\ all = BatchesOf(mode, r) /\ n = Len(answer[r])
          /\ Rest(all, n, batches[t])
    <3>1. BatchesOf(mode, req[t]) \in Seq(Seq(Message))
      BY BatchesFacts DEF GoodBatches
    <3>2. Len(answer[req[t]]) \in Nat
      <4>1. answer[req[t]] \in Seq(BOOLEAN)
        BY <1>4, ProgramFacts
      <4>. QED
        BY <4>1
    <3>3. Rest(BatchesOf(mode, req[t]), Len(answer[req[t]]), batches[t])
      BY <1>4 DEF SubmitPcs
    <3>. QED
      BY <1>4, <3>1, <3>2, <3>3
  <2>3. n + 1 \in 1 .. Len(all) /\ Rest(all, n + 1, Tail(batches[t]))
    <3>1. batches[t] \in Seq(Seq(Message))
      BY ProgramFacts
    <3>. QED
      BY <1>4, <2>2, <3>1, RestFacts
  <2>4. /\ Len(answer'[r]) = n + 1
        /\ \A s \in Request : s # r => answer'[s] = answer[s]
    <3>1. answer[r] \in Seq(BOOLEAN) /\ answer \in [Request -> Seq(BOOLEAN)]
      BY ProgramFacts
    <3>2. answer'[r] = Append(answer[r], ok)
      BY <2>1, <2>2, <3>1
    <3>. QED
      BY <2>1, <2>2, <3>1, <3>2, AppendProperties
  <2>5. t \in Threads /\ "submit" \in PcsOf(t)
    BY PcFacts DEF PcsOf, WebPcs
  <2>6. PICK l \in PcsOf(t) : /\ Goto(t, l) /\ l \in {"idle", "submit"}
                              /\ l = "submit" => req'[t] = r
                              /\ \A u \in Web : u # t => req'[u] = req[u]
    <3>1. CASE Len(batches[t]) = 1
      <4>1. Done(t)
        BY <2>1, <3>1
      <4>. QED
        BY <4>1, DoneType
    <3>2. CASE Len(batches[t]) # 1
      BY <2>1, <2>2, <2>5, <3>2
    <3>. QED
      BY <3>1, <3>2
  <2>7. /\ pc'[t] = l /\ \A u \in Web : u # t => pc'[u] = pc[u]
        /\ batches'[t] = Tail(batches[t]) /\ \A u \in Web : u # t => batches'[u] = batches[u]
    BY <2>1, <2>5, <2>6, GotoFacts, PcFacts, ProgramFacts
  <2>8. /\ r \notin arriving /\ arriving \subseteq Request
        /\ \A u \in Web : u # t /\ pc[u] \in BusyPcs => req[u] # r /\ req[u] \in Request
    BY <1>4, <2>2, ProgramFacts DEF BusyPcs, TypeInv, PcInv
  <2>9. l \in BusyPcs \/ l \in SubmitPcs => l = "submit"
    BY <2>6 DEF BusyPcs, SubmitPcs
  <2>10. \A u \in Web : pc[u] = "format" \/ pc[u] \in SubmitPcs => pc[u] \in BusyPcs
    BY DEF BusyPcs, SubmitPcs
  <2>11. \A u \in Web : pc'[u] \in BusyPcs => req'[u] \notin arriving'
    <3>1. ASSUME NEW u \in Web, pc'[u] \in BusyPcs PROVE req'[u] \notin arriving
      <4>1. CASE u = t
        BY <2>6, <2>7, <2>8, <2>9, <3>1, <4>1
      <4>2. CASE u # t
        BY <2>6, <2>7, <3>1, <4>2
      <4>. QED
        BY <4>1, <4>2
    <3>. QED
      BY <1>4, <3>1
  <2>12. \A u, v \in Web : pc'[u] \in BusyPcs /\ pc'[v] \in BusyPcs /\ req'[u] = req'[v] => u = v
    BY <2>6, <2>7, <2>8, <2>9
  <2>13. \A s \in arriving' : answer'[s] = << >>
    BY <1>4, <2>4, <2>8
  <2>14. \A u \in Web : pc'[u] = "format" => answer'[req'[u]] = << >>
    BY <2>4, <2>6, <2>7, <2>8, <2>10
  <2>15. \A u \in Web : pc'[u] \in SubmitPcs =>
           Rest(BatchesOf(mode', req'[u]), Len(answer'[req'[u]]), batches'[u])
    <3>1. ASSUME NEW u \in Web, pc'[u] \in SubmitPcs
          PROVE  Rest(BatchesOf(mode', req'[u]), Len(answer'[req'[u]]), batches'[u])
      <4>1. CASE u = t
        BY <1>4, <2>2, <2>3, <2>4, <2>6, <2>7, <2>9, <3>1, <4>1
      <4>2. CASE u # t
        <5>1. /\ pc[u] \in SubmitPcs /\ req'[u] = req[u] /\ batches'[u] = batches[u]
              /\ answer'[req[u]] = answer[req[u]]
          BY <2>4, <2>6, <2>7, <2>8, <2>10, <3>1, <4>2
        <5>. QED
          BY <1>4, <5>1
      <4>. QED
        BY <4>1, <4>2
    <3>. QED
      BY <3>1
  <2>16. \A s \in Request : Len(answer'[s]) <= Len(BatchesOf(mode', s))
    <3>1. Len(answer'[r]) <= Len(BatchesOf(mode, r))
      BY <2>2, <2>3, <2>4
    <3>2. \A s \in Request : s # r => Len(answer'[s]) <= Len(BatchesOf(mode, s))
      BY <2>4
    <3>. QED
      BY <1>4, <3>1, <3>2
  <2>. QED
    BY <2>11, <2>12, <2>13, <2>14, <2>15, <2>16
<1>. QED
  BY <1>1, <1>2, <1>3, <1>4, RequestSteps

-----------------------------------------------------------------------------
(* What a formatted request says                                           *)

\* While no batch of a request is answered, what it has for one destination
\* is the destination's text in messages.
LEMMA FormattedFacts ==
  ASSUME TypeInv, RequestInv, NEW t \in Web, Formatted(t), NEW i \in Destinations(req[t])
  PROVE  /\ <<mode, req[t]>> \in Jobs
         /\ Parts(t, i) = Messages(req[t], i, Text(mode, req[t], i))
<1>1. PICK how, r : how = mode /\ r = req[t]
  OBVIOUS
<1>2. PICK all \in Seq(Seq(Message)) : all = BatchesOf(how, r)
  BY BatchesFacts DEF GoodBatches
<1>3. PICK q \in Seq(Seq(Message)) : q = batches[t] /\ q # << >> /\ Len(q) = Len(all)
  BY <1>1, <1>2 DEF TypeInv, TypeOK, ProgramTypeOK, PcInv, Formatted, SubmitPcs
<1>4. PICK n : Rest(all, n, q)
  BY <1>1, <1>2, <1>3 DEF RequestInv, Formatted, SubmitPcs
<1>5. PICK l \in Nat : l = Len(q) /\ l = Len(all) /\ n = 0
  <2>1. Len(q) \in Nat /\ Len(all) \in Nat
    BY LenProperties
  <2>. QED
    BY <1>3, <1>4, <2>1 DEF Rest
<1>6. \A k \in 1 .. Len(q) : q[k] = all[k]
  BY <1>4, <1>5 DEF Rest
<1>7. q = all
  BY <1>3, <1>6, SeqEqual
<1>8. <<how, r>> \in Jobs
  BY <1>2, <1>3, <1>7 DEF BatchesOf
<1>9. Parts(t, i) = Messages(r, i, Text(how, r, i))
  BY <1>1, <1>2, <1>3, <1>7, <1>8, BatchesMine DEF Parts
<1>. QED
  BY <1>1, <1>8, <1>9

LEMMA PartsOfText ==
  ASSUME NEW r, NEW i, NEW text \in Seq(Char)
  PROVE  /\ DOMAIN Messages(r, i, text) = DOMAIN SplitLongSm(text)
         /\ Len(Messages(r, i, text)) = Len(SplitLongSm(text))
         /\ \A j \in DOMAIN SplitLongSm(text) :
              Messages(r, i, text)[j].part = SplitLongSm(text)[j]
<1>1. PICK parts : parts = SplitLongSm(text)
  OBVIOUS
<1>2. PICK n \in Nat : Len(parts) = n /\ DOMAIN parts = 1 .. n
  BY <1>1, PartsFacts
<1>3. Messages(r, i, text) =
        [j \in 1 .. n |-> [req |-> r, dst |-> i, nr |-> j, part |-> parts[j]]]
  BY <1>1, <1>2 DEF Messages
<1>. QED
  BY <1>1, <1>2, <1>3

(***************************************************************************)
(* Up to the capacity of the header, the messages of every destination     *)
(* carry their place and their number, are within the limit for segments   *)
(* of a text or for a text that needs one, and are not empty in vain.      *)
(***************************************************************************)
THEOREM SegmentsNumberedHolds == Spec => []SegmentsNumbered
<1>1. Init => TypeInv /\ RequestInv
  BY TypeInit, RequestInit
<1>2. TypeInv /\ RequestInv /\ [Next]_vars => (TypeInv /\ RequestInv)'
  BY TypeStep, RequestStep
<1>3. TypeInv /\ RequestInv => SegmentsNumbered
  <2>1. SUFFICES ASSUME TypeInv, RequestInv, NEW t \in Web, Formatted(t),
                        NEW i \in Destinations(req[t]), NEW text,
                        text = TextFor(mode, TextOf(req[t]), i), Len(text) <= Capacity(text),
                        NEW parts, parts = Parts(t, i), NEW j \in DOMAIN parts
                 PROVE  /\ parts[j].part.index = j
                        /\ parts[j].part.total = Len(parts)
                        /\ Len(parts[j].part.content) <=
                             IF Len(parts) = 1 THEN MaxSingle(text) ELSE MaxMultipart(text)
                        /\ parts[j].part.content = << >> => text = << >> \/ Holds(text, Lost)
    BY DEF SegmentsNumbered
  <2>2. <<mode, req[t]>> \in Jobs /\ parts = Messages(req[t], i, text)
    BY <2>1, FormattedFacts DEF Text
  <2>3. text \in Seq(Char)
    BY <2>1, <2>2, TextIsText DEF Text
  <2>4. /\ j \in DOMAIN SplitLongSm(text) /\ parts[j].part = SplitLongSm(text)[j]
        /\ Len(parts) = Len(SplitLongSm(text))
    BY <2>1, <2>2, <2>3, PartsOfText
  <2>. QED
    BY <2>1, <2>3, <2>4, SegmentsTellPlace, SegmentsFit DEF Limit
<1>. QED
  BY <1>1, <1>2, <1>3, PTL DEF Spec

(***************************************************************************)
(* The messages of every destination spell its text, if that is ASCII or   *)
(* needs at most two segments: a header that counts more than two, as the  *)
(* code's does, is enough.                                                 *)
(***************************************************************************)
THEOREM SegmentsSpellTextHolds ==
  ASSUME MaxSegments > 2
  PROVE  Spec => []SegmentsSpellText
<1>1. Init => TypeInv /\ RequestInv
  BY TypeInit, RequestInit
<1>2. TypeInv /\ RequestInv /\ [Next]_vars => (TypeInv /\ RequestInv)'
  BY TypeStep, RequestStep
<1>3. TypeInv /\ RequestInv => SegmentsSpellText
  <2>1. SUFFICES ASSUME TypeInv, RequestInv, NEW t \in Web, Formatted(t),
                        NEW i \in Destinations(req[t]), NEW text,
                        text = TextFor(mode, TextOf(req[t]), i),
                        IsPureAscii(text) \/ NumberOfSegments(text) <= 2
                 PROVE  Spelled(Parts(t, i)) \in {text, Ucs2ToUtf8(text)}
    BY DEF SegmentsSpellText
  <2>2. <<mode, req[t]>> \in Jobs /\ Parts(t, i) = Messages(req[t], i, text)
    BY <2>1, FormattedFacts DEF Text
  <2>3. text \in Seq(Char)
    BY <2>1, <2>2, TextIsText DEF Text
  <2>4. Spelled(Parts(t, i)) = AllContents(text)
    BY <2>2, <2>3, PartsOfText DEF Spelled, AllContents
  <2>. QED
    BY <2>1, <2>3, <2>4, SegmentsSpell
<1>. QED
  BY <1>1, <1>2, <1>3, PTL DEF Spec


LEMMA ModeStays ==
  ASSUME TypeInv, [Next]_vars
  PROVE  mode' = mode
BY RequestSteps DEF Calm, TakeRequest, Format

\* The batch a thread submits is the next of its request.
LEMMA NextBatch ==
  ASSUME TypeInv, RequestInv, NEW t \in Web, pc[t] = "lock_submit"
  PROVE  \E r \in Request : \E n \in Nat, all \in Seq(Seq(Message)) :
           /\ r = req[t] /\ n = Len(answer[r]) /\ all = BatchesOf(mode, r)
           /\ n + 1 \in 1 .. Len(all) /\ Head(batches[t]) = all[n + 1]
           /\ GoodBatches(mode, r, all)
<1>1. PICK r \in Request : r = req[t] /\ batches[t] # << >>
  BY DEF TypeInv, PcInv, BusyPcs, SubmitPcs
<1>2. answer[r] \in Seq(BOOLEAN) /\ batches[t] \in Seq(Seq(Message))
  BY ProgramFacts
<1>3. PICK n \in Nat : n = Len(answer[r])
  <2>1. Len(answer[r]) \in Nat
    BY <1>2, LenProperties
  <2>. QED
    BY <2>1
<1>4. PICK all \in Seq(Seq(Message)) : all = BatchesOf(mode, r) /\ GoodBatches(mode, r, all)
  BY BatchesFacts DEF GoodBatches
<1>5. Rest(all, n, batches[t])
  BY <1>1, <1>3, <1>4 DEF RequestInv, SubmitPcs
<1>6. n + 1 \in 1 .. Len(all) /\ Head(batches[t]) = all[n + 1]
  <2>1. batches[t] \in Seq(Seq(Message)) /\ batches[t] # << >>
    BY <1>1, <1>2
  <2>2. /\ n + 1 \in 1 .. Len(all) /\ Head(batches[t]) = all[n + 1]
        /\ Rest(all, n + 1, Tail(batches[t]))
    BY <1>5, <2>1, RestFacts
  <2>. QED
    BY <2>2
<1>. QED
  BY <1>1, <1>3, <1>4, <1>6

WholeInv == \A s \in SysIds : Whole(mode, to_submit[s])

LEMMA WholeStep ==
  ASSUME TypeInv, RequestInv, WholeInv, [Next]_vars
  PROVE  WholeInv'
<1>1. mode' = mode
  BY ModeStays
<1>2. to_submit \in [SysIds -> Seq(Message)]
  BY DEF TypeInv, TypeOK, SourceTypeOK
<1>3. CASE to_submit' = to_submit
  BY <1>1, <1>3 DEF WholeInv
<1>4. ASSUME NEW t \in Web, SubmitSmis(t) PROVE WholeInv'
  <2>1. pc[t] = "lock_submit"
    BY <1>4 DEF SubmitSmis
  <2>2. PICK r \in Request : \E n \in Nat, all \in Seq(Seq(Message)) :
           /\ n + 1 \in 1 .. Len(all) /\ Head(batches[t]) = all[n + 1]
           /\ GoodBatches(mode, r, all)
    BY <2>1, NextBatch
  <2>3. PICK b \in Seq(Message) : b = Head(batches[t]) /\ Whole(mode, b)
    BY <2>2 DEF GoodBatches
  <2>4. ASSUME NEW s \in SysIds, to_submit' = [to_submit EXCEPT ![s] = @ \o b]
        PROVE  WholeInv'
    <3>1. Whole(mode, to_submit[s] \o b)
      BY <1>2, <2>3, WholeConcat DEF WholeInv
    <3>. QED
      BY <1>1, <1>2, <2>4, <3>1 DEF WholeInv
  <2>. QED
    BY <1>3, <1>4, <2>3, <2>4, SubmitEffect
<1>5. ASSUME NEW c \in ToSet(Clients), Send(c) PROVE WholeInv'
  <2>1. PICK s \in SysIds : \E m \in Message, rest \in Seq(Message) :
           /\ to_submit[s] \in Seq(Message) /\ to_submit[s] # << >>
           /\ rest = Tail(to_submit[s])
           /\ to_submit' = [to_submit EXCEPT ![s] = rest]
    BY <1>5, SendEffect
  <2>2. Whole(mode, Tail(to_submit[s]))
    BY <2>1, WholeTail DEF WholeInv
  <2>. QED
    BY <1>1, <1>2, <2>1, <2>2 DEF WholeInv
<1>. QED
  BY <1>3, <1>4, <1>5, QueueSteps

(***************************************************************************)
(* In the queue of a system id a segment is followed by the next one of    *)
(* its text, whatever the batch size, the number of web threads and of     *)
(* clients that share the queue: batches end between destinations, and a   *)
(* batch comes into the queue in one piece.                                *)
(***************************************************************************)
THEOREM PartsTogetherHolds == Spec => []PartsTogether
<1>1. Init => TypeInv /\ RequestInv /\ WholeInv
  <2>1. ASSUME Init PROVE WholeInv
    BY <2>1 DEF Init, WholeInv, Whole
  <2>. QED
    BY <2>1, TypeInit, RequestInit
<1>2. TypeInv /\ RequestInv /\ WholeInv /\ [Next]_vars => (TypeInv /\ RequestInv /\ WholeInv)'
  BY TypeStep, RequestStep, WholeStep
<1>3. WholeInv => PartsTogether
  BY DEF WholeInv, Whole, PartsTogether, Segments
<1>. QED
  BY <1>1, <1>2, <1>3, PTL DEF Spec


-----------------------------------------------------------------------------
(* Sequences that hold nothing twice                                       *)

LEMMA OnceTail ==
  ASSUME NEW S, NEW q \in Seq(S), q # << >>, IsInjective(q)
  PROVE  /\ IsInjective(Tail(q)) /\ Head(q) \in ToSet(q)
         /\ ToSet(Tail(q)) = ToSet(q) \ {Head(q)}
<1>1. PICK n \in Nat, t \in Seq(S) :
        /\ t = Tail(q) /\ Len(q) = n + 1 /\ Len(t) = n
        /\ \A i \in 1 .. n : t[i] = q[i + 1]
  <2>1. /\ Tail(q) \in Seq(S) /\ Len(Tail(q)) = Len(q) - 1
        /\ \A i \in 1 .. Len(Tail(q)) : Tail(q)[i] = q[i + 1]
    BY HeadTailProperties
  <2>2. Len(q) - 1 \in Nat /\ Len(q) = (Len(q) - 1) + 1
    BY EmptySeq
  <2>. QED
    BY <2>1, <2>2
<1>2. DOMAIN t = 1 .. n /\ DOMAIN q = 1 .. n + 1 /\ Head(q) = q[1]
  BY <1>1
<1>3. IsInjective(t)
  <2>1. ASSUME NEW i \in 1 .. n, NEW j \in 1 .. n, t[i] = t[j] PROVE i = j
    <3>1. i + 1 \in DOMAIN q /\ j + 1 \in DOMAIN q /\ q[i + 1] = q[j + 1]
      BY <1>1, <1>2, <2>1
    <3>2. i + 1 = j + 1
      BY <3>1 DEF IsInjective
    <3>. QED
      BY <3>2
  <2>. QED
    BY <1>2, <2>1 DEF IsInjective
<1>4. ASSUME NEW x PROVE x \in ToSet(t) <=> x \in ToSet(q) \ {Head(q)}
  <2>1. ASSUME x \in ToSet(t) PROVE x \in ToSet(q) /\ x # q[1]
    <3>1. PICK i \in 1 .. n : x = t[i]
      BY <1>2, <2>1 DEF ToSet
    <3>2. i + 1 \in DOMAIN q /\ 1 \in DOMAIN q /\ i + 1 # 1 /\ x = q[i + 1]
      BY <1>1, <1>2, <3>1
    <3>. QED
      BY <3>2 DEF ToSet, IsInjective
  <2>2. ASSUME x \in ToSet(q), x # q[1] PROVE x \in ToSet(t)
    <3>1. PICK i \in 1 .. n + 1 : x = q[i]
      BY <1>2, <2>2 DEF ToSet
    <3>2. i - 1 \in 1 .. n /\ (i - 1) + 1 = i
      BY <2>2, <3>1
    <3>3. t[i - 1] = x
      BY <1>1, <3>1, <3>2
    <3>. QED
      BY <1>2, <3>2, <3>3 DEF ToSet
  <2>. QED
    BY <1>2, <2>1, <2>2
<1>5. q[1] \in ToSet(q)
  <2>1. 1 \in DOMAIN q
    BY <1>2
  <2>. QED
    BY <2>1 DEF ToSet
<1>. QED
  BY <1>1, <1>2, <1>3, <1>4, <1>5

LEMMA OnceConcat ==
  ASSUME NEW S, NEW a \in Seq(S), NEW b \in Seq(S), IsInjective(a), IsInjective(b),
         \A x \in ToSet(b) : x \notin ToSet(a)
  PROVE  IsInjective(a \o b) /\ ToSet(a \o b) = ToSet(a) \union ToSet(b)
<1>1. PICK m \in Nat, n \in Nat : m = Len(a) /\ n = Len(b) /\ DOMAIN a = 1 .. m /\ DOMAIN b = 1 .. n
  <2>1. Len(a) \in Nat /\ Len(b) \in Nat /\ DOMAIN a = 1 .. Len(a) /\ DOMAIN b = 1 .. Len(b)
    OBVIOUS
  <2>. QED
    BY <2>1, Zenon
<1>2. PICK c \in Seq(S) :
        /\ c = a \o b /\ Len(c) = m + n /\ DOMAIN c = 1 .. m + n
        /\ \A i \in 1 .. m + n : c[i] = IF i <= m THEN a[i] ELSE b[i - m]
  <2>1. /\ a \o b \in Seq(S) /\ Len(a \o b) = Len(a) + Len(b)
        /\ \A i \in 1 .. Len(a) + Len(b) : (a \o b)[i] = IF i <= Len(a) THEN a[i] ELSE b[i - Len(a)]
    BY ConcatProperties
  <2>2. DOMAIN (a \o b) = 1 .. Len(a \o b)
    BY <2>1, LenProperties
  <2>. QED
    BY <1>1, <2>1, <2>2, Zenon
<1>3. ASSUME NEW i \in 1 .. m + n
      PROVE  \/ i \in DOMAIN a /\ c[i] = a[i] /\ c[i] \in ToSet(a)
             \/ i - m \in DOMAIN b /\ c[i] = b[i - m] /\ c[i] \in ToSet(b) /\ i > m
  <2>1. CASE i <= m
    <3>1. i \in DOMAIN a /\ c[i] = a[i]
      BY <1>1, <1>2, <2>1
    <3>. QED
      BY <3>1 DEF ToSet
  <2>2. CASE ~(i <= m)
    <3>1. i - m \in DOMAIN b /\ c[i] = b[i - m] /\ i > m
      BY <1>1, <1>2, <2>2
    <3>. QED
      BY <3>1 DEF ToSet
  <2>. QED
    BY <2>1, <2>2
<1>4. IsInjective(c)
  <2>1. ASSUME NEW i \in 1 .. m + n, NEW j \in 1 .. m + n, c[i] = c[j] PROVE i = j
    <3>1. CASE i \in DOMAIN a /\ c[i] = a[i] /\ j \in DOMAIN a /\ c[j] = a[j]
      BY <2>1, <3>1 DEF IsInjective
    <3>2. CASE i - m \in DOMAIN b /\ c[i] = b[i - m] /\ j - m \in DOMAIN b /\ c[j] = b[j - m]
      <4>1. i - m = j - m
        BY <2>1, <3>2 DEF IsInjective
      <4>. QED
        BY <4>1
    <3>. QED
      BY <1>3, <2>1, <3>1, <3>2
  <2>. QED
    BY <1>2, <2>1 DEF IsInjective
<1>5. ASSUME NEW x PROVE x \in ToSet(c) <=> x \in ToSet(a) \union ToSet(b)
  <2>1. x \in ToSet(c) => x \in ToSet(a) \/ x \in ToSet(b)
    BY <1>2, <1>3 DEF ToSet
  <2>2. ASSUME x \in ToSet(a) PROVE x \in ToSet(c)
    <3>1. PICK i \in 1 .. m : x = a[i]
      BY <1>1, <2>2 DEF ToSet
    <3>2. i \in 1 .. m + n /\ c[i] = x
      BY <1>2, <3>1
    <3>. QED
      BY <1>2, <3>2 DEF ToSet
  <2>3. ASSUME x \in ToSet(b) PROVE x \in ToSet(c)
    <3>1. PICK i \in 1 .. n : x = b[i]
      BY <1>1, <2>3 DEF ToSet
    <3>2. m + i \in 1 .. m + n /\ ~(m + i <= m) /\ (m + i) - m = i
      OBVIOUS
    <3>3. c[m + i] = x
      BY <1>2, <3>1, <3>2
    <3>. QED
      BY <1>2, <3>2, <3>3 DEF ToSet
  <2>. QED
    BY <2>1, <2>2, <2>3
<1>. QED
  BY <1>2, <1>4, <1>5

LEMMA ConcatHolds ==
  ASSUME NEW S, NEW a \in Seq(S), NEW b \in Seq(S)
  PROVE  ToSet(a) \subseteq ToSet(a \o b) /\ ToSet(b) \subseteq ToSet(a \o b)
<1>1. PICK m \in Nat, n \in Nat : m = Len(a) /\ n = Len(b) /\ DOMAIN a = 1 .. m /\ DOMAIN b = 1 .. n
  <2>1. Len(a) \in Nat /\ Len(b) \in Nat /\ DOMAIN a = 1 .. Len(a) /\ DOMAIN b = 1 .. Len(b)
    OBVIOUS
  <2>. QED
    BY <2>1, Zenon
<1>2. PICK c \in Seq(S) :
        /\ c = a \o b /\ DOMAIN c = 1 .. m + n
        /\ \A i \in 1 .. m + n : c[i] = IF i <= m THEN a[i] ELSE b[i - m]
  <2>1. /\ a \o b \in Seq(S) /\ Len(a \o b) = Len(a) + Len(b)
        /\ \A i \in 1 .. Len(a) + Len(b) : (a \o b)[i] = IF i <= Len(a) THEN a[i] ELSE b[i - Len(a)]
    BY ConcatProperties
  <2>2. DOMAIN (a \o b) = 1 .. Len(a \o b)
    BY <2>1, LenProperties
  <2>. QED
    BY <1>1, <2>1, <2>2, Zenon
<1>3. ASSUME NEW i \in 1 .. m PROVE a[i] \in ToSet(c)
  <2>1. i \in DOMAIN c /\ c[i] = a[i]
    BY <1>2
  <2>. QED
    BY <2>1 DEF ToSet
<1>4. ASSUME NEW i \in 1 .. n PROVE b[i] \in ToSet(c)
  <2>1. m + i \in 1 .. m + n /\ ~(m + i <= m) /\ (m + i) - m = i
    OBVIOUS
  <2>2. m + i \in DOMAIN c /\ c[m + i] = b[i]
    BY <1>2, <2>1
  <2>. QED
    BY <2>2 DEF ToSet
<1>5. ToSet(a) \subseteq ToSet(c)
  <2>1. \A x \in ToSet(a) : \E i \in 1 .. m : x = a[i]
    BY <1>1 DEF ToSet
  <2>. QED
    BY <1>3, <2>1
<1>6. ToSet(b) \subseteq ToSet(c)
  <2>1. \A x \in ToSet(b) : \E i \in 1 .. n : x = b[i]
    BY <1>1 DEF ToSet
  <2>. QED
    BY <1>4, <2>1
<1>. QED
  BY <1>2, <1>5, <1>6

LEMMA OnceAppend ==
  ASSUME NEW S, NEW q \in Seq(S), NEW x \in S, IsInjective(q), x \notin ToSet(q)
  PROVE  IsInjective(Append(q, x)) /\ ToSet(Append(q, x)) = ToSet(q) \union {x}
<1>1. PICK n \in Nat, t \in Seq(S) : Appended(q, x, n, t)
  BY AppendFacts
<1>2. /\ DOMAIN q = 1 .. n /\ t = Append(q, x) /\ DOMAIN t = 1 .. n + 1
      /\ t[n + 1] = x /\ \A k \in 1 .. n : t[k] = q[k]
  BY <1>1 DEF Appended
<1>3. ASSUME NEW k \in 1 .. n PROVE t[k] = q[k] /\ q[k] \in ToSet(q) /\ t[k] # x
  BY <1>2 DEF ToSet
<1>4. IsInjective(t)
  <2>1. ASSUME NEW i \in 1 .. n + 1, NEW j \in 1 .. n + 1, t[i] = t[j] PROVE i = j
    <3>1. CASE i \in 1 .. n /\ j \in 1 .. n
      BY <1>2, <2>1, <3>1 DEF IsInjective
    <3>. QED
      BY <1>2, <1>3, <2>1, <3>1
  <2>. QED
    BY <1>2, <2>1 DEF IsInjective
<1>5. ASSUME NEW y PROVE y \in ToSet(t) <=> y \in ToSet(q) \/ y = x
  <2>1. y \in ToSet(t) => y \in ToSet(q) \/ y = x
    BY <1>2, <1>3 DEF ToSet
  <2>2. ASSUME y \in ToSet(q) PROVE y \in ToSet(t)
    <3>1. PICK i \in 1 .. n : y = q[i]
      BY <1>2, <2>2 DEF ToSet
    <3>2. i \in 1 .. n + 1 /\ t[i] = y
      BY <1>2, <3>1
    <3>. QED
      BY <1>2, <3>2 DEF ToSet
  <2>3. x \in ToSet(t)
    <3>1. n + 1 \in DOMAIN t /\ t[n + 1] = x
      BY <1>2
    <3>. QED
      BY <3>1 DEF ToSet
  <2>. QED
    BY <2>1, <2>2, <2>3
<1>. QED
  BY <1>2, <1>4, <1>5

LEMMA OnceCut ==
  ASSUME NEW S, NEW q \in Seq(S), NEW n \in Nat, n <= Len(q), IsInjective(q),
         NEW a \in Seq(S), NEW b \in Seq(S), Cut(q, n, a, b)
  PROVE  /\ IsInjective(a) /\ IsInjective(b)
         /\ ToSet(a) \subseteq ToSet(q) /\ ToSet(b) = ToSet(q) \ ToSet(a)
<1>1. PICK l \in Nat : l = Len(q) /\ DOMAIN q = 1 .. l /\ n <= l
  OBVIOUS
<1>2. /\ DOMAIN a = 1 .. n /\ \A i \in 1 .. n : i \in DOMAIN q /\ a[i] = q[i]
      /\ DOMAIN b = 1 .. l - n /\ \A i \in 1 .. l - n : n + i \in DOMAIN q /\ b[i] = q[n + i]
  BY <1>1 DEF Cut
<1>3. IsInjective(a)
  BY <1>2 DEF IsInjective
<1>4. IsInjective(b)
  <2>1. ASSUME NEW i \in 1 .. l - n, NEW j \in 1 .. l - n, b[i] = b[j] PROVE i = j
    <3>1. n + i = n + j
      BY <1>2, <2>1 DEF IsInjective
    <3>. QED
      BY <3>1
  <2>. QED
    BY <1>2, <2>1 DEF IsInjective
<1>5. ToSet(a) \subseteq ToSet(q)
  BY <1>2 DEF ToSet
<1>6. ASSUME NEW x PROVE x \in ToSet(b) <=> x \in ToSet(q) /\ x \notin ToSet(a)
  <2>1. ASSUME x \in ToSet(b) PROVE x \in ToSet(q) /\ x \notin ToSet(a)
    <3>1. PICK i \in 1 .. l - n : x = q[n + i] /\ n + i \in DOMAIN q
      BY <1>2, <2>1 DEF ToSet
    <3>2. ASSUME NEW j \in 1 .. n, x = a[j] PROVE FALSE
      <4>1. q[j] = q[n + i] /\ j \in DOMAIN q
        BY <1>2, <3>1, <3>2
      <4>2. j = n + i
        BY <3>1, <4>1 DEF IsInjective
      <4>. QED
        BY <4>2
    <3>. QED
      BY <1>2, <3>1, <3>2 DEF ToSet
  <2>2. ASSUME x \in ToSet(q), x \notin ToSet(a) PROVE x \in ToSet(b)
    <3>1. PICK i \in 1 .. l : x = q[i]
      BY <1>1, <2>2 DEF ToSet
    <3>2. ~(i <= n)
      <4>1. SUFFICES ASSUME i <= n PROVE FALSE
        OBVIOUS
      <4>2. i \in DOMAIN a /\ a[i] = x
        BY <1>2, <3>1, <4>1
      <4>. QED
        BY <2>2, <4>2 DEF ToSet
    <3>3. i - n \in 1 .. l - n /\ n + (i - n) = i
      BY <3>2
    <3>4. i - n \in DOMAIN b /\ b[i - n] = x
      BY <1>2, <3>1, <3>3
    <3>. QED
      BY <3>4 DEF ToSet
  <2>. QED
    BY <2>1, <2>2
<1>. QED
  BY <1>3, <1>4, <1>5, <1>6


-----------------------------------------------------------------------------
(* Where messages are                                                      *)

\* The four lists of each system id, the collection and the application.
Got == <<"got", None>>
Fetched == <<"fetched", None>>
Slots == ({"to_submit", "wire", "delivered", "mo_list"} \X SysIds) \union {Got, Fetched}

\* h says what each slot holds.
Disjoint(h) == \A a, b \in Slots : \A m \in h[a] : m \in h[b] => a = b
Everything(h) == UNION {h[a] : a \in Slots}

\* From h to g, X moves from a to b; X comes in at b.
Moved(g, h, a, b, X) ==
  /\ X \subseteq h[a] /\ g[a] = h[a] \ X /\ g[b] = h[b] \union X
  /\ \A c \in Slots : c # a /\ c # b => g[c] = h[c]
Added(g, h, b, X) ==
  /\ \A m \in X : m \notin Everything(h)
  /\ g[b] = h[b] \union X /\ \A c \in Slots : c # b => g[c] = h[c]

LEMMA MovedFacts ==
  ASSUME NEW h, Disjoint(h), NEW a \in Slots, NEW b \in Slots, a # b, NEW X,
         NEW g, Moved(g, h, a, b, X)
  PROVE  Disjoint(g) /\ Everything(g) = Everything(h)
<1>2. /\ X \subseteq h[a] /\ g[a] = h[a] \ X /\ g[b] = h[b] \union X
      /\ \A c \in Slots : c # a /\ c # b => g[c] = h[c]
  BY DEF Moved
<1>3. \A c \in Slots : \A m \in g[c] : m \in h[c] \/ (c = b /\ m \in X)
  BY <1>2
<1>4. Disjoint(g)
  <2>1. ASSUME NEW c \in Slots, NEW d \in Slots, NEW m, m \in g[c], m \in g[d] PROVE c = d
    <3>1. CASE m \in X
      <4>1. m \in h[a] /\ m \notin g[a]
        BY <1>2, <3>1
      <4>2. \A e \in Slots : m \in h[e] => e = a
        BY <4>1 DEF Disjoint
      <4>. QED
        BY <1>3, <2>1, <4>1, <4>2
    <3>2. CASE m \notin X
      BY <1>3, <2>1, <3>2 DEF Disjoint
    <3>. QED
      BY <3>1, <3>2
  <2>. QED
    BY <2>1 DEF Disjoint
<1>5. ASSUME NEW m PROVE (\E c \in Slots : m \in g[c]) <=> (\E c \in Slots : m \in h[c])
  <2>1. ASSUME NEW c \in Slots, m \in g[c] PROVE \E d \in Slots : m \in h[d]
    BY <1>2, <1>3, <2>1
  <2>2. ASSUME NEW c \in Slots, m \in h[c] PROVE \E d \in Slots : m \in g[d]
    <3>1. CASE m \in X
      BY <1>2, <3>1
    <3>2. CASE m \notin X
      BY <1>2, <2>2, <3>2
    <3>. QED
      BY <3>1, <3>2
  <2>. QED
    BY <2>1, <2>2
<1>6. Everything(g) = Everything(h)
  BY <1>5 DEF Everything
<1>. QED
  BY <1>4, <1>6

LEMMA AddedFacts ==
  ASSUME NEW h, Disjoint(h), NEW b \in Slots, NEW X, NEW g, Added(g, h, b, X)
  PROVE  Disjoint(g) /\ Everything(g) = Everything(h) \union X
<1>2. g[b] = h[b] \union X /\ \A c \in Slots : c # b => g[c] = h[c]
  BY DEF Added
<1>3. \A c \in Slots : \A m \in g[c] : m \in h[c] \/ (c = b /\ m \in X)
  BY <1>2
<1>4. \A m \in X : \A c \in Slots : m \notin h[c]
  BY DEF Added, Everything
<1>5. Disjoint(g)
  <2>1. ASSUME NEW c \in Slots, NEW d \in Slots, NEW m, m \in g[c], m \in g[d] PROVE c = d
    <3>1. CASE m \in X
      BY <1>3, <1>4, <2>1, <3>1
    <3>2. CASE m \notin X
      BY <1>3, <2>1, <3>2 DEF Disjoint
    <3>. QED
      BY <3>1, <3>2
  <2>. QED
    BY <2>1 DEF Disjoint
<1>6. ASSUME NEW m PROVE (\E c \in Slots : m \in g[c]) <=> (\E c \in Slots : m \in h[c]) \/ m \in X
  BY <1>2, <1>3
<1>7. Everything(g) = Everything(h) \union X
  BY <1>6 DEF Everything
<1>. QED
  BY <1>5, <1>7

Items ==
  [a \in Slots |-> IF a[1] = "to_submit" THEN ToSet(to_submit[a[2]])
                   ELSE IF a[1] = "wire" THEN wire[a[2]]
                   ELSE IF a[1] = "delivered" THEN ToSet(delivered[a[2]])
                   ELSE IF a[1] = "mo_list" THEN ToSet(mo_list[a[2]])
                   ELSE IF a[1] = "got" THEN ToSet(got) ELSE fetched]

LEMMA SlotFacts ==
  /\ Got \in Slots /\ Fetched \in Slots
  /\ \A s \in SysIds : /\ <<"to_submit", s>> \in Slots /\ <<"wire", s>> \in Slots
                       /\ <<"delivered", s>> \in Slots /\ <<"mo_list", s>> \in Slots
BY DEF Slots, Got, Fetched

LEMMA SlotCases ==
  ASSUME NEW a \in Slots
  PROVE  \/ a = Got \/ a = Fetched
         \/ \E s \in SysIds : a \in {<<"to_submit", s>>, <<"wire", s>>, <<"delivered", s>>, <<"mo_list", s>>}
BY DEF Slots

LEMMA ItemsFacts ==
  /\ Items[Got] = ToSet(got) /\ Items[Fetched] = fetched
  /\ \A s \in SysIds : /\ Items[<<"to_submit", s>>] = ToSet(to_submit[s])
                       /\ Items[<<"wire", s>>] = wire[s]
                       /\ Items[<<"delivered", s>>] = ToSet(delivered[s])
                       /\ Items[<<"mo_list", s>>] = ToSet(mo_list[s])
<1>1. Items[Got] = ToSet(got) /\ Items[Fetched] = fetched
  BY SlotFacts DEF Items, Got, Fetched
<1>2. ASSUME NEW s \in SysIds
      PROVE  /\ Items[<<"to_submit", s>>] = ToSet(to_submit[s])
             /\ Items[<<"wire", s>>] = wire[s]
             /\ Items[<<"delivered", s>>] = ToSet(delivered[s])
             /\ Items[<<"mo_list", s>>] = ToSet(mo_list[s])
  BY SlotFacts DEF Items
<1>. QED
  BY <1>1, <1>2



LEMMA ItemsNext ==
  (/\ Items[Got] = ToSet(got) /\ Items[Fetched] = fetched
   /\ \A s \in SysIds : /\ Items[<<"to_submit", s>>] = ToSet(to_submit[s])
                        /\ Items[<<"wire", s>>] = wire[s]
                        /\ Items[<<"delivered", s>>] = ToSet(delivered[s])
                        /\ Items[<<"mo_list", s>>] = ToSet(mo_list[s]))'
BY ItemsFacts, PTL

\* A step touches no slot outside A.
Touches(A) ==
  /\ \A s \in SysIds : /\ <<"to_submit", s>> \notin A => to_submit'[s] = to_submit[s]
                       /\ <<"wire", s>> \notin A => wire'[s] = wire[s]
                       /\ <<"delivered", s>> \notin A => delivered'[s] = delivered[s]
                       /\ <<"mo_list", s>> \notin A => mo_list'[s] = mo_list[s]
  /\ Got \notin A => got' = got
  /\ Fetched \notin A => fetched' = fetched

LEMMA ItemsSame ==
  ASSUME NEW A, Touches(A)
  PROVE  \A a \in Slots : a \notin A => Items'[a] = Items[a]
<1>1. ASSUME NEW s \in SysIds
      PROVE  /\ <<"to_submit", s>> \notin A => Items'[<<"to_submit", s>>] = Items[<<"to_submit", s>>]
             /\ <<"wire", s>> \notin A => Items'[<<"wire", s>>] = Items[<<"wire", s>>]
             /\ <<"delivered", s>> \notin A => Items'[<<"delivered", s>>] = Items[<<"delivered", s>>]
             /\ <<"mo_list", s>> \notin A => Items'[<<"mo_list", s>>] = Items[<<"mo_list", s>>]
  BY ItemsFacts, ItemsNext DEF Touches
<1>2. /\ Got \notin A => Items'[Got] = Items[Got]
      /\ Fetched \notin A => Items'[Fetched] = Items[Fetched]
  BY ItemsFacts, ItemsNext DEF Touches
<1>. QED
  BY <1>1, <1>2, SlotCases

\* A queue, too, holds nothing twice.
Singly ==
  /\ \A s \in SysIds : /\ IsInjective(to_submit[s]) /\ IsInjective(delivered[s])
                       /\ IsInjective(mo_list[s])
  /\ IsInjective(got)

LEMMA SendMoves ==
  ASSUME TypeInv, Singly, NEW c \in ToSet(Clients), Send(c)
  PROVE  /\ Singly'
         /\ \E s \in SysIds : \E m \in Message :
              Moved(Items', Items, <<"to_submit", s>>, <<"wire", s>>, {m})
<1>1. UNCHANGED <<delivered, mo_list, got, fetched>>
  BY DEF Send, managerVars
<1>2. PICK s \in SysIds : \E m \in Message, rest \in Seq(Message) :
           /\ to_submit[s] \in Seq(Message) /\ to_submit[s] # << >>
           /\ m = Head(to_submit[s]) /\ rest = Tail(to_submit[s])
           /\ to_submit' = [to_submit EXCEPT ![s] = rest]
           /\ wire' = [wire EXCEPT ![s] = @ \union {m}]
  BY SendEffect
<1>3. PICK m \in Message, rest \in Seq(Message) :
           /\ m = Head(to_submit[s]) /\ rest = Tail(to_submit[s])
           /\ to_submit' = [to_submit EXCEPT ![s] = rest]
           /\ wire' = [wire EXCEPT ![s] = @ \union {m}]
  BY <1>2
<1>4. IsInjective(rest) /\ m \in ToSet(to_submit[s]) /\ ToSet(rest) = ToSet(to_submit[s]) \ {m}
  <2>1. to_submit[s] \in Seq(Message) /\ to_submit[s] # << >> /\ IsInjective(to_submit[s])
    BY <1>2 DEF Singly
  <2>. QED
    BY <1>3, <2>1, OnceTail
<1>5. /\ to_submit'[s] = rest /\ wire'[s] = wire[s] \union {m}
      /\ \A u \in SysIds : u # s => to_submit'[u] = to_submit[u] /\ wire'[u] = wire[u]
  BY <1>3 DEF TypeInv, TypeOK, SourceTypeOK
<1>6. Singly'
  BY <1>1, <1>4, <1>5 DEF Singly
<1>7. \A a \in Slots : a # <<"to_submit", s>> /\ a # <<"wire", s>> => Items'[a] = Items[a]
  <2>1. Touches({<<"to_submit", s>>, <<"wire", s>>})
    BY <1>1, <1>5 DEF Touches
  <2>. QED
    BY <2>1, ItemsSame
<1>8. Moved(Items', Items, <<"to_submit", s>>, <<"wire", s>>, {m})
  BY <1>4, <1>5, <1>7, ItemsFacts, ItemsNext DEF Moved
<1>. QED
  BY <1>6, <1>8

LEMMA ReportMoves ==
  ASSUME TypeInv, Singly, Disjoint(Items), NEW c \in ToSet(Clients), NEW m, Report(c, m)
  PROVE  /\ Singly'
         /\ \E s \in SysIds : Moved(Items', Items, <<"wire", s>>, <<"delivered", s>>, {m})
<1>1. UNCHANGED <<to_submit, mo_list, got, fetched>>
  BY DEF Report, managerVars
<1>2. m \in Message
  BY ReportType
<1>3. PICK s \in SysIds : /\ delivered[s] \in Seq(Message) /\ m \in wire[s]
                          /\ wire' = [wire EXCEPT ![s] = @ \ {m}]
                          /\ delivered' = [delivered EXCEPT ![s] = Append(@, m)]
  BY ReportType
<1>4. m \notin ToSet(delivered[s])
  <2>1. /\ <<"wire", s>> \in Slots /\ <<"delivered", s>> \in Slots
        /\ m \in Items[<<"wire", s>>] /\ <<"wire", s>> # <<"delivered", s>>
    BY <1>3, SlotFacts, ItemsFacts
  <2>. QED
    BY <2>1, ItemsFacts DEF Disjoint
<1>5. PICK q : q = Append(delivered[s], m) /\ IsInjective(q) /\ ToSet(q) = ToSet(delivered[s]) \union {m}
  <2>1. /\ IsInjective(Append(delivered[s], m))
        /\ ToSet(Append(delivered[s], m)) = ToSet(delivered[s]) \union {m}
    <3>1. delivered[s] \in Seq(Message) /\ IsInjective(delivered[s])
      BY <1>3 DEF Singly
    <3>. QED
      BY <1>2, <1>4, <3>1, OnceAppend
  <2>. QED
    BY <2>1
<1>6. /\ delivered'[s] = q /\ wire'[s] = wire[s] \ {m}
      /\ \A u \in SysIds : u # s => delivered'[u] = delivered[u] /\ wire'[u] = wire[u]
  BY <1>3, <1>5 DEF TypeInv, TypeOK, SourceTypeOK
<1>7. Singly'
  BY <1>1, <1>5, <1>6 DEF Singly
<1>8. \A a \in Slots : a # <<"wire", s>> /\ a # <<"delivered", s>> => Items'[a] = Items[a]
  <2>1. Touches({<<"wire", s>>, <<"delivered", s>>})
    BY <1>1, <1>6 DEF Touches
  <2>. QED
    BY <2>1, ItemsSame
<1>9. Moved(Items', Items, <<"wire", s>>, <<"delivered", s>>, {m})
  BY <1>3, <1>5, <1>6, <1>8, ItemsFacts, ItemsNext DEF Moved
<1>. QED
  BY <1>7, <1>9


LEMMA VisitStatusMoves ==
  ASSUME TypeInv, Singly, Disjoint(Items), NEW t \in Threads, VisitStatus(t)
  PROVE  /\ Singly'
         /\ \E s \in SysIds : \E X : Moved(Items', Items, <<"delivered", s>>, Got, X)
<1>1. UNCHANGED <<to_submit, wire, mo_list, fetched>>
  BY DEF VisitStatus
<1>2. PICK s \in SysIds, n \in Nat, a, b \in Seq(Message) : StatusVisited(s, n, a, b)
  BY VisitStatusEffect
<1>3. /\ Cut(delivered[s], n, a, b) /\ delivered[s] \in Seq(Message) /\ got \in Seq(Message)
      /\ got' = got \o a /\ delivered' = [delivered EXCEPT ![s] = b]
  BY <1>2 DEF StatusVisited
<1>4. /\ IsInjective(a) /\ IsInjective(b)
      /\ ToSet(a) \subseteq ToSet(delivered[s]) /\ ToSet(b) = ToSet(delivered[s]) \ ToSet(a)
  <2>1. n <= Len(delivered[s])
    BY <1>3 DEF Cut
  <2>2. IsInjective(delivered[s])
    BY DEF Singly
  <2>. QED
    BY <1>3, <2>1, <2>2, OnceCut
<1>5. \A m \in ToSet(a) : m \notin ToSet(got)
  <2>1. /\ <<"delivered", s>> \in Slots /\ Got \in Slots /\ <<"delivered", s>> # Got
        /\ Items[Got] = ToSet(got) /\ ToSet(a) \subseteq Items[<<"delivered", s>>]
    BY <1>4, SlotFacts, ItemsFacts DEF Got
  <2>. QED
    BY <2>1 DEF Disjoint
<1>6. IsInjective(got') /\ ToSet(got') = ToSet(got) \union ToSet(a)
  <2>1. IsInjective(got)
    BY DEF Singly
  <2>2. IsInjective(got \o a) /\ ToSet(got \o a) = ToSet(got) \union ToSet(a)
    BY <1>3, <1>4, <1>5, <2>1, OnceConcat
  <2>. QED
    BY <1>3, <2>2
<1>7. delivered'[s] = b /\ \A u \in SysIds : u # s => delivered'[u] = delivered[u]
  BY <1>3 DEF TypeInv, TypeOK, SourceTypeOK
<1>8. Singly'
  BY <1>1, <1>4, <1>6, <1>7 DEF Singly
<1>9. \A c \in Slots : c # <<"delivered", s>> /\ c # Got => Items'[c] = Items[c]
  <2>1. Touches({<<"delivered", s>>, Got})
    BY <1>1, <1>7 DEF Touches
  <2>. QED
    BY <2>1, ItemsSame
<1>10. Moved(Items', Items, <<"delivered", s>>, Got, ToSet(a))
  <2>1. /\ ToSet(a) \subseteq Items[<<"delivered", s>>]
        /\ Items'[<<"delivered", s>>] = Items[<<"delivered", s>>] \ ToSet(a)
    BY <1>4, <1>7, ItemsFacts, ItemsNext
  <2>2. Items'[Got] = Items[Got] \union ToSet(a)
    BY <1>6, ItemsFacts, ItemsNext
  <2>. QED
    BY <1>9, <2>1, <2>2 DEF Moved
<1>. QED
  BY <1>8, <1>10

LEMMA VisitMosMoves ==
  ASSUME TypeInv, Singly, Disjoint(Items), NEW t \in Threads, VisitMos(t)
  PROVE  /\ Singly'
         /\ \E s \in SysIds : \E X : Moved(Items', Items, <<"mo_list", s>>, Got, X)
<1>1. UNCHANGED <<to_submit, wire, delivered, fetched>>
  BY DEF VisitMos
<1>2. PICK s \in SysIds : /\ got \in Seq(Mo) /\ mo_list[s] \in Seq(Mo)
                          /\ got' = got \o mo_list[s]
                          /\ mo_list' = [mo_list EXCEPT ![s] = << >>]
  BY VisitMosEffect
<1>3. \A m \in ToSet(mo_list[s]) : m \notin ToSet(got)
  <2>1. /\ <<"mo_list", s>> \in Slots /\ Got \in Slots /\ <<"mo_list", s>> # Got
        /\ Items[Got] = ToSet(got) /\ ToSet(mo_list[s]) = Items[<<"mo_list", s>>]
    BY SlotFacts, ItemsFacts DEF Got
  <2>. QED
    BY <2>1 DEF Disjoint
<1>4. IsInjective(got') /\ ToSet(got') = ToSet(got) \union ToSet(mo_list[s])
  <2>1. IsInjective(got) /\ IsInjective(mo_list[s])
    BY DEF Singly
  <2>2. IsInjective(got \o mo_list[s]) /\ ToSet(got \o mo_list[s]) = ToSet(got) \union ToSet(mo_list[s])
    BY <1>2, <1>3, <2>1, OnceConcat
  <2>. QED
    BY <1>2, <2>2
<1>5. mo_list'[s] = << >> /\ \A u \in SysIds : u # s => mo_list'[u] = mo_list[u]
  BY <1>2 DEF TypeInv, TypeOK, SourceTypeOK
<1>6. IsInjective(mo_list'[s]) /\ ToSet(mo_list'[s]) = {}
  BY <1>5 DEF IsInjective, ToSet
<1>7. Singly'
  BY <1>1, <1>4, <1>5, <1>6 DEF Singly
<1>8. \A c \in Slots : c # <<"mo_list", s>> /\ c # Got => Items'[c] = Items[c]
  <2>1. Touches({<<"mo_list", s>>, Got})
    BY <1>1, <1>5 DEF Touches
  <2>. QED
    BY <2>1, ItemsSame
<1>9. Moved(Items', Items, <<"mo_list", s>>, Got, ToSet(mo_list[s]))
  <2>1. /\ ToSet(mo_list[s]) = Items[<<"mo_list", s>>]
        /\ Items'[<<"mo_list", s>>] = {}
    BY <1>6, ItemsFacts, ItemsNext
  <2>2. Items'[Got] = Items[Got] \union ToSet(mo_list[s])
    BY <1>4, ItemsFacts, ItemsNext
  <2>. QED
    BY <1>8, <2>1, <2>2 DEF Moved
<1>. QED
  BY <1>7, <1>9

LEMMA ReturnMoves ==
  ASSUME TypeInv, Singly, NEW t \in Threads, NEW op \in Ops, Return(t, op)
  PROVE  Singly' /\ Moved(Items', Items, Got, Fetched, ToSet(got))
<1>1. UNCHANGED <<to_submit, wire, delivered, mo_list>> /\ fetched' = fetched \union ToSet(got) /\ got' = << >>
  BY DEF Return, sourceVars
<1>2. IsInjective(got') /\ ToSet(got') = {}
  BY <1>1 DEF IsInjective, ToSet
<1>3. Singly'
  BY <1>1, <1>2 DEF Singly
<1>4. \A c \in Slots : c # Got /\ c # Fetched => Items'[c] = Items[c]
  <2>1. Touches({Got, Fetched})
    BY <1>1 DEF Touches
  <2>. QED
    BY <2>1, ItemsSame
<1>5. Moved(Items', Items, Got, Fetched, ToSet(got))
  <2>1. ToSet(got) = Items[Got] /\ Items'[Got] = {}
    BY <1>2, ItemsFacts, ItemsNext
  <2>2. Items'[Fetched] = Items[Fetched] \union ToSet(got)
    BY <1>1, ItemsFacts, ItemsNext
  <2>. QED
    BY <1>4, <2>1, <2>2 DEF Moved
<1>. QED
  BY <1>3, <1>5


\* The batch that is submitted next: none of its messages is accepted yet.
LEMMA BatchIsNew ==
  ASSUME TypeInv, RequestInv, NEW t \in Web, pc[t] = "lock_submit"
  PROVE  /\ req[t] \in Request /\ Head(batches[t]) \in Seq(Message) /\ IsInjective(Head(batches[t]))
         /\ \A m \in ToSet(Head(batches[t])) :
              m \in Message /\ m.req = req[t] /\ m \notin Accepted(req[t])
<1>1. PICK r \in Request : \E n \in Nat, all \in Seq(Seq(Message)) :
           /\ r = req[t] /\ n = Len(answer[r]) /\ all = BatchesOf(mode, r)
           /\ n + 1 \in 1 .. Len(all) /\ Head(batches[t]) = all[n + 1]
           /\ GoodBatches(mode, r, all)
  BY NextBatch
<1>2. PICK n \in Nat, all \in Seq(Seq(Message)) :
           /\ r = req[t] /\ n = Len(answer[r]) /\ all = BatchesOf(mode, r)
           /\ n + 1 \in 1 .. Len(all) /\ Head(batches[t]) = all[n + 1]
           /\ GoodBatches(mode, r, all)
  BY <1>1
<1>3. PICK l \in Nat : l = Len(all) /\ DOMAIN all = 1 .. l /\ n + 1 \in 1 .. l /\ n < l
  <2>1. Len(all) \in Nat /\ DOMAIN all = 1 .. Len(all)
    BY LenProperties
  <2>2. n + 1 \in 1 .. Len(all)
    BY <1>2
  <2>3. n < Len(all)
    BY <2>1, <2>2
  <2>. QED
    BY <2>1, <2>2, <2>3
<1>4. PICK b \in Seq(Message) : b = all[n + 1]
  <2>1. all[n + 1] \in Seq(Message)
    BY <1>3, ElementOfSeq
  <2>. QED
    BY <2>1
<1>5. Distinct(all) /\ \A k \in DOMAIN all : \A p \in DOMAIN all[k] : all[k][p].req = r
  BY <1>2 DEF GoodBatches
<1>6. ASSUME NEW k \in DOMAIN all, NEW p \in DOMAIN b, NEW q \in DOMAIN all[k], b[p] = all[k][q]
      PROVE  n + 1 = k /\ p = q
  <2>1. n + 1 \in DOMAIN all /\ p \in DOMAIN all[n + 1] /\ all[n + 1][p] = all[k][q]
    BY <1>3, <1>4, <1>6
  <2>2. \A j, i \in DOMAIN all : \A x \in DOMAIN all[j], y \in DOMAIN all[i] :
           all[j][x] = all[i][y] => j = i /\ x = y
    BY <1>5, Zenon DEF Distinct
  <2>. QED
    BY <1>6, <2>1, <2>2, Zenon
<1>7. IsInjective(b)
  <2>1. n + 1 \in DOMAIN all
    BY <1>3
  <2>2. ASSUME NEW p \in DOMAIN b, NEW q \in DOMAIN b, b[p] = b[q] PROVE p = q
    <3>1. q \in DOMAIN all[n + 1] /\ b[p] = all[n + 1][q]
      BY <1>4, <2>2
    <3>. QED
      BY <1>6, <2>1, <3>1
  <2>. QED
    BY <2>2, Zenon DEF IsInjective
<1>8. DOMAIN answer[r] = 1 .. n
  <2>1. answer[r] \in Seq(BOOLEAN) /\ n = Len(answer[r])
    BY <1>2, ProgramFacts
  <2>. QED
    BY <2>1, LenProperties
<1>9. ASSUME NEW m \in ToSet(b) PROVE m \in Message /\ m.req = r /\ m \notin Accepted(r)
  <2>1. PICK p \in DOMAIN b : m = b[p]
    BY DEF ToSet
  <2>2. m \in Message
    BY <2>1, ElementOfSeq, LenProperties
  <2>3. m.req = r
    <3>1. n + 1 \in DOMAIN all
      BY <1>3
    <3>. QED
      BY <1>4, <1>5, <2>1, <3>1
  <2>4. ASSUME NEW k \in DOMAIN answer[r], m \in ToSet(all[k]) PROVE FALSE
    <3>1. PICK q \in DOMAIN all[k] : m = all[k][q]
      BY <2>4 DEF ToSet
    <3>2. k \in 1 .. n /\ k \in DOMAIN all
      BY <1>3, <1>8
    <3>3. n + 1 = k
      BY <1>6, <2>1, <3>1, <3>2
    <3>. QED
      BY <3>2, <3>3
  <2>. QED
    BY <1>2, <2>2, <2>3, <2>4 DEF Accepted
<1>. QED
  <2>1. r = req[t] /\ b = Head(batches[t])
    BY <1>2, <1>4
  <2>. QED
    BY <1>7, <1>9, <2>1

\* A batch that is answered with a session id makes its messages accepted.
LEMMA AcceptedGrows ==
  ASSUME TypeInv, RequestInv, NEW t \in Web, pc[t] = "lock_submit",
         NEW ok \in BOOLEAN, Answered(t, ok), mode' = mode
  PROVE  \A q \in Request :
           (Accepted(q))' = IF q = req[t] /\ ok THEN Accepted(q) \union ToSet(Head(batches[t]))
                          ELSE Accepted(q)
<1>1. PICK r \in Request : \E n \in Nat, all \in Seq(Seq(Message)) :
           /\ r = req[t] /\ n = Len(answer[r]) /\ all = BatchesOf(mode, r)
           /\ n + 1 \in 1 .. Len(all) /\ Head(batches[t]) = all[n + 1]
  BY NextBatch
<1>2. PICK n \in Nat, all \in Seq(Seq(Message)) :
           /\ r = req[t] /\ n = Len(answer[r]) /\ all = BatchesOf(mode, r)
           /\ Head(batches[t]) = all[n + 1]
  BY <1>1
<1>3. answer \in [Request -> Seq(BOOLEAN)] /\ answer' = [answer EXCEPT ![r] = Append(@, ok)]
  BY <1>2, ProgramFacts DEF Answered
<1>4. ASSUME NEW q \in Request, q # r PROVE (Accepted(q))' = Accepted(q)
  <2>1. answer'[q] = answer[q]
    BY <1>3, <1>4
  <2>. QED
    BY <2>1 DEF Accepted
<1>5. PICK a \in Seq(BOOLEAN) : Appended(answer[r], ok, n, a)
  <2>1. answer[r] \in Seq(BOOLEAN)
    BY <1>3
  <2>2. PICK k \in Nat, a \in Seq(BOOLEAN) : Appended(answer[r], ok, k, a)
    BY <2>1, AppendFacts
  <2>3. k = n
    BY <1>2, <2>2 DEF Appended
  <2>. QED
    BY <2>2, <2>3
<1>6. /\ answer'[r] = a /\ DOMAIN answer[r] = 1 .. n /\ DOMAIN a = 1 .. n + 1
      /\ a[n + 1] = ok /\ \A k \in 1 .. n : a[k] = answer[r][k]
  BY <1>3, <1>5 DEF Appended
<1>7. ASSUME NEW m
      PROVE  m \in (Accepted(r))' <=> m \in Accepted(r) \/ (ok /\ m \in ToSet(all[n + 1]))
  <2>1. m \in (Accepted(r))' <=> \E k \in 1 .. n + 1 : a[k] /\ m \in ToSet(all[k])
    BY <1>2, <1>6 DEF Accepted
  <2>2. m \in Accepted(r) <=> \E k \in 1 .. n : answer[r][k] /\ m \in ToSet(all[k])
    BY <1>2, <1>6 DEF Accepted
  <2>3. (\A k \in 1 .. n + 1 : k \in 1 .. n \/ k = n + 1) /\ n + 1 \in 1 .. n + 1
        /\ (\A k \in 1 .. n : k \in 1 .. n + 1)
    OBVIOUS
  <2>4. \A k \in 1 .. n : a[k] = answer[r][k]
    BY <1>6
  <2>5. a[n + 1] = ok
    BY <1>6
  <2>. QED
    BY <2>1, <2>2, <2>3, <2>4, <2>5, Zenon
<1>8. (Accepted(r))' = IF ok THEN Accepted(r) \union ToSet(all[n + 1]) ELSE Accepted(r)
  BY <1>7
<1>. QED
  BY <1>2, <1>4, <1>8

LEMMA AcceptedSame ==
  ASSUME UNCHANGED <<mode, answer>>, NEW q
  PROVE  (Accepted(q))' = Accepted(q)
BY DEF Accepted

\* What is somewhere is what was accepted.
Cover == \A m \in Message : m \in Everything(Items) <=> m \in Accepted(m.req)

LEMMA SubmitAdds ==
  ASSUME TypeInv, RequestInv, Singly, Disjoint(Items), Cover, NEW t \in Web,
         SubmitSmis(t), Answered(t, TRUE), NEW s \in SysIds,
         to_submit' = [to_submit EXCEPT ![s] = @ \o Head(batches[t])]
  PROVE  /\ Singly'
         /\ Added(Items', Items, <<"to_submit", s>>, ToSet(Head(batches[t])))
<1>1. UNCHANGED <<wire, delivered, mo_list, got, fetched>> /\ pc[t] = "lock_submit"
  BY DEF SubmitSmis
<1>2. PICK b \in Seq(Message) :
        /\ b = Head(batches[t]) /\ IsInjective(b)
        /\ \A m \in ToSet(b) : m \in Message /\ m.req = req[t] /\ m \notin Accepted(req[t])
  BY <1>1, BatchIsNew
<1>3. \A m \in ToSet(b) : m \notin Everything(Items)
  BY <1>2 DEF Cover
<1>4. \A m \in ToSet(b) : m \notin ToSet(to_submit[s])
  <2>1. <<"to_submit", s>> \in Slots /\ Items[<<"to_submit", s>>] = ToSet(to_submit[s])
    BY SlotFacts, ItemsFacts
  <2>. QED
    BY <1>3, <2>1 DEF Everything
<1>5. PICK q : /\ q = to_submit[s] \o b /\ IsInjective(q)
               /\ ToSet(q) = ToSet(to_submit[s]) \union ToSet(b)
  <2>1. to_submit[s] \in Seq(Message) /\ IsInjective(to_submit[s])
    BY DEF TypeInv, TypeOK, SourceTypeOK, Singly
  <2>2. /\ IsInjective(to_submit[s] \o b)
        /\ ToSet(to_submit[s] \o b) = ToSet(to_submit[s]) \union ToSet(b)
    BY <1>2, <1>4, <2>1, OnceConcat
  <2>. QED
    BY <2>2
<1>6. to_submit'[s] = q /\ \A u \in SysIds : u # s => to_submit'[u] = to_submit[u]
  BY <1>2, <1>5 DEF TypeInv, TypeOK, SourceTypeOK
<1>7. Singly'
  BY <1>1, <1>5, <1>6 DEF Singly
<1>8. \A c \in Slots : c # <<"to_submit", s>> => Items'[c] = Items[c]
  <2>1. Touches({<<"to_submit", s>>})
    BY <1>1, <1>6 DEF Touches
  <2>. QED
    BY <2>1, ItemsSame
<1>9. Items'[<<"to_submit", s>>] = Items[<<"to_submit", s>>] \union ToSet(b)
  BY <1>5, <1>6, ItemsFacts, ItemsNext
<1>10. Added(Items', Items, <<"to_submit", s>>, ToSet(b))
  BY <1>3, <1>8, <1>9 DEF Added
<1>. QED
  BY <1>2, <1>7, <1>10

\* A message of the users' own is one that neither the lists of the clients,
\* nor the collection, nor the application has.
LEMMA MoAdds ==
  ASSUME TypeInv, Singly, NEW c \in ToSet(Clients), NEW x \in Mo, MoReceived(c, x)
  PROVE  /\ Singly'
         /\ \E s \in SysIds : Added(Items', Items, <<"mo_list", s>>, {x})
<1>1. UNCHANGED <<to_submit, wire, delivered, got, fetched>> /\ x \notin Seen
  BY DEF MoReceived, managerVars
<1>2. PICK s \in SysIds : mo_list[s] \in Seq(Mo) /\ mo_list' = [mo_list EXCEPT ![s] = Append(@, x)]
  BY MoReceivedType
<1>3. x \notin Message
  BY MoAssumption
<1>4. /\ x \notin ToSet(got) /\ x \notin fetched
      /\ \A u \in SysIds : /\ x \notin ToSet(mo_list[u]) /\ x \notin ToSet(to_submit[u])
                           /\ x \notin wire[u] /\ x \notin ToSet(delivered[u])
  <2>1. x \notin ToSet(got) /\ x \notin fetched /\ \A u \in SysIds : x \notin ToSet(mo_list[u])
    BY <1>1 DEF Seen
  <2>2. ASSUME NEW u \in SysIds
        PROVE  x \notin ToSet(to_submit[u]) /\ x \notin wire[u] /\ x \notin ToSet(delivered[u])
    <3>1. to_submit[u] \in Seq(Message) /\ delivered[u] \in Seq(Message) /\ wire[u] \subseteq Message
      BY DEF TypeInv, TypeOK, SourceTypeOK
    <3>. QED
      BY <1>3, <3>1 DEF ToSet
  <2>. QED
    BY <2>1, <2>2
<1>5. x \notin Everything(Items)
  <2>1. ASSUME NEW a \in Slots PROVE x \notin Items[a]
    <3>1. ASSUME NEW u \in SysIds
          PROVE  /\ x \notin Items[<<"to_submit", u>>] /\ x \notin Items[<<"wire", u>>]
                 /\ x \notin Items[<<"delivered", u>>] /\ x \notin Items[<<"mo_list", u>>]
      BY <1>4, ItemsFacts
    <3>2. x \notin Items[Got] /\ x \notin Items[Fetched]
      BY <1>4, ItemsFacts
    <3>. QED
      BY <3>1, <3>2, SlotCases
  <2>. QED
    BY <2>1 DEF Everything
<1>6. PICK q : q = Append(mo_list[s], x) /\ IsInjective(q) /\ ToSet(q) = ToSet(mo_list[s]) \union {x}
  <2>1. /\ IsInjective(Append(mo_list[s], x))
        /\ ToSet(Append(mo_list[s], x)) = ToSet(mo_list[s]) \union {x}
    <3>1. mo_list[s] \in Seq(Mo) /\ IsInjective(mo_list[s])
      BY <1>2 DEF Singly
    <3>. QED
      BY <1>4, <3>1, OnceAppend
  <2>. QED
    BY <2>1
<1>7. mo_list'[s] = q /\ \A u \in SysIds : u # s => mo_list'[u] = mo_list[u]
  BY <1>2, <1>6 DEF TypeInv, TypeOK, SourceTypeOK
<1>8. Singly'
  BY <1>1, <1>6, <1>7 DEF Singly
<1>9. \A a \in Slots : a # <<"mo_list", s>> => Items'[a] = Items[a]
  <2>1. Touches({<<"mo_list", s>>})
    BY <1>1, <1>7 DEF Touches
  <2>. QED
    BY <2>1, ItemsSame
<1>10. Items'[<<"mo_list", s>>] = Items[<<"mo_list", s>>] \union {x}
  BY <1>6, <1>7, ItemsFacts, ItemsNext
<1>11. Added(Items', Items, <<"mo_list", s>>, {x})
  BY <1>5, <1>9, <1>10 DEF Added
<1>. QED
  BY <1>8, <1>11


\* The steps that leave every message where it is.
Still == UNCHANGED <<sourceVars, got, fetched>>
Quiet == Still /\ UNCHANGED <<mode, answer>>

Moving(t) ==
  \/ VisitStatus(t) \/ VisitMos(t)
  \/ \E op \in Ops : Return(t, op)

Coming(c) ==
  \/ Send(c)
  \/ \E m : Report(c, m)
  \/ \E x \in Mo : MoReceived(c, x)

LEMMA PlaceSteps ==
  ASSUME TypeInv, [Next]_vars
  PROVE  \/ Quiet
         \/ \E t \in Web : /\ pc[t] = "lock_submit" /\ Answered(t, FALSE)
                           /\ Still /\ UNCHANGED mode
         \/ \E t \in Web : SubmitSmis(t)
         \/ \E t \in Threads : Moving(t)
         \/ \E c \in ToSet(Clients) : Coming(c)
<1>1. ASSUME UNCHANGED <<mode, answer, sourceVars, got, fetched>> PROVE Quiet
  BY <1>1 DEF Quiet, Still
<1>2. ASSUME NEW t \in Threads, NEW op \in Ops, Lock(t, op) PROVE Quiet
  <2>1. got = << >>
    BY <1>2 DEF Lock, TypeInv, LockInv
  <2>2. UNCHANGED <<mode, answer, sourceVars, fetched>> /\ got' = << >>
    BY <1>2 DEF Lock
  <2>. QED
    BY <1>1, <2>1, <2>2
<1>3. ASSUME NEW t \in Threads, StaleCallEmpty(t)
      PROVE  \/ Quiet
             \/ t \in Web /\ pc[t] = "lock_submit" /\ Answered(t, FALSE) /\ Still /\ UNCHANGED mode
  <2>1. Still /\ UNCHANGED mode
    BY <1>3 DEF StaleCallEmpty, Still
  <2>. QED
    BY <1>3, <2>1, StaleCallEmptyType DEF Quiet
<1>4. ASSUME NEW t \in Threads, CallStep(t)
      PROVE  \/ Quiet \/ Moving(t)
             \/ t \in Web /\ pc[t] = "lock_submit" /\ Answered(t, FALSE) /\ Still /\ UNCHANGED mode
  <2>1. CASE StaleCallCrash(t)
    BY <1>1, <2>1 DEF StaleCallCrash, managerVars
  <2>. QED
    BY <1>2, <1>3, <1>4, <2>1 DEF CallStep, Moving
<1>5. ASSUME NEW t \in Web, Arrive(t) PROVE Quiet
  BY <1>1, <1>5 DEF Arrive, TakeRequest, GetDlrs, GetMos, managerVars
<1>6. ASSUME NEW t \in Web, Format(t) \/ FormatCrash(t) \/ GetInstance(t) PROVE Quiet
  BY <1>1, <1>6 DEF Format, FormatCrash, GetInstance, managerVars
<1>7. ASSUME GetMos(MainThread) \/ GetDlrs(MainThread) \/ Exit \/ MainMove PROVE Quiet
  BY <1>1, <1>7
     DEF GetMos, GetDlrs, Exit, MainMove, HaveInstance, WriteStatistic, Logged, managerVars
<1>8. ASSUME Signal \/ StopStep PROVE Quiet
  BY <1>1, <1>8 DEF Signal, StopStep, StopAllBegin, StopClient, StopAllEnd, programVars, managerVars
<1>9. CASE UNCHANGED vars
  BY <1>1, <1>9 DEF vars, programVars, managerVars
<1>10. ASSUME NEW t \in Web, WebStep(t)
       PROVE  \/ Quiet \/ Moving(t) \/ SubmitSmis(t)
              \/ pc[t] = "lock_submit" /\ Answered(t, FALSE) /\ Still /\ UNCHANGED mode
  BY <1>4, <1>6, <1>10, PcFacts DEF WebStep
<1>11. ASSUME MainStep PROVE Quiet \/ Moving(MainThread)
  BY <1>4, <1>7, <1>11, PcFacts DEF MainStep, MainMove
<1>12. ASSUME ConnectionStep PROVE \E c \in ToSet(Clients) : Coming(c)
  BY <1>12 DEF ConnectionStep, Coming
<1>13. ASSUME NEW c \in ToSet(Clients), NEW x \in Mo, MoReceived(c, x) PROVE Coming(c)
  BY <1>13 DEF Coming
<1>. QED
  BY <1>5, <1>8, <1>9, <1>10, <1>11, <1>12, <1>13, PcFacts DEF Next, Finished

\* A message is in at most one slot and there once; those that are somewhere
\* are the accepted ones.
PlaceInv == Disjoint(Items) /\ Singly /\ Cover

LEMMA CoverSame ==
  ASSUME Cover, \A q \in Request : (Accepted(q))' = Accepted(q),
         \A m \in Message : m \in Everything(Items') <=> m \in Everything(Items)
  PROVE  Cover'
<1>1. ASSUME NEW m \in Message PROVE m \in Everything(Items') <=> m \in (Accepted(m.req))'
  BY MessageFacts DEF Cover
<1>. QED
  BY <1>1 DEF Cover

LEMMA StillPlaces ==
  ASSUME PlaceInv, Still
  PROVE  Items' = Items /\ Singly'
BY DEF PlaceInv, Still, sourceVars, Items, Singly

LEMMA MovedPlaces ==
  ASSUME PlaceInv, Singly', UNCHANGED <<mode, answer>>,
         NEW a \in Slots, NEW b \in Slots, a # b, NEW X, Moved(Items', Items, a, b, X)
  PROVE  PlaceInv'
<1>1. Disjoint(Items') /\ Everything(Items') = Everything(Items)
  BY MovedFacts DEF PlaceInv
<1>2. Cover'
  BY <1>1, AcceptedSame, CoverSame DEF PlaceInv
<1>. QED
  BY <1>1, <1>2 DEF PlaceInv

LEMMA PlaceStep ==
  ASSUME TypeInv, RequestInv, PlaceInv, [Next]_vars
  PROVE  PlaceInv'
<1>1. Disjoint(Items) /\ Singly /\ Cover
  BY DEF PlaceInv
<1>2. CASE Quiet
  <2>1. Items' = Items /\ Singly' /\ UNCHANGED <<mode, answer>>
    BY <1>2, StillPlaces DEF Quiet
  <2>2. Cover'
    BY <1>1, <2>1, AcceptedSame, CoverSame
  <2>. QED
    BY <1>1, <2>1, <2>2 DEF PlaceInv
<1>3. ASSUME NEW t \in Web, pc[t] = "lock_submit", Answered(t, FALSE), Still, UNCHANGED mode
      PROVE  PlaceInv'
  <2>1. Items' = Items /\ Singly'
    BY <1>3, StillPlaces
  <2>2. \A q \in Request : (Accepted(q))' = Accepted(q)
    BY <1>3, AcceptedGrows
  <2>3. Cover'
    BY <1>1, <2>1, <2>2, CoverSame
  <2>. QED
    BY <1>1, <2>1, <2>3 DEF PlaceInv
<1>4. ASSUME NEW t \in Web, SubmitSmis(t) PROVE PlaceInv'
  <2>1. /\ pc[t] = "lock_submit" /\ mode' = mode
        /\ UNCHANGED <<wire, delivered, mo_list, got, fetched>>
    BY <1>4 DEF SubmitSmis
  <2>2. CASE Answered(t, FALSE) /\ to_submit' = to_submit
    <3>1. Still
      BY <2>1, <2>2 DEF Still, sourceVars
    <3>. QED
      BY <1>3, <2>1, <2>2, <3>1
  <2>3. ASSUME Answered(t, TRUE), NEW s \in SysIds,
               to_submit' = [to_submit EXCEPT ![s] = @ \o Head(batches[t])]
        PROVE  PlaceInv'
    <3>1. PICK X : X = ToSet(Head(batches[t]))
      OBVIOUS
    <3>2. Singly' /\ Added(Items', Items, <<"to_submit", s>>, X)
      BY <1>1, <1>4, <2>3, <3>1, SubmitAdds
    <3>3. Disjoint(Items') /\ Everything(Items') = Everything(Items) \union X
      BY <1>1, <3>2, AddedFacts, SlotFacts
    <3>4. req[t] \in Request /\ \A m \in X : m.req = req[t]
      BY <2>1, <3>1, BatchIsNew
    <3>5. \A q \in Request :
            (Accepted(q))' = IF q = req[t] THEN Accepted(q) \union X ELSE Accepted(q)
      BY <2>1, <2>3, <3>1, AcceptedGrows
    <3>6. ASSUME NEW m \in Message PROVE m \in Everything(Items') <=> m \in (Accepted(m.req))'
      <4>1. m.req \in Request /\ (m \in Everything(Items) <=> m \in Accepted(m.req))
        BY <1>1, MessageFacts DEF Cover
      <4>. QED
        BY <3>3, <3>4, <3>5, <4>1
    <3>. QED
      BY <3>2, <3>3, <3>6 DEF PlaceInv, Cover
  <2>. QED
    BY <1>4, <2>2, <2>3, SubmitEffect
<1>5. ASSUME NEW t \in Threads, Moving(t) PROVE PlaceInv'
  <2>1. CASE VisitStatus(t)
    <3>1. UNCHANGED <<mode, answer>>
      BY <2>1 DEF VisitStatus, programVars
    <3>2. PICK s \in SysIds : \E X : Moved(Items', Items, <<"delivered", s>>, Got, X)
      BY <1>1, <2>1, VisitStatusMoves
    <3>3. <<"delivered", s>> # Got
      BY DEF Got
    <3>. QED
      BY <1>1, <2>1, <3>1, <3>2, <3>3, VisitStatusMoves, MovedPlaces, SlotFacts
  <2>2. CASE VisitMos(t)
    <3>1. UNCHANGED <<mode, answer>>
      BY <2>2 DEF VisitMos, programVars
    <3>2. PICK s \in SysIds : \E X : Moved(Items', Items, <<"mo_list", s>>, Got, X)
      BY <1>1, <2>2, VisitMosMoves
    <3>3. <<"mo_list", s>> # Got
      BY DEF Got
    <3>. QED
      BY <1>1, <2>2, <3>1, <3>2, <3>3, VisitMosMoves, MovedPlaces, SlotFacts
  <2>3. ASSUME NEW op \in Ops, Return(t, op) PROVE PlaceInv'
    <3>1. UNCHANGED <<mode, answer>>
      BY <2>3 DEF Return
    <3>2. Singly' /\ Moved(Items', Items, Got, Fetched, ToSet(got))
      BY <1>1, <2>3, ReturnMoves
    <3>3. Got # Fetched
      BY DEF Got, Fetched
    <3>. QED
      BY <3>1, <3>2, <3>3, MovedPlaces, SlotFacts
  <2>. QED
    BY <1>5, <2>1, <2>2, <2>3 DEF Moving
<1>6. ASSUME NEW c \in ToSet(Clients), Coming(c) PROVE PlaceInv'
  <2>1. CASE Send(c)
    <3>1. UNCHANGED <<mode, answer>>
      BY <2>1 DEF Send, programVars
    <3>2. PICK s \in SysIds : \E m \in Message :
            Moved(Items', Items, <<"to_submit", s>>, <<"wire", s>>, {m})
      BY <1>1, <2>1, SendMoves
    <3>3. <<"to_submit", s>> # <<"wire", s>>
      OBVIOUS
    <3>. QED
      BY <1>1, <2>1, <3>1, <3>2, <3>3, SendMoves, MovedPlaces, SlotFacts
  <2>2. ASSUME NEW m, Report(c, m) PROVE PlaceInv'
    <3>1. UNCHANGED <<mode, answer>>
      BY <2>2 DEF Report, programVars
    <3>2. PICK s \in SysIds : Moved(Items', Items, <<"wire", s>>, <<"delivered", s>>, {m})
      BY <1>1, <2>2, ReportMoves
    <3>3. <<"wire", s>> # <<"delivered", s>>
      OBVIOUS
    <3>. QED
      BY <1>1, <2>2, <3>1, <3>2, <3>3, ReportMoves, MovedPlaces, SlotFacts
  <2>3. ASSUME NEW x \in Mo, MoReceived(c, x) PROVE PlaceInv'
    <3>1. UNCHANGED <<mode, answer>>
      BY <2>3 DEF MoReceived, programVars
    <3>2. PICK s \in SysIds : Added(Items', Items, <<"mo_list", s>>, {x})
      BY <1>1, <2>3, MoAdds
    <3>3. Disjoint(Items') /\ Everything(Items') = Everything(Items) \union {x}
      BY <1>1, <3>2, AddedFacts, SlotFacts
    <3>4. x \notin Message
      BY MoAssumption
    <3>5. Cover'
      BY <1>1, <3>1, <3>3, <3>4, AcceptedSame, CoverSame
    <3>. QED
      BY <1>1, <2>3, <3>3, <3>5, MoAdds DEF PlaceInv
  <2>. QED
    BY <1>6, <2>1, <2>2, <2>3 DEF Coming
<1>. QED
  BY <1>2, <1>3, <1>4, <1>5, <1>6, PlaceSteps


LEMMA PlaceInit ==
  ASSUME Init
  PROVE  PlaceInv
<1>1. \A a \in Slots : Items[a] = {}
  <2>1. ToSet(<< >>) = {}
    BY DEF ToSet
  <2>2. Items[Got] = {} /\ Items[Fetched] = {}
    BY <2>1, ItemsFacts DEF Init
  <2>3. ASSUME NEW s \in SysIds
        PROVE  /\ Items[<<"to_submit", s>>] = {} /\ Items[<<"wire", s>>] = {}
               /\ Items[<<"delivered", s>>] = {} /\ Items[<<"mo_list", s>>] = {}
    BY <2>1, ItemsFacts DEF Init
  <2>. QED
    BY <2>2, <2>3, SlotCases
<1>2. Disjoint(Items) /\ Everything(Items) = {}
  BY <1>1 DEF Disjoint, Everything
<1>3. Singly
  <2>1. IsInjective(<< >>)
    BY DEF IsInjective
  <2>. QED
    BY <2>1 DEF Init, Singly
<1>4. \A q \in Request : Accepted(q) = {}
  BY DEF Init, Accepted
<1>5. Cover
  BY <1>2, <1>4, MessageFacts DEF Cover
<1>. QED
  BY <1>2, <1>3, <1>5 DEF PlaceInv

\* The places of m in one slot.
PlacesIn(a, m) ==
  IF a[1] = "to_submit" THEN {<<"to_submit", a[2], i>> : i \in Spots(to_submit[a[2]], m)}
  ELSE IF a[1] = "wire" THEN {<<"wire", a[2]>> : x \in {m} \intersect wire[a[2]]}
  ELSE IF a[1] = "delivered" THEN {<<"delivered", a[2], i>> : i \in Spots(delivered[a[2]], m)}
  ELSE IF a[1] = "mo_list" THEN {<<"mo_list", a[2], i>> : i \in Spots(mo_list[a[2]], m)}
  ELSE IF a[1] = "got" THEN {<<"got", i>> : i \in Spots(got, m)}
  ELSE {<<"fetched">> : f \in {m} \intersect fetched}

LEMMA PlacesInFacts ==
  ASSUME NEW m
  PROVE  /\ PlacesIn(Got, m) = {<<"got", i>> : i \in Spots(got, m)}
         /\ PlacesIn(Fetched, m) = {<<"fetched">> : f \in {m} \intersect fetched}
         /\ \A s \in SysIds :
              /\ PlacesIn(<<"to_submit", s>>, m) = {<<"to_submit", s, i>> : i \in Spots(to_submit[s], m)}
              /\ PlacesIn(<<"wire", s>>, m) = {<<"wire", s>> : x \in {m} \intersect wire[s]}
              /\ PlacesIn(<<"delivered", s>>, m) = {<<"delivered", s, i>> : i \in Spots(delivered[s], m)}
              /\ PlacesIn(<<"mo_list", s>>, m) = {<<"mo_list", s, i>> : i \in Spots(mo_list[s], m)}
BY DEF PlacesIn, Got, Fetched

\* A sequence that holds nothing twice has one spot for what it holds.
LEMMA SpotFacts ==
  ASSUME NEW q, NEW m
  PROVE  /\ Spots(q, m) # {} <=> m \in ToSet(q)
         /\ IsInjective(q) => \A i, j \in Spots(q, m) : i = j
<1>1. Spots(q, m) # {} <=> m \in ToSet(q)
  BY DEF Spots, ToSet
<1>2. IsInjective(q) => \A i, j \in Spots(q, m) : i = j
  BY DEF IsInjective, Spots
<1>. QED
  BY <1>1, <1>2

LEMMA PlacesAreOne ==
  ASSUME Singly, NEW m, NEW a \in Slots
  PROVE  /\ PlacesIn(a, m) # {} <=> m \in Items[a]
         /\ \A p, q \in PlacesIn(a, m) : p = q
<1>1. CASE a = Got
  <2>1. PlacesIn(a, m) = {<<"got", i>> : i \in Spots(got, m)} /\ Items[a] = ToSet(got)
    BY <1>1, PlacesInFacts, ItemsFacts
  <2>2. \A i, j \in Spots(got, m) : i = j
    BY SpotFacts DEF Singly
  <2>. QED
    BY <2>1, <2>2, SpotFacts
<1>2. CASE a = Fetched
  <2>1. PlacesIn(a, m) = {<<"fetched">> : f \in {m} \intersect fetched} /\ Items[a] = fetched
    BY <1>2, PlacesInFacts, ItemsFacts
  <2>. QED
    BY <2>1
<1>3. ASSUME NEW s \in SysIds, a = <<"wire", s>>
      PROVE  /\ PlacesIn(a, m) # {} <=> m \in Items[a]
             /\ \A p, q \in PlacesIn(a, m) : p = q
  <2>1. PlacesIn(a, m) = {<<"wire", s>> : x \in {m} \intersect wire[s]} /\ Items[a] = wire[s]
    BY <1>3, PlacesInFacts, ItemsFacts
  <2>. QED
    BY <2>1
<1>4. ASSUME NEW n, NEW s, NEW f, IsInjective(f), Items[a] = ToSet(f),
             PlacesIn(a, m) = {<<n, s, i>> : i \in Spots(f, m)}
      PROVE  /\ PlacesIn(a, m) # {} <=> m \in Items[a]
             /\ \A p, q \in PlacesIn(a, m) : p = q
  <2>1. \A i, j \in Spots(f, m) : i = j
    BY <1>4, SpotFacts
  <2>2. Spots(f, m) # {} <=> m \in ToSet(f)
    BY SpotFacts
  <2>. QED
    BY <1>4, <2>1, <2>2
<1>5. ASSUME NEW s \in SysIds, a \in {<<"to_submit", s>>, <<"delivered", s>>, <<"mo_list", s>>}
      PROVE  /\ PlacesIn(a, m) # {} <=> m \in Items[a]
             /\ \A p, q \in PlacesIn(a, m) : p = q
  <2>1. CASE a = <<"to_submit", s>>
    <3>1. /\ IsInjective(to_submit[s]) /\ Items[a] = ToSet(to_submit[s])
      BY <2>1, ItemsFacts DEF Singly
    <3>2. PlacesIn(a, m) = {<<"to_submit", s, i>> : i \in Spots(to_submit[s], m)}
      BY <2>1, PlacesInFacts
    <3>. QED
      BY <1>4, <3>1, <3>2
  <2>2. CASE a = <<"delivered", s>>
    <3>1. /\ IsInjective(delivered[s]) /\ Items[a] = ToSet(delivered[s])
      BY <2>2, ItemsFacts DEF Singly
    <3>2. PlacesIn(a, m) = {<<"delivered", s, i>> : i \in Spots(delivered[s], m)}
      BY <2>2, PlacesInFacts
    <3>. QED
      BY <1>4, <3>1, <3>2
  <2>3. CASE a = <<"mo_list", s>>
    <3>1. /\ IsInjective(mo_list[s]) /\ Items[a] = ToSet(mo_list[s])
      BY <2>3, ItemsFacts DEF Singly
    <3>2. PlacesIn(a, m) = {<<"mo_list", s, i>> : i \in Spots(mo_list[s], m)}
      BY <2>3, PlacesInFacts
    <3>. QED
      BY <1>4, <3>1, <3>2
  <2>. QED
    BY <1>5, <2>1, <2>2, <2>3
<1>. QED
  BY <1>1, <1>2, <1>3, <1>5, SlotCases

\* At most one place, in whichever slots one looks.
LEMMA OneOfAll ==
  ASSUME Disjoint(Items), Singly, NEW m, NEW A \in SUBSET Slots,
         NEW P, P = UNION {PlacesIn(a, m) : a \in A}
  PROVE  Cardinality(P) = IF \E a \in A : m \in Items[a] THEN 1 ELSE 0
<1>1. CASE \E a \in A : m \in Items[a]
  <2>1. PICK a \in A : m \in Items[a]
    BY <1>1
  <2>2. PICK p : p \in PlacesIn(a, m)
    BY <2>1, PlacesAreOne
  <2>3. ASSUME NEW q \in P PROVE q = p
    <3>1. PICK b \in A : q \in PlacesIn(b, m)
      OBVIOUS
    <3>2. m \in Items[b]
      BY <3>1, PlacesAreOne
    <3>3. a = b
      BY <2>1, <3>2 DEF Disjoint
    <3>. QED
      BY <2>2, <3>1, <3>3, PlacesAreOne
  <2>4. P = {p}
    BY <2>2, <2>3
  <2>. QED
    BY <1>1, <2>4, FS_Singleton
<1>2. CASE ~\E a \in A : m \in Items[a]
  <2>1. P = {}
    BY <1>2, PlacesAreOne
  <2>. QED
    BY <1>2, <2>1, FS_EmptySet
<1>. QED
  BY <1>1, <1>2

\* The slots of messages, and those of mobile originated messages.
MtSlots == ({"to_submit", "wire", "delivered"} \X SysIds) \union {Got, Fetched}
MoSlots == ({"mo_list"} \X SysIds) \union {Got, Fetched}

LEMMA PlacesUnion ==
  ASSUME NEW m
  PROVE  /\ Places(m) = UNION {PlacesIn(a, m) : a \in MtSlots}
         /\ MoPlaces(m) = UNION {PlacesIn(a, m) : a \in MoSlots}
         /\ MtSlots \subseteq Slots /\ MoSlots \subseteq Slots
<1>1. MtSlots \subseteq Slots /\ MoSlots \subseteq Slots
  BY DEF MtSlots, MoSlots, Slots
<1>2. \A a \in MtSlots : \/ a = Got \/ a = Fetched
                         \/ \E s \in SysIds : a \in {<<"to_submit", s>>, <<"wire", s>>, <<"delivered", s>>}
  BY DEF MtSlots
<1>3. \A a \in MoSlots : a = Got \/ a = Fetched \/ \E s \in SysIds : a = <<"mo_list", s>>
  BY DEF MoSlots
<1>4. /\ Got \in MtSlots /\ Fetched \in MtSlots /\ Got \in MoSlots /\ Fetched \in MoSlots
      /\ \A s \in SysIds : /\ <<"to_submit", s>> \in MtSlots /\ <<"wire", s>> \in MtSlots
                           /\ <<"delivered", s>> \in MtSlots /\ <<"mo_list", s>> \in MoSlots
  BY DEF MtSlots, MoSlots
<1>5. ASSUME NEW p PROVE p \in Places(m) <=> \E a \in MtSlots : p \in PlacesIn(a, m)
  <2>1. p \in Places(m) <=>
          \/ \E s \in SysIds : p \in PlacesIn(<<"to_submit", s>>, m)
          \/ \E s \in SysIds : p \in PlacesIn(<<"wire", s>>, m)
          \/ \E s \in SysIds : p \in PlacesIn(<<"delivered", s>>, m)
          \/ p \in PlacesIn(Got, m) \/ p \in PlacesIn(Fetched, m)
    <3>1. p \in Places(m) <=>
            \/ p \in UNION {{<<"to_submit", s, i>> : i \in Spots(to_submit[s], m)} : s \in SysIds}
            \/ p \in {<<"wire", s>> : s \in {s \in SysIds : m \in wire[s]}}
            \/ p \in UNION {{<<"delivered", s, i>> : i \in Spots(delivered[s], m)} : s \in SysIds}
            \/ p \in {<<"got", i>> : i \in Spots(got, m)}
            \/ p \in {<<"fetched">> : f \in {m} \intersect fetched}
      BY DEF Places
    <3>2. \A s \in SysIds : p \in PlacesIn(<<"wire", s>>, m) <=> p = <<"wire", s>> /\ m \in wire[s]
      <4>1. ASSUME NEW s \in SysIds
            PROVE  PlacesIn(<<"wire", s>>, m) = {<<"wire", s>> : x \in {m} \intersect wire[s]}
        BY PlacesInFacts
      <4>. QED
        BY <4>1
    <3>3. p \in UNION {{<<"to_submit", s, i>> : i \in Spots(to_submit[s], m)} : s \in SysIds}
            <=> \E s \in SysIds : p \in {<<"to_submit", s, i>> : i \in Spots(to_submit[s], m)}
      OBVIOUS
    <3>4. p \in {<<"wire", s>> : s \in {s \in SysIds : m \in wire[s]}}
            <=> \E s \in SysIds : p \in PlacesIn(<<"wire", s>>, m)
      BY <3>2
    <3>5. p \in UNION {{<<"delivered", s, i>> : i \in Spots(delivered[s], m)} : s \in SysIds}
            <=> \E s \in SysIds : p \in {<<"delivered", s, i>> : i \in Spots(delivered[s], m)}
      OBVIOUS
    <3>. QED
      BY <3>1, <3>3, <3>4, <3>5, PlacesInFacts
  <2>2. ASSUME NEW a \in MtSlots, p \in PlacesIn(a, m) PROVE p \in Places(m)
    BY <1>2, <2>1, <2>2
  <2>. QED
    BY <1>4, <2>1, <2>2
<1>6. ASSUME NEW p PROVE p \in MoPlaces(m) <=> \E a \in MoSlots : p \in PlacesIn(a, m)
  <2>1. p \in MoPlaces(m) <=>
          \/ \E s \in SysIds : p \in PlacesIn(<<"mo_list", s>>, m)
          \/ p \in PlacesIn(Got, m) \/ p \in PlacesIn(Fetched, m)
    <3>1. p \in MoPlaces(m) <=>
            \/ \E s \in SysIds : p \in {<<"mo_list", s, i>> : i \in Spots(mo_list[s], m)}
            \/ p \in {<<"got", i>> : i \in Spots(got, m)}
            \/ p \in {<<"fetched">> : f \in {m} \intersect fetched}
      BY DEF MoPlaces
    <3>. QED
      BY <3>1, PlacesInFacts
  <2>2. ASSUME NEW a \in MoSlots, p \in PlacesIn(a, m) PROVE p \in MoPlaces(m)
    BY <1>3, <2>1, <2>2
  <2>. QED
    BY <1>4, <2>1, <2>2
<1>. QED
  BY <1>1, <1>5, <1>6


(***************************************************************************)
(* A message whose batch was answered with a session id is in exactly one  *)
(* place: a queue, a connection, the reports, the collection of the call   *)
(* under way or the application; one whose batch was refused or is not     *)
(* answered yet is in none.  The batches of a request are disjoint, each   *)
(* is submitted once, and what is in a slot moves to one other or stays.   *)
(***************************************************************************)
THEOREM OnePlaceHolds == Spec => []OnePlace
<1>1. Init => TypeInv /\ RequestInv /\ PlaceInv
  BY TypeInit, RequestInit, PlaceInit
<1>2. TypeInv /\ RequestInv /\ PlaceInv /\ [Next]_vars => (TypeInv /\ RequestInv /\ PlaceInv)'
  BY TypeStep, RequestStep, PlaceStep
<1>3. TypeInv /\ PlaceInv => OnePlace
  <2>1. SUFFICES ASSUME TypeInv, PlaceInv, NEW m \in Message
                 PROVE  Cardinality(Places(m)) = IF m \in Accepted(m.req) THEN 1 ELSE 0
    BY DEF OnePlace
  <2>2. Cardinality(Places(m)) = IF \E a \in MtSlots : m \in Items[a] THEN 1 ELSE 0
    BY <2>1, PlacesUnion, OneOfAll DEF PlaceInv
  <2>3. \A s \in SysIds : m \notin Items[<<"mo_list", s>>]
    <3>1. ASSUME NEW s \in SysIds PROVE m \notin ToSet(mo_list[s])
      <4>1. mo_list[s] \in Seq(Mo) /\ m \notin Mo
        BY <2>1, MoAssumption DEF TypeInv, TypeOK, SourceTypeOK
      <4>. QED
        BY <4>1 DEF ToSet
    <3>. QED
      BY <3>1, ItemsFacts
  <2>4. \A a \in Slots : a \in MtSlots \/ \E s \in SysIds : a = <<"mo_list", s>>
    BY DEF Slots, MtSlots
  <2>5. m \in Everything(Items) <=> \E a \in MtSlots : m \in Items[a]
    BY <2>3, <2>4, PlacesUnion DEF Everything
  <2>. QED
    BY <2>1, <2>2, <2>5 DEF PlaceInv, Cover
<1>. QED
  BY <1>1, <1>2, <1>3, PTL DEF Spec

\* What came in stays with the application or on its way there.
LEMMA SeenStays ==
  ASSUME TypeInv, [Next]_vars
  PROVE  Seen \subseteq Seen'
<1>1. \A x : x \in Seen <=> x \in fetched \/ x \in ToSet(got) \/ \E s \in SysIds : x \in ToSet(mo_list[s])
  BY DEF Seen
<1>2. \A x : x \in Seen' <=> x \in fetched' \/ x \in ToSet(got') \/ \E s \in SysIds : x \in ToSet(mo_list'[s])
  BY DEF Seen
<1>3. ASSUME UNCHANGED <<fetched, got, mo_list>> PROVE Seen \subseteq Seen'
  BY <1>3 DEF Seen
<1>4. CASE Still
  BY <1>3, <1>4 DEF Still, sourceVars
<1>5. ASSUME NEW t \in Web, SubmitSmis(t) PROVE Seen \subseteq Seen'
  BY <1>3, <1>5 DEF SubmitSmis
<1>6. ASSUME NEW t \in Threads, VisitStatus(t) PROVE Seen \subseteq Seen'
  <2>1. UNCHANGED <<fetched, mo_list>>
    BY <1>6 DEF VisitStatus
  <2>2. PICK s \in SysIds, n \in Nat, a, b \in Seq(Message) : StatusVisited(s, n, a, b)
    BY <1>6, VisitStatusEffect
  <2>3. got \in Seq(Message) /\ got' = got \o a
    BY <2>2 DEF StatusVisited
  <2>4. ToSet(got) \subseteq ToSet(got')
    BY <2>3, ConcatHolds
  <2>. QED
    BY <1>1, <1>2, <2>1, <2>4
<1>7. ASSUME NEW t \in Threads, VisitMos(t) PROVE Seen \subseteq Seen'
  <2>1. UNCHANGED fetched
    BY <1>7 DEF VisitMos
  <2>2. PICK s \in SysIds : /\ got \in Seq(Mo) /\ mo_list[s] \in Seq(Mo)
                            /\ got' = got \o mo_list[s]
                            /\ mo_list' = [mo_list EXCEPT ![s] = << >>]
    BY <1>7, VisitMosEffect
  <2>3. ToSet(got) \subseteq ToSet(got') /\ ToSet(mo_list[s]) \subseteq ToSet(got')
    BY <2>2, ConcatHolds
  <2>4. \A u \in SysIds : u # s => mo_list'[u] = mo_list[u]
    BY <2>2 DEF TypeInv, TypeOK, SourceTypeOK
  <2>. QED
    BY <1>1, <1>2, <2>1, <2>3, <2>4
<1>8. ASSUME NEW t \in Threads, NEW op \in Ops, Return(t, op) PROVE Seen \subseteq Seen'
  <2>1. UNCHANGED mo_list /\ fetched' = fetched \union ToSet(got)
    BY <1>8 DEF Return, sourceVars
  <2>. QED
    BY <1>1, <1>2, <2>1
<1>9. ASSUME NEW c \in ToSet(Clients), Coming(c) PROVE Seen \subseteq Seen'
  <2>1. CASE Send(c)
    BY <1>3, <2>1 DEF Send, managerVars
  <2>2. ASSUME NEW m, Report(c, m) PROVE Seen \subseteq Seen'
    BY <1>3, <2>2 DEF Report, managerVars
  <2>3. ASSUME NEW x \in Mo, MoReceived(c, x) PROVE Seen \subseteq Seen'
    <3>1. UNCHANGED <<fetched, got>>
      BY <2>3 DEF MoReceived, managerVars
    <3>2. PICK s \in SysIds : mo_list[s] \in Seq(Mo) /\ mo_list' = [mo_list EXCEPT ![s] = Append(@, x)]
      BY <2>3, MoReceivedType
    <3>3. ToSet(mo_list[s]) \subseteq ToSet(Append(mo_list[s], x))
      <4>1. PICK n \in Nat, q \in Seq(Mo) : Appended(mo_list[s], x, n, q)
        BY <3>2, AppendFacts
      <4>. QED
        BY <4>1 DEF Appended, ToSet
    <3>4. \A u \in SysIds : ToSet(mo_list[u]) \subseteq ToSet(mo_list'[u])
      BY <3>2, <3>3 DEF TypeInv, TypeOK, SourceTypeOK
    <3>. QED
      BY <1>1, <1>2, <3>1, <3>4
  <2>. QED
    BY <1>9, <2>1, <2>2, <2>3 DEF Coming
<1>. QED
  BY <1>4, <1>5, <1>6, <1>7, <1>8, <1>9, PlaceSteps DEF Quiet, Moving

(***************************************************************************)
(* A mobile originated message that came in stays with the program or the  *)
(* application, whatever is fetched, submitted and stopped meanwhile, and  *)
(* is there once: a list that is emptied goes into the collection of the   *)
(* caller whole, and that one to the application.                          *)
(***************************************************************************)
THEOREM MosKeptHolds == Spec => MosKept
<1>1. Init => TypeInv /\ RequestInv /\ PlaceInv
  BY TypeInit, RequestInit, PlaceInit
<1>2. TypeInv /\ RequestInv /\ PlaceInv /\ [Next]_vars => (TypeInv /\ RequestInv /\ PlaceInv)'
  BY TypeStep, RequestStep, PlaceStep
<1>3. TypeInv /\ [Next]_vars => [Seen \subseteq Seen']_vars
  BY SeenStays
<1>4. PlaceInv => \A x \in Mo : Cardinality(MoPlaces(x)) <= 1
  <2>1. SUFFICES ASSUME PlaceInv, NEW x \in Mo PROVE Cardinality(MoPlaces(x)) <= 1
    OBVIOUS
  <2>2. Cardinality(MoPlaces(x)) = IF \E a \in MoSlots : x \in Items[a] THEN 1 ELSE 0
    BY <2>1, PlacesUnion, OneOfAll DEF PlaceInv
  <2>. QED
    BY <2>2
<1>. QED
  BY <1>1, <1>2, <1>3, <1>4, PTL DEF Spec, MosKept

=============================================================================
