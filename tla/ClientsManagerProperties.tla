---------------------- MODULE ClientsManagerProperties ----------------------
(***************************************************************************)
(* What the client program owes its users: texts that arrive whole, every  *)
(* accepted message in one place, reports handed over once, and a stop      *)
(* that stops.                                                             *)
(***************************************************************************)
EXTENDS ClientsManager

\* What each request becomes in each mode, where formatting comes to an end.
Jobs == {j \in Modes \X Request : Divides(j[1], j[2]) /\ Splits(j[1], j[2])}
Formats == [j \in Jobs |-> FormatSms(j[1], j[2])]

BatchesOf(how, r) ==
  IF <<how, r>> \in Jobs THEN Formats[<<how, r>>] ELSE << >>

Message == UNION {UNION {ToSet(b) : b \in ToSet(Formats[j])} : j \in Jobs}

\* What the application gets back is a report or a message of its own.
ASSUME MoAssumption == Mo \intersect Message = {}

\* Everything a thread may be doing.
ControlPoints ==
  {"idle", "sleep", "format", "submit", "dlrs", "log_dlrs", "log_sleep", "log_mos"}
    \union {InstPc[op] : op \in Ops} \union Waiting \union {InPc[op] : op \in Ops}

\* The values the variables take.
ProgramTypeOK ==
  /\ alive \in BOOLEAN /\ mode \in Modes /\ arriving \subseteq Request
  /\ pc \in [Threads -> ControlPoints]
  /\ req \in [Web -> Request \union {NoRequest}]
  /\ batches \in [Web -> Seq(Seq(Message))]
  /\ answer \in [Request -> Seq(BOOLEAN)]
  /\ polls \in 0 .. PollsPerWake
  /\ sig \in {"no", "run", "stop", "done"}
  /\ fetched \subseteq Message \union Mo

ManagerTypeOK ==
  /\ clients_ \in {Clients, << >>}
  /\ last_index \in 0 .. Len(Clients) - 1
  /\ holder \in Threads \union {None}
  /\ visit \in 0 .. Len(clients_)
  /\ got \in Seq(Message \union Mo)
  /\ freed \in BOOLEAN
  /\ stale \subseteq Threads

SourceTypeOK ==
  /\ {to_submit, delivered} \subseteq [SysIds -> Seq(Message)]
  /\ wire \in [SysIds -> SUBSET Message]
  /\ mo_list \in [SysIds -> Seq(Mo)]

TypeOK == ProgramTypeOK /\ ManagerTypeOK /\ SourceTypeOK

(***************************************************************************)
(* Splitting and formatting.  The text of one destination is what its      *)
(* batches say, in the order of the parts.                                 *)
(***************************************************************************)
Parts(t, i) ==
  Only(FlattenSeq(batches[t]), {m \in Message : m.dst = i})

Formatted(t) ==
  pc[t] = "submit" /\ Len(batches[t]) = Len(BatchesOf(mode, req[t]))

Spelled(parts) == FlattenSeq([j \in DOMAIN parts |-> parts[j].part.content])

\* The messages of one destination spell its text, for ASCII texts of every
\* length and for UCS2 texts that need at most two segments.
SegmentsSpellText ==
  \A t \in Web : Formatted(t) =>
    \A i \in Destinations(req[t]) :
      LET text == TextFor(mode, TextOf(req[t]), i) IN
      (IsPureAscii(text) \/ NumberOfSegments(text) <= 2)
         => Spelled(Parts(t, i)) \in {text, Ucs2ToUtf8(text)}

\* The comment at the call says that the text is split: the messages of one
\* destination spell its text, in UCS2 as well (up to the capacity).
Ucs2SegmentsSpellText ==
  \A t \in Web : Formatted(t) =>
    \A i \in Destinations(req[t]) :
      LET text == TextFor(mode, TextOf(req[t]), i) IN
      Len(text) <= Capacity(text)
         => Spelled(Parts(t, i)) \in {text, Ucs2ToUtf8(text)}

\* Up to the capacity of the header every segment carries its own place and
\* the number of segments, so a receiver knows when it has them all; each is
\* within the limit of its encoding, which is lower for the segments that have
\* a header; and none is empty unless its characters were lost.
SegmentsNumbered ==
  \A t \in Web : Formatted(t) =>
    \A i \in Destinations(req[t]) :
      LET text  == TextFor(mode, TextOf(req[t]), i)
          parts == Parts(t, i)
      IN  Len(text) <= Capacity(text) =>
            \A j \in DOMAIN parts :
              /\ parts[j].part.index = j
              /\ parts[j].part.total = Len(parts)
              /\ Len(parts[j].part.content) <=
                   IF Len(parts) = 1 THEN MaxSingle(text) ELSE MaxMultipart(text)
              /\ parts[j].part.content = << >> => text = << >> \/ Holds(text, Lost)

\* In mode 2, texts of multi-byte characters only: no two destinations get
\* the same text before all characters to insert have gone round once.
DestinationsDiffer ==
  \A t \in Web : Formatted(t) /\ mode = 2 =>
    LET text == TextOf(req[t]) IN
    Cardinality(MultiByte(text)) = Len(text) =>
      \A i, j \in Destinations(req[t]) :
        i < j /\ j <= Len(text) * Len(InsertedChars)
          => TextFor(mode, text, i) # TextFor(mode, text, j)

(***************************************************************************)
(* The manager.                                                            *)
(***************************************************************************)

\* In the queue of a system id a segment is followed by the next one of its
\* text: neither two batches nor two web threads ever tear a text apart.
PartsTogether ==
  \A s \in SysIds : \A p \in DOMAIN to_submit[s] :
    LET m == to_submit[s][p] IN
    m.nr < Len(SplitLongSm(TextFor(mode, TextOf(m.req), m.dst))) =>
      /\ p < Len(to_submit[s])
      /\ LET n == to_submit[s][p + 1]
         IN  n.req = m.req /\ n.dst = m.dst /\ n.nr = m.nr + 1

\* A queue that holds messages has a client that may send them.
QueuedCanBeSent ==
  \A s \in SysIds : to_submit[s] # << >> =>
    \E c \in ToSet(Clients) : SysIdOf(c) = s /\ CanSend(c)

\* No call returns more reports than the caller asked for, however many
\* clients it visits and whatever they receive meanwhile.
PerCallLimit ==
  (\E t \in Threads : pc[t] = InPc.dlrs) => Len(got) <= ToGet

Accepted(r) ==
  UNION {ToSet(BatchesOf(mode, r)[k]) :
           k \in {k \in DOMAIN answer[r] : answer[r][k]}}

Spots(seq, m) == {i \in DOMAIN seq : seq[i] = m}

\* Where a message is, each of its places in a queue being one.
Places(m) ==
  (UNION {{<<"to_submit", s, i>> : i \in Spots(to_submit[s], m)} : s \in SysIds})
  \union {<<"wire", s>> : s \in {s \in SysIds : m \in wire[s]}}
  \union (UNION {{<<"delivered", s, i>> : i \in Spots(delivered[s], m)} : s \in SysIds})
  \union {<<"got", i>> : i \in Spots(got, m)}
  \union {<<"fetched">> : f \in {m} \intersect fetched}

\* A message whose batch was answered with a session id is in exactly one
\* place, the last being the application that fetched its report; one whose
\* batch was refused, or not answered yet, is in none.
OnePlace ==
  \A m \in Message :
    Cardinality(Places(m)) = IF m \in Accepted(m.req) THEN 1 ELSE 0

MoPlaces(x) ==
  {<<"got", i>> : i \in Spots(got, x)}
  \union {<<"fetched">> : f \in {x} \intersect fetched}
  \union (UNION {{<<"mo_list", s, i>> : i \in Spots(mo_list[s], x)} : s \in SysIds})

\* A mobile originated message that came in is not lost on its way to the
\* application, and is on it once.
MosKept ==
  /\ [][Seen \subseteq Seen']_vars
  /\ [](\A x \in Mo : Cardinality(MoPlaces(x)) <= 1)

\* After stop_all nothing enters a queue, for no thread would take it.
NothingAfterStop ==
  [][freed => \A s \in SysIds : Len(to_submit'[s]) <= Len(to_submit[s])]_vars

\* A request that can be split is answered, unless the user stops the program.
EveryRequestAnswered ==
  \A t \in Web :
    (pc[t] = "format" /\ \A i \in DOMAIN TextOf(req[t]) : TextOf(req[t])[i] \notin Stuck)
      ~> (pc[t] = "idle" \/ sig # "no" \/ ~alive)

\* A report is fetched whichever client of the list it came to, unless the
\* user stops the program.  (A call starts at the first client and ends when it
\* is full, so this needs that the reports of the clients before do not keep
\* coming: the messages of a behaviour are finitely many.)
EveryReportFetched ==
  \A m \in Message :
    (\E s \in SysIds : m \in ToSet(delivered[s]))
      ~> (m \in fetched \/ sig # "no")


=============================================================================
