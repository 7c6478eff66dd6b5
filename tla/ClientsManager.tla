--------------------------- MODULE ClientsManager ---------------------------
(***************************************************************************)
(* The SMPP client program around its connections: the web server threads  *)
(* and the main loop, the functions of cb_client_api.cpp they call, the    *)
(* clients_manager behind those, and the data sources of all system ids.   *)
(* One connection (smppclient) is the subject of module SmppClient; here    *)
(* it only takes messages from its data source and brings back reports.    *)
(*                                                                         *)
(* Every operation of the manager holds clients_mutex_ from its start to   *)
(* its end.  Submitting touches what others see once and is one step; the  *)
(* two fetching operations and stop_all visit one client per step, because *)
(* the connections go on meanwhile.  sig_int runs on the main thread, on   *)
(* top of whatever the main loop was doing: a lock the loop holds it waits *)
(* for for ever.  There are three: clients_mutex_, the mutex_ of           *)
(* get_instance, and the lock of the logger.                               *)
(***************************************************************************)
EXTENDS LongSmSplit

CONSTANTS
  Web,                  \* the web server's threads, MAX_THREADS of them
  MainThread,           \* the thread of main(): the loop and the handler
  Request,              \* the get_submit requests
  Arrivals,             \* the sets of requests that may come in one behaviour
  NoRequest,            \* what an idle thread works on
  TextOf(_), DstsOf(_), \* content and dst_addrs of a request
  NoDst,                \* an empty entry between two ";" of dst_addrs
  CountOfBatch,         \* count_of_batch, 200
  Modes,                \* the disorder_content modes the run looks at
  Clients,              \* the clients in the order of the configuration
  SysIdOf(_),           \* the system id of a client: names its data source
  CanSend(_),           \* tx_able: the client is bound as TX or TRX
  StartIndex,           \* where earlier submissions may have left last_index
  Fetching,             \* the web threads that get_dlrs and get_mos requests reach
  ToGet,                \* reports per call: 20, and 100 for the web server
  PollsPerWake,         \* get_dlrs calls in a row, 100
  Mo,                   \* the mobile originated messages that may come in
  Signals               \* the user may press Ctrl-C

ASSUME ManagerAssumption ==
  /\ {CountOfBatch, ToGet, PollsPerWake} \subseteq Nat \ {0}
  /\ Modes \subseteq 0 .. 2
  /\ Signals \in BOOLEAN
  /\ Fetching \subseteq Web
  /\ Arrivals \subseteq SUBSET Request
  /\ Clients \in Seq(ToSet(Clients))
  /\ StartIndex \subseteq 0 .. Len(Clients) - 1

ASSUME RequestAssumption ==
  /\ NoRequest \notin Request
  /\ \A r \in Request :
       TextOf(r) \in Seq(Char) /\ DstsOf(r) \in Seq(ToSet(DstsOf(r)))

VARIABLES
  alive,                \* the process runs
  mode,                 \* disorder_content_mode, read at the start
  arriving,             \* requests that have not come yet
  pc,                   \* what each thread is doing
  req,                  \* the request a web thread works on
  batches,              \* the jsons it has left to submit
  answer,               \* per request: the answer of each batch so far
  clients_,             \* the manager's clients: shrinks to none at the stop
  last_index,           \* last_index modulo the number of clients
  holder,               \* who holds clients_mutex_, "none" or a thread
  visit,                \* how many clients the operation under way has visited
  got,                  \* what the fetching operation under way has collected
  polls,                \* get_dlrs calls left before the main loop sleeps
  sig,                  \* the signal handler: "no", "run", "stop", "done"
  freed,                \* free_instance has deleted the first manager
  stale,                \* threads that hold a pointer to the deleted manager
  to_submit, wire, delivered, mo_list,   \* the data sources, per system id
  fetched               \* reports and MOs handed to the application

programVars == <<alive, mode, arriving, pc, req, batches, answer>>
managerVars == <<clients_, last_index, holder, visit, got, freed, stale>>
sourceVars == <<to_submit, wire, delivered, mo_list>>
vars == <<programVars, managerVars, sourceVars, polls, sig, fetched>>

Threads == Web \union {MainThread}
SysIds == {SysIdOf(c) : c \in ToSet(Clients)}
None == "none"

ASSUME ThreadsAssumption == MainThread \notin Web /\ None \notin Threads

\* The two fetching operations, and where a caller waits for and is in one.
Ops == {"dlrs", "mos"}
InstPc == [dlrs |-> "inst_dlrs", mos |-> "inst_mos"]
LockPc == [dlrs |-> "lock_dlrs", mos |-> "lock_mos"]
InPc == [dlrs |-> "in_dlrs", mos |-> "in_mos"]

\* A message is known by its request, the place of its destination in the
\* list, and the segment; generate_sn gives each a number of its own.
Messages(r, i, text) ==
  LET parts == SplitLongSm(text)
  IN  [j \in DOMAIN parts |-> [req |-> r, dst |-> i, nr |-> j, part |-> parts[j]]]

(***************************************************************************)
(* cb_client_format_sms.                                                   *)
(***************************************************************************)
TextFor(how, text, i) ==
  CASE how = 0 -> text
    [] how = 1 -> AppendHeaderToString(text)
    [] how = 2 -> InsertCharToString(text, i - 1)

Destinations(r) == {i \in DOMAIN DstsOf(r) : DstsOf(r)[i] # NoDst}

\* insert_char_to_string divides by zero.
Divides(how, r) == how = 2 /\ Destinations(r) # {} => CanInsert(TextOf(r))

\* The text is split once in mode 0 and once per destination otherwise; the
\* conversion runs over texts that are not ASCII.
Splits(how, r) ==
  LET texts == IF how = 0 THEN {TextOf(r)}
               ELSE {TextFor(how, TextOf(r), i) : i \in Destinations(r)}
  IN  \A t \in texts : IsPureAscii(t) \/ Converts(t)

Flush(sis) == IF Len(sis) > 0 THEN <<sis>> ELSE << >>

\* A batch is closed when it is long enough, but only between destinations.
AddDestination_Each(how, r, acc, i) ==
  IF i \notin Destinations(r) THEN acc
  ELSE FoldLeft(LAMBDA a, m :
                  LET sis == Append(a.sis, m) IN
                  IF Len(sis) >= CountOfBatch
                  THEN [jsons |-> Append(a.jsons, sis), sis |-> << >>]
                  ELSE [jsons |-> a.jsons, sis |-> sis],
                acc, Messages(r, i, TextFor(how, TextOf(r), i)))
AddDestination(how, r, acc, i) ==
  IF i \notin Destinations(r) THEN acc
  ELSE LET sis == acc.sis \o Messages(r, i, TextFor(how, TextOf(r), i)) IN
       IF Len(sis) >= CountOfBatch
       THEN [jsons |-> Append(acc.jsons, sis), sis |-> << >>]
       ELSE [jsons |-> acc.jsons, sis |-> sis]

AfterDestinations(how, r) ==
  LET after[i \in 0 .. Len(DstsOf(r))] ==
        IF i = 0 THEN [jsons |-> << >>, sis |-> << >>]
        ELSE AddDestination(how, r, after[i - 1], i)
  IN  after

FormatSms(how, r) ==
  LET last == AfterDestinations(how, r)[Len(DstsOf(r))]
  IN  last.jsons \o Flush(last.sis)

-----------------------------------------------------------------------------
Init ==
  /\ alive = TRUE
  /\ mode \in Modes
  /\ arriving \in Arrivals
  /\ pc = [t \in Threads |-> IF t = MainThread THEN "sleep" ELSE "idle"]
  /\ req = [t \in Web |-> NoRequest]
  /\ batches = [t \in Web |-> << >>]
  /\ answer = [r \in Request |-> << >>]
  /\ clients_ = Clients
  /\ last_index \in StartIndex
  /\ holder = None
  /\ visit = 0
  /\ got = << >>
  /\ polls = 0
  /\ sig = "no"
  /\ freed = FALSE
  /\ stale = {}
  /\ to_submit = [s \in SysIds |-> << >>]
  /\ wire = [s \in SysIds |-> {}]
  /\ delivered = [s \in SysIds |-> << >>]
  /\ mo_list = [s \in SysIds |-> << >>]
  /\ fetched = {}

Goto(t, l) == pc' = [pc EXCEPT ![t] = l]

\* The response is sent: the thread is free for the next request.
Done(t) == Goto(t, "idle") /\ req' = [req EXCEPT ![t] = NoRequest]

\* The handler runs on the main thread: the loop stands still meanwhile.
Runs(t) == alive /\ (t = MainThread => sig \notin {"run", "stop"})

\* Whether the main loop holds mutex_, inside get_instance, and whether it
\* holds the logger's lock, named for what it does next.  (A web thread lets go
\* of both again, whatever the main thread does.)
LogPc == [dlrs |-> "log_dlrs", sleep |-> "log_sleep"]
InInstance == \E op \in Ops : pc[MainThread] = InstPc[op]
Logging == pc[MainThread] \in {"log_dlrs", "log_sleep", "log_mos"}

(***************************************************************************)
(* A web thread and its request: process_get_submit.                       *)
(***************************************************************************)
TakeRequest(t, r) ==
  /\ Runs(t) /\ pc[t] = "idle" /\ r \in arriving
  /\ arriving' = arriving \ {r}
  /\ req' = [req EXCEPT ![t] = r]
  /\ Goto(t, "format")
  /\ UNCHANGED <<alive, mode, batches, answer, managerVars, sourceVars,
                 polls, sig, fetched>>

\* The requests of one destination list at a time; a text that does not
\* convert leaves the thread in "format" for ever.
Format(t) ==
  /\ Runs(t) /\ pc[t] = "format"
  /\ Divides(mode, req[t]) /\ Splits(mode, req[t])
  /\ batches' = [batches EXCEPT ![t] = FormatSms(mode, req[t])]
  /\ IF batches'[t] = << >>
     THEN Done(t) ELSE Goto(t, "submit") /\ req' = req
  /\ UNCHANGED <<alive, mode, arriving, answer, managerVars, sourceVars,
                 polls, sig, fetched>>

FormatCrash(t) ==
  /\ Runs(t) /\ pc[t] = "format" /\ ~Divides(mode, req[t])
  /\ alive' = FALSE
  /\ UNCHANGED <<mode, arriving, pc, req, batches, answer, managerVars,
                 sourceVars, polls, sig, fetched>>

\* clients_manager::get_instance, and then waiting for clients_mutex_.
GetInstance(t) ==
  /\ Runs(t) /\ pc[t] = "submit" /\ ~InInstance
  /\ Goto(t, "lock_submit")
  /\ UNCHANGED <<alive, mode, arriving, req, batches, answer, managerVars,
                 sourceVars, polls, sig, fetched>>

\* The first client from begin on that may send, in a circle.
Turn(begin, k) == clients_[((begin + k) % Len(clients_)) + 1]
Senders_All(begin) == 0 .. Len(clients_) - 1
Senders(begin) ==
  {k \in 0 .. Len(clients_) - 1 : CanSend(Turn(begin, k))}

Answered(t, ok) ==
  /\ answer' = [answer EXCEPT ![req[t]] = Append(@, ok)]
  /\ batches' = [batches EXCEPT ![t] = Tail(@)]
  /\ IF Len(batches[t]) = 1
     THEN Done(t) ELSE Goto(t, "submit") /\ req' = req

\* submit_smis of the manager: the whole batch goes to one data source.
SubmitSmis(t) ==
  /\ Runs(t) /\ pc[t] = "lock_submit" /\ t \notin stale /\ holder = None
  /\ LET n     == Len(clients_)
         begin == (last_index + 1) % n
     IN  IF n > 0
         THEN /\ last_index' = begin
              /\ IF Senders(begin) # {}
                 THEN LET s == SysIdOf(Turn(begin, Min(Senders(begin)))) IN
                      /\ to_submit' = [to_submit EXCEPT ![s] = @ \o Head(batches[t])]
                      /\ Answered(t, TRUE)
                 ELSE /\ to_submit' = to_submit
                      /\ Answered(t, FALSE)
         ELSE /\ UNCHANGED <<last_index, to_submit>>
              /\ Answered(t, FALSE)
  /\ UNCHANGED <<alive, mode, arriving, clients_, holder, visit, got,
                 freed, stale, wire, delivered, mo_list, polls, sig, fetched>>

(***************************************************************************)
(* Fetching.  A web thread answers get_dlrs or get_mos; the main loop does *)
(* both each time it wakes up.                                             *)
(***************************************************************************)
\* Where get_instance leads: a web thread is through it in the same step.
CallPc(t, op) == IF t = MainThread THEN InstPc[op] ELSE LockPc[op]

GetDlrs(t) ==
  /\ Runs(t) /\ pc[t] \in {"idle", "dlrs"} /\ ~InInstance
  /\ pc[t] = "idle" => t \in Fetching
  /\ Goto(t, CallPc(t, "dlrs"))
  /\ UNCHANGED <<alive, mode, arriving, req, batches, answer, managerVars,
                 sourceVars, polls, sig, fetched>>

GetMos(t) ==
  /\ Runs(t) /\ pc[t] \in {"idle", "sleep", "log_mos"} /\ ~InInstance
  /\ IF t = MainThread THEN sig = "no" ELSE t \in Fetching
  /\ Goto(t, CallPc(t, "mos"))
  /\ polls' = IF t = MainThread THEN PollsPerWake ELSE polls
  /\ UNCHANGED <<alive, mode, arriving, req, batches, answer, managerVars,
                 sourceVars, sig, fetched>>

\* The main loop leaves get_instance.
HaveInstance(op) ==
  /\ Runs(MainThread) /\ pc[MainThread] = InstPc[op]
  /\ Goto(MainThread, LockPc[op])
  /\ UNCHANGED <<alive, mode, arriving, req, batches, answer, managerVars,
                 sourceVars, polls, sig, fetched>>

\* Every 300 turns the main loop writes the statistic to the log; the turns
\* from there to its next fetch are left out.
WriteStatistic ==
  /\ Runs(MainThread) /\ pc[MainThread] = "sleep" /\ sig = "no"
  /\ Goto(MainThread, "log_mos")
  /\ UNCHANGED <<alive, mode, arriving, req, batches, answer, managerVars,
                 sourceVars, polls, sig, fetched>>

\* The main loop has logged what it fetched.
Logged ==
  /\ Runs(MainThread)
  /\ \E next \in DOMAIN LogPc : pc[MainThread] = LogPc[next] /\ Goto(MainThread, next)
  /\ UNCHANGED <<alive, mode, arriving, req, batches, answer, managerVars,
                 sourceVars, polls, sig, fetched>>

Lock(t, op) ==
  /\ Runs(t) /\ pc[t] = LockPc[op] /\ t \notin stale /\ holder = None
  /\ holder' = t
  /\ visit' = 0
  /\ got' = << >>
  /\ Goto(t, InPc[op])
  /\ UNCHANGED <<alive, mode, arriving, req, batches, answer, clients_,
                 last_index, freed, stale, sourceVars, polls, sig, fetched>>

\* The next client's get_global_status: it erases one report before it
\* compares with what the caller may still have.
Smaller(m, n) == IF m < n THEN m ELSE n

StatusBatch_Full(s) == Smaller(ToGet, Len(delivered[s]))
StatusBatch(s) ==
  LET remain == ToGet - Len(got)
  IN  Smaller(IF remain > 0 THEN remain ELSE 1, Len(delivered[s]))

\* What erasing the first n leaves.
Remaining_SkipsOne(s, n) == SubSeq(delivered[s], n + 2, Len(delivered[s]))
Remaining(s, n) == SubSeq(delivered[s], n + 1, Len(delivered[s]))

\* A client's part is collected apart (smis_tmp), for its source clears the
\* vector it is given.
Collected_Cleared(more) == more
Collected(more) == got \o more

VisitStatus(t) ==
  /\ Runs(t) /\ pc[t] = "in_dlrs"
  /\ visit < Len(clients_) /\ Len(got) < ToGet
  /\ LET s == SysIdOf(clients_[visit + 1])
         n == StatusBatch(s)
     IN  /\ got' = Collected(SubSeq(delivered[s], 1, n))
         /\ delivered' = [delivered EXCEPT ![s] = Remaining(s, n)]
  /\ visit' = visit + 1
  /\ UNCHANGED <<programVars, clients_, last_index, holder, freed, stale,
                 to_submit, wire, mo_list, polls, sig, fetched>>

VisitMos(t) ==
  /\ Runs(t) /\ pc[t] = "in_mos" /\ visit < Len(clients_)
  /\ LET s == SysIdOf(clients_[visit + 1])
     IN  /\ got' = Collected(mo_list[s])
         /\ mo_list' = [mo_list EXCEPT ![s] = << >>]
  /\ visit' = visit + 1
  /\ UNCHANGED <<programVars, clients_, last_index, holder, freed, stale,
                 to_submit, wire, delivered, polls, sig, fetched>>

\* The operation is over: the mutex is released, the result is the caller's.
\* A web thread is idle again; the main loop logs what there is and goes on, up
\* to PollsPerWake times while get_dlrs returns anything.
After(t, op) ==
  IF t # MainThread THEN "idle"
  ELSE LET next == IF op = "mos" \/ (Len(got) > 0 /\ polls > 1) THEN "dlrs" ELSE "sleep"
       IN  IF got = << >> THEN next ELSE LogPc[next]

FetchEnds_FirstFull(op) == visit = 1
FetchEnds(op) ==
  visit = Len(clients_) \/ (op = "dlrs" /\ Len(got) >= ToGet)

Released == None

Return(t, op) ==
  /\ Runs(t) /\ pc[t] = InPc[op] /\ FetchEnds(op)
  /\ holder' = Released
  /\ fetched' = fetched \union ToSet(got)
  /\ Goto(t, After(t, op))
  /\ got' = << >>
  /\ visit' = 0
  /\ polls' = IF t = MainThread /\ op = "dlrs" THEN polls - 1 ELSE polls
  /\ UNCHANGED <<alive, mode, arriving, req, batches, answer, clients_,
                 last_index, freed, stale, sourceVars, sig>>

(***************************************************************************)
(* The signal.  sig_int writes to the log and calls cb_client_stop:        *)
(* get_instance, stop_all under clients_mutex_, one client after the       *)
(* other, then free_instance.  The loop it returns to ends at its next     *)
(* turn and main() leaves.                                                 *)
(***************************************************************************)
Signal ==
  /\ Signals /\ alive /\ sig = "no"
  /\ sig' = "run"
  /\ UNCHANGED <<programVars, managerVars, sourceVars, polls, fetched>>

StopAllBegin ==
  /\ alive /\ sig = "run" /\ ~Logging /\ ~InInstance /\ holder = None
  /\ sig' = "stop"
  /\ holder' = MainThread
  /\ visit' = 0
  /\ UNCHANGED <<programVars, clients_, last_index, got, freed, stale,
                 sourceVars, polls, fetched>>

ToStop_OneMore == visit <= Len(clients_)
ToStop == visit < Len(clients_)

\* stop() of one client: it returns once the client's thread has ended.
StopClient ==
  /\ alive /\ sig = "stop" /\ ToStop
  /\ visit' = visit + 1
  /\ UNCHANGED <<programVars, clients_, last_index, holder, got, freed, stale,
                 sourceVars, polls, sig, fetched>>

Cleared_Kept == clients_
Cleared == << >>

Waiting == {"lock_submit", "lock_dlrs", "lock_mos"}

\* clear, unlock and delete: who waits for the mutex keeps the old pointer.
StopAllEnd ==
  /\ alive /\ sig = "stop" /\ visit = Len(clients_)
  /\ clients_' = Cleared
  /\ holder' = None
  /\ visit' = 0
  /\ freed' = TRUE
  /\ stale' = {t \in Threads : pc[t] \in Waiting}
  /\ sig' = "done"
  /\ UNCHANGED <<programVars, last_index, got, sourceVars, polls, fetched>>

\* The loop's condition is false: stop_all of a new, empty manager, and exit.
Exit ==
  /\ Runs(MainThread) /\ sig = "done" /\ pc[MainThread] = "sleep"
  /\ holder = None
  /\ alive' = FALSE
  /\ UNCHANGED <<mode, arriving, pc, req, batches, answer, managerVars,
                 sourceVars, polls, sig, fetched>>

\* A call on the deleted manager: its vector of clients may still look empty,
\* or not be one any more.
StaleCallEmpty(t) ==
  /\ Runs(t) /\ t \in stale /\ holder = None
  /\ stale' = stale \ {t}
  /\ IF pc[t] = "lock_submit"
     THEN Answered(t, FALSE)
     ELSE /\ Goto(t, After(t, IF pc[t] = "lock_mos" THEN "mos" ELSE "dlrs"))
          /\ UNCHANGED <<req, batches, answer>>
  /\ UNCHANGED <<alive, mode, arriving, clients_, last_index, holder,
                 visit, got, freed, sourceVars, polls, sig, fetched>>

StaleCallCrash(t) ==
  /\ Runs(t) /\ t \in stale /\ holder = None
  /\ alive' = FALSE
  /\ UNCHANGED <<mode, arriving, pc, req, batches, answer, managerVars,
                 sourceVars, polls, sig, fetched>>

(***************************************************************************)
(* The connections, as far as the data sources see them.                   *)
(***************************************************************************)
Working == {c \in ToSet(Clients) :
              \E i \in DOMAIN clients_ :
                clients_[i] = c /\ (sig = "stop" => i > visit)}

\* get_to_submit and sm_is_delivering.
Send(c) ==
  LET s == SysIdOf(c) IN
  /\ alive /\ c \in Working /\ CanSend(c) /\ to_submit[s] # << >>
  /\ to_submit' = [to_submit EXCEPT ![s] = Tail(@)]
  /\ wire' = [wire EXCEPT ![s] = @ \union {Head(to_submit[s])}]
  /\ UNCHANGED <<programVars, managerVars, delivered, mo_list, polls, sig,
                 fetched>>

\* sm_is_delivered, submit_failed: a report of either kind.
Report(c, m) ==
  LET s == SysIdOf(c) IN
  /\ alive /\ c \in Working /\ m \in wire[s]
  /\ wire' = [wire EXCEPT ![s] = @ \ {m}]
  /\ delivered' = [delivered EXCEPT ![s] = Append(@, m)]
  /\ UNCHANGED <<programVars, managerVars, to_submit, mo_list, polls, sig,
                 fetched>>

\* mo_received.
Seen == fetched \union ToSet(got) \union UNION {ToSet(mo_list[s]) : s \in SysIds}

MoReceived(c, x) ==
  LET s == SysIdOf(c) IN
  /\ alive /\ c \in Working /\ x \in Mo \ Seen
  /\ mo_list' = [mo_list EXCEPT ![s] = Append(@, x)]
  /\ UNCHANGED <<programVars, managerVars, to_submit, wire, delivered, polls,
                 sig, fetched>>

-----------------------------------------------------------------------------
Finished ==
  /\ ~alive
  /\ UNCHANGED vars

CallStep(t) ==
  \/ \E op \in Ops : Lock(t, op) \/ Return(t, op)
  \/ VisitStatus(t) \/ VisitMos(t)
  \/ StaleCallEmpty(t) \/ StaleCallCrash(t)

\* What a web thread does with the request it has, and the main loop.
WebStep(t) ==
  \/ Format(t) \/ FormatCrash(t) \/ GetInstance(t) \/ SubmitSmis(t)
  \/ CallStep(t)

MainStep ==
  \/ GetMos(MainThread) \/ GetDlrs(MainThread) \/ (\E op \in Ops : HaveInstance(op))
  \/ WriteStatistic \/ Logged \/ Exit \/ CallStep(MainThread)

StopStep == StopAllBegin \/ StopClient \/ StopAllEnd

Arrive(t) == (\E r \in Request : TakeRequest(t, r)) \/ GetDlrs(t) \/ GetMos(t)

ConnectionStep ==
  \E c \in ToSet(Clients) :
    Send(c) \/ \E m \in UNION {wire[s] : s \in SysIds} : Report(c, m)

Next ==
  \/ \E t \in Web : Arrive(t) \/ WebStep(t)
  \/ MainStep
  \/ Signal
  \/ StopStep
  \/ ConnectionStep
  \/ \E c \in ToSet(Clients), x \in Mo : MoReceived(c, x)
  \/ Finished

Spec == Init /\ [][Next]_vars

(***************************************************************************)
(* Every thread that can run does, and a thread that waits for             *)
(* clients_mutex_ is not passed for ever when it is released again and     *)
(* again: strong fairness for those who take it.  Loop and handler are one *)
(* thread.  What comes in, from users or connections, is nobody's duty.    *)
(***************************************************************************)
Fairness ==
  /\ \A t \in Web : SF_vars(WebStep(t))
  /\ SF_vars(MainStep \/ StopStep)

FairSpec == Spec /\ Fairness

=============================================================================
