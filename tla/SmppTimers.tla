----------------------------- MODULE SmppTimers -----------------------------
(***************************************************************************)
(* The clock behind the timers of one server session: smpp_timer.hpp, the  *)
(* read timer of tcp_connection_impl, and the thread that looks at both    *)
(* and drops the session.                                                  *)
(*                                                                         *)
(* The timers compare stamps of the local time of day, so the state keeps  *)
(* the age of each stamp by that clock: time passing and somebody setting  *)
(* the clock change the ages of all stamps alike.  The code stores an age  *)
(* in an unsigned word, where one below zero is a very large one.          *)
(***************************************************************************)
EXTENDS Integers, Sequences

CONSTANTS
  Duration,             \* of each of the three timers, set_duration()
  ReadDuration,         \* read_timer_duration
  Word,                 \* 2^64
  SetsBy,               \* by how much the clock may be set, e.g. -3600
  MaxSets,              \* how often that happens in a run
  MaxAge,               \* ages are not told apart from here on
  MaxQueue              \* requests that wait to be processed

TimerNames == {"session_init", "enquire_link", "inactivity"}

ASSUME DurationAssumption == Duration \in [TimerNames -> Nat] /\ ReadDuration \in Nat
ASSUME BoundsAssumption == {MaxSets, MaxAge, Word} \subseteq Nat /\ MaxQueue \in Nat \ {0}

\* However often the clock is set back, an age of MaxAge stays one that is too
\* long, and one below zero is not mistaken for it.
ASSUME ClockAssumption ==
  /\ SetsBy \subseteq Int
  /\ MaxAge < Word
  /\ \A d \in SetsBy \union {0} :
       /\ \A k \in TimerNames : Duration[k] - MaxSets * d < MaxAge
       /\ ReadDuration - MaxSets * d < MaxAge
       /\ MaxAge < Word + MaxSets * d

VARIABLES
  sock,                 \* "open" or "closed"
  session,              \* current_session_state_: "OPEN", "BOUND", "CLOSED"
  pc,                   \* the connection's thread: "none", "process", "check"
  queue,                \* requests read and not processed
  read_timer,           \* "waiting", "off" or "fired": read_timeout_
  read_age,             \* age of the stamp of the read timer
  status, age,          \* of each timer; age of its begin or update time
  idle,                 \* history: true time since the last renewal
  moved,                \* history: the clock was set since then
  sets                  \* how often the clock was set

timerVars == <<read_timer, read_age, status, age>>
vars == <<sock, session, pc, queue, timerVars, idle, moved, sets>>

Binds == {"Bind", "RefusedBind"}
Renewing == {"EnquireLink", "SubmitSm"}
Requests == Binds \union Renewing \union {"DeliverSmResp", "QuerySm", "Unbind"}

Init ==
  /\ sock = "open" /\ session = "OPEN" /\ pc = "none" /\ queue = << >>
  /\ read_timer = "waiting" /\ read_age = 0
  /\ status = [k \in TimerNames |-> "NOT_BEGIN"]
  /\ age = [k \in TimerNames |-> 0]
  /\ idle = 0 /\ moved = FALSE /\ sets = 0

-----------------------------------------------------------------------------
(* smpp_timer_manager                                                      *)

\* expired() of one timer; past is unsigned.
Past(k) == age[k] % Word

Expired_Begun(k) == status[k] = "UPDATE" /\ Past(k) > Duration[k]
Expired(k) == status[k] \in {"BEGIN", "UPDATE"} /\ Past(k) > Duration[k]

\* expired() of them all: the other two count once the first has ended.
ManagerExpired_Unbound == \E k \in TimerNames : Expired(k)
ManagerExpired ==
  \/ Expired("session_init")
  \/ /\ status["session_init"] = "END"
     /\ Expired("enquire_link") \/ Expired("inactivity")

Timeout == ManagerExpired \/ read_timer = "fired"

\* The timers in began get the status new and a stamp of this moment.
Stamped(timers, new) ==
  /\ status' = [k \in TimerNames |->
                  IF k \in timers THEN new
                  ELSE IF new = "BEGIN" THEN "END" ELSE status[k]]
  /\ age' = [k \in TimerNames |-> IF k \in timers THEN 0 ELSE age[k]]
  /\ idle' = 0 /\ moved' = FALSE

\* bind_*_received(), also for a bind that is refused: session_init ends.
BindReceived == Stamped({"enquire_link", "inactivity"}, "BEGIN")

\* submit_sm_received(), enquire_link_received()
UpdateReceived_EnquireLink == Stamped({"enquire_link"}, "UPDATE")
UpdateReceived == Stamped({"enquire_link", "inactivity"}, "UPDATE")

-----------------------------------------------------------------------------
(* The connection and its thread                                           *)

\* A request is read; read_header() again cancels the read timer's only wait.
Receive(r) ==
  /\ sock = "open" /\ Len(queue) < MaxQueue
  /\ queue' = Append(queue, r)
  /\ read_timer' = IF read_timer = "waiting" THEN "off" ELSE read_timer
  /\ read_age' = IF read_timer = "waiting" THEN 0 ELSE read_age
  /\ UNCHANGED <<sock, session, pc, status, age, idle, moved, sets>>

\* handle_timeout() of the read timer.
ReadTimeout ==
  /\ sock = "open" /\ read_timer = "waiting" /\ read_age >= ReadDuration
  /\ read_timer' = "fired"
  /\ UNCHANGED <<sock, session, pc, queue, read_age, status, age, idle, moved, sets>>

\* get(): a connection with something to process, or timed out.
Get ==
  /\ sock = "open" /\ pc = "none" /\ (queue # << >> \/ Timeout)
  /\ pc' = "process"
  /\ UNCHANGED <<sock, session, queue, timerVars, idle, moved, sets>>

Updates(r) ==
  \/ r = "EnquireLink" /\ session # "CLOSED"
  \/ r = "SubmitSm" /\ session = "BOUND"

\* process() of one request, as far as the timers go: every other request
\* leaves them alone, and one that the session's state does not allow too.
Process ==
  /\ pc = "process" /\ queue # << >>
  /\ queue' = Tail(queue)
  /\ LET r == Head(queue) IN
     \/ /\ r \in Binds /\ session = "OPEN"
        /\ session' = IF r = "Bind" THEN "BOUND" ELSE session
        /\ BindReceived
     \/ /\ Updates(r)
        /\ UpdateReceived
        /\ UNCHANGED session
     \/ /\ ~Updates(r) /\ ~(r \in Binds /\ session = "OPEN")
        /\ session' = IF r = "Unbind" /\ session = "BOUND" THEN "CLOSED" ELSE session
        /\ UNCHANGED <<status, age, idle, moved>>
  /\ UNCHANGED <<sock, pc, read_timer, read_age, sets>>

\* The queue is found empty: the loop of do_process() ends.
Drained ==
  /\ pc = "process" /\ queue = << >>
  /\ pc' = "check"
  /\ UNCHANGED <<sock, session, queue, timerVars, idle, moved, sets>>

\* force_shutdown(), if timeout() still says so, and free().
Check ==
  /\ pc = "check"
  /\ sock' = IF Timeout THEN "closed" ELSE sock
  /\ pc' = "none"
  /\ UNCHANGED <<session, queue, timerVars, idle, moved, sets>>

-----------------------------------------------------------------------------
(* Time                                                                    *)

Shortest ==
  IF Duration["enquire_link"] < Duration["inactivity"]
  THEN Duration["enquire_link"] ELSE Duration["inactivity"]

\* Running timers age; the stamps of the others are not read any more.
Running(k) == status[k] \in {"BEGIN", "UPDATE"}
Later(a, d) == IF a + d < MaxAge THEN a + d ELSE MaxAge
Aged(d) == [k \in TimerNames |-> IF Running(k) THEN Later(age[k], d) ELSE age[k]]
ReadAged(d) == IF read_timer = "waiting" THEN Later(read_age, d) ELSE read_age

\* One second passes.  The read timer does not fire late.
Tick ==
  /\ sock = "open"
  /\ ~(read_timer = "waiting" /\ read_age >= ReadDuration)
  /\ age' = Aged(1)
  /\ read_age' = ReadAged(1)
  /\ idle' = IF idle > Shortest THEN idle ELSE idle + 1
  /\ UNCHANGED <<sock, session, pc, queue, read_timer, status, moved, sets>>

\* Daylight saving time, a time server or the administrator.
SetClock(d) ==
  /\ sock = "open" /\ sets < MaxSets
  /\ sets' = sets + 1
  /\ age' = Aged(d)
  /\ read_age' = ReadAged(d)
  /\ moved' = TRUE
  /\ UNCHANGED <<sock, session, pc, queue, read_timer, status, idle>>

Next ==
  \/ \E r \in Requests : Receive(r)
  \/ ReadTimeout \/ Get \/ Process \/ Drained \/ Check
  \/ Tick \/ \E d \in SetsBy : SetClock(d)

Spec == Init /\ [][Next]_vars

(***************************************************************************)
(* Time passes, and the thread comes round.  Nothing has to arrive.        *)
(***************************************************************************)
Fairness ==
  /\ WF_vars(Tick) /\ WF_vars(ReadTimeout) /\ WF_vars(Get) /\ WF_vars(Process)
  /\ WF_vars(Drained) /\ WF_vars(Check)

FairSpec == Spec /\ Fairness

=============================================================================
