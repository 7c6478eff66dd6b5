------------------------ MODULE SmppTimersProperties ------------------------
(***************************************************************************)
(* What the timers of a session must do, whatever happens to the clock.    *)
(***************************************************************************)
EXTENDS SmppTimers

(***************************************************************************)
(* Types, and the two timers of a bound session go together: both run, on  *)
(* stamps of the same moment, and the first has ended.  Every test of the  *)
(* one is a test of the other.                                             *)
(***************************************************************************)
TypeOK ==
  /\ sock \in {"open", "closed"} /\ session \in {"OPEN", "BOUND", "CLOSED"}
  /\ pc \in {"none", "process", "check"} /\ queue \in Seq(Requests)
  /\ read_timer \in {"waiting", "off", "fired"}
  /\ status \in [TimerNames -> {"NOT_BEGIN", "BEGIN", "UPDATE", "END"}]
  /\ age \in [TimerNames -> Int] /\ \A k \in TimerNames : age[k] <= MaxAge
  /\ idle \in 0 .. Shortest + 1 /\ moved \in BOOLEAN /\ sets \in 0 .. MaxSets
  /\ session # "OPEN" =>
       /\ status["session_init"] = "END"
       /\ \A k \in {"enquire_link", "inactivity"} : status[k] \in {"BEGIN", "UPDATE"}
       /\ age["enquire_link"] = age["inactivity"]

(***************************************************************************)
(* A session that sent its first request in time is only dropped when in   *)
(* true time it has been idle for longer than a timer lasts since its last *)
(* bind, SubmitSm or EnquireLink was processed, unless somebody set the    *)
(* clock since then.  In between, a thread may find it expired and take    *)
(* it, and then find the request that saves it.                            *)
(***************************************************************************)
OnlyIdleDropped ==
  [][sock = "open" /\ sock' = "closed" /\ read_timer # "fired"
       => idle > Shortest \/ moved]_vars

(***************************************************************************)
(* A session that has tried to bind, and from which nothing comes any more *)
(* once its thread has processed all that came, is dropped, also when the  *)
(* clock is set back to before the stamps of its timers, and though the    *)
(* thread that finds it expired looks again before it drops it.            *)
(***************************************************************************)
IdleEnds ==
  (sock = "open" /\ status["session_init"] = "END") ~> (sock = "closed" \/ queue # << >>)

-----------------------------------------------------------------------------
\* The timers as the rest of the server sees them.
Seen ==
  CASE read_timer = "fired" -> "dead"
    [] read_timer = "waiting" -> "reading"
    [] OTHER -> IF Timeout THEN "expired"
                ELSE IF status["session_init"] = "END" THEN "running" ELSE "off"

Server == INSTANCE SessionTimerSpec WITH timer <- Seen

\* Three timers that begin, are updated and end on their own, a clock that
\* jumps, and the read timer: SmppServer sees none of that, only five states.
\* In particular no timer runs for a session that has not tried to bind,
\* though EnquireLink gives its timers the status of running ones.
ImplementsSessionTimer == Server!Spec

=============================================================================
