---------------------------- MODULE SessionTimer ----------------------------
(***************************************************************************)
(* The timers of one server session as the rest of the server sees them,   *)
(* without a clock: "reading" while the read timer waits, "off" when it no *)
(* longer does and nothing is bound, "running" and "expired" after a bind, *)
(* and "dead" once the read timer has expired.  SmppServer is built on     *)
(* these steps; SmppTimers shows that smpp_timer.hpp takes no others.      *)
(***************************************************************************)

Timers == {"reading", "off", "running", "expired", "dead"}

\* read_header() for the second time: the wait of the read timer is over.
Arrived(timer) == IF timer = "reading" THEN "off" ELSE timer

\* update(): the read timer, once expired, stays so.
Updated(timer) == IF timer = "expired" THEN "running" ELSE timer

\* bind_*_received(): the enquire link and inactivity timers begin.
Begun(timer) == IF timer = "dead" THEN timer ELSE "running"

\* handle_timeout() of the read timer, or 180 seconds without an update.
Elapsed(timer) == CASE timer = "reading" -> "dead"
                    [] timer = "running" -> "expired"
                    [] OTHER -> timer

TimedOut(timer) == timer \in {"expired", "dead"}

=============================================================================
