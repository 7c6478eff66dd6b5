-------------------------- MODULE SessionTimerSpec --------------------------
(***************************************************************************)
(* What the timers of one session may do: SessionTimer as a specification. *)
(***************************************************************************)
EXTENDS SessionTimer

VARIABLE timer

Init == timer = "reading"

Next == timer' \in {Arrived(timer), Updated(timer), Begun(timer), Elapsed(timer)}

Spec == Init /\ [][Next]_timer

=============================================================================
