---------------------------- MODULE MCSmppTimers ----------------------------
(* A small instance of SmppTimers.                                         *)
EXTENDS SmppTimersProperties

\* 15, 180 and 180 seconds in the code.
SmallDurations == [session_init |-> 1, enquire_link |-> 2, inactivity |-> 2]

\* The clock is set ahead or back by more than a timer lasts, or by less.
Settings == {-4, -1, 3}

=============================================================================
