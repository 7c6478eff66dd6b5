---------------------------- MODULE SmscSession -----------------------------
(***************************************************************************)
(* What a server promises to the client of one transceiver session, in     *)
(* terms of the PDUs it sends: acks and delivery reports come only between *)
(* the bind response and the unbind response, every message is acked and   *)
(* reported at most once, and its report never comes before its ack.       *)
(***************************************************************************)
CONSTANT Sm

VARIABLES
  phase,
  acked, reported       \* how often each message was acked and reported
sessionVars == <<phase, acked, reported>>

Never == [m \in Sm |-> 0]

Init == phase = "open" /\ acked = Never /\ reported = Never

Bind == phase = "open" /\ phase' = "bound" /\ UNCHANGED <<acked, reported>>

Ack(m) ==
  /\ phase = "bound" /\ acked[m] = 0
  /\ acked' = [acked EXCEPT ![m] = 1]
  /\ UNCHANGED <<phase, reported>>

Deliver(m) ==
  /\ phase = "bound" /\ acked[m] = 1 /\ reported[m] = 0
  /\ reported' = [reported EXCEPT ![m] = 1]
  /\ UNCHANGED <<phase, acked>>

Unbind == phase = "bound" /\ phase' = "unbound" /\ UNCHANGED <<acked, reported>>

Next == Bind \/ Unbind \/ \E m \in Sm : Ack(m) \/ Deliver(m)

Spec == Init /\ [][Next]_sessionVars

=============================================================================
