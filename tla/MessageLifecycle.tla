-------------------------- MODULE MessageLifecycle --------------------------
(***************************************************************************)
(* What the client promises about one message, without threads, lists or   *)
(* connections: from submission to its single final report it only moves   *)
(* forward.  It becomes in flight once (one complete SubmitSm), a DLR or a *)
(* DLR timeout can only end a message that was acknowledged, a rejection   *)
(* or a submit timeout only one that was not, and "lost" is the fate of a  *)
(* message that is dropped without a report.                               *)
(***************************************************************************)
CONSTANT Msg
VARIABLE stage

Follows ==
  [unseen |-> {"queued"},
   queued |-> {"taken"},
   taken |-> {"in_flight", "lost"},
   in_flight |-> {"delivering", "rejected", "submit_timeout", "lost"},
   delivering |-> {"dlr", "dlr_timeout"}]

Stages == {"unseen", "queued", "taken", "in_flight", "delivering", "dlr",
           "rejected", "submit_timeout", "dlr_timeout", "lost"}

Init == stage = [m \in Msg |-> "unseen"]

\* A batch, or all messages that one pass finds too old, move together.
Move(S, to) ==
  /\ \A m \in S : stage[m] \in DOMAIN Follows /\ to \in Follows[stage[m]]
  /\ stage' = [m \in Msg |-> IF m \in S THEN to ELSE stage[m]]

Next == \E S \in SUBSET Msg : \E to \in Stages : Move(S, to)

Spec == Init /\ [][Next]_stage
=============================================================================
