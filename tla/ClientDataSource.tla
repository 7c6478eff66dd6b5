-------------------------- MODULE ClientDataSource --------------------------
(***************************************************************************)
(* client_data_source: the lists of messages that every client of one      *)
(* system id shares, each behind a mutex of its own.  One operator per      *)
(* member function; a critical section is one step, and a function that     *)
(* takes a second lock while it holds the first (sm_is_delivered,           *)
(* process_waiting_dlr_timeout) is one step too, because nobody can see     *)
(* the message between the two lists.                                      *)
(*                                                                         *)
(* A message stands for itself, for its sn_by_client and for the message   *)
(* id its ack carried: generate_sn makes them unique.  The lists whose      *)
(* order nobody depends on are sets; that a push never meets an element    *)
(* already listed is part of the invariant OnePlace of SmppClient.         *)
(***************************************************************************)
EXTENDS Naturals, Sequences, Functions

CONSTANT Msg            \* the messages (cb_sm_information) of the application

VARIABLES
  to_submit,            \* to_submit_list_: FIFO of accepted messages
  delivering,           \* delivering_list_: acknowledged, waiting for a DLR
  delivered,            \* delivered_list_: reports the application can fetch
  status,               \* how each message was reported, "none" before
  age                   \* time class of each message's last time stamp, below

dsVars == <<to_submit, delivering, delivered, status, age>>

(***************************************************************************)
(* Time is kept as the class of "now - stamp": 0 within the timeout, 1     *)
(* beyond it, 2 beyond five times it (only the ack timeout has that        *)
(* class).  A new stamp puts a message back into class 0.                  *)
(***************************************************************************)
Ages == 0 .. 2

Statuses == {"none", "dlr", "rejected", "submit_timeout", "dlr_timeout"}

DsTypeOK ==
  /\ to_submit \in Seq(Msg)
  /\ delivering \subseteq Msg
  /\ delivered \subseteq Msg
  /\ status \in [Msg -> Statuses]
  /\ age \in [Msg -> Ages]

DsInit ==
  /\ to_submit = << >>
  /\ delivering = {}
  /\ delivered = {}
  /\ status = [m \in Msg |-> "none"]
  /\ age = [m \in Msg |-> 0]

Stamp(m) == age' = [age EXCEPT ![m] = 0]

Report(S, s) ==
  /\ delivered' = delivered \union S
  /\ status' = [m \in Msg |-> IF m \in S THEN s ELSE status[m]]

\* add_smis: a batch goes to the end of the queue in one critical section.
AddSmis_AtFront(batch) ==
  /\ to_submit' = batch \o to_submit
  /\ UNCHANGED <<delivering, delivered, status, age>>
AddSmis(batch) ==
  /\ to_submit' = to_submit \o batch
  /\ UNCHANGED <<delivering, delivered, status, age>>

\* get_to_submit, the branch that finds a message.
GetToSubmit ==
  /\ to_submit # << >>
  /\ to_submit' = Tail(to_submit)
  /\ UNCHANGED <<delivering, delivered, status, age>>

\* sm_is_delivering: the ack was positive.
SmIsDelivering(m) ==
  /\ delivering' = delivering \union {m}
  /\ Stamp(m)
  /\ UNCHANGED <<to_submit, delivered, status>>

\* submit_failed, for the messages of S with one error status.
SubmitFailed(S, s) ==
  /\ Report(S, s)
  /\ UNCHANGED <<to_submit, delivering, age>>

\* sm_is_delivered: a DLR whose message id is unknown changes nothing.  m
\* is the message whose ack carried the id of the report: the conversion from
\* decimal to hexadecimal tried by the code (client_data_source_manager.cpp:
\* 126-143) makes the two notations of one id the same message here.
SmIsDelivered_KeepsEntry(m) ==
  /\ IF m \in delivering
     THEN Report({m}, "dlr")
     ELSE UNCHANGED <<delivered, status>>
  /\ UNCHANGED <<to_submit, delivering, age>>
SmIsDelivered(m) ==
  /\ IF m \in delivering
     THEN /\ delivering' = delivering \ {m}
          /\ Report({m}, "dlr")
     ELSE UNCHANGED <<delivering, delivered, status>>
  /\ UNCHANGED <<to_submit, age>>

\* process_waiting_dlr_timeout: every message that waited too long.
ProcessWaitingDlrTimeout ==
  LET late == {m \in delivering : age[m] >= 1}
  IN  /\ delivering' = delivering \ late
      /\ Report(late, "dlr_timeout")
      /\ UNCHANGED <<to_submit, age>>

\* get_global_status: up to to_get reports leave the list.
GetGlobalStatus(got) ==
  /\ got # {} /\ got \subseteq delivered
  /\ delivered' = delivered \ got
  /\ UNCHANGED <<to_submit, delivering, status, age>>

=============================================================================
