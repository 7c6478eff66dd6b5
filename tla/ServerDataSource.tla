-------------------------- MODULE ServerDataSource --------------------------
(***************************************************************************)
(* smppserver_datasource and the vendor that works on it, in the mode      *)
(* without a buffer database: messages wait in a queue for the vendor's    *)
(* sender thread, then in a list for a delivery report, and the report     *)
(* waits in a second list until a session has pushed it and its client     *)
(* has answered.  Every list has a lock of its own, so a message is in a   *)
(* thread's hand between two lists.                                        *)
(***************************************************************************)
EXTENDS SequencesExt

CONSTANTS
  Sm,                   \* the messages that clients submit
  SysId,                \* the system ids
  NoDst                 \* messages with an empty destination address

ASSUME NoDstAssumption == NoDst \subseteq Sm

VARIABLES
  received_smis,        \* received_smis_queue_
  wait_dlr_list,        \* wait_dlr_list_
  dlr_list,             \* dlr_list_
  sending,              \* what the vendor's sender thread holds
  reporting             \* what its thread for delivery reports holds

dsVars == <<received_smis, wait_dlr_list, dlr_list, sending, reporting>>

Smi == [sm : Sm, sysid : SysId]
DlrState == {"DELIVERIED", "PUSHING"}
DlrEntry == [sm : Sm, sysid : SysId, state : DlrState]

DsInit ==
  /\ received_smis = << >> /\ wait_dlr_list = << >> /\ dlr_list = << >>
  /\ sending = << >> /\ reporting = << >>

SmiReceived(m, s) ==
  received_smis' = Append(received_smis, [sm |-> m, sysid |-> s])

-----------------------------------------------------------------------------
(* The vendor's threads; a hand is a sequence of at most one message.      *)

\* sender(): a message without a destination is dropped.
SenderTakes ==
  /\ sending = << >> /\ received_smis # << >>
  /\ received_smis' = Tail(received_smis)
  /\ sending' = IF Head(received_smis).sm \in NoDst
                THEN << >> ELSE <<Head(received_smis)>>
  /\ UNCHANGED <<wait_dlr_list, dlr_list, reporting>>

SenderAdds ==
  /\ sending # << >>
  /\ wait_dlr_list' = wait_dlr_list \o sending
  /\ sending' = << >>
  /\ UNCHANGED <<received_smis, dlr_list, reporting>>

\* query_dlrs_and_mos(): get_from_wait_dlr_list erases the entry.
Erased_Kept == wait_dlr_list
Erased == Tail(wait_dlr_list)

ReporterTakes ==
  /\ reporting = << >> /\ wait_dlr_list # << >>
  /\ reporting' = <<Head(wait_dlr_list)>>
  /\ wait_dlr_list' = Erased
  /\ UNCHANGED <<received_smis, dlr_list, sending>>

ReporterAdds ==
  /\ reporting # << >>
  /\ dlr_list' = Append(dlr_list, [sm |-> reporting[1].sm,
                                   sysid |-> reporting[1].sysid,
                                   state |-> "DELIVERIED"])
  /\ reporting' = << >>
  /\ UNCHANGED <<received_smis, wait_dlr_list, sending>>

Sender == SenderTakes \/ SenderAdds
Reporter == ReporterTakes \/ ReporterAdds

-----------------------------------------------------------------------------
(* What the sessions do with the delivery reports                          *)

ToPush(s) ==
  {i \in DOMAIN dlr_list : dlr_list[i].sysid = s /\ dlr_list[i].state = "DELIVERIED"}

\* peek_dlr(): the first entry that is not being pushed yet is marked.
Marked_Not(i) == dlr_list
Marked(i) == [dlr_list EXCEPT ![i].state = "PUSHING"]

IsNextToPush(s, i) == i \in ToPush(s) /\ \A j \in ToPush(s) : i <= j

\* remove_dlr(): the first entry with the sequence number of the response.
RemoveDlr(m) ==
  dlr_list' = IF \E i \in DOMAIN dlr_list : dlr_list[i].sm = m
              THEN RemoveAt(dlr_list, SelectInSeq(dlr_list, LAMBDA e : e.sm = m))
              ELSE dlr_list

=============================================================================
