------------------------------ MODULE WriteOnce ------------------------------
(***************************************************************************)
(* What an evidence_id promises: it has no record, then one, and keeps it. *)
(* A caller may not learn that its record was taken, but a record that is  *)
(* acknowledged is the one there is.                                       *)
(***************************************************************************)
CONSTANTS
  Records,   \* the records that may be saved under the id
  None       \* no record yet

VARIABLES
  record,         \* the record of the id, or None
  acknowledged    \* records whose save was acknowledged

vars == <<record, acknowledged>>

Init == record = None /\ acknowledged = {}

Write ==
  /\ record = None
  /\ record' \in Records
  /\ UNCHANGED acknowledged

Acknowledge ==
  /\ record # None
  /\ acknowledged' = acknowledged \cup {record}
  /\ UNCHANGED record

Next == Write \/ Acknowledge

Spec == Init /\ [][Next]_vars

=============================================================================
