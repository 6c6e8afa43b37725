----------------------------- MODULE CasRegister -----------------------------
(***************************************************************************)
(* What the WorkflowCheckpointStore port promises its clients: a register  *)
(* that compare-and-swap updates one after the other.  Its value is the    *)
(* sequence of the updates it has taken, each by the client that made it;  *)
(* <<>> is the missing checkpoint.  A client may not learn that its update *)
(* was taken, but one that is acknowledged is never lost.                  *)
(***************************************************************************)
EXTENDS SequencesExt

CONSTANTS Clients

VARIABLES
  register,       \* the updates taken, in order
  acknowledged    \* values whose update was acknowledged

vars == <<register, acknowledged>>

Init == register = <<>> /\ acknowledged = {}

Update(w) ==
  /\ register' = Append(register, w)
  /\ UNCHANGED acknowledged

Acknowledge(value) ==
  /\ IsPrefix(value, register)
  /\ acknowledged' = acknowledged \cup {value}
  /\ UNCHANGED register

Next ==
  \/ \E w \in Clients : Update(w)
  \/ \E n \in 1..Len(register) : Acknowledge(SubSeq(register, 1, n))

Spec == Init /\ [][Next]_vars

=============================================================================
