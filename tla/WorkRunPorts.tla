----------------------------- MODULE WorkRunPorts -----------------------------
(***************************************************************************)
(* What the runner and the operator's command line share: the durable      *)
(* checkpoint of one work run, behind the WorkflowCheckpointStore port,    *)
(* and the work item that people edit in the tracker.                      *)
(*                                                                         *)
(* The port promises compare-and-swap; here one save compares and replaces *)
(* in a single step.  CheckpointStore.tla models the file-backed store and *)
(* what it makes of that promise.                                          *)
(***************************************************************************)
EXTENDS WorkRun

VARIABLES
  checkpoint,   \* the persisted WorkRun, or None
  issue         \* the current revision of the work item in the tracker

portVars == <<checkpoint, issue>>

PortsInit ==
  /\ checkpoint = None
  /\ issue \in Revisions

\* Mutant: a save that does not compare.
BlindWrite(expected, updated) == checkpoint' = updated

\* save(expected=..., updated=...) that finds what it expects ...
CompareAndSwap(expected, updated) ==
  /\ checkpoint = expected
  /\ checkpoint' = updated

\* ... and one that raises a conflict and writes nothing.
Conflict(expected) ==
  /\ checkpoint # expected
  /\ UNCHANGED checkpoint

\* A person edits the work item at any time.
EditIssue ==
  /\ issue' \in Revisions \ {issue}
  /\ UNCHANGED checkpoint

=============================================================================
