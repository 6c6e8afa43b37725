-------------------------- MODULE MCCheckpointStore --------------------------
(***************************************************************************)
(* Small instances of the checkpoint store for TLC.                        *)
(***************************************************************************)
EXTENDS CheckpointStore

CONSTANT Operator   \* the client that is a command

\* Tasks of the runner's event loop, and a command in a process of its own.
TwoProcesses == [w \in Clients |-> IF w = Operator THEN "gmai" ELSE "runner"]

=============================================================================
