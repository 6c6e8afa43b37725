--------------------------- MODULE WorkRunLifecycle ---------------------------
(***************************************************************************)
(* What a durable work run promises whoever reads it, with no runner, no   *)
(* command line, no checkpoint store and no audit history: one phase that  *)
(* moves along the permitted transitions, evidence that only grows and     *)
(* never after the work is over, a bounded number of corrections, and a    *)
(* Draft PR exactly when the run is completed.                             *)
(***************************************************************************)
EXTENDS Naturals

CONSTANTS
  WorkRunState, ALLOWED_TRANSITIONS,   \* the lifecycle, as in WorkRun.tla
  ArtifactIds, PullRequests, Revisions, None,
  MaxRemediationCycles

VARIABLES
  phase,      \* the state of the run, or None before it exists
  pinned,     \* the specification revision it was approved at
  evidence,   \* the artifacts it holds
  draft_pr,   \* its Draft PR, or None
  cycles      \* how often it entered remediation

vars == <<phase, pinned, evidence, draft_pr, cycles>>

Init ==
  /\ phase = None /\ pinned = None /\ evidence = {}
  /\ draft_pr = None /\ cycles = 0

\* A run begins approved, or blocked when its work item was not ready.
Start ==
  /\ phase = None
  /\ phase' \in {"approved", "blocked"}
  /\ pinned' \in Revisions
  /\ UNCHANGED <<evidence, draft_pr, cycles>>

\* One durable step: a permitted transition with the evidence it rests on.
Advance ==
  /\ <<phase, phase'>> \in ALLOWED_TRANSITIONS
  /\ UNCHANGED pinned
  /\ evidence \subseteq evidence' /\ evidence' \subseteq ArtifactIds
  /\ phase \in {"approved", "publishing_draft_pr"} => UNCHANGED evidence
  /\ IF phase' = "completed"
     THEN draft_pr' \in PullRequests
     ELSE UNCHANGED draft_pr
  /\ cycles' = cycles + (IF phase' = "remediating" THEN 1 ELSE 0)
  /\ cycles' <= MaxRemediationCycles

Next == Start \/ Advance

Spec == Init /\ [][Next]_vars

=============================================================================
