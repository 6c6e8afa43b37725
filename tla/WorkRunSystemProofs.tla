------------------------- MODULE WorkRunSystemProofs -------------------------
(***************************************************************************)
(* Theorems about the work-run system, for any number of calls, commands,  *)
(* revisions, approvers, artifacts and remediation cycles.                 *)
(***************************************************************************)
EXTENDS WorkRunSystem, WorkRunProofs

------------------------------------------------------------------------------
(* Counting remediations in a history. *)

\* A history holds finitely many remediations, and none beyond its length.
LEMMA RemediationsFinite ==
  ASSUME NEW run \in WorkRun
  PROVE  /\ IsFiniteSet(Remediations(run))
         /\ Cardinality(Remediations(run)) \in Nat
         /\ \A i \in Remediations(run) : i \in 1..Len(run.events)
<1>1. run.events \in Seq(WorkRunEvent) /\ Len(run.events) \in Nat
  BY DEF WorkRun
<1>2. DOMAIN run.events = 1..Len(run.events)
  BY <1>1
<1>3. Remediations(run) \in SUBSET (1..Len(run.events))
  BY <1>2 DEF Remediations
<1>4. IsFiniteSet(1..Len(run.events))
  BY <1>1, FS_Interval
<1> QED
  BY <1>3, <1>4, FS_Subset, FS_CardinalityType

\* A transition adds a remediation exactly when it enters remediation.
LEMMA RemediationsOfTransition ==
  ASSUME NEW run \in WorkRun, NEW s \in WorkRunState, NEW d \in Detail
  PROVE  Cardinality(Remediations(transition_to(run, s, d))) =
           Cardinality(Remediations(run)) + (IF s = "remediating" THEN 1 ELSE 0)
<1> DEFINE new == transition_to(run, s, d)
           n == Len(run.events)
           e == Event("entered", s, d)
<1>1. run.events \in Seq(WorkRunEvent) /\ n \in Nat
  BY DEF WorkRun
<1>2. new.events = Append(run.events, e)
  BY TransitionFields
<1>3. e.name = "entered" /\ e.state = s
  BY DEF Event
<1> HIDE DEF new, e
<1>4. /\ DOMAIN new.events = 1..(n + 1)
      /\ \A i \in 1..n : new.events[i] = run.events[i]
      /\ new.events[n + 1] = e
      /\ DOMAIN run.events = 1..n
  BY <1>1, <1>2
<1>5. Remediations(new) =
        Remediations(run) \cup (IF s = "remediating" THEN {n + 1} ELSE {})
  BY <1>1, <1>3, <1>4 DEF Remediations
<1>6. IsFiniteSet(Remediations(run)) /\ n + 1 \notin Remediations(run)
  BY <1>1, RemediationsFinite
<1>7. Cardinality(Remediations(run)) \in Nat
  BY RemediationsFinite
<1>8. Cardinality(Remediations(run) \cup {n + 1}) = Cardinality(Remediations(run)) + 1
  BY <1>6, FS_AddElement
<1>9. CASE s = "remediating"
  BY <1>5, <1>8, <1>9 DEF new
<1>10. CASE s # "remediating"
  <2>1. Remediations(new) = Remediations(run)
    BY <1>5, <1>10
  <2> QED
    BY <2>1, <1>7, <1>10 DEF new
<1> QED
  BY <1>9, <1>10

\* Evidence and the Draft PR add no remediation.
LEMMA RemediationsOfOthers ==
  ASSUME NEW run \in WorkRun
  PROVE  /\ \A bundle \in Seq(ArtifactIds) :
              Remediations(attach_artifact(run, bundle)) = Remediations(run)
         /\ \A url \in PullRequests :
              Remediations(record_draft_pr(run, url)) = Remediations(run)
<1> DEFINE n == Len(run.events)
<1>1. run.events \in Seq(WorkRunEvent) /\ n \in Nat /\ DOMAIN run.events = 1..n
  BY DEF WorkRun
<1>2. ASSUME NEW bundle \in Seq(ArtifactIds)
      PROVE  Remediations(attach_artifact(run, bundle)) = Remediations(run)
  <2> DEFINE new == [i \in 1..Len(bundle) |->
                       Event("artifact_attached", run.state, bundle[i])]
             after == attach_artifact(run, bundle)
             m == Len(bundle)
  <2>1. new \in Seq(WorkRunEvent) /\ Len(new) = m /\ m \in Nat
    BY AttachedEvents
  <2>2. \A i \in 1..m : new[i].name = "artifact_attached"
    BY DEF Event
  <2>3. after.events = run.events \o new
    BY AttachFields
  <2> HIDE DEF new, after, m
  <2>10. /\ run.events \o new \in Seq(WorkRunEvent)
        /\ Len(run.events \o new) = n + m
        /\ \A i \in 1..(n + m) : (run.events \o new)[i] =
             IF i <= n THEN run.events[i] ELSE new[i - n]
    BY <1>1, <2>1, ConcatProperties
  <2>4. /\ DOMAIN after.events = 1..(n + m)
        /\ \A i \in 1..n : after.events[i] = run.events[i]
        /\ \A i \in (n + 1)..(n + m) : after.events[i] = new[i - n]
    BY <1>1, <2>1, <2>3, <2>10
  <2>5. \A i \in (n + 1)..(n + m) : after.events[i].name = "artifact_attached"
    <3> SUFFICES ASSUME NEW i \in (n + 1)..(n + m)
                 PROVE  after.events[i].name = "artifact_attached"
      OBVIOUS
    <3>1. i - n \in 1..m
      BY <1>1, <2>1
    <3> QED
      BY <3>1, <2>2, <2>4
  <2>6. \A i \in 1..(n + m) : i \in 1..n \/ i \in (n + 1)..(n + m)
    BY <1>1, <2>1
  <2>7. \A i \in 1..n : i \in 1..(n + m)
    BY <1>1, <2>1
  <2>8. Remediations(after) = Remediations(run)
    BY <1>1, <2>4, <2>5, <2>6, <2>7 DEF Remediations
  <2> QED
    BY <2>8 DEF after
<1>3. ASSUME NEW url \in PullRequests
      PROVE  Remediations(record_draft_pr(run, url)) = Remediations(run)
  <2> DEFINE e == Event("draft_pr_recorded", run.state, url)
             after == record_draft_pr(run, url)
  <2>1. after.events = Append(run.events, e)
    BY RecordFields
  <2>2. e.name = "draft_pr_recorded"
    BY DEF Event
  <2> HIDE DEF e, after
  <2>3. /\ DOMAIN after.events = 1..(n + 1)
        /\ \A i \in 1..n : after.events[i] = run.events[i]
        /\ after.events[n + 1] = e
    BY <1>1, <2>1
  <2>4. Remediations(after) = Remediations(run)
    BY <1>1, <2>2, <2>3 DEF Remediations
  <2> QED
    BY <2>4 DEF after
<1> QED
  BY <1>2, <1>3

------------------------------------------------------------------------------
(* What one save may do to a run. *)

\* `updated` is `run` after the operations that come before a transition.
Prepares(run, updated) ==
  /\ updated \in WorkRun
  /\ Grows(run, updated)
  /\ updated.state = run.state
  /\ Remediations(updated) = Remediations(run)

\* `new` is one permitted durable step away from `run`.
Advances(run, new) ==
  /\ new \in WorkRun
  /\ Grows(run, new)
  /\ <<run.state, new.state>> \in ALLOWED_TRANSITIONS
  /\ run.state \in {"approved", "publishing_draft_pr"} => new.artifacts = run.artifacts
  /\ IF new.state = "completed"
     THEN new.draft_pr_url \in PullRequests
     ELSE new.draft_pr_url = run.draft_pr_url
  /\ Cardinality(Remediations(new)) =
       Cardinality(Remediations(run)) + (IF new.state = "remediating" THEN 1 ELSE 0)
  /\ new.state = "remediating" => Cardinality(Remediations(run)) < MaxRemediationCycles

\* A permitted step starts in an active state and ends in a lifecycle state.
LEMMA AllowedStates ==
  ASSUME NEW s, NEW t, <<s, t>> \in ALLOWED_TRANSITIONS
  PROVE  s \in ACTIVE_STATES /\ s \notin TERMINAL_STATES /\ t \in WorkRunState
  BY DEF ALLOWED_TRANSITIONS, ACTIVE_STATES, TERMINAL_STATES, WorkRunState

\* Nothing at all, or a bundle of evidence, or the Draft PR, prepares a run.
LEMMA PreparedRuns ==
  ASSUME NEW run \in WorkRun
  PROVE  /\ Prepares(run, run)
         /\ \A bundle \in Seq(ArtifactIds) : Prepares(run, attach_artifact(run, bundle))
         /\ \A url \in PullRequests : Prepares(run, record_draft_pr(run, url))
<1>1. Grows(run, run)
  <2>1. run.events \in Seq(WorkRunEvent) /\ run.artifacts \in Seq(ArtifactIds)
    BY DEF WorkRun
  <2> QED
    BY <2>1, PrefixElements DEF Grows
<1>2. Prepares(run, run)
  BY <1>1 DEF Prepares
<1>3. \A bundle \in Seq(ArtifactIds) : Prepares(run, attach_artifact(run, bundle))
  BY OperationsGrow, AttachFields, RemediationsOfOthers DEF Prepares
<1>4. \A url \in PullRequests : Prepares(run, record_draft_pr(run, url))
  BY OperationsGrow, RecordFields, RemediationsOfOthers DEF Prepares
<1> QED
  BY <1>2, <1>3, <1>4

\* A prepared run that makes a permitted transition advances.
LEMMA TransitionAdvances ==
  ASSUME NEW run \in WorkRun, NEW updated, Prepares(run, updated),
         NEW s \in WorkRunState, NEW d \in Detail, CanTransition(updated, s),
         run.state \in {"approved", "publishing_draft_pr"} => updated.artifacts = run.artifacts,
         IF s = "completed" THEN updated.draft_pr_url \in PullRequests
                            ELSE updated.draft_pr_url = run.draft_pr_url,
         s = "remediating" => Cardinality(Remediations(run)) < MaxRemediationCycles
  PROVE  Advances(run, transition_to(updated, s, d))
<1> DEFINE new == transition_to(updated, s, d)
<1>1. /\ updated \in WorkRun /\ Grows(run, updated) /\ updated.state = run.state
      /\ Remediations(updated) = Remediations(run)
  BY DEF Prepares
<1>2. /\ new \in WorkRun /\ new.state = s /\ new.artifacts = updated.artifacts
      /\ new.draft_pr_url = updated.draft_pr_url
  BY <1>1, TransitionType, TransitionFields
<1>3. Grows(updated, new)
  BY <1>1, OperationsGrow
<1>4. Grows(run, new)
  BY <1>1, <1>2, <1>3, GrowsTransitive
<1>5. Cardinality(Remediations(new)) =
        Cardinality(Remediations(run)) + (IF s = "remediating" THEN 1 ELSE 0)
  BY <1>1, RemediationsOfTransition
<1>6. <<run.state, s>> \in ALLOWED_TRANSITIONS
  BY <1>1 DEF CanTransition
<1> HIDE DEF new
<1>7. Advances(run, new)
  BY <1>2, <1>4, <1>5, <1>6 DEF Advances
<1> QED
  BY <1>7 DEF new

------------------------------------------------------------------------------
(* The inductive invariant. *)

\* A run as it is first saved: approved or blocked, with nothing else in it.
Fresh(run) ==
  /\ run \in WorkRun
  /\ run.state \in {"approved", "blocked"}
  /\ run.events[1].name = "approved"
  /\ run.artifacts = <<>>
  /\ run.draft_pr_url = None
  /\ Remediations(run) = {}

Early == {"get_work_item", "evaluate_readiness", "block", "ingest", "save_approved", "save_blocked"}

Working == ACTIVE_STATES \cup {"executor", "record_draft_pr", "report"}

\* What a call knows about its own local variables at each step.
CallInv(c) ==
  /\ pc[c] # "idle" => input[c] \in WorkRun
  /\ pc[c] \in Early => Fresh(input[c]) /\ input[c].state = "approved"
  /\ pc[c] \in (Early \ {"get_work_item"}) \cup Working => item[c] = input[c].revision
  /\ pc[c] \in Working => current[c] \in WorkRun /\ current[c].revision = input[c].revision
  /\ pc[c] \in ACTIVE_STATES => current[c].state = pc[c]
  /\ pc[c] = "executor" => current[c].state = "executing"
  /\ pc[c] = "record_draft_pr" =>
       current[c].state = "publishing_draft_pr" /\ reply[c] \in PullRequests
  /\ pc[c] = "report" => current[c].state \in TERMINAL_STATES

\* What a call may rely on about the checkpoint: it is the call's run or a
\* continuation of it, and it is the call's run once that is terminal.
DurableInv(c) ==
  /\ pc[c] \in Working => checkpoint \in WorkRun /\ Grows(current[c], checkpoint)
  /\ pc[c] = "report" => checkpoint = current[c]

\* What a command is about to save.
CommandInv(k) ==
  /\ command[k] \in {"idle", "start_run", "run"} => loaded[k] = None
  /\ command[k] = "run" => Fresh(target[k])
  /\ command[k] \in {"cancel", "retry"} =>
       loaded[k] \in WorkRun /\ Advances(loaded[k], target[k])

CheckpointInv ==
  checkpoint # None =>
    /\ checkpoint.events[1].name = "approved"
    /\ Cardinality(Remediations(checkpoint)) <= MaxRemediationCycles

HistoryInv ==
  /\ ExecutesApprovedRevision
  /\ ReportsMatchCheckpoint
  /\ reports # {} => checkpoint.state \in TERMINAL_STATES

IndInv ==
  /\ TypeOK
  /\ \A c \in Calls : CallInv(c) /\ DurableInv(c)
  /\ \A k \in Commands : CommandInv(k)
  /\ CheckpointInv
  /\ HistoryInv

\* What any step of the system may do to the checkpoint.
DurableStep ==
  \/ checkpoint' = checkpoint
  \/ checkpoint = None /\ Fresh(checkpoint')
  \/ checkpoint \in WorkRun /\ Advances(checkpoint, checkpoint')

------------------------------------------------------------------------------
(* Facts about fresh runs and about the first event. *)

\* A fresh approval, and its blocked form, are fresh runs.
LEMMA ApprovalsFresh ==
  ASSUME NEW r \in Revisions, NEW a \in Approvers
  PROVE  /\ Fresh(approve(r, a)) /\ approve(r, a).state = "approved"
         /\ approve(r, a).revision = r
<1> DEFINE run == approve(r, a)
<1>1. run \in WorkRun
  BY ApproveType
<1>2. /\ run.state = "approved" /\ run.revision = r
      /\ run.artifacts = <<>> /\ run.draft_pr_url = None
      /\ run.events = <<Event("approved", "approved", a)>>
  BY DEF approve
<1>3. run.events[1].name = "approved" /\ DOMAIN run.events = {1}
  BY <1>2 DEF Event
<1> HIDE DEF run
<1>4. Remediations(run) = {}
  BY <1>3 DEF Remediations
<1>5. Fresh(run)
  BY <1>1, <1>2, <1>3, <1>4 DEF Fresh
<1> QED
  BY <1>2, <1>5 DEF run

\* A run's first event never changes as the run grows.
LEMMA FirstEventKept ==
  ASSUME NEW run \in WorkRun, NEW new \in WorkRun, Grows(run, new)
  PROVE  new.events[1] = run.events[1]
<1>1. /\ run.events \in Seq(WorkRunEvent) /\ run.events # <<>>
      /\ new.events \in Seq(WorkRunEvent)
  BY DEF WorkRun
<1>2. 1 \in 1..Len(run.events)
  BY <1>1
<1> QED
  BY <1>1, <1>2, PrefixElements DEF Grows

\* Blocking a fresh approval leaves it fresh.
LEMMA BlockedFresh ==
  ASSUME NEW run, Fresh(run), run.state = "approved", NEW d \in Detail
  PROVE  /\ Fresh(transition_to(run, "blocked", d))
         /\ transition_to(run, "blocked", d).revision = run.revision
<1> DEFINE new == transition_to(run, "blocked", d)
<1>1. run \in WorkRun /\ "blocked" \in WorkRunState
  BY DEF Fresh, WorkRunState, TERMINAL_STATES
<1>2. /\ new \in WorkRun /\ new.state = "blocked" /\ new.artifacts = run.artifacts
      /\ new.draft_pr_url = run.draft_pr_url /\ new.revision = run.revision
  BY <1>1, TransitionType, TransitionFields
<1>3. new.events[1] = run.events[1]
  BY <1>1, <1>2, OperationsGrow, FirstEventKept
<1>4. Cardinality(Remediations(new)) = Cardinality(Remediations(run)) + 0
  BY <1>1, RemediationsOfTransition
<1>5. Cardinality(Remediations(run)) = 0
  BY FS_EmptySet DEF Fresh
<1>6. Remediations(new) = {}
  BY <1>2, <1>4, <1>5, RemediationsFinite, FS_EmptySet
<1> HIDE DEF new
<1> QED
  BY <1>2, <1>3, <1>6 DEF Fresh, new

\* A pristine checkpoint, handed over as input, is a fresh approval.
LEMMA PristineFresh ==
  ASSUME NEW run \in WorkRun, IsPristine(run), run.events[1].name = "approved"
  PROVE  Fresh(run) /\ run.state = "approved"
<1>1. run.events \in Seq(WorkRunEvent) /\ Len(run.events) = 1
  BY DEF WorkRun, IsPristine
<1>2. DOMAIN run.events = {1}
  BY <1>1
<1>3. Remediations(run) = {}
  BY <1>2 DEF Remediations
<1> QED
  BY <1>3 DEF Fresh, IsPristine

------------------------------------------------------------------------------
(* Saves. *)

\* The step of call c leaves the commands, the work item, the inputs and the
\* deliveries alone: all that a save of a stage does not touch.
SaveFrame ==
  /\ UNCHANGED <<input, item, reply, executions, reports, issue, cliVars>>
  /\ passed' \subseteq Seq(WorkRunEvent)

\* A stage of call c ends by saving a run that its local run advances to.
StageSaved(c) == \E new : Advances(current[c], new) /\ Save(c, current[c], new)

\* A call creates the checkpoint.
CreationSaved(c) ==
  \E new : /\ Fresh(new) /\ new.revision = input[c].revision
           /\ Save(c, None, new)

\* Either a save succeeds and the call proceeds, or it raises and the
\* checkpoint stays.  No other call is affected.
LEMMA SaveCases ==
  ASSUME TypeOK, NEW c \in Calls, NEW expected, NEW new \in WorkRun,
         Save(c, expected, new)
  PROVE  /\ pc' \in [Calls -> PcLabel]
         /\ current' \in [Calls -> RunOrNone]
         /\ checkpoint' \in RunOrNone
         /\ \A d \in Calls \ {c} : pc'[d] = pc[d] /\ current'[d] = current[d]
         /\ \/ /\ checkpoint = expected /\ checkpoint' = new
               /\ current'[c] = new
               /\ pc'[c] = IF new.state \in TERMINAL_STATES THEN "report" ELSE new.state
            \/ /\ checkpoint' = checkpoint
               /\ pc'[c] = "raised"
               /\ current' = current
<1>1. new.state \in WorkRunState
  BY DEF WorkRun
<1>2. (IF new.state \in TERMINAL_STATES THEN "report" ELSE new.state) \in PcLabel
  BY <1>1 DEF PcLabel, WorkRunState
<1>3. CASE CompareAndSwap(expected, new) /\ Proceed(c, new)
  BY <1>2, <1>3 DEF CompareAndSwap, Proceed, Goto, TypeOK, RunOrNone
<1>4. CASE Conflict(expected) /\ Goto(c, "raised") /\ UNCHANGED current
  BY <1>4 DEF Conflict, Goto, TypeOK, PcLabel, Ended
<1> QED
  BY <1>3, <1>4 DEF Save

\* A stage that prepares its local run and saves a transition advances it.
LEMMA StageAdvances ==
  ASSUME NEW c \in Calls, NEW updated, NEW s \in WorkRunState, NEW d \in Detail,
         current[c] \in WorkRun, Prepares(current[c], updated),
         current[c].state \in {"approved", "publishing_draft_pr"} =>
           updated.artifacts = current[c].artifacts,
         IF s = "completed" THEN updated.draft_pr_url \in PullRequests
                            ELSE updated.draft_pr_url = current[c].draft_pr_url,
         s = "remediating" => Cardinality(Remediations(current[c])) < MaxRemediationCycles,
         SaveStage(c, updated, s, d)
  PROVE  StageSaved(c)
<1>1. CanTransition(updated, s) /\ Save(c, current[c], transition_to(updated, s, d))
  BY DEF SaveStage
<1>2. Advances(current[c], transition_to(updated, s, d))
  BY <1>1, TransitionAdvances
<1> QED
  BY <1>1, <1>2 DEF StageSaved

\* The states and details that the stages use.
LEMMA StageVocabulary ==
  /\ {"executing", "verifying", "remediating", "publishing_draft_pr",
      "completed", "failed", "blocked"} \subseteq WorkRunState
  /\ {None, "operation_failed", "policy_denied", "remediation_limit_reached",
      "work_item_not_ready"} \subseteq Detail
  /\ \A outcome \in FailedOutcome : ExecutionCode(outcome) \in Detail
<1>1. \A outcome \in FailedOutcome : ExecutionCode(outcome) \in FailureCode
  BY DEF FailedOutcome, ExecutionCode, FailureCode
<1> QED
  BY <1>1 DEF WorkRunState, ACTIVE_STATES, TERMINAL_STATES, Detail, FailureCode

\* A failure saves nothing but the transition to failed.
LEMMA FailAdvances ==
  ASSUME NEW c \in Calls, current[c] \in WorkRun, Fail(c)
  PROVE  StageSaved(c)
<1>1. SaveStage(c, current[c], "failed", "operation_failed")
  BY DEF Fail
<1>2. Prepares(current[c], current[c])
  BY PreparedRuns
<1> QED
  BY <1>1, <1>2, StageVocabulary, StageAdvances

\* A stage that attaches a bundle outside approval and publication, and then
\* saves a transition to neither completion nor remediation beyond the bound.
LEMMA BundleAdvances ==
  ASSUME NEW c \in Calls, current[c] \in WorkRun,
         current[c].state \notin {"approved", "publishing_draft_pr"},
         NEW bundle \in ArtifactBundles, NEW s \in WorkRunState \ {"completed"},
         NEW d \in Detail,
         s = "remediating" => Cardinality(Remediations(current[c])) < MaxRemediationCycles,
         SaveStage(c, attach_artifact(current[c], bundle), s, d)
  PROVE  StageSaved(c)
<1>1. bundle \in Seq(ArtifactIds)
  BY ArtifactBundlesAssumption
<1>2. Prepares(current[c], attach_artifact(current[c], bundle))
  BY <1>1, PreparedRuns
<1>3. attach_artifact(current[c], bundle).draft_pr_url = current[c].draft_pr_url
  BY <1>1, AttachFields
<1> QED
  BY <1>2, <1>3, StageAdvances

------------------------------------------------------------------------------
(* The steps of a call that save. *)

\* Every action of a stage that ends in a save advances the local run.
LEMMA StageSteps ==
  ASSUME IndInv, NEW c \in Calls, UNCHANGED cliVars,
         \/ BeginExecution(c) \/ PolicyDenies(c) \/ FinishExecution(c) \/ Verify(c)
         \/ Remediate(c) \/ PublisherFails(c) \/ RecordDraftPr(c)
  PROVE  /\ StageSaved(c) /\ SaveFrame
         /\ pc[c] \in Working /\ current[c] \in WorkRun
<1>1. CallInv(c) /\ TypeOK
  BY DEF IndInv
<1>2. pc[c] \in Working
  BY DEF BeginExecution, PolicyDenies, FinishExecution, Verify, Remediate,
         PublisherFails, RecordDraftPr, Working, ACTIVE_STATES
<1>3. current[c] \in WorkRun /\ current[c].events \in Seq(WorkRunEvent)
  BY <1>1, <1>2 DEF CallInv, WorkRun
<1>4. passed \subseteq Seq(WorkRunEvent)
  BY <1>1 DEF TypeOK
<1>5. Prepares(current[c], current[c])
  BY <1>3, PreparedRuns
<1>6. Cardinality(Remediations(current[c])) \in Nat /\ MaxRemediationCycles \in Nat
  BY <1>3, RemediationsFinite, MaxRemediationCyclesAssumption
<1>7. CASE BeginExecution(c)
  <2>1. SaveStage(c, current[c], "executing", None)
    BY <1>7 DEF BeginExecution
  <2>2. StageSaved(c)
    BY <2>1, <1>3, <1>5, StageVocabulary, StageAdvances
  <2> QED
    BY <2>2, <1>2, <1>3, <1>4, <1>7 DEF BeginExecution, SaveFrame, historyVars
<1>8. CASE PolicyDenies(c)
  <2>1. SaveStage(c, current[c], "blocked", "policy_denied")
    BY <1>8 DEF PolicyDenies
  <2>2. StageSaved(c)
    BY <2>1, <1>3, <1>5, StageVocabulary, StageAdvances
  <2> QED
    BY <2>2, <1>2, <1>3, <1>4, <1>8 DEF PolicyDenies, SaveFrame, historyVars
<1>9. CASE FinishExecution(c)
  <2>1. current[c].state \notin {"approved", "publishing_draft_pr"}
    BY <1>1, <1>9 DEF FinishExecution, CallInv
  <2>2. CASE Fail(c)
    BY <2>2, <1>2, <1>3, <1>4, <1>9, FailAdvances DEF FinishExecution, SaveFrame, historyVars
  <2>3. ASSUME NEW bundle \in ArtifactBundles,
               \/ SaveStage(c, attach_artifact(current[c], bundle), "verifying", None)
               \/ \E outcome \in FailedOutcome :
                    SaveStage(c, attach_artifact(current[c], bundle), "failed",
                              ExecutionCode(outcome))
        PROVE  StageSaved(c)
    BY <2>1, <2>3, <1>3, StageVocabulary, BundleAdvances
  <2> QED
    BY <2>2, <2>3, <1>2, <1>3, <1>4, <1>9 DEF FinishExecution, SaveFrame, historyVars
<1>10. CASE Verify(c)
  <2>1. current[c].state \notin {"approved", "publishing_draft_pr"}
    BY <1>1, <1>10 DEF Verify, CallInv, ACTIVE_STATES
  <2>2. CASE Fail(c) /\ UNCHANGED passed
    BY <2>2, <1>2, <1>3, <1>4, <1>10, FailAdvances DEF Verify, SaveFrame
  <2>3. ASSUME NEW bundle \in ArtifactBundles,
               NEW s \in {"publishing_draft_pr", "failed", "remediating"},
               NEW d \in {None, "remediation_limit_reached"},
               s = "remediating" => Attempt(current[c]) <= MaxRemediationCycles,
               SaveStage(c, attach_artifact(current[c], bundle), s, d)
        PROVE  StageSaved(c)
    <3>1. s = "remediating" => Cardinality(Remediations(current[c])) < MaxRemediationCycles
      BY <2>3, <1>6 DEF Attempt
    <3>2. s \in WorkRunState \ {"completed"} /\ d \in Detail
      BY StageVocabulary
    <3> QED
      BY <2>1, <2>3, <3>1, <3>2, <1>3, BundleAdvances
  <2>4. passed \cup {current[c].events} \subseteq Seq(WorkRunEvent)
    BY <1>3, <1>4
  <2> QED
    BY <2>2, <2>3, <2>4, <1>2, <1>3, <1>4, <1>10 DEF Verify, SaveFrame
<1>11. CASE Remediate(c)
  <2>1. current[c].state \notin {"approved", "publishing_draft_pr"}
    BY <1>1, <1>11 DEF Remediate, CallInv, ACTIVE_STATES
  <2>2. StageSaved(c)
    BY <2>1, <1>3, <1>11, FailAdvances, StageVocabulary, BundleAdvances DEF Remediate
  <2> QED
    BY <2>2, <1>2, <1>3, <1>4, <1>11 DEF Remediate, SaveFrame, historyVars
<1>12. CASE PublisherFails(c)
  BY <1>2, <1>3, <1>4, <1>12, FailAdvances DEF PublisherFails, SaveFrame, historyVars
<1>13. CASE RecordDraftPr(c)
  <2>1. reply[c] \in PullRequests
    BY <1>1, <1>13 DEF RecordDraftPr, CallInv
  <2> DEFINE updated == record_draft_pr(current[c], reply[c])
  <2>2. /\ Prepares(current[c], updated)
        /\ updated.draft_pr_url \in PullRequests
        /\ updated.artifacts = current[c].artifacts
    BY <2>1, <1>3, PreparedRuns, RecordFields
  <2>3. SaveStage(c, updated, "completed", None) => StageSaved(c)
    BY <2>2, <1>3, StageVocabulary, StageAdvances
  <2> QED
    BY <2>3, <1>2, <1>3, <1>4, <1>13, FailAdvances DEF RecordDraftPr, SaveFrame, historyVars
<1> QED
  BY <1>7, <1>8, <1>9, <1>10, <1>11, <1>12, <1>13

\* The two saves that create the checkpoint save a fresh run.
LEMMA CreationSteps ==
  ASSUME IndInv, NEW c \in Calls, UNCHANGED cliVars,
         SaveBlocked(c) \/ SaveApproved(c)
  PROVE  /\ CreationSaved(c) /\ SaveFrame
         /\ pc[c] \in Early \ {"get_work_item"}
<1>1. CallInv(c) /\ TypeOK
  BY DEF IndInv
<1>2. pc[c] \in Early \ {"get_work_item"}
  BY DEF SaveBlocked, SaveApproved, Early
<1>3. Fresh(input[c]) /\ input[c].state = "approved" /\ passed \subseteq Seq(WorkRunEvent)
  BY <1>1, <1>2 DEF CallInv, TypeOK
<1>4. CASE SaveBlocked(c)
  <2>1. Fresh(transition_to(input[c], "blocked", "work_item_not_ready"))
    BY <1>3, StageVocabulary, BlockedFresh
  <2>2. transition_to(input[c], "blocked", "work_item_not_ready").revision = input[c].revision
    BY <1>3, StageVocabulary, BlockedFresh
  <2> QED
    BY <2>1, <2>2, <1>2, <1>3, <1>4 DEF SaveBlocked, CreationSaved, SaveFrame, historyVars
<1>5. CASE SaveApproved(c)
  BY <1>2, <1>3, <1>5 DEF SaveApproved, CreationSaved, SaveFrame, historyVars
<1> QED
  BY <1>4, <1>5

------------------------------------------------------------------------------
(* What a step does to the checkpoint. *)

\* The steps of a call that neither save nor touch the checkpoint.
QuietStep(c) ==
  \/ GetWorkItem(c) \/ EvaluateReadiness(c) \/ BlockOnUnready(c) \/ Ingest(c)
  \/ PolicyAllows(c) \/ PublisherOpens(c) \/ ReportOutcome(c) \/ Abandon(c)

\* A step of a call saves a stage, creates the checkpoint, or is quiet.
LEMMA StepCases ==
  ASSUME IndInv, NEW c \in Calls, Step(c), UNCHANGED cliVars
  PROVE  \/ /\ StageSaved(c) /\ SaveFrame
            /\ pc[c] \in Working /\ current[c] \in WorkRun
         \/ /\ CreationSaved(c) /\ SaveFrame
            /\ pc[c] \in Early \ {"get_work_item"}
         \/ QuietStep(c) /\ UNCHANGED checkpoint
<1>1. CASE \/ BeginExecution(c) \/ PolicyDenies(c) \/ FinishExecution(c) \/ Verify(c)
           \/ Remediate(c) \/ PublisherFails(c) \/ RecordDraftPr(c)
  BY <1>1, StageSteps
<1>2. CASE SaveBlocked(c) \/ SaveApproved(c)
  BY <1>2, CreationSteps
<1>3. CASE QuietStep(c)
  BY <1>3 DEF QuietStep, GetWorkItem, EvaluateReadiness, BlockOnUnready, Ingest,
              PolicyAllows, PublisherOpens, ReportOutcome, Abandon, portVars
<1> QED
  BY <1>1, <1>2, <1>3 DEF Step, QuietStep

\* A successful save of a stage is a durable step.
LEMMA StageDurable ==
  ASSUME TypeOK, NEW c \in Calls, current[c] \in WorkRun, StageSaved(c)
  PROVE  DurableStep
<1>1. PICK new : Advances(current[c], new) /\ Save(c, current[c], new)
  BY DEF StageSaved
<1>2. new \in WorkRun
  BY <1>1 DEF Advances
<1> QED
  BY <1>1, <1>2, SaveCases DEF DurableStep

\* So is a successful creation.
LEMMA CreationDurable ==
  ASSUME TypeOK, NEW c \in Calls, CreationSaved(c)
  PROVE  DurableStep
<1>1. PICK new : Fresh(new) /\ Save(c, None, new)
  BY DEF CreationSaved
<1>2. new \in WorkRun
  BY <1>1 DEF Fresh
<1> QED
  BY <1>1, <1>2, SaveCases DEF DurableStep

\* So is the save of a command.
LEMMA CommandDurable ==
  ASSUME TypeOK, NEW k \in Commands, CommandInv(k), SaveCommand(k)
  PROVE  DurableStep
<1>1. CASE checkpoint' = checkpoint
  BY <1>1 DEF DurableStep
<1>2. CASE CompareAndSwap(loaded[k], target[k])
  <2>1. checkpoint = loaded[k] /\ checkpoint' = target[k]
    BY <1>2 DEF CompareAndSwap
  <2>2. CASE command[k] = "run"
    BY <2>1, <2>2 DEF CommandInv, DurableStep
  <2>3. CASE command[k] \in {"cancel", "retry"}
    BY <2>1, <2>3 DEF CommandInv, DurableStep
  <2> QED
    BY <2>2, <2>3 DEF SaveCommand
<1> QED
  BY <1>1, <1>2 DEF SaveCommand, Conflict

\* Every step of the system is durable.
LEMMA NextDurable ==
  ASSUME IndInv, [Next]_vars
  PROVE  DurableStep
<1>1. TypeOK /\ \A k \in Commands : CommandInv(k)
  BY DEF IndInv
<1>2. ASSUME NEW c \in Calls, Step(c), UNCHANGED cliVars
      PROVE  DurableStep
  BY <1>1, <1>2, StepCases, StageDurable, CreationDurable DEF DurableStep
<1>3. ASSUME NEW c \in Calls, NEW run, Call(c, run)
      PROVE  DurableStep
  BY <1>3 DEF Call, portVars, DurableStep
<1>4. CASE CliNext
  <2>1. ASSUME NEW k \in Commands,
               RunCommand(k) \/ StartRun(k) \/ Cancel(k) \/ Retry(k)
        PROVE  DurableStep
    BY <2>1 DEF RunCommand, StartRun, Cancel, Retry, Resolve, portVars, DurableStep
  <2> QED
    BY <1>1, <1>4, <2>1, CommandDurable DEF CliNext
<1>5. CASE EditIssue
  BY <1>5 DEF EditIssue, DurableStep
<1>6. CASE UNCHANGED vars
  BY <1>6 DEF vars, portVars, DurableStep
<1> QED
  BY <1>2, <1>3, <1>4, <1>5, <1>6 DEF Next, RunnerNext

\* A durable step keeps a terminal checkpoint, and grows any other.
LEMMA DurableGrows ==
  ASSUME TypeOK, DurableStep, checkpoint # None
  PROVE  /\ checkpoint \in WorkRun /\ checkpoint' \in WorkRun
         /\ Grows(checkpoint, checkpoint')
         /\ checkpoint.state \in TERMINAL_STATES => checkpoint' = checkpoint
<1>1. checkpoint \in WorkRun
  BY DEF TypeOK, RunOrNone
<1>2. CASE checkpoint' = checkpoint
  BY <1>1, <1>2, PreparedRuns DEF Prepares
<1>3. CASE Advances(checkpoint, checkpoint')
  BY <1>1, <1>3, AllowedStates DEF Advances
<1> QED
  BY <1>1, <1>2, <1>3 DEF DurableStep

\* Calls that the step does not concern keep their invariants.
LEMMA OthersKept ==
  ASSUME TypeOK, DurableStep, NEW d \in Calls, CallInv(d), DurableInv(d),
         pc'[d] = pc[d], current'[d] = current[d], input'[d] = input[d],
         item'[d] = item[d], reply'[d] = reply[d]
  PROVE  CallInv(d)' /\ DurableInv(d)'
<1>1. CallInv(d)'
  BY DEF CallInv
<1>2. CASE pc[d] \notin Working
  BY <1>1, <1>2 DEF DurableInv, Working
<1>3. CASE pc[d] \in Working
  <2>1. current[d] \in WorkRun /\ checkpoint \in WorkRun /\ Grows(current[d], checkpoint)
    BY <1>3 DEF CallInv, DurableInv
  <2>2. checkpoint # None
    BY <2>1, NoneAssumption
  <2>3. /\ checkpoint' \in WorkRun /\ Grows(checkpoint, checkpoint')
        /\ checkpoint.state \in TERMINAL_STATES => checkpoint' = checkpoint
    BY <2>2, DurableGrows
  <2>4. Grows(current[d], checkpoint')
    BY <2>1, <2>3, GrowsTransitive
  <2>5. pc[d] = "report" => checkpoint' = current[d]
    BY <2>3 DEF CallInv, DurableInv
  <2> QED
    BY <1>1, <2>3, <2>4, <2>5 DEF DurableInv
<1> QED
  BY <1>1, <1>2, <1>3

\* The invariant of the checkpoint survives every durable step.
LEMMA CheckpointKept ==
  ASSUME TypeOK, DurableStep, CheckpointInv
  PROVE  CheckpointInv'
<1>1. CASE checkpoint' = checkpoint
  BY <1>1 DEF CheckpointInv, Remediations
<1>2. CASE checkpoint = None /\ Fresh(checkpoint')
  <2>1. Cardinality(Remediations(checkpoint')) = 0
    BY <1>2, FS_EmptySet DEF Fresh
  <2> QED
    BY <1>2, <2>1, MaxRemediationCyclesAssumption DEF CheckpointInv, Fresh
<1>3. CASE checkpoint \in WorkRun /\ Advances(checkpoint, checkpoint')
  <2>1. /\ checkpoint' \in WorkRun /\ Grows(checkpoint, checkpoint')
        /\ checkpoint # None
    BY <1>3, NoneAssumption DEF Advances
  <2>2. checkpoint'.events[1].name = "approved"
    BY <1>3, <2>1, FirstEventKept DEF CheckpointInv
  <2>3. Cardinality(Remediations(checkpoint)) \in Nat
    BY <1>3, RemediationsFinite
  <2>4. Cardinality(Remediations(checkpoint')) <= MaxRemediationCycles
    BY <1>3, <2>1, <2>3, MaxRemediationCyclesAssumption DEF Advances, CheckpointInv
  <2> QED
    BY <2>2, <2>4 DEF CheckpointInv
<1> QED
  BY <1>1, <1>2, <1>3 DEF DurableStep

\* What was executed and reported still matches the checkpoint after a step
\* that executes and reports nothing new.
LEMMA HistoryKept ==
  ASSUME TypeOK, DurableStep, HistoryInv, UNCHANGED <<executions, reports>>
  PROVE  HistoryInv'
<1>1. CASE checkpoint = None
  BY <1>1 DEF HistoryInv, ExecutesApprovedRevision, ReportsMatchCheckpoint
<1>2. CASE checkpoint # None
  <2>1. /\ checkpoint \in WorkRun /\ checkpoint' \in WorkRun
        /\ Grows(checkpoint, checkpoint')
        /\ checkpoint.state \in TERMINAL_STATES => checkpoint' = checkpoint
    BY <1>2, DurableGrows
  <2>2. checkpoint' # None /\ checkpoint'.revision = checkpoint.revision
        /\ checkpoint'.events[1] = checkpoint.events[1]
    BY <2>1, FirstEventKept, NoneAssumption DEF Grows
  <2>3. ExecutesApprovedRevision'
    BY <1>2, <2>2 DEF HistoryInv, ExecutesApprovedRevision
  <2>4. reports # {} => checkpoint' = checkpoint
    BY <2>1 DEF HistoryInv
  <2>5. ReportsMatchCheckpoint' /\ (reports' # {} => checkpoint'.state \in TERMINAL_STATES)
    BY <2>4 DEF HistoryInv, ReportsMatchCheckpoint, Report
  <2> QED
    BY <2>3, <2>5 DEF HistoryInv
<1> QED
  BY <1>1, <1>2

------------------------------------------------------------------------------
(* The invariant is inductive. *)

\* The labels of a call that works on a stage.
LEMMA WorkingLabels ==
  /\ \A s \in Working : s \notin Early /\ s \notin {"idle", "raised", "returned"}
  /\ \A s \in ACTIVE_STATES : s \in Working /\ s \notin {"executor", "record_draft_pr", "report"}
  /\ \A s \in WorkRunState : s \in TERMINAL_STATES \/ s \in ACTIVE_STATES
  /\ \A s \in ACTIVE_STATES : s \notin TERMINAL_STATES
  /\ "report" \in Working /\ "report" \notin ACTIVE_STATES
  /\ {"executor", "record_draft_pr"} \subseteq Working \ ACTIVE_STATES
  /\ \A s \in {"raised", "returned", "idle"} : s \notin Working /\ s \notin Early
  BY DEF Working, Early, ACTIVE_STATES, TERMINAL_STATES, WorkRunState

\* A call that has just saved its local run knows what it has to.
LEMMA SavedCall ==
  ASSUME TypeOK', NEW c \in Calls, NEW new \in WorkRun,
         input'[c] \in WorkRun, item'[c] = input'[c].revision,
         new.revision = input'[c].revision,
         checkpoint' = new, current'[c] = new,
         pc'[c] = IF new.state \in TERMINAL_STATES THEN "report" ELSE new.state
  PROVE  CallInv(c)' /\ DurableInv(c)'
<1>1. new.state \in WorkRunState
  BY DEF WorkRun
<1>2. Grows(new, new)
  BY PreparedRuns DEF Prepares
<1>3. CASE new.state \in TERMINAL_STATES
  BY <1>2, <1>3, WorkingLabels DEF CallInv, DurableInv
<1>4. CASE new.state \in ACTIVE_STATES
  BY <1>2, <1>4, WorkingLabels DEF CallInv, DurableInv
<1> QED
  BY <1>1, <1>3, <1>4, WorkingLabels

\* A call that has ended has nothing left to know but its input.
LEMMA EndedCall ==
  ASSUME NEW c \in Calls, pc'[c] \in {"raised", "returned"}, input'[c] \in WorkRun
  PROVE  CallInv(c)' /\ DurableInv(c)'
  BY WorkingLabels DEF CallInv, DurableInv

\* A save of a stage, or a creation, keeps the invariant.
LEMMA SaveInductive ==
  ASSUME IndInv, NEW c \in Calls, SaveFrame, DurableStep,
         NEW expected, NEW new \in WorkRun, Save(c, expected, new),
         new.revision = input[c].revision, item[c] = input[c].revision,
         input[c] \in WorkRun
  PROVE  IndInv'
<1>1. /\ TypeOK /\ CheckpointInv /\ HistoryInv
      /\ \A d \in Calls : CallInv(d) /\ DurableInv(d)
      /\ \A k \in Commands : CommandInv(k)
  BY DEF IndInv
<1>2. /\ pc' \in [Calls -> PcLabel] /\ current' \in [Calls -> RunOrNone]
      /\ checkpoint' \in RunOrNone
      /\ \A d \in Calls \ {c} : pc'[d] = pc[d] /\ current'[d] = current[d]
      /\ \/ /\ checkpoint' = new /\ current'[c] = new
            /\ pc'[c] = IF new.state \in TERMINAL_STATES THEN "report" ELSE new.state
         \/ pc'[c] = "raised"
  BY <1>1, SaveCases
<1>3. UNCHANGED <<input, item, reply, executions, reports, issue, command, loaded, target>>
  BY DEF SaveFrame, cliVars
<1>4. TypeOK'
  BY <1>1, <1>2, <1>3 DEF TypeOK, SaveFrame
<1>5. CallInv(c)' /\ DurableInv(c)'
  BY <1>2, <1>3, <1>4, SavedCall, EndedCall
<1>6. \A d \in Calls : CallInv(d)' /\ DurableInv(d)'
  BY <1>1, <1>2, <1>3, <1>5, OthersKept
<1>7. \A k \in Commands : CommandInv(k)'
  BY <1>1, <1>3 DEF CommandInv
<1>8. CheckpointInv' /\ HistoryInv'
  BY <1>1, <1>3, CheckpointKept, HistoryKept
<1> QED
  BY <1>4, <1>6, <1>7, <1>8 DEF IndInv

\* A step that touches neither checkpoint nor commands keeps the invariant if
\* the one call it moves does.
LEMMA QuietInductive ==
  ASSUME IndInv, NEW c \in Calls, UNCHANGED <<checkpoint, cliVars>>,
         TypeOK', CallInv(c)', DurableInv(c)', HistoryInv',
         \A d \in Calls \ {c} :
           /\ pc'[d] = pc[d] /\ current'[d] = current[d] /\ input'[d] = input[d]
           /\ item'[d] = item[d] /\ reply'[d] = reply[d]
  PROVE  IndInv'
<1>1. /\ TypeOK /\ CheckpointInv
      /\ \A d \in Calls : CallInv(d) /\ DurableInv(d)
      /\ \A k \in Commands : CommandInv(k)
      /\ DurableStep
  BY DEF IndInv, DurableStep
<1>2. \A d \in Calls : CallInv(d)' /\ DurableInv(d)'
  BY <1>1, OthersKept
<1>3. \A k \in Commands : CommandInv(k)'
  BY <1>1 DEF CommandInv, cliVars
<1>4. CheckpointInv'
  BY <1>1, CheckpointKept
<1> QED
  BY <1>2, <1>3, <1>4 DEF IndInv

\* What is reported of a run, and its approver, are of the types expected.
LEMMA ReportType ==
  ASSUME NEW run \in WorkRun
  PROVE  /\ Report(run) \in [state: WorkRunState, detail: Detail,
                             evidence: PullRequests \cup {None}]
         /\ run.events[1].detail \in Detail
<1>1. /\ run.events \in Seq(WorkRunEvent) /\ Len(run.events) \in Nat \ {0}
      /\ run.state \in WorkRunState /\ run.draft_pr_url \in PullRequests \cup {None}
  BY DEF WorkRun
<1>2. run.events[1] \in WorkRunEvent /\ Last(run.events) \in WorkRunEvent
  BY <1>1 DEF Last
<1> QED
  BY <1>1, <1>2 DEF Report, WorkRunEvent

\* A call is made with a fresh approval or with the checkpoint.
LEMMA CallInductive ==
  ASSUME IndInv, UNCHANGED cliVars, NEW c \in Calls, NEW run \in WorkRun,
         run.events[1].name = "approved", Call(c, run)
  PROVE  IndInv'
<1>1. TypeOK /\ CheckpointInv /\ HistoryInv
  BY DEF IndInv
<1>2. /\ UNCHANGED <<item, current, reply, historyVars, portVars>>
      /\ input' = [input EXCEPT ![c] = run]
      /\ pc' = [pc EXCEPT ![c] = IF IsPristine(run) THEN "get_work_item" ELSE "raised"]
  BY DEF Call, Goto
<1>3. TypeOK'
  BY <1>1, <1>2 DEF TypeOK, RunOrNone, PcLabel, Ended, historyVars, portVars, cliVars
<1>4. input'[c] = run /\ pc'[c] = IF IsPristine(run) THEN "get_work_item" ELSE "raised"
  BY <1>1, <1>2 DEF TypeOK
<1>5. IsPristine(run) => Fresh(run) /\ run.state = "approved"
  BY PristineFresh
<1>6. CallInv(c)' /\ DurableInv(c)'
  <2>1. CASE IsPristine(run)
    BY <1>4, <1>5, <2>1 DEF CallInv, DurableInv, Early, Working, ACTIVE_STATES
  <2>2. CASE ~IsPristine(run)
    BY <1>4, <2>2, EndedCall
  <2> QED
    BY <2>1, <2>2
<1>7. UNCHANGED <<checkpoint, cliVars, executions, reports>> /\ DurableStep
  BY <1>2 DEF portVars, historyVars, DurableStep
<1>8. HistoryInv'
  BY <1>1, <1>7, HistoryKept
<1>9. \A d \in Calls \ {c} : pc'[d] = pc[d] /\ input'[d] = input[d]
  BY <1>1, <1>2 DEF TypeOK
<1> QED
  BY <1>2, <1>3, <1>6, <1>7, <1>8, <1>9, QuietInductive

\* The executor starts with what the durable run was approved for.
LEMMA StartKept ==
  ASSUME IndInv, NEW c \in Calls, PolicyAllows(c)
  PROVE  HistoryInv'
<1>1. CallInv(c) /\ DurableInv(c) /\ HistoryInv
  BY DEF IndInv
<1>2. pc[c] \in Working
  BY DEF PolicyAllows, Working, ACTIVE_STATES
<1>3. /\ current[c] \in WorkRun /\ checkpoint \in WorkRun /\ Grows(current[c], checkpoint)
      /\ item[c] = current[c].revision
  BY <1>1, <1>2 DEF CallInv, DurableInv
<1>4. /\ checkpoint # None /\ checkpoint.revision = item[c]
      /\ checkpoint.events[1] = current[c].events[1]
  BY <1>3, FirstEventKept, NoneAssumption DEF Grows
<1>5. /\ checkpoint' = checkpoint /\ reports' = reports
      /\ executions' = executions \cup
           {[call |-> c, content |-> item[c], approved_by |-> current[c].events[1].detail]}
  BY DEF PolicyAllows, ExecutionRequest, portVars
<1>6. ExecutesApprovedRevision'
  BY <1>1, <1>4, <1>5 DEF HistoryInv, ExecutesApprovedRevision
<1>7. ReportsMatchCheckpoint' /\ (reports' # {} => checkpoint'.state \in TERMINAL_STATES)
  BY <1>1, <1>5 DEF HistoryInv, ReportsMatchCheckpoint, Report
<1> QED
  BY <1>6, <1>7 DEF HistoryInv

\* A call reports the durable outcome.
LEMMA ReportKept ==
  ASSUME IndInv, NEW c \in Calls, ReportOutcome(c)
  PROVE  HistoryInv'
<1>1. CallInv(c) /\ DurableInv(c) /\ HistoryInv
  BY DEF IndInv
<1>2. pc[c] = "report"
  BY DEF ReportOutcome
<1>3. /\ checkpoint = current[c] /\ checkpoint \in WorkRun
      /\ checkpoint.state \in TERMINAL_STATES /\ checkpoint # None
  BY <1>1, <1>2, WorkingLabels, NoneAssumption DEF CallInv, DurableInv
<1>4. /\ checkpoint' = checkpoint /\ executions' = executions
      /\ reports' = reports \cup {Report(current[c])}
  BY DEF ReportOutcome, portVars
<1>5. ExecutesApprovedRevision'
  BY <1>1, <1>4 DEF HistoryInv, ExecutesApprovedRevision
<1>6. ReportsMatchCheckpoint'
  BY <1>1, <1>3, <1>4 DEF HistoryInv, ReportsMatchCheckpoint, Report
<1> QED
  BY <1>3, <1>4, <1>5, <1>6 DEF HistoryInv

\* The steps of a call that do not save keep its own invariants.
LEMMA QuietCall ==
  ASSUME IndInv, NEW c \in Calls, QuietStep(c), UNCHANGED cliVars
  PROVE  TypeOK' /\ CallInv(c)' /\ DurableInv(c)'
<1>1. TypeOK /\ CallInv(c) /\ DurableInv(c)
  BY DEF IndInv
<1>2. checkpoint' = checkpoint /\ input' = input
  BY DEF QuietStep, GetWorkItem, EvaluateReadiness, BlockOnUnready, Ingest,
         PolicyAllows, PublisherOpens, ReportOutcome, Abandon, portVars
<1>3. pc[c] # "idle"
  BY DEF QuietStep, GetWorkItem, EvaluateReadiness, BlockOnUnready, Ingest,
         PolicyAllows, PublisherOpens, ReportOutcome, Abandon
<1>4. input'[c] \in WorkRun
  BY <1>1, <1>2, <1>3 DEF CallInv
<1>5. CASE GetWorkItem(c)
  <2>1. TypeOK'
    BY <1>1, <1>5 DEF GetWorkItem, Goto, TypeOK, PcLabel, Ended, historyVars, portVars, cliVars
  <2>2. item'[c] = issue /\
        pc'[c] = IF issue = input[c].revision THEN "evaluate_readiness" ELSE "raised"
    BY <1>1, <1>5 DEF GetWorkItem, Goto, TypeOK
  <2>3. CASE issue = input[c].revision
    BY <1>1, <1>2, <1>5, <2>1, <2>2, <2>3
       DEF GetWorkItem, CallInv, DurableInv, Early, Working, ACTIVE_STATES
  <2> QED
    BY <1>4, <2>1, <2>2, <2>3, EndedCall
<1>6. CASE EvaluateReadiness(c)
  <2>1. /\ pc' \in [Calls -> PcLabel] /\ pc'[c] \in {"ingest", "block"}
        /\ pc[c] = "evaluate_readiness"
    BY <1>1, <1>6 DEF EvaluateReadiness, Goto, TypeOK, PcLabel
  <2>2. UNCHANGED <<input, item, current, reply, historyVars, portVars>>
    BY <1>6 DEF EvaluateReadiness
  <2> QED
    BY <1>1, <2>1, <2>2 DEF TypeOK, CallInv, DurableInv, Early, Working, ACTIVE_STATES,
                            historyVars, portVars, cliVars
<1>7. CASE BlockOnUnready(c)
  <2>1. /\ pc' \in [Calls -> PcLabel] /\ current' \in [Calls -> RunOrNone]
        /\ pc'[c] \in {"save_blocked", "returned"} /\ pc[c] = "block"
    BY <1>1, <1>7 DEF BlockOnUnready, Goto, TypeOK, PcLabel, Ended
  <2>2. UNCHANGED <<input, item, reply, historyVars, portVars>>
    BY <1>7 DEF BlockOnUnready
  <2>3. TypeOK'
    BY <1>1, <2>1, <2>2 DEF TypeOK, historyVars, portVars, cliVars
  <2>4. CASE pc'[c] = "save_blocked"
    BY <1>1, <2>1, <2>2, <2>3, <2>4 DEF CallInv, DurableInv, Early, Working, ACTIVE_STATES
  <2> QED
    BY <1>4, <2>1, <2>3, <2>4, EndedCall
<1>8. CASE Ingest(c)
  <2>1. /\ checkpoint # None => checkpoint \in WorkRun /\ checkpoint.state \in WorkRunState
        /\ ACTIVE_STATES \subseteq PcLabel /\ {"raised", "returned", "save_approved"} \subseteq PcLabel
    BY <1>1 DEF TypeOK, RunOrNone, WorkRun, PcLabel, Ended
  <2>2. pc[c] = "ingest" /\ UNCHANGED <<input, item, reply, historyVars, portVars>>
    BY <1>8 DEF Ingest
  <2>3. CASE checkpoint = None /\ Goto(c, "save_approved") /\ UNCHANGED current
    <3>1. TypeOK' /\ pc'[c] = "save_approved"
      BY <1>1, <2>1, <2>2, <2>3 DEF Goto, TypeOK, historyVars, portVars, cliVars
    <3> QED
      BY <1>1, <2>2, <3>1 DEF CallInv, DurableInv, Early, Working, ACTIVE_STATES
  <2>4. CASE /\ checkpoint # None /\ Extends(checkpoint, input[c])
             /\ current' = [current EXCEPT ![c] = checkpoint]
             /\ Goto(c, IF checkpoint.state \in TERMINAL_STATES
                        THEN "returned" ELSE checkpoint.state)
    <3>1. /\ TypeOK' /\ current'[c] = checkpoint
          /\ pc'[c] = IF checkpoint.state \in TERMINAL_STATES
                      THEN "returned" ELSE checkpoint.state
      BY <1>1, <2>1, <2>2, <2>4, WorkingLabels
         DEF Goto, TypeOK, RunOrNone, historyVars, portVars, cliVars
    <3>2. CASE checkpoint.state \in ACTIVE_STATES
      <4>1. Grows(checkpoint, checkpoint) /\ checkpoint.revision = input[c].revision
        BY <2>1, <2>4, PreparedRuns DEF Prepares, Extends
      <4>2. item[c] = input[c].revision
        BY <1>1, <2>2 DEF CallInv, Early
      <4>3. pc'[c] = checkpoint.state
        BY <3>1, <3>2, WorkingLabels
      <4>4. CallInv(c)'
        BY <1>2, <1>4, <2>1, <2>2, <2>4, <3>1, <3>2, <4>1, <4>2, <4>3, WorkingLabels
           DEF CallInv
      <4> QED
        BY <1>2, <2>1, <2>4, <3>1, <3>2, <4>1, <4>3, <4>4, WorkingLabels DEF DurableInv
    <3> QED
      BY <1>4, <2>1, <2>4, <3>1, <3>2, WorkingLabels, EndedCall
  <2>5. CASE Goto(c, "raised") /\ UNCHANGED current
    <3>1. TypeOK' /\ pc'[c] = "raised"
      BY <1>1, <2>1, <2>2, <2>5 DEF Goto, TypeOK, historyVars, portVars, cliVars
    <3> QED
      BY <1>4, <3>1, EndedCall
  <2> QED
    BY <1>8, <2>3, <2>4, <2>5 DEF Ingest
<1>9. CASE PolicyAllows(c)
  <2>1. current[c] \in WorkRun /\ item[c] \in Revisions
    BY <1>1, <1>9 DEF PolicyAllows, CallInv, Working, ACTIVE_STATES, WorkRun
  <2>2. current[c].events[1].detail \in Detail
    BY <2>1, ReportType
  <2>3. TypeOK' /\ pc'[c] = "executor" /\ pc[c] = "executing"
    BY <1>1, <1>9, <2>1, <2>2 DEF PolicyAllows, ExecutionRequest, Goto, TypeOK, PcLabel, portVars, cliVars
  <2>4. UNCHANGED <<input, item, current, reply>>
    BY <1>9 DEF PolicyAllows
  <2> QED
    BY <1>1, <1>2, <2>3, <2>4 DEF CallInv, DurableInv, Early, Working, ACTIVE_STATES
<1>10. CASE PublisherOpens(c)
  <2>1. /\ TypeOK' /\ pc'[c] = "record_draft_pr" /\ pc[c] = "publishing_draft_pr"
        /\ reply'[c] \in PullRequests
    BY <1>1, <1>10 DEF PublisherOpens, Goto, TypeOK, PcLabel, historyVars, portVars, cliVars
  <2>2. UNCHANGED <<input, item, current>>
    BY <1>10 DEF PublisherOpens
  <2> QED
    BY <1>1, <1>2, <2>1, <2>2 DEF CallInv, DurableInv, Early, Working, ACTIVE_STATES
<1>11. CASE ReportOutcome(c)
  <2>1. current[c] \in WorkRun
    BY <1>1, <1>11, WorkingLabels DEF ReportOutcome, CallInv
  <2>2. TypeOK' /\ pc'[c] \in {"returned", "raised"}
    BY <1>1, <1>11, <2>1, ReportType
       DEF ReportOutcome, Goto, TypeOK, PcLabel, Ended, portVars, cliVars
  <2> QED
    BY <1>4, <2>2, EndedCall
<1>12. CASE Abandon(c)
  <2>1. TypeOK' /\ pc'[c] = "raised"
    BY <1>1, <1>12 DEF Abandon, Goto, TypeOK, PcLabel, Ended, historyVars, portVars, cliVars
  <2> QED
    BY <1>4, <2>1, EndedCall
<1> QED
  BY <1>5, <1>6, <1>7, <1>8, <1>9, <1>10, <1>11, <1>12 DEF QuietStep

\* Every step of a call keeps the invariant.
LEMMA StepInductive ==
  ASSUME IndInv, NEW c \in Calls, Step(c), UNCHANGED cliVars
  PROVE  IndInv'
<1>1. TypeOK /\ HistoryInv /\ CallInv(c) /\ DurableInv(c)
  BY DEF IndInv
<1>2. CASE StageSaved(c) /\ SaveFrame /\ pc[c] \in Working /\ current[c] \in WorkRun
  <2>1. PICK new : Advances(current[c], new) /\ Save(c, current[c], new)
    BY <1>2 DEF StageSaved
  <2>2. new \in WorkRun /\ new.revision = current[c].revision
    BY <2>1 DEF Advances, Grows
  <2>3. /\ current[c].revision = input[c].revision /\ item[c] = input[c].revision
        /\ input[c] \in WorkRun
    BY <1>1, <1>2, WorkingLabels DEF CallInv
  <2> QED
    BY <1>1, <1>2, <2>1, <2>2, <2>3, StageDurable, SaveInductive
<1>3. CASE CreationSaved(c) /\ SaveFrame /\ pc[c] \in Early \ {"get_work_item"}
  <2>1. PICK new : Fresh(new) /\ new.revision = input[c].revision /\ Save(c, None, new)
    BY <1>3 DEF CreationSaved
  <2>2. new \in WorkRun /\ item[c] = input[c].revision /\ input[c] \in WorkRun
    BY <1>1, <1>3, <2>1 DEF CallInv, Fresh
  <2> QED
    BY <1>1, <1>3, <2>1, <2>2, CreationDurable, SaveInductive
<1>4. CASE QuietStep(c) /\ UNCHANGED checkpoint
  <2>1. TypeOK' /\ CallInv(c)' /\ DurableInv(c)'
    BY <1>4, QuietCall
  <2>2. \A d \in Calls \ {c} :
          /\ pc'[d] = pc[d] /\ current'[d] = current[d] /\ input'[d] = input[d]
          /\ item'[d] = item[d] /\ reply'[d] = reply[d]
    BY <1>1, <1>4 DEF TypeOK, QuietStep, Goto, GetWorkItem, EvaluateReadiness, BlockOnUnready,
                      Ingest, PolicyAllows, PublisherOpens, ReportOutcome, Abandon
  <2>3. DurableStep
    BY <1>4 DEF DurableStep
  <2>4. PolicyAllows(c) \/ ReportOutcome(c) \/ UNCHANGED <<executions, reports>>
    BY <1>4 DEF QuietStep, GetWorkItem, EvaluateReadiness, BlockOnUnready, Ingest,
                PublisherOpens, Abandon, historyVars
  <2>5. HistoryInv'
    BY <1>1, <2>3, <2>4, StartKept, ReportKept, HistoryKept
  <2> QED
    BY <1>4, <2>1, <2>2, <2>5, QuietInductive
<1> QED
  BY <1>2, <1>3, <1>4, StepCases

\* A step of a command, and an edit of the work item, keep the invariant if the
\* types and the commands do.
LEMMA OutsideInductive ==
  ASSUME IndInv, UNCHANGED runnerVars, DurableStep, TypeOK',
         \A k \in Commands : CommandInv(k)'
  PROVE  IndInv'
<1>1. /\ TypeOK /\ CheckpointInv /\ HistoryInv
      /\ \A d \in Calls : CallInv(d) /\ DurableInv(d)
  BY DEF IndInv
<1>2. UNCHANGED <<pc, current, input, item, reply, executions, reports>>
  BY DEF runnerVars, callVars, historyVars
<1>3. \A d \in Calls : CallInv(d)' /\ DurableInv(d)'
  BY <1>1, <1>2, OthersKept
<1> QED
  BY <1>1, <1>2, <1>3, CheckpointKept, HistoryKept DEF IndInv

\* The command that is about to save knows that its target continues what it
\* loaded; the other commands are not concerned.
LEMMA CommandKept ==
  ASSUME IndInv, NEW k \in Commands, UNCHANGED runnerVars,
         RunCommand(k) \/ StartRun(k) \/ Cancel(k) \/ Retry(k) \/ SaveCommand(k)
  PROVE  TypeOK' /\ \A j \in Commands : CommandInv(j)'
<1> DEFINE Labels == {"idle", "start_run", "run", "cancel", "retry", "done", "failed"}
<1>1. TypeOK /\ (\A j \in Commands : CommandInv(j)) /\ DurableStep
  <2>1. TypeOK /\ (\A j \in Commands : CommandInv(j))
    BY DEF IndInv
  <2> QED
    BY <2>1, CommandDurable
       DEF RunCommand, StartRun, Cancel, Retry, Resolve, portVars, DurableStep
<1>2. /\ command \in [Commands -> Labels] /\ loaded \in [Commands -> RunOrNone]
      /\ target \in [Commands -> RunOrNone] /\ checkpoint \in RunOrNone
      /\ issue \in Revisions
  BY <1>1 DEF TypeOK
<1>3. SUFFICES /\ command' \in [Commands -> Labels] /\ loaded' \in [Commands -> RunOrNone]
               /\ target' \in [Commands -> RunOrNone] /\ checkpoint' \in RunOrNone
               /\ issue' = issue
               /\ CommandInv(k)'
               /\ \A j \in Commands \ {k} :
                    command'[j] = command[j] /\ loaded'[j] = loaded[j] /\ target'[j] = target[j]
  BY <1>1, <1>3 DEF TypeOK, runnerVars, callVars, historyVars, CommandInv
<1>4. CASE RunCommand(k)
  BY <1>1, <1>2, <1>4 DEF RunCommand, Become, portVars, CommandInv
<1>5. CASE StartRun(k)
  <2>1. /\ command[k] = "start_run" /\ loaded' = loaded
        /\ checkpoint' = checkpoint /\ issue' = issue
    BY <1>5 DEF StartRun, portVars
  <2>2. loaded[k] = None
    BY <1>1, <2>1 DEF CommandInv
  <2>3. CASE Become(k, "failed") /\ UNCHANGED target
    BY <1>2, <2>1, <2>3 DEF Become, CommandInv
  <2>4. ASSUME NEW run, Fresh(run), Become(k, "run"), target' = [target EXCEPT ![k] = run]
        PROVE  /\ command' \in [Commands -> Labels] /\ target' \in [Commands -> RunOrNone]
               /\ CommandInv(k)'
               /\ \A j \in Commands \ {k} : command'[j] = command[j] /\ target'[j] = target[j]
    BY <1>2, <2>1, <2>2, <2>4 DEF Become, CommandInv, RunOrNone, Fresh
  <2>5. \A actor \in Approvers, ready \in BOOLEAN :
          LET approved == approve(SanitizedRevision[issue], actor)
          IN  Fresh(IF ready THEN approved
                    ELSE transition_to(approved, "blocked", "work_item_not_ready"))
    BY <1>2, SanitizedRevisionAssumption, ApprovalsFresh, BlockedFresh, StageVocabulary
  <2> QED
    BY <1>2, <1>5, <2>1, <2>3, <2>4, <2>5 DEF StartRun
<1>6. ASSUME NEW name \in {"cancel", "retry"}, NEW state \in {"cancelled", "verifying"},
             Resolve(k, name, state)
      PROVE  /\ command' \in [Commands -> Labels] /\ loaded' \in [Commands -> RunOrNone]
             /\ target' \in [Commands -> RunOrNone] /\ checkpoint' = checkpoint
             /\ issue' = issue
             /\ CommandInv(k)'
             /\ \A j \in Commands \ {k} :
                  command'[j] = command[j] /\ loaded'[j] = loaded[j] /\ target'[j] = target[j]
  <2>1. checkpoint' = checkpoint /\ issue' = issue /\ command[k] = "idle"
    BY <1>6 DEF Resolve, portVars
  <2>2. CASE Become(k, "failed") /\ UNCHANGED <<loaded, target>>
    BY <1>2, <2>1, <2>2 DEF Become, CommandInv
  <2>3. CASE /\ checkpoint # None /\ CanTransition(checkpoint, state)
             /\ Become(k, name)
             /\ loaded' = [loaded EXCEPT ![k] = checkpoint]
             /\ target' = [target EXCEPT ![k] = transition_to(checkpoint, state, None)]
    <3>1. checkpoint \in WorkRun /\ Prepares(checkpoint, checkpoint)
      BY <1>2, <2>3, PreparedRuns DEF RunOrNone
    <3>2. state \in WorkRunState /\ None \in Detail /\ state # "completed" /\ state # "remediating"
      BY DEF WorkRunState, ACTIVE_STATES, TERMINAL_STATES, Detail
    <3>3. Advances(checkpoint, transition_to(checkpoint, state, None))
      BY <2>3, <3>1, <3>2, TransitionAdvances
    <3>4. transition_to(checkpoint, state, None) \in WorkRun
      BY <3>3 DEF Advances
    <3> QED
      BY <1>2, <2>1, <2>3, <3>1, <3>3, <3>4 DEF Become, CommandInv, RunOrNone
  <2> QED
    BY <1>6, <2>2, <2>3 DEF Resolve
<1>7. CASE SaveCommand(k)
  <2>1. /\ command[k] \in {"run", "cancel", "retry"}
        /\ UNCHANGED <<loaded, target, issue>>
        /\ checkpoint' = checkpoint \/ checkpoint' = target[k]
        /\ Become(k, "done") \/ Become(k, "failed")
    BY <1>7 DEF SaveCommand, CompareAndSwap, Conflict
  <2> QED
    BY <1>2, <2>1 DEF Become, CommandInv
<1> QED
  BY <1>2, <1>4, <1>5, <1>6, <1>7 DEF Cancel, Retry

\* The invariant is inductive.
LEMMA Inductive ==
  IndInv /\ [Next]_vars => IndInv'
<1> SUFFICES ASSUME IndInv, [Next]_vars
             PROVE  IndInv'
  OBVIOUS
<1>1. TypeOK /\ DurableStep /\ \A k \in Commands : CommandInv(k)
  BY NextDurable DEF IndInv
<1>2. ASSUME NEW c \in Calls, UNCHANGED cliVars, Step(c)
      PROVE  IndInv'
  BY <1>2, StepInductive
<1>3. ASSUME NEW c \in Calls, UNCHANGED cliVars,
             NEW r \in Revisions, NEW a \in Approvers, Call(c, approve(r, a))
      PROVE  IndInv'
  BY <1>3, ApprovalsFresh, CallInductive DEF Fresh
<1>4. ASSUME NEW c \in Calls, UNCHANGED cliVars, checkpoint # None, Call(c, checkpoint)
      PROVE  IndInv'
  BY <1>1, <1>4, CallInductive DEF IndInv, CheckpointInv, TypeOK, RunOrNone
<1>5. ASSUME NEW k \in Commands, UNCHANGED runnerVars,
             RunCommand(k) \/ StartRun(k) \/ Cancel(k) \/ Retry(k) \/ SaveCommand(k)
      PROVE  IndInv'
  BY <1>1, <1>5, CommandKept, OutsideInductive
<1>6. CASE EditIssue /\ UNCHANGED <<runnerVars, cliVars>>
  <2>1. TypeOK'
    BY <1>1, <1>6 DEF EditIssue, TypeOK, runnerVars, callVars, historyVars, cliVars
  <2>2. \A k \in Commands : CommandInv(k)'
    BY <1>1, <1>6 DEF CommandInv, cliVars
  <2> QED
    BY <1>1, <1>6, <2>1, <2>2, OutsideInductive
<1>7. CASE UNCHANGED vars
  <2>1. UNCHANGED <<portVars, runnerVars, cliVars>>
    BY <1>7 DEF vars
  <2>2. TypeOK'
    BY <1>1, <2>1 DEF TypeOK, portVars, runnerVars, callVars, historyVars, cliVars
  <2>3. \A k \in Commands : CommandInv(k)'
    BY <1>1, <2>1 DEF CommandInv, cliVars
  <2> QED
    BY <1>1, <2>1, <2>2, <2>3, OutsideInductive
<1> QED
  BY <1>2, <1>3, <1>4, <1>5, <1>6, <1>7 DEF Next, RunnerNext, CliNext

\* It holds at first.
LEMMA Initially ==
  Init => IndInv
<1> SUFFICES ASSUME Init
             PROVE  IndInv
  OBVIOUS
<1> USE DEF Init, PortsInit, RunnerInit, CliInit
<1>1. TypeOK
  BY DEF TypeOK, RunOrNone, PcLabel
<1>2. \A c \in Calls : CallInv(c) /\ DurableInv(c)
  BY WorkingLabels DEF CallInv, DurableInv, Working, Early, ACTIVE_STATES
<1>3. \A k \in Commands : CommandInv(k)
  BY DEF CommandInv
<1>4. CheckpointInv /\ HistoryInv
  BY DEF CheckpointInv, HistoryInv, ExecutesApprovedRevision, ReportsMatchCheckpoint
<1> QED
  BY <1>1, <1>2, <1>3, <1>4 DEF IndInv

------------------------------------------------------------------------------
(* The theorems. *)

\* The invariant holds in every reachable state.
THEOREM Invariance == Spec => []IndInv
<1>1. Init => IndInv
  BY Initially
<1>2. IndInv /\ [Next]_vars => IndInv'
  BY Inductive
<1> QED
  BY <1>1, <1>2, PTL DEF Spec

\* The variables of runner, ports and command line keep their types.
THEOREM TypeCorrect == Spec => []TypeOK
<1>1. IndInv => TypeOK
  BY DEF IndInv
<1> QED
  BY <1>1, Invariance, PTL

\* However many calls resume a run and however often operators retry it, it
\* never enters remediation more often than the runner's bound.
THEOREM RemediationsStayBounded == Spec => []RemediationBounded
<1>1. IndInv => RemediationBounded
  BY DEF IndInv, CheckpointInv, RemediationBounded
<1> QED
  BY <1>1, Invariance, PTL

\* What the tracker was told is the durable outcome, whichever call told it.
THEOREM ReportsAreDurable == Spec => []ReportsMatchCheckpoint
<1>1. IndInv => ReportsMatchCheckpoint
  BY DEF IndInv, HistoryInv
<1> QED
  BY <1>1, Invariance, PTL

\* The executor only ever works on the content the durable run was approved
\* for, in the name of its approver.
THEOREM OnlyApprovedContentRuns == Spec => []ExecutesApprovedRevision
<1>1. IndInv => ExecutesApprovedRevision
  BY DEF IndInv, HistoryInv
<1> QED
  BY <1>1, Invariance, PTL

\* The audit history is append-only across every runner and every command, and
\* a terminal run is never written again.
THEOREM HistoryIsAppendOnly == Spec => HistoryPreserved
<1>1. IndInv /\ [Next]_vars =>
        [checkpoint # None => PartOf(checkpoint, checkpoint')]_vars
  <2> SUFFICES ASSUME IndInv, [Next]_vars, checkpoint # None
               PROVE  PartOf(checkpoint, checkpoint')
    OBVIOUS
  <2>1. TypeOK /\ DurableStep
    BY NextDurable DEF IndInv
  <2> QED
    BY <2>1, DurableGrows, NoneAssumption DEF Grows, PartOf
<1> QED
  BY <1>1, Invariance, PTL DEF Spec, HistoryPreserved

------------------------------------------------------------------------------
(* Refinement of the abstract lifecycle. *)

\* Evidence of a run is of the right kind, and kept as the run grows.
LEMMA EvidenceGrows ==
  ASSUME NEW run \in WorkRun, NEW new \in WorkRun, Grows(run, new)
  PROVE  Range(run.artifacts) \subseteq Range(new.artifacts)
         /\ Range(new.artifacts) \subseteq ArtifactIds
<1>1. run.artifacts \in Seq(ArtifactIds) /\ new.artifacts \in Seq(ArtifactIds)
  BY DEF WorkRun
<1>2. /\ Len(run.artifacts) \in Nat /\ Len(new.artifacts) \in Nat
      /\ DOMAIN run.artifacts = 1..Len(run.artifacts)
      /\ DOMAIN new.artifacts = 1..Len(new.artifacts)
      /\ \A i \in 1..Len(new.artifacts) : new.artifacts[i] \in ArtifactIds
  BY <1>1
<1>3. /\ Len(run.artifacts) <= Len(new.artifacts)
      /\ \A i \in 1..Len(run.artifacts) : run.artifacts[i] = new.artifacts[i]
  BY <1>1, PrefixElements DEF Grows
<1>4. \A i \in DOMAIN run.artifacts : i \in DOMAIN new.artifacts
  BY <1>2, <1>3
<1> QED
  BY <1>2, <1>3, <1>4 DEF Range

\* A durable step is a step of the lifecycle, or none.
LEMMA DurableImplements ==
  ASSUME IndInv, DurableStep
  PROVE  [Lifecycle!Next]_(Lifecycle!vars)
<1>1. TypeOK /\ CheckpointInv
  BY DEF IndInv
<1>2. CASE checkpoint' = checkpoint
  BY <1>2 DEF Lifecycle!vars, Remediations
<1>3. CASE checkpoint = None /\ Fresh(checkpoint')
  <2>1. checkpoint' \in WorkRun /\ checkpoint' # None /\ checkpoint'.revision \in Revisions
    BY <1>3, NoneAssumption DEF Fresh, WorkRun
  <2>2. Range(checkpoint'.artifacts) = {}
    BY <1>3 DEF Fresh, Range
  <2>3. Cardinality(Remediations(checkpoint')) = 0
    BY <1>3, FS_EmptySet DEF Fresh
  <2> QED
    BY <1>3, <2>1, <2>2, <2>3 DEF Fresh, Lifecycle!Next, Lifecycle!Start
<1>4. CASE checkpoint \in WorkRun /\ Advances(checkpoint, checkpoint')
  <2>1. /\ checkpoint # None /\ checkpoint' # None /\ checkpoint' \in WorkRun
        /\ Grows(checkpoint, checkpoint')
    BY <1>4, NoneAssumption DEF Advances
  <2>2. /\ Range(checkpoint.artifacts) \subseteq Range(checkpoint'.artifacts)
        /\ Range(checkpoint'.artifacts) \subseteq ArtifactIds
    BY <1>4, <2>1, EvidenceGrows
  <2>3. CheckpointInv'
    BY <1>1, CheckpointKept
  <2>4. Lifecycle!Advance
    BY <1>4, <2>1, <2>2, <2>3 DEF Advances, Grows, CheckpointInv, Lifecycle!Advance
  <2> QED
    BY <2>4 DEF Lifecycle!Next
<1> QED
  BY <1>2, <1>3, <1>4 DEF DurableStep

\* The durable run, through every runner and every command, follows the
\* abstract lifecycle: permitted transitions, growing evidence, bounded
\* corrections, and a Draft PR exactly on completion.
THEOREM LifecycleImplemented == Spec => ImplementsLifecycle
<1>1. Init => Lifecycle!Init
  BY DEF Init, PortsInit, Lifecycle!Init
<1>2. IndInv /\ [Next]_vars => [Lifecycle!Next]_(Lifecycle!vars)
  BY NextDurable, DurableImplements
<1> QED
  BY <1>1, <1>2, Invariance, PTL DEF Spec, ImplementsLifecycle, Lifecycle!Spec

------------------------------------------------------------------------------
(* The story of the durable run. *)

\* What the runs hold that calls and commands are about to save, and the
\* checkpoint itself.
StoryInv ==
  /\ checkpoint # None => Story(checkpoint) /\ Backed(checkpoint, passed)
  /\ \A c \in Calls : pc[c] \in Early => Approval(input[c])
  /\ \A k \in Commands :
       /\ command[k] = "run" => Opening(target[k])
       /\ command[k] \in {"cancel", "retry"} => Continues(loaded[k], target[k], {})

\* What any step of the system may do to the checkpoint, as a story.
StoryStep ==
  \/ checkpoint' = checkpoint
  \/ checkpoint = None /\ Opening(checkpoint')
  \/ checkpoint # None /\ Continues(checkpoint, checkpoint', passed')

\* A save of what continues the local run continues the checkpoint.
LEMMA SaveStory ==
  ASSUME NEW expected, NEW new, NEW c \in Calls, Save(c, expected, new),
         \/ expected = None /\ Opening(new)
         \/ expected # None /\ Continues(expected, new, passed')
  PROVE  StoryStep
  BY DEF Save, CompareAndSwap, Conflict, StoryStep

\* A stage of a call that gathers evidence and saves a transition.
LEMMA StageStory ==
  ASSUME NEW c \in Calls, current[c] # None, NEW updated, Gathers(current[c], updated),
         NEW s \in WorkRunState \ {"completed"}, NEW d \in Detail,
         SaveStage(c, updated, s, d),
         s = "publishing_draft_pr" => current[c].events \in passed'
  PROVE  StoryStep
<1>1. CanTransition(updated, s) /\ Save(c, current[c], transition_to(updated, s, d))
  BY DEF SaveStage
<1>2. Continues(current[c], transition_to(updated, s, d), passed')
  BY <1>1 DEF Continues
<1> QED
  BY <1>1, <1>2, SaveStory

\* Every step of a call tells the story, and forgets no verification.
LEMMA CallStory ==
  ASSUME IndInv, StoryInv, NEW c \in Calls, Step(c)
  PROVE  StoryStep /\ passed \subseteq passed'
<1>1. CallInv(c) /\ TypeOK
  BY DEF IndInv
<1>2. pc[c] \in ACTIVE_STATES \cup {"executor", "record_draft_pr"} =>
        current[c] \in WorkRun /\ current[c] # None
  BY <1>1, NoneAssumption DEF CallInv, Working
<1>3. /\ {"executing", "verifying", "remediating", "publishing_draft_pr", "failed", "blocked"}
           \subseteq WorkRunState \ {"completed"}
      /\ {None, "operation_failed", "policy_denied", "remediation_limit_reached",
          "work_item_not_ready"} \subseteq Detail
      /\ \A outcome \in FailedOutcome : ExecutionCode(outcome) \in Detail
  BY StageVocabulary
<1>4. Gathers(current[c], current[c])
  BY DEF Gathers
<1>5. \A bundle \in ArtifactBundles :
        CanAttach(current[c], bundle) =>
          Gathers(current[c], attach_artifact(current[c], bundle))
  BY ArtifactBundlesAssumption DEF Gathers
<1>6. ASSUME current[c] # None, Fail(c)
      PROVE  StoryStep
  BY <1>3, <1>4, <1>6, StageStory DEF Fail
<1>7. CASE BeginExecution(c)
  BY <1>2, <1>3, <1>4, <1>7, StageStory DEF BeginExecution, ACTIVE_STATES, historyVars
<1>8. CASE PolicyDenies(c)
  BY <1>2, <1>3, <1>4, <1>8, StageStory DEF PolicyDenies, ACTIVE_STATES, historyVars
<1>9. CASE FinishExecution(c)
  <2>1. current[c] # None /\ passed' = passed
    BY <1>2, <1>9 DEF FinishExecution, historyVars
  <2>2. ASSUME NEW bundle \in ArtifactBundles, CanAttach(current[c], bundle),
               NEW s \in {"verifying", "failed"}, NEW d \in Detail,
               SaveStage(c, attach_artifact(current[c], bundle), s, d)
        PROVE  StoryStep
    BY <1>3, <1>5, <2>1, <2>2, StageStory
  <2> QED
    BY <1>3, <1>6, <1>9, <2>1, <2>2 DEF FinishExecution
<1>10. CASE Verify(c)
  <2>1. current[c] # None /\ passed \subseteq passed'
    BY <1>2, <1>10 DEF Verify, ACTIVE_STATES
  <2>2. ASSUME NEW bundle \in ArtifactBundles, CanAttach(current[c], bundle),
               NEW s \in {"publishing_draft_pr", "failed", "remediating"},
               NEW d \in {None, "remediation_limit_reached"},
               s = "publishing_draft_pr" => passed' = passed \cup {current[c].events},
               SaveStage(c, attach_artifact(current[c], bundle), s, d)
        PROVE  StoryStep
    BY <1>3, <1>5, <2>1, <2>2, StageStory
  <2> QED
    BY <1>6, <1>10, <2>1, <2>2 DEF Verify
<1>11. CASE Remediate(c)
  <2>1. current[c] # None /\ passed' = passed
    BY <1>2, <1>11 DEF Remediate, ACTIVE_STATES, historyVars
  <2>2. ASSUME NEW bundle \in ArtifactBundles, CanAttach(current[c], bundle),
               SaveStage(c, attach_artifact(current[c], bundle), "verifying", None)
        PROVE  StoryStep
    BY <1>3, <1>5, <2>1, <2>2, StageStory
  <2> QED
    BY <1>6, <1>11, <2>1, <2>2 DEF Remediate
<1>12. CASE PublisherFails(c)
  BY <1>2, <1>6, <1>12 DEF PublisherFails, ACTIVE_STATES, historyVars
<1>13. CASE RecordDraftPr(c)
  <2>1. current[c] # None /\ passed' = passed /\ reply[c] \in PullRequests
    BY <1>1, <1>2, <1>13 DEF RecordDraftPr, CallInv, historyVars
  <2>2. CASE /\ CanRecordDraftPr(current[c])
             /\ SaveStage(c, record_draft_pr(current[c], reply[c]), "completed", None)
    <3> DEFINE new == transition_to(record_draft_pr(current[c], reply[c]), "completed", None)
    <3>1. Continues(current[c], new, passed') /\ Save(c, current[c], new)
      BY <2>1, <2>2 DEF SaveStage, Continues
    <3> QED
      BY <2>1, <3>1, SaveStory
  <2> QED
    BY <1>6, <1>13, <2>1, <2>2 DEF RecordDraftPr
<1>14. CASE SaveBlocked(c) \/ SaveApproved(c)
  <2>1. Approval(input[c]) /\ passed' = passed
    BY <1>14 DEF StoryInv, SaveBlocked, SaveApproved, Early, historyVars
  <2>2. Opening(input[c]) /\ Opening(transition_to(input[c], "blocked", "work_item_not_ready"))
    BY <1>3, <2>1, ApprovalOpens
  <2> QED
    BY <1>14, <2>1, <2>2, SaveStory DEF SaveBlocked, SaveApproved
<1>15. CASE QuietStep(c)
  BY <1>15 DEF QuietStep, GetWorkItem, EvaluateReadiness, BlockOnUnready, Ingest,
               PolicyAllows, PublisherOpens, ReportOutcome, Abandon, portVars, historyVars,
               StoryStep
<1> QED
  BY <1>7, <1>8, <1>9, <1>10, <1>11, <1>12, <1>13, <1>14, <1>15 DEF Step, QuietStep

\* Every step of the system does.
LEMMA NextStory ==
  ASSUME IndInv, StoryInv, [Next]_vars
  PROVE  StoryStep /\ passed \subseteq passed'
<1>1. ASSUME NEW c \in Calls, NEW run, Call(c, run)
      PROVE  StoryStep /\ passed \subseteq passed'
  BY <1>1 DEF Call, portVars, historyVars, StoryStep
<1>2. ASSUME NEW k \in Commands, UNCHANGED runnerVars,
             RunCommand(k) \/ StartRun(k) \/ Cancel(k) \/ Retry(k)
      PROVE  StoryStep /\ passed \subseteq passed'
  BY <1>2 DEF RunCommand, StartRun, Cancel, Retry, Resolve, portVars, runnerVars,
              historyVars, StoryStep
<1>3. ASSUME NEW k \in Commands, UNCHANGED runnerVars, SaveCommand(k)
      PROVE  StoryStep /\ passed \subseteq passed'
  <2>1. passed' = passed
    BY <1>3 DEF runnerVars, historyVars
  <2>2. CASE Conflict(loaded[k])
    BY <2>1, <2>2 DEF Conflict, StoryStep
  <2>3. CASE CompareAndSwap(loaded[k], target[k])
    <3>1. checkpoint = loaded[k] /\ checkpoint' = target[k] /\ CommandInv(k)
      BY <2>3 DEF CompareAndSwap, IndInv
    <3>2. CASE command[k] = "run"
      BY <2>1, <3>1, <3>2 DEF StoryInv, StoryStep, CommandInv
    <3>3. CASE command[k] \in {"cancel", "retry"}
      <4>1. Continues(loaded[k], target[k], {}) /\ loaded[k] # None
        BY <3>1, <3>3, NoneAssumption DEF StoryInv, CommandInv
      <4>2. Continues(loaded[k], target[k], passed')
        BY <4>1 DEF Continues
      <4> QED
        BY <2>1, <3>1, <4>1, <4>2 DEF StoryStep
    <3> QED
      BY <1>3, <3>2, <3>3 DEF SaveCommand
  <2> QED
    BY <1>3, <2>2, <2>3 DEF SaveCommand
<1>4. CASE EditIssue /\ UNCHANGED <<runnerVars, cliVars>>
  BY <1>4 DEF EditIssue, runnerVars, historyVars, StoryStep
<1>5. CASE UNCHANGED vars
  BY <1>5 DEF vars, portVars, runnerVars, historyVars, StoryStep
<1> QED
  BY <1>1, <1>2, <1>3, <1>4, <1>5, CallStory DEF Next, RunnerNext, CliNext

\* The checkpoint goes on telling its story.
LEMMA CheckpointStory ==
  ASSUME StoryInv, StoryStep, passed \subseteq passed'
  PROVE  checkpoint' # None => Story(checkpoint') /\ Backed(checkpoint', passed')
<1>1. CASE checkpoint' = checkpoint
  BY <1>1 DEF StoryInv, Backed
<1>2. CASE checkpoint = None /\ Opening(checkpoint')
  BY <1>2 DEF Opening, Backed
<1>3. CASE checkpoint # None /\ Continues(checkpoint, checkpoint', passed')
  BY <1>3, ContinuedStory DEF StoryInv
<1> QED
  BY <1>1, <1>2, <1>3 DEF StoryStep

\* Calls are made with approvals, and keep them.
LEMMA InputStory ==
  ASSUME IndInv, StoryInv, [Next]_vars, NEW c \in Calls, pc'[c] \in Early
  PROVE  Approval(input'[c])
<1>1. TypeOK /\ CallInv(c)
  BY DEF IndInv
<1>2. ASSUME NEW d \in Calls, NEW run, Approval(run) \/ ~IsPristine(run), Call(d, run)
      PROVE  Approval(input'[c])
  <2>1. /\ input'[c] = IF d = c THEN run ELSE input[c]
        /\ pc'[c] = IF d = c THEN (IF IsPristine(run) THEN "get_work_item" ELSE "raised")
                    ELSE pc[c]
    BY <1>1, <1>2 DEF Call, Goto, TypeOK
  <2> QED
    BY <1>2, <2>1 DEF StoryInv, Early
<1>3. ASSUME NEW d \in Calls, Step(d), UNCHANGED cliVars
      PROVE  Approval(input'[c])
  <2>1. SUFFICES input' = input /\ pc[c] \in Early
    BY <2>1 DEF StoryInv
  <2>2. ASSUME NEW expected, NEW new \in WorkRun, Save(d, expected, new), SaveFrame,
               pc[d] \in Working \cup Early
        PROVE  input' = input /\ pc[c] \in Early
    <3>1. input' = input
      BY <2>2 DEF SaveFrame
    <3>2. /\ d # c => pc'[c] = pc[c]
          /\ pc'[d] \in WorkRunState \cup {"report", "raised"}
      BY <1>1, <2>2, SaveCases DEF WorkRun
    <3>3. \A l \in WorkRunState \cup {"report", "raised"} : l \notin Early
      BY DEF WorkRunState, ACTIVE_STATES, TERMINAL_STATES, Early
    <3> QED
      BY <3>1, <3>2, <3>3
  <2>3. CASE StageSaved(d) /\ SaveFrame /\ pc[d] \in Working
    BY <2>2, <2>3 DEF StageSaved, Advances
  <2>4. CASE CreationSaved(d) /\ SaveFrame /\ pc[d] \in Early
    BY <2>2, <2>4 DEF CreationSaved, Fresh
  <2>5. CASE QuietStep(d)
    <3>1. /\ input' = input
          /\ \E label : pc' = [pc EXCEPT ![d] = label] /\ (label \in Early => pc[d] \in Early)
      <4>1. CASE \/ GetWorkItem(d) \/ EvaluateReadiness(d) \/ BlockOnUnready(d) \/ Ingest(d)
        <5>1. pc[d] \in Early /\ input' = input /\ \E label : pc' = [pc EXCEPT ![d] = label]
          BY <4>1 DEF GetWorkItem, EvaluateReadiness, BlockOnUnready, Ingest, Goto, Early
        <5> QED
          BY <5>1
      <4>2. CASE PolicyAllows(d) \/ PublisherOpens(d) \/ ReportOutcome(d) \/ Abandon(d)
        <5>1. input' = input /\ \E label \in {"executor", "record_draft_pr", "returned", "raised"} :
                pc' = [pc EXCEPT ![d] = label]
          BY <4>2 DEF PolicyAllows, PublisherOpens, ReportOutcome, Abandon, Goto, Ended
        <5>2. \A l \in {"executor", "record_draft_pr", "returned", "raised"} : l \notin Early
          BY DEF Early
        <5> QED
          BY <5>1, <5>2
      <4> QED
        BY <2>5, <4>1, <4>2 DEF QuietStep
    <3>2. pc \in [Calls -> PcLabel]
      BY <1>1 DEF TypeOK
    <3> QED
      BY <3>1, <3>2
  <2> QED
    BY <1>3, <2>3, <2>4, <2>5, StepCases
<1>4. ASSUME NEW r \in Revisions, NEW a \in Approvers
      PROVE  Approval(approve(r, a))
  <2>1. approve(r, a) \in WorkRun
    BY ApproveType
  <2> QED
    BY <2>1 DEF approve, Approval, IsPristine, Event
<1>5. ASSUME checkpoint # None
      PROVE  Approval(checkpoint) \/ ~IsPristine(checkpoint)
  BY <1>5 DEF StoryInv, Story, Chained, Approval
<1>6. CASE UNCHANGED runnerVars
  BY <1>6 DEF StoryInv, runnerVars, callVars
<1>7. CASE RunnerNext /\ UNCHANGED cliVars
  BY <1>2, <1>3, <1>4, <1>5, <1>7 DEF RunnerNext
<1>8. UNCHANGED vars => UNCHANGED runnerVars
  BY DEF vars
<1> QED
  BY <1>6, <1>7, <1>8 DEF Next

\* What a command is about to save continues what it loaded, or opens a run.
LEMMA CommandStory ==
  ASSUME IndInv, StoryInv, [Next]_vars, NEW k \in Commands
  PROVE  /\ command'[k] = "run" => Opening(target'[k])
         /\ command'[k] \in {"cancel", "retry"} => Continues(loaded'[k], target'[k], {})
<1>1. TypeOK
  BY DEF IndInv
<1>2. /\ command \in [Commands -> {"idle", "start_run", "run", "cancel", "retry", "done", "failed"}]
      /\ loaded \in [Commands -> RunOrNone] /\ target \in [Commands -> RunOrNone]
      /\ checkpoint \in RunOrNone /\ issue \in Revisions
  BY <1>1 DEF TypeOK
<1> DEFINE Goal == /\ command'[k] = "run" => Opening(target'[k])
                   /\ command'[k] \in {"cancel", "retry"} =>
                        Continues(loaded'[k], target'[k], {})
<1>3. CASE UNCHANGED <<command[k], loaded[k], target[k]>>
  BY <1>3 DEF StoryInv
<1>4. CASE command'[k] \notin {"run", "cancel", "retry"}
  BY <1>4
<1>5. ASSUME NEW j \in Commands,
             RunCommand(j) \/ StartRun(j) \/ Cancel(j) \/ Retry(j) \/ SaveCommand(j)
      PROVE  Goal
  <2>1. CASE j # k
    <3>1. UNCHANGED <<command[k], loaded[k], target[k]>>
      BY <1>2, <1>5, <2>1 DEF RunCommand, StartRun, Cancel, Retry, Resolve, SaveCommand, Become
    <3> QED
      BY <1>3, <3>1
  <2>2. CASE RunCommand(k) \/ SaveCommand(k)
    <3>1. command'[k] \notin {"run", "cancel", "retry"}
      BY <1>2, <2>2 DEF RunCommand, SaveCommand, Become
    <3> QED
      BY <1>4, <3>1
  <2>3. CASE StartRun(k)
    <3>1. ASSUME NEW actor \in Approvers
          PROVE  LET approved == approve(SanitizedRevision[issue], actor)
                 IN  Opening(approved)
                     /\ Opening(transition_to(approved, "blocked", "work_item_not_ready"))
      <4> DEFINE run == approve(SanitizedRevision[issue], actor)
      <4>1. SanitizedRevision[issue] \in Revisions
        BY <1>2, SanitizedRevisionAssumption
      <4>2. run \in WorkRun
        BY <4>1, ApproveType
      <4>3. IsPristine(run) /\ run.events[1].name = "approved" /\ run.events[1].state = "approved"
        BY DEF approve, IsPristine, Event
      <4> HIDE DEF run
      <4>4. Approval(run)
        BY <4>2, <4>3 DEF Approval
      <4> QED
        BY <4>4, ApprovalOpens, StageVocabulary DEF run
    <3>2. \/ command' = [command EXCEPT ![k] = "failed"]
          \/ /\ command' = [command EXCEPT ![k] = "run"]
             /\ \E actor \in Approvers, ready \in BOOLEAN :
                  LET approved == approve(SanitizedRevision[issue], actor)
                  IN  target' = [target EXCEPT ![k] =
                        IF ready THEN approved
                        ELSE transition_to(approved, "blocked", "work_item_not_ready")]
      BY <2>3 DEF StartRun, Become
    <3>3. CASE command' = [command EXCEPT ![k] = "failed"]
      BY <1>2, <1>4, <3>3
    <3>4. CASE command' = [command EXCEPT ![k] = "run"] /\ Opening(target'[k])
      BY <1>2, <3>4
    <3> QED
      BY <1>2, <3>1, <3>2, <3>3, <3>4
  <2>4. ASSUME NEW name \in {"cancel", "retry"}, NEW state \in {"cancelled", "verifying"},
               Resolve(k, name, state)
        PROVE  Goal
    <3>1. CASE Become(k, "failed")
      BY <1>2, <1>4, <3>1 DEF Become
    <3>2. CASE /\ CanTransition(checkpoint, state)
               /\ Become(k, name)
               /\ loaded' = [loaded EXCEPT ![k] = checkpoint]
               /\ target' = [target EXCEPT ![k] = transition_to(checkpoint, state, None)]
      <4>1. /\ command'[k] = name /\ loaded'[k] = checkpoint
            /\ target'[k] = transition_to(checkpoint, state, None)
        BY <1>2, <3>2 DEF Become
      <4>2. state \in WorkRunState \ {"completed"} /\ state # "publishing_draft_pr"
            /\ None \in Detail /\ Gathers(checkpoint, checkpoint)
        BY DEF WorkRunState, ACTIVE_STATES, TERMINAL_STATES, Detail, Gathers
      <4>3. Continues(checkpoint, transition_to(checkpoint, state, None), {})
        BY <3>2, <4>2 DEF Continues
      <4> QED
        BY <4>1, <4>3
    <3> QED
      BY <2>4, <3>1, <3>2 DEF Resolve
  <2> QED
    BY <1>5, <2>1, <2>2, <2>3, <2>4 DEF Cancel, Retry
<1>6. CASE UNCHANGED cliVars
  BY <1>3, <1>6 DEF cliVars
<1>7. [Next]_vars => UNCHANGED cliVars \/ CliNext
  BY DEF Next, vars
<1> QED
  BY <1>5, <1>6, <1>7 DEF CliNext

\* The story is inductive, beside the invariant.
LEMMA StoryInductive ==
  IndInv /\ StoryInv /\ [Next]_vars => StoryInv'
<1> SUFFICES ASSUME IndInv, StoryInv, [Next]_vars
             PROVE  StoryInv'
  OBVIOUS
<1>1. checkpoint' # None => Story(checkpoint') /\ Backed(checkpoint', passed')
  BY NextStory, CheckpointStory
<1>2. \A c \in Calls : pc'[c] \in Early => Approval(input'[c])
  BY InputStory
<1>3. \A k \in Commands :
        /\ command'[k] = "run" => Opening(target'[k])
        /\ command'[k] \in {"cancel", "retry"} => Continues(loaded'[k], target'[k], {})
  BY CommandStory
<1> QED
  BY <1>1, <1>2, <1>3 DEF StoryInv

\* It holds at first.
LEMMA StoryInitially ==
  Init => StoryInv
  BY DEF Init, PortsInit, RunnerInit, CliInit, StoryInv, Early

\* Every reachable checkpoint tells its story.
THEOREM StoryInvariance == Spec => [](IndInv /\ StoryInv)
<1>1. Init => IndInv /\ StoryInv
  BY Initially, StoryInitially
<1>2. IndInv /\ StoryInv /\ [Next]_vars => IndInv' /\ StoryInv'
  BY Inductive, StoryInductive
<1> QED
  BY <1>1, <1>2, PTL DEF Spec

\* Whatever calls and commands have written between them, the checkpoint can
\* be deserialized, and a later call that resumes it accepts it.
THEOREM CheckpointsAreTrusted == Spec => []CheckpointTrusted
<1>1. IndInv /\ StoryInv => CheckpointTrusted
  BY StoryIsTrusted DEF StoryInv, CheckpointTrusted
<1> QED
  BY <1>1, StoryInvariance, PTL

\* No run is taken to publication but on a passed verification of the history
\* it had then, with only evidence added since.
THEOREM PublicationsAreVerified == Spec => []PublicationFollowsVerification
<1>1. IndInv /\ StoryInv => PublicationFollowsVerification
  BY DEF StoryInv, Backed, PublicationFollowsVerification
<1> QED
  BY <1>1, StoryInvariance, PTL

------------------------------------------------------------------------------
(* Every step of a call leaves it fewer. *)

\* The steps left at each label, with the cycles that are left to the run.
LEMMA StepsLeftValues ==
  ASSUME NEW run
  PROVE  LET max == MaxRemediationCycles
             cycles == max - Cardinality(Remediations(run))
         IN  /\ StepsLeftAt("idle", run) = 12 + 2 * max
             /\ StepsLeftAt("get_work_item", run) = 11 + 2 * max
             /\ StepsLeftAt("evaluate_readiness", run) = 10 + 2 * max
             /\ StepsLeftAt("ingest", run) = 9 + 2 * max
             /\ StepsLeftAt("save_approved", run) = 8 + 2 * max
             /\ StepsLeftAt("approved", run) = 7 + 2 * cycles
             /\ StepsLeftAt("executing", run) = 6 + 2 * cycles
             /\ StepsLeftAt("executor", run) = 5 + 2 * cycles
             /\ StepsLeftAt("remediating", run) = 5 + 2 * cycles
             /\ StepsLeftAt("verifying", run) = 4 + 2 * cycles
             /\ StepsLeftAt("publishing_draft_pr", run) = 3
             /\ StepsLeftAt("block", run) = 3
             /\ StepsLeftAt("record_draft_pr", run) = 2
             /\ StepsLeftAt("save_blocked", run) = 2
             /\ StepsLeftAt("report", run) = 1
             /\ StepsLeftAt("raised", run) = 0
             /\ StepsLeftAt("returned", run) = 0
BY DEF StepsLeftAt, Ended

\* A run that grows has no fewer remediations.
LEMMA RemediationsGrow ==
  ASSUME NEW x \in WorkRun, NEW y \in WorkRun, Grows(x, y)
  PROVE  Cardinality(Remediations(x)) <= Cardinality(Remediations(y))
<1>1. /\ x.events \in Seq(WorkRunEvent) /\ y.events \in Seq(WorkRunEvent)
      /\ DOMAIN x.events = 1..Len(x.events) /\ DOMAIN y.events = 1..Len(y.events)
      /\ Len(x.events) \in Nat /\ Len(y.events) \in Nat
  BY DEF WorkRun
<1>2. Len(x.events) <= Len(y.events) /\ \A i \in 1..Len(x.events) : x.events[i] = y.events[i]
  BY <1>1, PrefixElements DEF Grows
<1>3. Remediations(x) \subseteq Remediations(y)
  BY <1>1, <1>2 DEF Remediations
<1> QED
  BY <1>3, RemediationsFinite, FS_Subset

\* The local run of a call at work has not used up more than its cycles.
LEMMA CyclesBounded ==
  ASSUME IndInv, NEW c \in Calls, pc[c] \in Working
  PROVE  Cardinality(Remediations(current[c])) \in 0..MaxRemediationCycles
<1>1. /\ current[c] \in WorkRun /\ checkpoint \in WorkRun /\ Grows(current[c], checkpoint)
      /\ CheckpointInv
  BY DEF IndInv, CallInv, DurableInv
<1>2. checkpoint # None
  BY <1>1, NoneAssumption
<1>3. Cardinality(Remediations(checkpoint)) <= MaxRemediationCycles
  BY <1>1, <1>2 DEF CheckpointInv
<1> QED
  BY <1>1, <1>3, RemediationsGrow, RemediationsFinite, MaxRemediationCyclesAssumption

\* A permitted durable step leaves fewer steps than any label of its stage.
LEMMA AdvanceLowers ==
  ASSUME NEW run \in WorkRun, NEW new, Advances(run, new),
         Cardinality(Remediations(run)) \in 0..MaxRemediationCycles,
         NEW label, label \in {run.state, "executor", "record_draft_pr"},
         label = "executor" => run.state = "executing",
         label = "record_draft_pr" => run.state = "publishing_draft_pr"
  PROVE  StepsLeftAt(IF new.state \in TERMINAL_STATES THEN "report" ELSE new.state, new)
           \in 0..(StepsLeftAt(label, run) - 1)
<1> DEFINE n == Cardinality(Remediations(run))
           m == Cardinality(Remediations(new))
           max == MaxRemediationCycles
<1>1. /\ <<run.state, new.state>> \in ALLOWED_TRANSITIONS
      /\ m = n + (IF new.state = "remediating" THEN 1 ELSE 0)
      /\ new.state = "remediating" => n < max
  BY DEF Advances
<1>2. n \in Nat /\ max \in Nat /\ n <= max
  BY MaxRemediationCyclesAssumption
<1> HIDE DEF n, m, max
<1>3. CASE new.state \in TERMINAL_STATES
  <2>1. StepsLeftAt("report", new) = 1
    BY StepsLeftValues
  <2>2. StepsLeftAt(label, run) \in Nat /\ StepsLeftAt(label, run) >= 2
    <3>1. run.state \in ACTIVE_STATES
      BY <1>1, AllowedStates
    <3>2. label \in ACTIVE_STATES \cup {"executor", "record_draft_pr"}
      BY <3>1
    <3>3. /\ StepsLeftAt("approved", run) = 7 + 2 * (max - n)
          /\ StepsLeftAt("executing", run) = 6 + 2 * (max - n)
          /\ StepsLeftAt("executor", run) = 5 + 2 * (max - n)
          /\ StepsLeftAt("remediating", run) = 5 + 2 * (max - n)
          /\ StepsLeftAt("verifying", run) = 4 + 2 * (max - n)
          /\ StepsLeftAt("publishing_draft_pr", run) = 3
          /\ StepsLeftAt("record_draft_pr", run) = 2
      BY StepsLeftValues DEF n, max
    <3> QED
      BY <1>2, <3>2, <3>3 DEF ACTIVE_STATES
  <2> QED
    BY <1>3, <2>1, <2>2
<1>4. CASE new.state \notin TERMINAL_STATES
  <2>1. <<run.state, new.state>> \in
          { <<"approved", "executing">>, <<"executing", "verifying">>,
            <<"verifying", "remediating">>, <<"verifying", "publishing_draft_pr">>,
            <<"remediating", "verifying">> }
    BY <1>1, <1>4 DEF ALLOWED_TRANSITIONS, TERMINAL_STATES
  <2>2. /\ StepsLeftAt("executing", new) = 6 + 2 * (max - m)
        /\ StepsLeftAt("remediating", new) = 5 + 2 * (max - m)
        /\ StepsLeftAt("verifying", new) = 4 + 2 * (max - m)
        /\ StepsLeftAt("publishing_draft_pr", new) = 3
    BY StepsLeftValues DEF m, max
  <2>3. /\ StepsLeftAt("approved", run) = 7 + 2 * (max - n)
        /\ StepsLeftAt("executing", run) = 6 + 2 * (max - n)
        /\ StepsLeftAt("executor", run) = 5 + 2 * (max - n)
        /\ StepsLeftAt("remediating", run) = 5 + 2 * (max - n)
        /\ StepsLeftAt("verifying", run) = 4 + 2 * (max - n)
    BY StepsLeftValues DEF n, max
  <2>4. CASE run.state = "approved" /\ new.state = "executing"
    BY <1>1, <1>2, <1>4, <2>2, <2>3, <2>4
  <2>5. CASE run.state = "executing" /\ new.state = "verifying"
    BY <1>1, <1>2, <1>4, <2>2, <2>3, <2>5
  <2>6. CASE run.state = "verifying" /\ new.state = "remediating"
    BY <1>1, <1>2, <1>4, <2>2, <2>3, <2>6
  <2>7. CASE run.state = "verifying" /\ new.state = "publishing_draft_pr"
    BY <1>1, <1>2, <1>4, <2>2, <2>3, <2>7
  <2>8. CASE run.state = "remediating" /\ new.state = "verifying"
    BY <1>1, <1>2, <1>4, <2>2, <2>3, <2>8
  <2> QED
    BY <2>1, <2>4, <2>5, <2>6, <2>7, <2>8
<1> QED
  BY <1>3, <1>4

\* A call that is under way and does not end by the step has steps left.
LEMMA StepsLeftPositive ==
  ASSUME IndInv, NEW c \in Calls, pc[c] \notin Ended
  PROVE  StepsLeft(c) \in Nat \ {0}
<1>1. pc[c] \in PcLabel /\ MaxRemediationCycles \in Nat
  BY MaxRemediationCyclesAssumption DEF IndInv, TypeOK
<1>2. CASE pc[c] \in ACTIVE_STATES \cup {"executor"}
  <2>1. Cardinality(Remediations(current[c])) \in 0..MaxRemediationCycles
    BY <1>2, CyclesBounded DEF Working
  <2> QED
    BY <1>1, <1>2, <2>1, StepsLeftValues DEF StepsLeft, ACTIVE_STATES
<1>3. CASE pc[c] \notin ACTIVE_STATES \cup {"executor"}
  BY <1>1, <1>3, StepsLeftValues DEF StepsLeft, PcLabel
<1> QED
  BY <1>2, <1>3

\* A step of a call leaves it fewer steps.
LEMMA StepLowers ==
  ASSUME IndInv, NEW c \in Calls, Step(c), UNCHANGED cliVars
  PROVE  StepsLeft(c)' \in 0..(StepsLeft(c) - 1)
<1>1. TypeOK /\ CallInv(c) /\ DurableInv(c) /\ MaxRemediationCycles \in Nat
  BY MaxRemediationCyclesAssumption DEF IndInv
<1>2. pc[c] \notin Ended \cup {"idle"}
  BY DEF Step, GetWorkItem, EvaluateReadiness, BlockOnUnready, SaveBlocked, Ingest,
         SaveApproved, BeginExecution, PolicyAllows, PolicyDenies, FinishExecution, Verify,
         Remediate, PublisherOpens, PublisherFails, RecordDraftPr, ReportOutcome, Abandon,
         Ended, ACTIVE_STATES
<1>3. StepsLeft(c) \in Nat /\ StepsLeft(c) > 0
  BY <1>2, StepsLeftPositive
<1>4. StepsLeft(c)' = StepsLeftAt(pc'[c], current'[c]) /\ StepsLeft(c) = StepsLeftAt(pc[c], current[c])
  BY DEF StepsLeft
<1>5. ASSUME pc'[c] \in Ended PROVE StepsLeft(c)' \in 0..(StepsLeft(c) - 1)
  BY <1>3, <1>4, <1>5, StepsLeftValues DEF Ended
<1>6. CASE StageSaved(c) /\ pc[c] \in Working /\ current[c] \in WorkRun
  <2>1. PICK new : Advances(current[c], new) /\ Save(c, current[c], new)
    BY <1>6 DEF StageSaved
  <2>2. new \in WorkRun /\ current[c].state \in ACTIVE_STATES
    BY <2>1, AllowedStates DEF Advances
  <2>3. CASE /\ current'[c] = new
             /\ pc'[c] = IF new.state \in TERMINAL_STATES THEN "report" ELSE new.state
    <3>1. Cardinality(Remediations(current[c])) \in 0..MaxRemediationCycles
      BY <1>6, CyclesBounded
    <3>2. /\ pc[c] \in {current[c].state, "executor", "record_draft_pr"}
          /\ pc[c] = "executor" => current[c].state = "executing"
          /\ pc[c] = "record_draft_pr" => current[c].state = "publishing_draft_pr"
      BY <1>1, <1>6, <2>2, WorkingLabels DEF CallInv, Working
    <3>3. StepsLeftAt(IF new.state \in TERMINAL_STATES THEN "report" ELSE new.state, new)
            \in 0..(StepsLeftAt(pc[c], current[c]) - 1)
      BY <1>6, <2>1, <3>1, <3>2, AdvanceLowers
    <3> QED
      BY <1>4, <2>3, <3>3
  <2> QED
    BY <1>1, <1>5, <2>1, <2>2, <2>3, SaveCases DEF Ended
<1>7. CASE SaveBlocked(c)
  <2> DEFINE new == transition_to(input[c], "blocked", "work_item_not_ready")
  <2>1. pc[c] = "save_blocked" /\ Save(c, None, new)
    BY <1>7 DEF SaveBlocked
  <2>2. /\ input[c] \in WorkRun
        /\ "blocked" \in WorkRunState /\ "work_item_not_ready" \in Detail
    BY <1>1, <2>1, StageVocabulary DEF CallInv
  <2>3. new \in WorkRun /\ new.state = "blocked"
    BY <2>2, TransitionType, TransitionFields
  <2> HIDE DEF new
  <2>4. pc'[c] \in {"report", "raised"}
    BY <1>1, <2>1, <2>3, SaveCases DEF TERMINAL_STATES
  <2> QED
    BY <1>4, <1>5, <2>1, <2>4, StepsLeftValues DEF Ended
<1>8. CASE SaveApproved(c)
  <2>1. pc[c] = "save_approved" /\ Save(c, None, input[c])
    BY <1>8 DEF SaveApproved
  <2>2. Fresh(input[c]) /\ input[c].state = "approved" /\ input[c] \in WorkRun
    BY <1>1, <2>1 DEF CallInv, Early, Fresh
  <2>3. Cardinality(Remediations(input[c])) = 0
    BY <2>2, FS_EmptySet DEF Fresh
  <2>4. CASE pc'[c] = "approved" /\ current'[c] = input[c]
    BY <1>1, <1>4, <2>1, <2>3, <2>4, StepsLeftValues
  <2> QED
    BY <1>1, <1>5, <2>1, <2>2, <2>4, SaveCases DEF Ended, TERMINAL_STATES
<1>9. CASE QuietStep(c)
  <2>1. CASE GetWorkItem(c)
    <3>1. pc[c] = "get_work_item" /\ pc'[c] \in {"evaluate_readiness", "raised"}
      BY <1>1, <2>1 DEF GetWorkItem, Goto, TypeOK
    <3> QED
      BY <1>1, <1>4, <1>5, <3>1, StepsLeftValues DEF Ended
  <2>2. CASE EvaluateReadiness(c)
    <3>1. pc[c] = "evaluate_readiness" /\ pc'[c] \in {"ingest", "block"}
      BY <1>1, <2>2 DEF EvaluateReadiness, Goto, TypeOK
    <3> QED
      BY <1>1, <1>4, <3>1, StepsLeftValues
  <2>3. CASE BlockOnUnready(c)
    <3>1. pc[c] = "block" /\ pc'[c] \in {"save_blocked", "returned"}
      BY <1>1, <2>3 DEF BlockOnUnready, Goto, TypeOK
    <3> QED
      BY <1>4, <1>5, <3>1, StepsLeftValues DEF Ended
  <2>4. CASE Ingest(c)
    <3>1. pc[c] = "ingest"
      BY <2>4 DEF Ingest
    <3>2. \/ pc'[c] \in {"save_approved", "raised", "returned"}
          \/ /\ checkpoint # None /\ checkpoint.state \notin TERMINAL_STATES
             /\ pc'[c] = checkpoint.state /\ current'[c] = checkpoint
      BY <1>1, <2>4 DEF Ingest, Goto, TypeOK
    <3>3. CASE /\ checkpoint # None /\ checkpoint.state \notin TERMINAL_STATES
               /\ pc'[c] = checkpoint.state /\ current'[c] = checkpoint
      <4>1. checkpoint \in WorkRun /\ checkpoint.state \in ACTIVE_STATES
        BY <1>1, <3>3, WorkingLabels DEF TypeOK, RunOrNone, WorkRun
      <4>2. Cardinality(Remediations(checkpoint)) \in 0..MaxRemediationCycles
        BY <1>1, <3>3, <4>1, RemediationsFinite DEF IndInv, CheckpointInv
      <4> QED
        BY <1>1, <1>4, <3>1, <3>3, <4>1, <4>2, StepsLeftValues DEF ACTIVE_STATES
    <3> QED
      BY <1>1, <1>4, <1>5, <3>1, <3>2, <3>3, StepsLeftValues DEF Ended
  <2>5. CASE PolicyAllows(c)
    <3>1. pc[c] = "executing" /\ pc'[c] = "executor" /\ current' = current
      BY <1>1, <2>5 DEF PolicyAllows, Goto, TypeOK
    <3>2. Cardinality(Remediations(current[c])) \in 0..MaxRemediationCycles
      BY <3>1, CyclesBounded DEF Working, ACTIVE_STATES
    <3> QED
      BY <1>1, <1>4, <3>1, <3>2, StepsLeftValues
  <2>6. CASE PublisherOpens(c)
    <3>1. pc[c] = "publishing_draft_pr" /\ pc'[c] = "record_draft_pr"
      BY <1>1, <2>6 DEF PublisherOpens, Goto, TypeOK
    <3> QED
      BY <1>4, <3>1, StepsLeftValues
  <2>7. CASE ReportOutcome(c) \/ Abandon(c)
    <3>1. pc'[c] \in Ended
      BY <1>1, <2>7 DEF ReportOutcome, Abandon, Goto, TypeOK, Ended
    <3> QED
      BY <1>5, <3>1
  <2> QED
    BY <1>9, <2>1, <2>2, <2>3, <2>4, <2>5, <2>6, <2>7 DEF QuietStep
<1> QED
  BY <1>6, <1>7, <1>8, <1>9, StageSteps DEF Step, QuietStep

\* A step of one call is no step of another.
LEMMA OtherCallsStay ==
  ASSUME IndInv, NEW c \in Calls, Step(c), UNCHANGED cliVars, NEW d \in Calls \ {c}
  PROVE  UNCHANGED <<pc[d], input[d], item[d], current[d], reply[d]>>
<1>1. TypeOK
  BY DEF IndInv
<1>2. CASE StageSaved(c) /\ SaveFrame
  <2>1. PICK new : Advances(current[c], new) /\ Save(c, current[c], new)
    BY <1>2 DEF StageSaved
  <2> QED
    BY <1>1, <1>2, <2>1, SaveCases DEF Advances, SaveFrame
<1>3. CASE CreationSaved(c) /\ SaveFrame
  <2>1. PICK new : Fresh(new) /\ Save(c, None, new)
    BY <1>3 DEF CreationSaved
  <2> QED
    BY <1>1, <1>3, <2>1, SaveCases DEF Fresh, SaveFrame
<1>4. CASE QuietStep(c)
  BY <1>1, <1>4 DEF TypeOK, QuietStep, Goto, GetWorkItem, EvaluateReadiness, BlockOnUnready,
                    Ingest, PolicyAllows, PublisherOpens, ReportOutcome, Abandon
<1> QED
  BY <1>2, <1>3, <1>4, StepCases

\* A call makes at most 11 + 2 * MaxRemediationCycles steps after it is made,
\* whatever the other calls, the operators and the ports do: the loop of run()
\* has no other end to wait for than that of the port it awaits.
THEOREM CallsMakeProgress == Spec => CallsProgress
<1> DEFINE Progress ==
      \A c \in Calls :
        \/ UNCHANGED <<pc[c], input[c], item[c], current[c], reply[c]>>
        \/ StepsLeft(c)' \in 0..(StepsLeft(c) - 1)
<1>1. IndInv /\ [Next]_vars => [Progress]_vars
  <2> SUFFICES ASSUME IndInv, [Next]_vars, NEW c \in Calls
               PROVE  \/ UNCHANGED <<pc[c], input[c], item[c], current[c], reply[c]>>
                      \/ StepsLeft(c)' \in 0..(StepsLeft(c) - 1)
    OBVIOUS
  <2>1. ASSUME NEW d \in Calls, Step(d), UNCHANGED cliVars
        PROVE  \/ UNCHANGED <<pc[c], input[c], item[c], current[c], reply[c]>>
               \/ StepsLeft(c)' \in 0..(StepsLeft(c) - 1)
    <3>1. CASE c = d
      BY <2>1, <3>1, StepLowers
    <3>2. CASE c # d
      BY <2>1, <3>2, OtherCallsStay
    <3> QED
      BY <3>1, <3>2
  <2>2. ASSUME NEW d \in Calls, NEW run, Call(d, run)
        PROVE  \/ UNCHANGED <<pc[c], input[c], item[c], current[c], reply[c]>>
               \/ StepsLeft(c)' \in 0..(StepsLeft(c) - 1)
    <3>1. TypeOK /\ MaxRemediationCycles \in Nat
      BY MaxRemediationCyclesAssumption DEF IndInv
    <3>2. CASE c = d
      <4>1. pc[c] = "idle" /\ pc'[c] \in {"get_work_item", "raised"}
        BY <2>2, <3>1, <3>2 DEF Call, Goto, TypeOK
      <4> QED
        BY <3>1, <4>1, StepsLeftValues DEF StepsLeft
    <3>3. CASE c # d
      BY <2>2, <3>1, <3>3 DEF Call, Goto, TypeOK
    <3> QED
      BY <3>2, <3>3
  <2>3. CASE UNCHANGED runnerVars
    BY <2>3 DEF runnerVars, callVars
  <2> QED
    BY <2>1, <2>2, <2>3 DEF Next, RunnerNext, vars
<1> QED
  BY <1>1, Invariance, PTL DEF Spec, CallsProgress

------------------------------------------------------------------------------
(* What calls and commands answer. *)

AnswerInv ==
  /\ AnswersAreDurable
  /\ \A k \in Commands : command[k] = "idle" => target[k] = None

\* What is part of the checkpoint stays part of it.
LEMMA PartOfStays ==
  ASSUME TypeOK, DurableStep, NEW run, run \in RunOrNone, PartOf(run, checkpoint)
  PROVE  PartOf(run, checkpoint')
<1>1. run \in WorkRun /\ run # None /\ checkpoint # None /\ Grows(run, checkpoint)
  BY DEF PartOf, Grows, RunOrNone
<1>2. /\ checkpoint \in WorkRun /\ checkpoint' \in WorkRun /\ Grows(checkpoint, checkpoint')
      /\ checkpoint.state \in TERMINAL_STATES => checkpoint' = checkpoint
  BY <1>1, DurableGrows
<1>3. Grows(run, checkpoint') /\ checkpoint' # None
  BY <1>1, <1>2, GrowsTransitive, NoneAssumption
<1>4. run.state \in TERMINAL_STATES => run = checkpoint'
  BY <1>1, <1>2 DEF PartOf
<1> QED
  BY <1>1, <1>3, <1>4 DEF PartOf, Grows

\* The checkpoint is part of itself.
LEMMA PartOfItself ==
  ASSUME NEW run \in WorkRun
  PROVE  PartOf(run, run)
<1>1. Grows(run, run) /\ run # None
  BY PreparedRuns, NoneAssumption DEF Prepares
<1> QED
  BY <1>1 DEF PartOf, Grows

\* A call returns the checkpoint it found, or the outcome it saved last.
LEMMA ReturnedIsDurable ==
  ASSUME IndInv, NEW c \in Calls, Step(c), UNCHANGED cliVars, pc'[c] = "returned"
  PROVE  PartOf(current'[c], checkpoint')
<1>1. TypeOK /\ CallInv(c) /\ DurableInv(c)
  BY DEF IndInv
<1>2. CASE StageSaved(c) /\ SaveFrame
  <2>1. PICK new : Advances(current[c], new) /\ Save(c, current[c], new)
    BY <1>2 DEF StageSaved
  <2>2. new \in WorkRun /\ new.state \in WorkRunState
    BY <2>1 DEF Advances, WorkRun
  <2>3. pc'[c] # "returned"
    BY <1>1, <2>1, <2>2, SaveCases DEF WorkRunState, ACTIVE_STATES, TERMINAL_STATES
  <2> QED
    BY <2>3
<1>3. CASE CreationSaved(c) /\ SaveFrame
  <2>1. PICK new : Fresh(new) /\ Save(c, None, new)
    BY <1>3 DEF CreationSaved
  <2>2. new \in WorkRun /\ new.state \in WorkRunState
    BY <2>1 DEF Fresh, WorkRun
  <2>3. pc'[c] # "returned"
    BY <1>1, <2>1, <2>2, SaveCases DEF WorkRunState, ACTIVE_STATES, TERMINAL_STATES
  <2> QED
    BY <2>3
<1>4. CASE QuietStep(c) /\ UNCHANGED checkpoint
  <2>1. current'[c] = checkpoint /\ checkpoint # None
    <3>1. CASE BlockOnUnready(c)
      BY <1>1, <3>1 DEF BlockOnUnready, Goto, TypeOK
    <3>2. CASE Ingest(c)
      BY <1>1, <3>2 DEF Ingest, Goto, TypeOK
    <3>3. CASE ReportOutcome(c)
      <4>1. pc[c] = "report" /\ current' = current
        BY <3>3 DEF ReportOutcome
      <4> QED
        BY <1>1, <4>1, WorkingLabels, NoneAssumption DEF DurableInv
    <3>4. CASE GetWorkItem(c) \/ EvaluateReadiness(c) \/ PolicyAllows(c) \/ PublisherOpens(c) \/ Abandon(c)
      BY <1>1, <3>4 DEF GetWorkItem, EvaluateReadiness, PolicyAllows, PublisherOpens, Abandon, Goto, TypeOK
    <3> QED
      BY <1>4, <3>1, <3>2, <3>3, <3>4 DEF QuietStep
  <2>2. checkpoint \in WorkRun
    BY <1>1, <2>1 DEF TypeOK, RunOrNone
  <2> QED
    BY <1>4, <2>1, <2>2, PartOfItself
<1> QED
  BY <1>2, <1>3, <1>4, StepCases

\* Nobody moves a call that has returned, and what it returned stays durable.
LEMMA CallAnswers ==
  ASSUME IndInv, AnswerInv, [Next]_vars, NEW c \in Calls, pc'[c] = "returned"
  PROVE  PartOf(current'[c], checkpoint')
<1>1. TypeOK /\ DurableStep
  BY NextDurable DEF IndInv
<1>2. ASSUME pc'[c] = pc[c], current'[c] = current[c]
      PROVE  PartOf(current'[c], checkpoint')
  <2>1. PartOf(current[c], checkpoint) /\ current[c] \in RunOrNone
    BY <1>1, <1>2 DEF AnswerInv, AnswersAreDurable, TypeOK
  <2> QED
    BY <1>1, <1>2, <2>1, PartOfStays
<1>3. ASSUME NEW d \in Calls, Step(d), UNCHANGED cliVars
      PROVE  PartOf(current'[c], checkpoint')
  <2>1. CASE c = d
    BY <1>3, <2>1, ReturnedIsDurable
  <2>2. CASE c # d
    BY <1>2, <1>3, <2>2, OtherCallsStay
  <2> QED
    BY <2>1, <2>2
<1>4. ASSUME NEW d \in Calls, NEW run, Call(d, run)
      PROVE  PartOf(current'[c], checkpoint')
  <2>1. current' = current /\ pc'[c] = pc[c]
    BY <1>1, <1>4 DEF Call, Goto, TypeOK
  <2> QED
    BY <1>2, <2>1
<1>5. CASE UNCHANGED runnerVars
  BY <1>2, <1>5 DEF runnerVars, callVars
<1> QED
  BY <1>3, <1>4, <1>5 DEF Next, RunnerNext, vars

\* A command is done when its save has replaced the checkpoint, or with nothing
\* to save.
LEMMA CommandAnswers ==
  ASSUME IndInv, AnswerInv, [Next]_vars, NEW k \in Commands
  PROVE  /\ command'[k] = "idle" => target'[k] = None
         /\ command'[k] = "done" /\ target'[k] # None => PartOf(target'[k], checkpoint')
<1>1. TypeOK /\ DurableStep /\ CommandInv(k)
  BY NextDurable DEF IndInv
<1>2. target[k] \in RunOrNone /\ target \in [Commands -> RunOrNone]
  BY <1>1 DEF TypeOK
<1>3. CASE command'[k] = command[k] /\ target'[k] = target[k]
  BY <1>1, <1>2, <1>3, PartOfStays DEF AnswerInv, AnswersAreDurable
<1>4. ASSUME NEW j \in Commands, RunCommand(j) \/ StartRun(j) \/ Cancel(j) \/ Retry(j)
      PROVE  \/ command'[k] = command[k] /\ target'[k] = target[k]
             \/ command'[k] = "done" /\ target'[k] = None
             \/ command'[k] \notin {"idle", "done"}
  BY <1>1, <1>4 DEF RunCommand, StartRun, Cancel, Retry, Resolve, Become, TypeOK,
                    AnswerInv
<1>5. ASSUME NEW j \in Commands, SaveCommand(j)
      PROVE  \/ command'[k] = command[k] /\ target'[k] = target[k]
             \/ command'[k] = "failed"
             \/ command'[k] = "done" /\ target'[k] = checkpoint'
  BY <1>1, <1>5 DEF SaveCommand, CompareAndSwap, Conflict, Become, TypeOK
<1>6. CASE command'[k] = "done" /\ target'[k] = checkpoint'
  <2>1. checkpoint' \in WorkRun \cup {None}
    BY Inductive DEF IndInv, TypeOK, RunOrNone
  <2> QED
    BY <1>6, <2>1, PartOfItself
<1>7. CASE UNCHANGED cliVars
  BY <1>3, <1>7 DEF cliVars
<1> QED
  BY <1>3, <1>4, <1>5, <1>6, <1>7 DEF Next, CliNext, vars

\* What a call has returned, or a command has printed as done, is in the
\* checkpoint then and ever after, however many calls and commands there are.
THEOREM AnswersStayDurable == Spec => []AnswersAreDurable
<1>1. Init => AnswerInv
  BY DEF Init, RunnerInit, CliInit, AnswerInv, AnswersAreDurable
<1>2. IndInv /\ AnswerInv /\ [Next]_vars => AnswerInv'
  BY CallAnswers, CommandAnswers DEF AnswerInv, AnswersAreDurable
<1>3. AnswerInv => AnswersAreDurable
  BY DEF AnswerInv
<1> QED
  BY <1>1, <1>2, <1>3, Invariance, PTL DEF Spec

=============================================================================
