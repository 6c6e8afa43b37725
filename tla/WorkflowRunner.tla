---------------------------- MODULE WorkflowRunner ----------------------------
(***************************************************************************)
(* WorkflowRunner.run (src/gearmeshing_ai/application/workflow_runner.py): *)
(* the loop that takes one approved run to a terminal state through ports  *)
(* it awaits.  Several calls of run may be in flight for one run id, in    *)
(* one event loop or in several processes, and any of them may be given up *)
(* between two steps; a resume is another call.                            *)
(*                                                                         *)
(* A call's program counter names the await or the store access it is at.  *)
(* While it works on a stage the counter is the state of its local run.    *)
(* What the ports answer is chosen by \E; what they did is kept in the     *)
(* history variables, which no action reads.                               *)
(***************************************************************************)
EXTENDS WorkRunPorts

CONSTANTS
  Calls,                  \* calls of run(), each made at most once
  MaxRemediationCycles,   \* the constructor's max_remediation_cycles
  ArtifactBundles         \* sequences of artifacts that a port may return

ASSUME MaxRemediationCyclesAssumption == MaxRemediationCycles \in Nat
ASSUME ArtifactBundlesAssumption == ArtifactBundles \subseteq Seq(ArtifactIds)

VARIABLES
  pc,          \* where each call is
  input,       \* the WorkRun each call was given
  item,        \* the work item revision each call fetched
  current,     \* the local variable `current` of each call
  reply,       \* the Draft PR URL a publisher has returned to a call
  executions,  \* history: executor starts
  passed,      \* history: event histories the verifier has passed
  reports      \* history: outcomes delivered to the tracker

callVars == <<pc, input, item, current, reply>>
historyVars == <<executions, passed, reports>>
runnerVars == <<callVars, historyVars>>

Ended == {"returned", "raised"}

RunnerInit ==
  /\ pc = [c \in Calls |-> "idle"]
  /\ input = [c \in Calls |-> None]
  /\ item = [c \in Calls |-> None]
  /\ current = [c \in Calls |-> None]
  /\ reply = [c \in Calls |-> None]
  /\ executions = {}
  /\ passed = {}
  /\ reports = {}

Goto(c, label) == pc' = [pc EXCEPT ![c] = label]

------------------------------------------------------------------------------
(* The checks of a resumed checkpoint. *)

IsPristine(run) ==
  /\ run.state = "approved"
  /\ Len(run.events) = 1
  /\ run.artifacts = <<>>
  /\ run.draft_pr_url = None

EventsNamed(run, name) == {i \in DOMAIN run.events : run.events[i].name = name}

HistoryIsCanonical(run) ==
  \A i \in 2..Len(run.events) :
    LET previous == run.events[i - 1].state
        event == run.events[i]
    IN  IF event.state = previous
        THEN \/ event.name = "artifact_attached"
             \/ event.name = "draft_pr_recorded" /\ event.state = "publishing_draft_pr"
        ELSE /\ <<previous, event.state>> \in ALLOWED_TRANSITIONS
             /\ event.name = "entered"

\* The events of evidence, in their order, are about the run's artifacts.
EvidenceMatchesEvents(run) ==
  LET recorded == EventsNamed(run, "artifact_attached")
  IN  /\ Len(run.artifacts) = Cardinality(recorded)
      /\ \A i \in recorded :
           run.artifacts[Cardinality({j \in recorded : j <= i})] = run.events[i].detail

DraftPrMatchesEvent(run) ==
  LET recorded == EventsNamed(run, "draft_pr_recorded")
  IN  IF run.draft_pr_url = None
      THEN recorded = {}
      ELSE \E i \in recorded : recorded = {i} /\ run.events[i].detail = run.draft_pr_url

IsTrusted(run) ==
  HistoryIsCanonical(run) /\ EvidenceMatchesEvents(run) /\ DraftPrMatchesEvent(run)

Extends(run, approved) ==
  /\ run.revision = approved.revision
  /\ run.events[1] = approved.events[1]

------------------------------------------------------------------------------
(* A call up to its first checkpoint. *)

\* The caller hands over a run: a fresh approval, or the stored checkpoint.
Call(c, run) ==
  /\ pc[c] = "idle"
  /\ input' = [input EXCEPT ![c] = run]
  /\ Goto(c, IF IsPristine(run) THEN "get_work_item" ELSE "raised")
  /\ UNCHANGED <<item, current, reply, historyVars, portVars>>

\* Mutant: the item is not compared with the approved specification.
GetAnyWorkItem(c) ==
  /\ pc[c] = "get_work_item"
  /\ item' = [item EXCEPT ![c] = issue]
  /\ Goto(c, "evaluate_readiness")
  /\ UNCHANGED <<input, current, reply, historyVars, portVars>>

GetWorkItem(c) ==
  /\ pc[c] = "get_work_item"
  /\ item' = [item EXCEPT ![c] = issue]
  /\ Goto(c, IF issue = input[c].revision THEN "evaluate_readiness" ELSE "raised")
  /\ UNCHANGED <<input, current, reply, historyVars, portVars>>

\* Mutant: an item that is not ready is fetched again until it is.
PollReadiness(c) ==
  /\ pc[c] = "evaluate_readiness"
  /\ \E ready \in BOOLEAN : Goto(c, IF ready THEN "ingest" ELSE "get_work_item")
  /\ UNCHANGED <<input, item, current, reply, historyVars, portVars>>

EvaluateReadiness(c) ==
  /\ pc[c] = "evaluate_readiness"
  /\ \E ready \in BOOLEAN : Goto(c, IF ready THEN "ingest" ELSE "block")
  /\ UNCHANGED <<input, item, current, reply, historyVars, portVars>>

\* The call leaves with `run` as its local run, at the stage of that run.
Proceed(c, run) ==
  /\ current' = [current EXCEPT ![c] = run]
  /\ Goto(c, IF run.state \in TERMINAL_STATES THEN "report" ELSE run.state)

\* Mutant: a conflict is swallowed and the call goes on with its own run.
SaveIgnoringConflict(c, expected, updated) ==
  \/ CompareAndSwap(expected, updated) /\ Proceed(c, updated)
  \/ Conflict(expected) /\ Proceed(c, updated)

\* A save, and what a conflict does: it escapes from run().
Save(c, expected, updated) ==
  \/ CompareAndSwap(expected, updated) /\ Proceed(c, updated)
  \/ Conflict(expected) /\ Goto(c, "raised") /\ UNCHANGED current

\* The work item is not ready: an existing checkpoint is returned as it is.
BlockOnUnready(c) ==
  /\ pc[c] = "block"
  /\ IF checkpoint = None
     THEN Goto(c, "save_blocked") /\ UNCHANGED current
     ELSE Goto(c, "returned") /\ current' = [current EXCEPT ![c] = checkpoint]
  /\ UNCHANGED <<input, item, reply, historyVars, portVars>>

SaveBlocked(c) ==
  /\ pc[c] = "save_blocked"
  /\ Save(c, None, transition_to(input[c], "blocked", "work_item_not_ready"))
  /\ UNCHANGED <<input, item, reply, historyVars, issue>>

\* A terminal checkpoint is returned without a report.
Ingest(c) ==
  /\ pc[c] = "ingest"
  /\ \/ /\ checkpoint = None
        /\ Goto(c, "save_approved")
        /\ UNCHANGED current
     \/ /\ checkpoint # None
        /\ IsTrusted(checkpoint) /\ Extends(checkpoint, input[c])
        /\ current' = [current EXCEPT ![c] = checkpoint]
        /\ Goto(c, IF checkpoint.state \in TERMINAL_STATES
                   THEN "returned" ELSE checkpoint.state)
     \/ /\ checkpoint # None
        /\ ~(IsTrusted(checkpoint) /\ Extends(checkpoint, input[c]))
        /\ Goto(c, "raised")
        /\ UNCHANGED current
  /\ UNCHANGED <<input, item, reply, historyVars, portVars>>

SaveApproved(c) ==
  /\ pc[c] = "save_approved"
  /\ Save(c, None, input[c])
  /\ UNCHANGED <<input, item, reply, historyVars, issue>>

------------------------------------------------------------------------------
(* The stages. *)

\* `updated` moves to the target state, which the domain has to permit, and
\* is saved over the local run the stage began with.
SaveStage(c, updated, state, detail) ==
  /\ CanTransition(updated, state)
  /\ Save(c, current[c], transition_to(updated, state, detail))

Fail(c) == SaveStage(c, current[c], "failed", "operation_failed")

BeginExecution(c) ==
  /\ pc[c] = "approved"
  /\ SaveStage(c, current[c], "executing", None)
  /\ UNCHANGED <<input, item, reply, historyVars, issue>>

\* What the executor is asked for: the content this call fetched, in the name
\* of the actor who approved the run.
ExecutionRequest(c) ==
  [call |-> c, content |-> item[c], approved_by |-> current[c].events[1].detail]

\* Mutant: a denial is recorded under a code nobody knows.
PolicyDeniesUncoded(c) ==
  /\ pc[c] = "executing"
  /\ SaveStage(c, current[c], "blocked", "denied")
  /\ UNCHANGED <<input, item, reply, historyVars, issue>>

\* The policy gate allows the executor, which is started ...
PolicyAllows(c) ==
  /\ pc[c] = "executing"
  /\ Goto(c, "executor")
  /\ executions' = executions \cup {ExecutionRequest(c)}
  /\ UNCHANGED <<input, item, current, reply, passed, reports, portVars>>

\* ... or denies it.
PolicyDenies(c) ==
  /\ pc[c] = "executing"
  /\ SaveStage(c, current[c], "blocked", "policy_denied")
  /\ UNCHANGED <<input, item, reply, historyVars, issue>>

ExecutionCode(outcome) ==
  CASE outcome = "blocked" -> "execution_blocked"
    [] outcome = "failed" -> "execution_failed"
    [] outcome = "cancelled" -> "execution_cancelled"
    [] outcome = "timed_out" -> "execution_timed_out"
    [] outcome = "resource_exhausted" -> "execution_resource_exhausted"

FailedOutcome == {"blocked", "failed", "cancelled", "timed_out", "resource_exhausted"}

\* The executor's session ends with a result, or something in it raises.
FinishExecution(c) ==
  /\ pc[c] = "executor"
  /\ \/ Fail(c)
     \/ \E bundle \in ArtifactBundles :
          LET updated == attach_artifact(current[c], bundle)
          IN  /\ CanAttach(current[c], bundle)
              /\ \/ SaveStage(c, updated, "verifying", None)
                 \/ \E outcome \in FailedOutcome :
                      SaveStage(c, updated, "failed", ExecutionCode(outcome))
  /\ UNCHANGED <<input, item, reply, historyVars, issue>>

\* Verification attempts are counted from the run's own audit history.
Remediations(run) ==
  {i \in DOMAIN run.events :
     run.events[i].name = "entered" /\ run.events[i].state = "remediating"}

\* Mutant: attempts are counted from zero.
AttemptFromZero(run) == Cardinality(Remediations(run))

Attempt(run) == 1 + Cardinality(Remediations(run))

Verify(c) ==
  /\ pc[c] = "verifying"
  /\ \/ Fail(c) /\ UNCHANGED passed
     \/ \E bundle \in ArtifactBundles :
          LET updated == attach_artifact(current[c], bundle)
          IN  /\ CanAttach(current[c], bundle)
              /\ \/ /\ passed' = passed \cup {current[c].events}
                    /\ SaveStage(c, updated, "publishing_draft_pr", None)
                 \/ /\ Attempt(current[c]) > MaxRemediationCycles
                    /\ SaveStage(c, updated, "failed", "remediation_limit_reached")
                    /\ UNCHANGED passed
                 \/ /\ Attempt(current[c]) <= MaxRemediationCycles
                    /\ SaveStage(c, updated, "remediating", None)
                    /\ UNCHANGED passed
  /\ UNCHANGED <<input, item, reply, executions, reports, issue>>

Remediate(c) ==
  /\ pc[c] = "remediating"
  /\ \/ Fail(c)
     \/ \E bundle \in ArtifactBundles :
          /\ CanAttach(current[c], bundle)
          /\ SaveStage(c, attach_artifact(current[c], bundle), "verifying", None)
  /\ UNCHANGED <<input, item, reply, historyVars, issue>>

\* The publisher opens a Draft PR and answers with its URL ...
PublisherOpens(c) ==
  /\ pc[c] = "publishing_draft_pr"
  /\ \E url \in PullRequests : reply' = [reply EXCEPT ![c] = url]
  /\ Goto(c, "record_draft_pr")
  /\ UNCHANGED <<input, item, current, historyVars, portVars>>

\* ... or raises.
PublisherFails(c) ==
  /\ pc[c] = "publishing_draft_pr"
  /\ Fail(c)
  /\ UNCHANGED <<input, item, reply, historyVars, issue>>

\* The URL is refused (or the clock regresses), or the run completes with it.
RecordDraftPr(c) ==
  /\ pc[c] = "record_draft_pr"
  /\ \/ Fail(c)
     \/ /\ CanRecordDraftPr(current[c])
        /\ SaveStage(c, record_draft_pr(current[c], reply[c]), "completed", None)
  /\ UNCHANGED <<input, item, reply, historyVars, issue>>

------------------------------------------------------------------------------

\* What the tracker is told of a run that reached a terminal state.  Only the
\* command line cancels, so no call ever comes here with a cancelled run.
Report(run) ==
  [ state |-> run.state, detail |-> Last(run.events).detail,
    evidence |-> run.draft_pr_url ]

\* The tracker may apply the update and still fail to answer.
ReportOutcome(c) ==
  /\ pc[c] = "report"
  /\ \E label \in Ended : Goto(c, label)
  /\ reports' = reports \cup {Report(current[c])}
  /\ UNCHANGED <<input, item, current, reply, executions, passed, portVars>>

\* The process dies, the task is cancelled, or an exception escapes from run:
\* a port outside a try block raises, the clock is naive or has regressed, a
\* request or an event detail is rejected.  Nothing is persisted.
Abandon(c) ==
  /\ pc[c] \notin Ended \cup {"idle"}
  /\ Goto(c, "raised")
  /\ UNCHANGED <<input, item, current, reply, historyVars, portVars>>

\* One step of call c once it has been made.
Step(c) ==
  \/ GetWorkItem(c) \/ EvaluateReadiness(c)
  \/ BlockOnUnready(c) \/ SaveBlocked(c) \/ Ingest(c) \/ SaveApproved(c)
  \/ BeginExecution(c) \/ PolicyAllows(c) \/ PolicyDenies(c) \/ FinishExecution(c)
  \/ Verify(c) \/ Remediate(c)
  \/ PublisherOpens(c) \/ PublisherFails(c) \/ RecordDraftPr(c)
  \/ ReportOutcome(c) \/ Abandon(c)

RunnerNext ==
  \E c \in Calls :
    \/ Step(c)
    \/ \E r \in Revisions, a \in Approvers : Call(c, approve(r, a))
    \/ checkpoint # None /\ Call(c, checkpoint)

=============================================================================
