---------------------------- MODULE WorkRunSystem ----------------------------
(***************************************************************************)
(* The work-run system: calls of the runner, the operator's commands and   *)
(* people who edit the work item, around one durable checkpoint.           *)
(***************************************************************************)
EXTENDS WorkflowRunner, OperatorCli

vars == <<portVars, runnerVars, cliVars>>

Init == PortsInit /\ RunnerInit /\ CliInit

Next ==
  \/ RunnerNext /\ UNCHANGED cliVars
  \/ CliNext /\ UNCHANGED runnerVars
  \/ EditIssue /\ UNCHANGED <<runnerVars, cliVars>>

Spec == Init /\ [][Next]_vars

\* The event loop resumes a call whose await is over, and every port answers
\* or raises.  Nobody has to call, to edit or to run a command.
FairSpec == Spec /\ \A c \in Calls : WF_vars(Step(c) /\ UNCHANGED cliVars)

------------------------------------------------------------------------------

RunOrNone == WorkRun \cup {None}

PcLabel ==
  ACTIVE_STATES \cup Ended \cup
  { "idle", "get_work_item", "evaluate_readiness", "block", "save_blocked",
    "ingest", "save_approved", "executor", "record_draft_pr", "report" }

\* The types of the variables.
TypeOK ==
  /\ checkpoint \in RunOrNone
  /\ issue \in Revisions
  /\ pc \in [Calls -> PcLabel]
  /\ input \in [Calls -> RunOrNone]
  /\ item \in [Calls -> Revisions \cup {None}]
  /\ current \in [Calls -> RunOrNone]
  /\ reply \in [Calls -> PullRequests \cup {None}]
  /\ executions \subseteq [call: Calls, content: Revisions, approved_by: Detail]
  /\ passed \subseteq Seq(WorkRunEvent)
  /\ reports \subseteq [state: WorkRunState, detail: Detail,
                        evidence: PullRequests \cup {None}]
  /\ command \in [Commands -> {"idle", "start_run", "run", "cancel", "retry", "done", "failed"}]
  /\ loaded \in [Commands -> RunOrNone]
  /\ target \in [Commands -> RunOrNone]

------------------------------------------------------------------------------

\* Whatever calls and commands have written between them, the checkpoint can
\* be deserialized and is accepted when a later call resumes it: no legal
\* sequence of steps locks a run out of the workflow.
CheckpointTrusted ==
  checkpoint # None => IsValid(checkpoint) /\ IsTrusted(checkpoint)

\* A run is only taken to publication on a passed verification of exactly the
\* history it had then; between the two there is nothing but evidence.
PublicationFollowsVerification ==
  checkpoint # None =>
    LET events == checkpoint.events
    IN  \A k \in DOMAIN events :
          events[k].name = "entered" /\ events[k].state = "publishing_draft_pr" =>
            \E n \in 1..(k - 1) :
              /\ SubSeq(events, 1, n) \in passed
              /\ \A j \in (n + 1)..(k - 1) : events[j].name = "artifact_attached"

\* Resumes, concurrent calls and operator retries together never take a run
\* into more remediations than one call would.
RemediationBounded ==
  checkpoint # None =>
    Cardinality(Remediations(checkpoint)) <= MaxRemediationCycles

\* Whatever the tracker was told is the durable outcome of the run: no call
\* reports a result that it lost to another call or to a cancellation.
ReportsMatchCheckpoint ==
  \A r \in reports : checkpoint # None /\ r = Report(checkpoint)

\* The executor only ever worked on the content that the durable run was
\* approved for, in the name of its approver, however the work item and the
\* approvals changed meanwhile.
ExecutesApprovedRevision ==
  \A e \in executions :
    /\ checkpoint # None
    /\ e.content = checkpoint.revision
    /\ e.approved_by = checkpoint.events[1].detail

\* What `run` records is part of what is stored.
PartOf(run, stored) ==
  /\ run # None /\ stored # None
  /\ run.revision = stored.revision
  /\ IsPrefix(run.events, stored.events)
  /\ IsPrefix(run.artifacts, stored.artifacts)
  /\ run.state \in TERMINAL_STATES => run = stored

\* Whatever a call returns or a command prints as done is durable then and
\* ever after, also the unfinished run that a call returns because its item is
\* no longer ready: others may take it on, nobody takes it back.
AnswersAreDurable ==
  /\ \A c \in Calls : pc[c] = "returned" => PartOf(current[c], checkpoint)
  /\ \A k \in Commands :
       command[k] = "done" /\ target[k] # None => PartOf(target[k], checkpoint)

\* The audit history of a run is append-only, across every writer, and one that
\* has reached a terminal state is never written again.
HistoryPreserved ==
  [][checkpoint # None => PartOf(checkpoint, checkpoint')]_vars

\* The most steps that a call can still make from `label` with its local run.
StepsLeftAt(label, run) ==
  LET max == MaxRemediationCycles
      cycles == max - Cardinality(Remediations(run))
  IN  CASE label = "idle" -> 12 + 2 * max
        [] label = "get_work_item" -> 11 + 2 * max
        [] label = "evaluate_readiness" -> 10 + 2 * max
        [] label = "ingest" -> 9 + 2 * max
        [] label = "save_approved" -> 8 + 2 * max
        [] label = "approved" -> 7 + 2 * cycles
        [] label = "executing" -> 6 + 2 * cycles
        [] label \in {"executor", "remediating"} -> 5 + 2 * cycles
        [] label = "verifying" -> 4 + 2 * cycles
        [] label \in {"publishing_draft_pr", "block"} -> 3
        [] label \in {"record_draft_pr", "save_blocked"} -> 2
        [] label = "report" -> 1
        [] label \in Ended -> 0

StepsLeft(c) == StepsLeftAt(pc[c], current[c])

\* No call goes round for ever, however other calls, resumes and operators
\* move the run under it: each of its steps leaves it fewer, and nobody else
\* gives it more.
CallsProgress ==
  [][\A c \in Calls :
       \/ UNCHANGED <<pc[c], input[c], item[c], current[c], reply[c]>>
       \/ StepsLeft(c)' \in 0..(StepsLeft(c) - 1)]_vars

\* Every call that is made returns or raises.
EveryCallEnds == \A c \in Calls : pc[c] # "idle" ~> pc[c] \in Ended

------------------------------------------------------------------------------
(* The durable run implements the abstract lifecycle. *)

Lifecycle == INSTANCE WorkRunLifecycle WITH
  phase <- IF checkpoint = None THEN None ELSE checkpoint.state,
  pinned <- IF checkpoint = None THEN None ELSE checkpoint.revision,
  evidence <- IF checkpoint = None THEN {} ELSE Range(checkpoint.artifacts),
  draft_pr <- IF checkpoint = None THEN None ELSE checkpoint.draft_pr_url,
  cycles <- IF checkpoint = None THEN 0 ELSE Cardinality(Remediations(checkpoint))

\* Every step of the system is a permitted durable step or no durable step.
ImplementsLifecycle == Lifecycle!Spec

------------------------------------------------------------------------------
(* Statements the sources make that the code does not keep; see README. *)

\* "EXECUTING is never re-entered once left ..., so this always runs once."
ExecutorRunsOnce == Cardinality(executions) <= 1

\* "Run or idempotently resume": once a call has returned an outcome the runner
\* reached, and no call is still about to report, that outcome is reported.
ReturnedOutcomeReported ==
  (\A d \in Calls : pc[d] # "report") =>
    \A c \in Calls :
      pc[c] = "returned" /\ current[c].state = "completed" => reports # {}

\* "... the remediating -> verifying transition ..., so that is the only
\* transition this command performs."
RetryOnlyFromRemediating ==
  \A k \in Commands : command[k] = "retry" => loaded[k].state = "remediating"

\* "Fail closed if the Jira description changed after human approval": a run
\* approved on the command line is accepted while nobody edits its work item.
UnchangedApprovalAccepted ==
  \A c \in Calls, k \in Commands :
    command[k] = "done" /\ input[c] # None /\ input[c] = target[k] /\ item[c] # None
      => item[c] = input[c].revision

=============================================================================
