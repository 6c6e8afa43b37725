# A TLA+ model of GearMeshing-AI

GearMeshing-AI takes one human-approved work item to a Draft pull request: it
has a coding agent execute it in a container, verifies the result, lets the
agent correct it a bounded number of times, publishes a Draft PR and reports to
the tracker. The durable record of this is the *work run*: an immutable
aggregate with an audit history, stored as a JSON checkpoint from which an
interrupted run is resumed.

This directory models the part of the program whose order of steps is hard to
get right, model-checks it with TLC and proves its main properties with TLAPS.
Paths below are relative to the repository; `domain/`, `application/`,
`adapters/`, `runtime/` and `interfaces/` are under `src/gearmeshing_ai/`.

## 1. Inventory

| Part | State | Operations that change it | What makes it correct |
|---|---|---|---|
| `WorkRun` (`domain/work_run.py`) | state, events, artifacts, Draft PR | `approve`, `transition_to`, `attach_artifact`, `record_draft_pr` | permitted transitions only; append-only history; no duplicate artifact; a Draft PR when completed |
| `WorkflowRunner` (`application/workflow_runner.py`) | the local `current` of each `run()` call | one stage per state; a save after each; `report_outcome` | saves never overwrite another writer's; publication rests on a passed verification; bounded corrections; only the approved content is executed |
| Operator CLI (`interfaces/cli.py`) | what a command loaded | `run`, `cancel`, `retry` | same, while a runner is at any point |
| Checkpoint store (`runtime/checkpoint_store.py`) | one JSON file a run | `load`, `save` | compare-and-swap; never half a file |
| Evidence store (`runtime/evidence_store.py`) | one JSON file per `evidence_id` | `save`, `load` | write-once |
| Claude Code executor (`adapters/claude_code_executor.py`) | sessions in memory: the event generator, its process, cancel reason, result | `start`, `events`, `cancel`, `result` | events and result agree, within limits; a cancellation in time is honoured; no process outlives its reader; every reader ends |
| Docker sandbox (`adapters/docker_sandbox.py`) | sessions in memory: the `docker run` client, whether it was killed, cancel reason, result; containers, by name, at the daemon | `start`, `cancel`, `result` | a result is final: the container is gone, and the status is that of its own command; a cancellation in time counts; no wait without end |
| Quality checks (`adapters/quality_checks.py`) | results so far, whether the batch is cancelled | `run_checks` | a verdict is about the check's own command, whoever shares its container's name; nothing starts after a check was skipped |
| Git worktree (`adapters/git_worktree.py`) | a worktree and a branch for each run, in a repository that people use too | `ensure_worktree`, `cleanup` | a context is bound to its run's branch; what was cleaned up is gone; nobody else's worktree is removed; no committed work is lost but to a cleanup |
| Jira provider (`adapters/jira_work_management.py`, `jira_adf.py`) | the comments of an issue, each with an idempotency key and a digest | `get_work_item`, `evaluate_readiness`, `publish_readiness` and the four updates, all by search-then-create | one comment for a key; receipts that are true; an end to every retry and search; nothing redirects the execution |
| Work management port (`application/ports/work_management.py`) | none | `WorkItem`, readiness results, receipts | what is ready can be worked on |
| Policy gate, identity (`adapters/agent_assembly_*.py`) | none | queries | denies on doubt |
| Ports' value objects (`application/ports/*.py`) | none | field validation | pure |
| Prompts, golden datasets | none | load and validate files | pure |
| Dockerfile, compose, collector configuration | none | | |

How they interact. `run(run)` awaits each port in turn (tracker, policy gate,
executor, verifier, remediator, publisher) and after each stage calls the
synchronous `checkpoints.save(expected=, updated=)`. Between two awaits other
tasks of the same event loop run, and at any time other processes: another
runner that resumes the same run, and the operator's commands, each of which
loads the checkpoint, works, and saves against what it loaded. The only thing
they share is the checkpoint; the only protection is its compare-and-swap. In
the tracker, people edit the work item meanwhile.

What is hard about it:

- *interleaving*: a call holds a `WorkRun` it read before an await and saves
  its continuation after;
- *crash and resume*: a call may stop anywhere; the next one starts from
  whatever checkpoint is there, whose history several writers may have made;
- *stale approvals*: the item, its readiness and its approval may all change
  between the check of the revision and the start of the executor;
- *counting over resumes*: remediation attempts are counted from the history,
  not from a local counter;
- *one generator, many tasks*: `start` returns the running session to everybody
  who repeats a request, so several tasks may pull one asynchronous generator
  while others cancel it, a process is silent and a deadline runs;
- *a client and a container*: the sandbox holds the client of a container that
  the daemon runs, and kills it by a name that another run may have as well, while
  the client exits, the deadline passes and cancellations come;
- *a service that answers late or not at all*: a comment is looked for page by
  page and then created, while a POST that was given up on may still arrive and
  people add and remove comments;
- *a shared repository*: `ensure_worktree` and `cleanup` are sequences of git
  commands, and other processes and people act between any two of them;
- *storage*: the compare-and-swap is a re-read, a comparison, a temporary file
  and a replacement, four steps in which a disk or a process may fail.

`PROJECT.json` lists these hazards with the lines at which they bite, and the
properties that cover them.

## 2. The modules

```
WorkRun ---- WorkRunPorts --+-- WorkflowRunner --+-- WorkRunSystem ---- MCWorkRunSystem
                            +-- OperatorCli -----+        |  refines
                                                          +--> WorkRunLifecycle
WorkRunProofs, WorkRunSystemProofs     theorems about the above
CheckpointStore (refines CasRegister), MCCheckpointStore, CheckpointStoreProofs
EvidenceStore (refines WriteOnce), MCEvidenceStore, EvidenceStoreProofs
ClaudeCodeSession (refines ExecutionSession), MCClaudeCodeSession, ClaudeCodeSessionProofs
DockerSandbox ---- QualityChecks ---- MCQualityChecks, QualityChecksProofs
JiraIssue ---- JiraComments ---- MCJiraComments, JiraCommentsProofs
GitWorktree, MCGitWorktree, GitWorktreeProofs
```

**`WorkRun`** is the aggregate as pure operators: a record of the pinned
`revision`, `state`, `events`, `artifacts` and `draft_pr_url`, the operators
`approve`, `transition_to`, `attach_artifact` and `record_draft_pr` with the
conditions under which the code raises (`CanTransition`, `CanAttach`,
`CanRecordDraftPr`), and `IsValid`, which is `__post_init__`. Data is abstracted
to what the properties tell apart: the correlation (work item, revision, digest)
is one `revision`; an event keeps its name, its state and one detail; time is
left out, and a clock that has regressed shows as a call that raises.

**`WorkRunPorts`** is what the runner and the commands share: `checkpoint`, the
work item's `issue` revision, and a save in one step, `CompareAndSwap` or
`Conflict`. `CheckpointStore` justifies the one step (section 5).

**`WorkflowRunner`** has one program counter for each call of `run()`. While a
call works on a stage its counter is the state of its run; the other labels name
the await or the save it is at.

| Code | Actions |
|---|---|
| `run` with its pristine check, `_require_matching_approved_specification` | `Call`, `GetWorkItem` |
| readiness, `_block_on_unready_work_item` | `EvaluateReadiness`, `BlockOnUnready`, `SaveBlocked` |
| `_ingest`: load or first save, the checks of a resumed checkpoint | `Ingest` (`IsTrusted`, `Extends`), `SaveApproved` |
| `approved -> executing` | `BeginExecution` |
| `_execute`: policy gate, session, drain, outcome | `PolicyAllows`, `PolicyDenies`, `FinishExecution` |
| `_verify`, `_remediate` | `Verify` (`Attempt`), `Remediate` |
| `_publish` | `PublisherOpens`, `PublisherFails`, `RecordDraftPr` |
| `_transition`, `_fail_from`, `_fail` | `SaveStage`, `Save`, `Fail` |
| `_report_outcome` | `ReportOutcome` |
| any exception that escapes, cancellation of the task, death of the process | `Abandon` |

An action is split exactly where the code awaits or where a store access may
find something else than before. A stage's port answers before the action that
uses the answer: nothing the answer depends on is in the model, so an action
that chooses the answer and saves at once has every outcome the two steps have,
except for the publisher, whose effect is followed by a stage of its own. Three
history variables (`executions`, `passed`, `reports`) record what ports were
made to do; no action reads them.

**`OperatorCli`** has one process per command: `RunCommand`/`StartRun` for
`run`, `Resolve` for `cancel` and `retry`, `SaveCommand` for the save at the end.
Because each loads and saves in separate steps, a runner may do anything between.

**`WorkRunSystem`** composes the three and states the properties.

**`WorkRunLifecycle`** is the abstract specification: a phase that moves along
the permitted transitions, a pinned revision, evidence that only grows while work
goes on, a bounded number of corrections, a Draft PR exactly on completion. It
knows no runner, no command, no save and no history. `WorkRunSystem` implements
it under the mapping at `Lifecycle == INSTANCE ...`.

**`CheckpointStore`** models `save` as the code does it: `BeginSave` (re-read and
compare), `WriteTemp`, `Replace`, `Return`, with `FailSave` for a disk that
refuses and `Crash` for a process that dies. `ProcessOf` says which clients share
an event loop; because `save` has no await, those never overlap. Clients of two
processes may: the history variable `overlapped`, which no action reads, becomes
true when a client passes the comparison while another is in its save. Its abstract
specification **`CasRegister`** is what the port promises, and `ImplementsRegister`
says that each step of the store is one of the register's, or nothing to it, until
then.

**`EvidenceStore`** does the same for `evidence_store.save`, whose conflict check
lets the identical record be saved again and refuses any other. Its abstract
specification is **`WriteOnce`**: an id takes one record and keeps it, and only a
record that is there is acknowledged.

**`ClaudeCodeSession`** is one session of the executor. `stream` says where its
generator `_stream_events` stands: suspended at a yield (`started`, `progress`,
`artifact`, `terminal`) or waiting at one of its three awaits (`launching`,
`reading`, `exiting`). A suspended generator belongs to nobody; the `driver` is
the task whose pull it is waiting on behalf of. `task` says how each task uses the
session: `draining` the events, `awaiting` the result, and how that ended.

| Code | Actions |
|---|---|
| `events`, `result` | `Events`, `Result`, `PullEnded`; `PullRunning` is Python's refusal of a second pull |
| the parts of `_stream_events` between awaits and yields | `PullStarted`, `PullLaunch`, `Launched`, `PullLine`, `Exited`, `PullArtifact`, `PullLast` |
| what a read may bring: `_read_next_line`, `_parse_line`, `_finalize_result` | `SkipLine`, `ReadProgress`, `ReadResult`, `ReadCancelled`, `ReadFails`, `ReadTimesOut`, `ReadRaises` |
| `cancel` | `Cancel`, at any moment |
| cancellation of a task by asyncio, a launch that fails | `Interrupt`, `LaunchFails` |

An action runs from one await or yield to the next, since all tasks share one
event loop. A line is what the loop does with it: skipped, a progress event, a
result that is refused, blocked or too much, or a result with some number of
files. `ReadRaises` is a line beyond the stream reader's buffer, or one whose text
an event refuses: the exception goes through the `finally`, so the process is
killed and waited for. A launch that is interrupted is asyncio's to clean up.
`cancel` on an executor without that capability raises and changes nothing, and
is left out. The variables `events` and `cancels` are histories, except that the
first element of `cancels` is `_cancel_reason`. Its abstract specification
**`ExecutionSession`** is what the port promises a consumer of any executor: the
stream and the result, what a result counts, and the first cancellation. It knows no
generator, no driver and no process, and no internal moment at which the outcome is
decided; `CancelHonoured` and `NoProcessLeft` are about these.

**`DockerSandbox`** has one session for each sandboxed run, and what Docker does
with it. `client` and `exit_code` are the local `docker run` process, `container`
the run that has a container of a name, and `fate` how the command of a run really
ended, which no session sees. `call` says where the call of `result()` is:
`waiting` for the client until the deadline, `settling` (the second wait, for a
client it has killed), `reading` the output.

| Code | Actions |
|---|---|
| `DockerSandbox.start` | `StartBlocked` (a mount is forbidden), `Launch` |
| `result`, `_await_completion` up to its first await | `Result`: cancelled, too late, or it waits |
| the rest of `_await_completion` | `WaitReturns`, `WaitTimesOut`, `Settled` |
| the end of `result`, `_failure_for` | `Finish` |
| `cancel` | `Cancel`, at any moment before there is a result |
| `AsyncioSubprocessHandle.kill` | `Kill`, part of the three actions that call it |
| the awaiting task is cancelled | `Interrupt` |

`Kill` is `docker kill` by name and then the client. The name may belong to nobody
yet, or to another run; the daemon may fail, and the code ignores that; and it
happens once. Docker itself is external: it starts a container if the name is free,
refuses it, or starts it after its client has been killed (`DaemonStartsLate`,
`missed`); and a command ends, or does not. Every environment step is a choice.
`wait_for` with no time left does not look at the process, which is why `Result`
settles a late call as timed out although the client may have exited.

**`QualityChecks`** is `run_checks` on top: a batch runs its checks in turn, each
in a run of its own (`Unavailable`, `Skip`, `StartCheck`, `AwaitCheck`,
`FinishCheck`, `ReturnResults`; `InterruptBatch`). Between two awaits a batch
is not interrupted by its own event loop, so its caller's event changes only while
it awaits or before it begins (`SetCancellation`). Beside the batches, runs are
started by others directly, awaited late and cancelled (`DirectStep`): what a
batch shares with them is the names. The history variable `in_time` is read by no
action.

**`JiraIssue`** is how an issue is read, as pure operators: `Section` (the lines
under a heading of the description, as `parse_adf` collects them), `_repository`,
`WorkItemOf`, `Normalizes` (whether `_normalize_work_item` and the port's
`WorkItem` accept it), `Problems` and `IsReady`. Texts are told apart only where a
rule does: blank, a label or a heading in any case, two criteria that are the same.

**`JiraComments`** is `_publish_comment` for callers of one issue. Every request
is one step, which is its answer; a comment is an identifier, and `made` says
what each comment ever created is bound to (a key and an operation, or a person).

| Code | Actions |
|---|---|
| `publish_readiness` on what `get_work_item` returned | `PublishReadiness` |
| `update_progress`, `report_blocker`, `complete_work`, `attach_artifact` | `Publish` |
| `_request_once` and its callers: HTTP 429, another failure, a timeout | `RateLimited`, `Fail`, `GiveUp` |
| `_find_comment`, `_matches_idempotency_binding` | `FindOwn`, `FindConflict`, `FindNothing`, `CutShort`, `NextPage`, `ScanLimit` |
| the POST and the receipt | `Create`, `Return` |
| Jira and people (external) | `CreateLate`, `AddForeign`, `RemoveComment` |

`GiveUp` leaves a POST behind that Jira may take at any later time or never; a
POST that Jira took while the answer was lost is `Create` and then `Fail`. The
docstring asks callers to serialize concurrent first writes of a key: `Serialized`
are the keys whose callers do. `CutShort` is an answer that ends the search as if
everything had been read although it does not say so: one without an integer `total`,
or without comments. Jira is otherwise taken to fill its pages and to count right.
Two variables are histories: `receipt`, the last one that was returned, and `upset`,
the keys whose comment a search has missed or a POST has overtaken, because a POST was
given up on before Jira took it, because somebody removed a comment that a search had
passed, which moves an unread comment into pages already read, or because a search
was cut short before the key's comment.

**`GitWorktree`** has one step for each git command of the manager, so that other
processes and people act in between, and every command may fail or be the last
before the process dies (`GitFails`). The one command whose failure does not raise is
the `rev-parse` of `_branch_exists`, which takes any exit code but 0 for "no such
branch": `FindBranch` may go on to create a branch that is there, and `Probe` may end
a cleanup with the branch left (its label is then `unprobed`, else `cleaned`).

| Code | Actions |
|---|---|
| `ensure_worktree`: `_require_clean_repository`, `_find_worktree`, `_branch_exists`, the two forms of `git worktree add` | `EnsureWorktree`, `RequireClean`, `FindWorktree`, `FindBranch`, `Attach`, `Create`, `Return` |
| `cleanup`: `_find_worktree`, `git worktree remove --force`, `_branch_exists`, `git branch -D` | `Cleanup`, `FindForCleanup`, `Remove`, `Probe`, `Delete`, `Return` |
| the executor and people (external) | `Commit`, `Switch`, `AddWorktree`, `RemoveWorktree`, `Edit` |

Git itself is external and is modelled by what it refuses: a branch that is
checked out is neither attached nor deleted, a branch that exists is not created
again, and `add -b` may make the branch and not the worktree. The history variable
`disturbed` holds the callers whose run was changed against their purpose
meanwhile: by a cleanup while they ensure it, by an ensure while they clean it up,
or by a person.

Operators marked `Mutant:` are not part of any specification: each is a
plausible wrong version of the definition after it, used to see that the
properties notice.

## 3. The runs

| Run | Checks | Shows |
|---|---|---|
| `runner_safety` | `TypeOK`, `CheckpointTrusted`, `PublicationFollowsVerification`, `ReportsMatchCheckpoint`, `ExecutesApprovedRevision`, `RemediationBounded`, `HistoryPreserved`, `ImplementsLifecycle` | two calls and a command in every order, abandoned anywhere, with edits, second approvals and ports that return artifacts |
| `runner_liveness` | `AnswersAreDurable`, `CallsProgress`, `EveryCallEnds` | each step of a call leaves it fewer, no call goes round for ever, and what a call returns is durable |
| `store_register` | `TypeOK`, `NeverTorn`, `ImplementsRegister` | two tasks of a runner and a command: the file is always whole, a save that fails leaves no temporary file, and until both processes save at the same time it is a compare-and-swap register and no save that returned is lost |
| `evidence_kept` | `ImplementsWriteOnce` | savers of two processes: until both save at the same time an id is write-once and a saved record stays, across retries and collisions |
| `session` | `TypeOK`, `CancelHonoured`, `NoProcessLeft`, `ImplementsSession`, `StreamProgresses`, `EveryReaderEnds` | two tasks and two cancellations on one executor session, with deadline, failures and interruptions |
| `quality_checks` | `TypeOK`, `CancellationsCount`, `ResultsAreFinal`, `VerdictsAreTrue`, `CancelledBatchesStop`, `ContainersAreGone`, `BatchesProgress`, `EveryBatchEnds` | a batch of three checks and somebody else's run of the same container name, with deadlines, cancellations, interruption and every answer of Docker |
| `jira_comments` | `TypeOK`, `ReceiptsAreTrue`, `OneCommentPerKey`, `ReadyIsExecutable`, `PublicationsProgress`, `EveryPublicationEnds` | two callers that take turns on a key, or do not, with rate limits, failures, lost, late and incomplete answers, conflicts, people's comments and histories too long to search |
| `git_worktree` | `TypeOK`, `ContextsAreBound`, `CleanedIsGone`, `ForeignWorktreesKept`, `WorkIsKept` | two processes that ensure and clean up the same run or two, each stopping anywhere, while people work in the repository |
| `executor_once`, `outcome_reported`, `retry_scope`, `sanitized_revision` | one statement of the sources each | section 6 |

A refinement is checked instead of the invariants that its abstract specification
has by itself: `SavesAreKept` follows from `ImplementsRegister`, `SavedEvidenceKept`
from `ImplementsWriteOnce` and `StreamWellFormed` from `ImplementsSession`. The three
are theorems of their own, and say in one formula what the refinement comes to.

Bounds. *Two calls*: every race in the runner is between one writer and another that
holds an older checkpoint; a third call adds a third holder of a value that a second
could hold. *One command*: it is the third writer, and it is the one that may move a
run behind the runner's back. A command makes one move; two calls and a command
already lead to every pair of writers at every pair of steps. The theorems of
section 5 are for any number of either. *One correction* makes the limit reachable
from both sides; a limit of none, at which the first attempt is already the last, is
covered by `RemediationsStayBounded`, which is for any limit. *One artifact, at most
one a stage*: enough to attach the same one twice, in different stages or calls, and
to tell evidence from none; evidence in the order of two stages, and a bundle that
repeats an artifact within itself, are covered by the proofs. *Two revisions, two
approvers*: one approved and one later; with approvers told apart, an execution in
the wrong name shows. *Three clients, two updates* (`store_register`): one in a
save, one with a stale load, one with a fresh one, and one of the three is in the
other process; two updates are one that is lost and one that replaces it. *Four
savers* (`evidence_kept`), two of them with the same record: a retry and two
collisions, one of them in the other process. *Two tasks, two cancellations, five
events, two artifacts* (`session`): one task drives and one interferes; one
cancellation comes first and one late; five events are filled by three progress
events, or by one and two artifacts, and a result may have a file more than allowed,
so each limit is met from both sides. *One batch of three checks and one direct run*
(`quality_checks`), which has the name of the first check's container: two checks
with commands make the batch go on after a result, the one between them has no
command, and the direct run is the one that is cancelled and called late, and that
takes the name or kills what has it. *Two callers, two keys, pages of one comment,
two pages, three comments* (`jira_comments`): two comments fill a search and the
third is beyond it, a person's comment may push the key's own off the first page,
and one retry is both the first and the last. Callers take turns on one of the keys
and not on the other, and a behaviour is about one of them (`OneKeySpec`): to a search,
a comment for another key is what a person's comment is, and turns are taken key by
key. On the key without turns the callers have the issue to themselves and bring it
two operations that differ: their searches and POSTs interleave in every way, and both
may create. Both keys in one behaviour, and people and late POSTs beside callers
without turns, are covered by the proofs, which are for any keys. *One POST under way* (`MaxLate`): it
arrives before, during or after another caller's search. The six payloads are an
issue that is ready, and issues with each thing wrong that the reading decides on.
*Two processes, two runs, two other branches* (`git_worktree`): both at one run, or
each at its own; a person may put one run's branch at the other's path. Calls,
commands, processes, runs and other values that nothing tells apart are symmetric in
the runs that check safety; the runs that check liveness use no symmetry.

Deadlock is checked in `git_worktree`, where a command can always fail and people
can always act. It is off in the other runs: a system in which every call and
command is over has stopped, and rightly so.

## 4. Fairness

`FairSpec` asks weak fairness of the steps of each call, nothing else: the
event loop resumes a task whose await is over, and each port answers or raises.
The second is an assumption about the ports (the executor and the sandbox have
their own deadlines, and the Jira client has timeouts); a port that hangs
would hang the runner, which sets no timeout of its own. Nobody is obliged to
make a call, edit an item or run a command, and `Abandon` may always be taken
instead of progress. What `EveryCallEnds` shows is that none of the loops of the
runner, the correction loop above all, can be kept going for ever by the answers
of the ports and by other writers.

The session's `FairSpec` asks that a task which pulls goes on (the event loop),
that a launch is answered, that the clock passes the deadline, that the timer of
a read then fires, and that a killed process exits (`SIGKILL`). The process need
never write a line, and nobody has to cancel; `EveryReaderEnds` rests on the
deadline and on the event limit. Reads of lines have no fairness: a process that
keeps writing is stopped by the deadline.

For batches, `FairSpec` asks that the event loop resumes a batch whose await is
over and that time passes. Docker owes nothing: a daemon need not answer and a
command need not end. `EveryBatchEnds` rests on the deadline, and on `SIGKILL`
ending the client.

For the Jira provider, `FairSpec` asks that each request of a caller is answered or
fails: the HTTP client has timeouts. Nobody has to publish, and a POST that was
given up on need never arrive. `EveryPublicationEnds` rests on the bound of the
retries and on the scan limit. `GitWorktree` claims no liveness: its steps are
git commands, run without a timeout.

Each of these liveness properties has two halves. That a component never goes round
for ever, whatever the others do to it, needs no fairness: `StepsLeft` counts the
steps that a call, a batch, a stream or a publication can still take, and
`CallsProgress`, `BatchesProgress`, `StreamProgresses` and `PublicationsProgress` say
that each of its steps leaves it fewer and that nobody else gives it more. This half
is proved for any instance (section 5), with the bound as a number: a call makes at
most 11 steps and two for each correction. That the steps which are left are taken is
the fairness above, and is model-checked.

## 5. The theorems

All hold for any number of calls, commands, revisions, approvers, artifacts,
clients, savers, callers, keys, pages and runs, and any limit of corrections or
retries, from these assumptions on
constants: `None` is no value of another kind (`NoneAssumption`); the limit is a
natural number (`MaxRemediationCyclesAssumption`, which the runner's constructor
enforces); a port returns a finite sequence of artifacts
(`ArtifactBundlesAssumption`); a sanitized revision is a revision
(`SanitizedRevisionAssumption`); every client and every saver runs in a process;
a partly written file is not a run (`TornAssumption`: it does not parse); a record
is not `None`; serialized keys are keys, a page and a search are not empty, and the
bounds of the Jira model are natural numbers (`SerializedAssumption`,
`PagesAssumption`, `RetriesAssumption`, `BoundsAssumption`); paths and branches are
told apart (`NamesAssumption`). TLC evaluates all of them.

**The work-run system** (`WorkRunSystemProofs`). None of the properties is
inductive. A save that finds the checkpoint it expects installs `updated`, so one
has to know about `updated`, which the call computed from a local variable that
it may have read long ago. The inductive invariant `IndInv` says what each
participant knows:

- `TypeOK`;
- `CallInv`: what each call knows about its own variables at each label: its
  input is a fresh approval, the item it fetched is the revision it was given,
  its `current` is in the state its counter says;
- `DurableInv`: what it may rely on about the checkpoint: the durable run is its
  `current` or a continuation of it, and is exactly its `current` once that is
  terminal;
- `CommandInv`: what a command is about to save is a fresh run, or one permitted
  step from what it loaded;
- `CheckpointInv`: the durable history begins with the approval and holds no more
  remediations than the limit;
- `HistoryInv`: what the executor and the tracker have been told agrees with the
  durable run, and nothing was reported of an active one.

The proof goes by *durable steps*. `Fresh` is the first checkpoint; `Advances` is
one permitted transition together with the evidence it rests on; both are proved
of every run that a stage or a command can build (`TransitionAdvances`,
`PreparedRuns`, on the lemmas of `WorkRunProofs` about the aggregate's
operators). Every step of the system then either leaves the checkpoint alone or
is a `DurableStep` (fresh or advancing), and `IndInv` is preserved because
whatever any participant knew is about a past of the new run (`Grows`). From this:
`TypeCorrect`, `RemediationsStayBounded`, `ReportsAreDurable`,
`OnlyApprovedContentRuns`, `HistoryIsAppendOnly`, and `LifecycleImplemented`, the
refinement.

Two more come from the same invariant. `AnswersStayDurable`: what a call returned, or
a command printed as done, is a past of the durable run, which `Grows` only continues.
`CallsMakeProgress`: the steps that a call has left are counted from its label and
from the remediations in its `current`. A stage that corrects has one cycle fewer
left because the remediation it saved is in the history it goes on with, and that
history never has more of them than the limit; a stage that finds a conflict stops.

**The story of the durable run** (`WorkRunProofs`, and the last part of
`WorkRunSystemProofs`). `CheckpointTrusted` and `PublicationFollowsVerification`
speak of a whole history, so `StoryInv` adds what every participant's run has
behind it: the checkpoint tells its `Story` (the history begins with the approval
and is a chain of permitted transitions and evidence that ends in the run's state,
its evidence events are the artifacts in their order, its Draft PR event is the
URL) and is `Backed` (what went
to publication was passed by the verifier first); the runs that calls were given
are bare approvals as long as they may still become the first checkpoint; and what
a command is about to save opens a story or continues the one it loaded.
`TransitionStory`, `AttachStory` and `RecordStory` show that each operation of
the aggregate keeps a story. Evidence is compared by rank, the number of evidence
events up to a place, so that no recursion over the history is needed. From it:
`CheckpointsAreTrusted`, `PublicationsAreVerified`.

**The checkpoint store** (`CheckpointStoreProofs`). `StoreTypeCorrect` and
`FilesStayWhole` hold whoever saves at once: only whole files are put in place.
`RegisterImplemented` and `SavedUpdatesAreKept` are for clients in any processes, too:
the store is `CasRegister`, and loses no update whose save returned, until
`overlapped`. The invariant (`RegisterInv`) is that up to then at most one save is in
progress and that what it compared is still in the file; a save that begins behind
another one makes `overlapped` true, and within a process it cannot begin. The proviso
is needed: without it TLC shows the loss that section 6 describes. Of the tasks of one
event loop (`SingleProcess`) `overlapped` stays false, so `RegisterOfOneProcess` and
`SavesKeptByOneProcess` hold outright; the first is what entitles `WorkRunPorts` to
save in one step.

**The evidence store** (`EvidenceStoreProofs`), in the same way: `SavedEvidenceIsKept`
and `WriteOnceImplemented`, the refinement of `WriteOnce`, for savers in any processes
until `overlapped`, and `WriteOnceOfOneProcess` outright.

**The executor's session** (`ClaudeCodeSessionProofs`), for any number of tasks and
cancellations, any limit of artifacts and any limit of events from two up
(`LimitsAssumption`, which `ResourceLimits` enforces). `SessionInv` adds to the
properties where the generator's local variables can be at each point: while it
reads, one more event fits; once the outcome is decided, all artifacts still to be
announced and the terminal event fit (`CountInv`); and what has been delivered so
far (`ShapeInv`, which speaks of the artifacts yielded before there is a result). It
is proved by the generator's own steps: `AdvanceShape` for a yield after the
outcome, `CancelStep` and `ProcessStep` for who may decide and kill. From it:
`SessionTypeCorrect`, `StreamsAreWellFormed`, `CancellationsAreHonoured`,
`ProcessesAreKilled`; `SessionImplemented`, the refinement of `ExecutionSession`,
where a yield is an event, the step that builds the result is the terminal event
with it, and all else is nothing to the consumers; and `StreamsMakeProgress`: the
generator goes through its points once, in order, and is closed after `2 * MaxEvents
+ 7` steps at most; only the lines that it skips are not counted, for there is no
limit to those.

**Sandboxed runs and checks** (`QualityChecksProofs`), for any number of runs,
batches and checks and any sharing of names (`NameOfAssumption`,
`BatchRunsAssumption`: the checks of a batch have runs). `ChecksInv` has a part for
each level: `DockerRunInv`, what client, container and command of a run can be
together; `SessionRunInv`, what the session may conclude at each point of
`result()`; `ResultRunInv`, what a result says; `BatchOneInv`, which run is where
and what the verdicts are made from. The difficult step is a kill, which may hit
the container of any other run of the name. `KillStep` and `DaemonStep` therefore
show for all runs at once that Docker is *steady*: it never launches a client,
never brings one back, and never changes how a command ended whose client has
exited, unless a kill missed it. `UndisturbedRuns` gets from this that other
sessions keep what they know, and each action is proved for its own run alone. From
it: `ChecksTypeCorrect`, `ResultsStayFinal`, `CancellationsAreAnswered`,
`VerdictsStayTrue`, `CancelledBatchesStayStopped`; `ContainersGo`, because a container
that no kill has missed has a client attached, and of a batch's runs only the current
one can have that; and `BatchesMakeProgress`.

**Comments** (`JiraCommentsProofs`), for any number of callers and keys, serialized
or not. The invariant has `CallInv` (what a caller has at each point), `TurnsInv`
(two callers at work on one serialized key are one caller), `LateInv` (the key of a
POST under way is upset) and `SearchInv`: the comments that a search has passed are
not for its key, and a caller that is about to create has seen them all. The last
is why two comments cannot come to be, and it is what a removed comment breaks.
From it: `JiraTypeCorrect`, `JiraPublishesOnce`, `JiraReceiptsAreTrue`,
`JiraReadyIsExecutable`. The second needs the turns, the third does not. A search that
was cut short does not have what `SearchInv` says, unless the key's comment was not
ahead of it: this is the third reason for a key to be upset.
`PublicationsMakeProgress` counts the requests a publication can still send: for each
page not read yet, and for the creation, one and its retries, so it sends at most
`(PAGES + 1) * (max_rate_limit_retries + 1)`. A page that others' comments fill, or that
a removal shortens, is still one page read.

**Worktrees** (`GitWorktreeProofs`), for any number of processes, runs and branches.
`CleanupInv` says what a cleanup may rely on between its commands: after `Remove`
the run has no worktree, unless the caller is `disturbed`. That the branch is gone, too,
is known where `rev-parse` found none or `branch -D` succeeded, and not where
`rev-parse` failed. From it:
`WorktreeTypeCorrect`, `WorktreeContextsAreBound`, `WorktreeCleanedIsGone`,
`WorktreeForeignKept`, `WorktreeWorkIsKept`.

Only model-checked: the four liveness properties, `EveryCallEnds`,
`EveryReaderEnds`, `EveryBatchEnds` and `EveryPublicationEnds`, since liveness under
fairness is out of the prover's reach; of each the half that needs no fairness is
proved (section 4). Every safety and action property of a passing run, and every
refinement, is a theorem.

## 6. Where the sources say something else

- `executor_once`: a comment in `_execute` says the stage "always runs once". A
  resume that finds `executing`, after a crash or beside a call that is still at
  it, starts the executor again.
- `outcome_reported`: `run` resumes idempotently, except that an outcome which
  was saved and not reported is never reported: a resume that loads a completed
  run returns it at once. In the run (`ResumeSpec`) calls are made one after another;
  the first stops between the save of `completed` and its report, the second returns
  the run, and no call is left that could report it.
- `retry_scope`: `retry` documents one transition, `remediating -> verifying`. It
  asks the aggregate, which also permits `executing -> verifying`, so it can take a
  run to verification while its executor is working.
- `sanitized_revision`: `cli._start_run` approves a run at `_sanitize_revision` of
  the tracker's revision, and the runner compares the pinned revision with the
  tracker's own. For a Jira timestamp the two differ, so the runner refuses a run
  although nobody edited the item. In the run (`QuietSpec`) nobody edits, and a call is
  made only with the run that a finished command has approved and saved.

More were met and are kept by reading alone.

The runner and the command line:

- A resume whose item is no longer ready returns the run in whatever state it
  is, although the class promises a terminal one (`workflow_runner.py:189`).
- A readiness summary longer than an event's detail makes the blocked transition
  raise, so that the run is neither blocked nor saved (`:191`; here, `Abandon`).
- When the save of the completion fails, a resume calls the publisher again
  (`:341`). The port asks for this, "publish or recover", and no adapter of it is
  in the repository.

The stores. The checkpoint store's docstring says that re-reading before every
write enforces the comparison, and puts a backend for concurrent writers out of
scope; the runner and a `cancel` on the command line are two processes. Both may
compare before either replaces, and then a save that returned is lost. The evidence
store, which promises write-once records, has the same gap. Both are in the models,
which go on after it: `overlapped` names the moment, and what the stores promise is
proved up to then for any processes, and without end for one.

The executor's session:

- A resume in the same process gets the running session from `start`, and then may
  not consume its events (`claude_code_executor.py:255`; `PullRunning`).
- `result()`, which the port documents as "Wait for and return the stable terminal
  result", raises when another task is pulling the events (`:267`).

The sandbox (`docker_sandbox.py`), whose docstring says that it "actively enforces
the wall-clock limit":

- When the task that awaits `result()` is cancelled nobody does, and the container
  runs on (`:529`; `InterruptBatch`). `ContainersAreGone` shows that this is the one
  way for a batch to leave a container, besides a kill that missed.
- After the deadline `result()` does not look at a client that has long exited, and
  reports a time-out (`:564`; `Result`).
- `wait()` is awaited before anything reads the pipes, so a command with more output
  than they hold never ends and is reported as timed out.
- `result()`, documented as "stable", is computed again by each of two tasks that
  await it at once.

The worktrees (`git_worktree.py`):

- `cleanup` looks at the branch of a worktree and removes the path with a later
  command, forced (`:240-242`, `:255`). "An unrelated developer worktree that
  happens to share the path can never be removed" is true of a worktree that was
  there when it looked; `ForeignWorktreesKept` says so by `disturbed`.
- "Safe to call repeatedly": a cleanup whose `rev-parse` exits with an error takes the
  branch for absent and returns normally with the branch left (`:256`, `:275`;
  `CleanedIsGone` tells the two endings apart). An ensure whose `rev-parse` fails asks
  for a new branch, which git then refuses if there is one.
- A branch that is found again is used whatever base it came from, while the
  context that is returned names the caller's base (`:229`).
- `prunable` in the listing is not parsed (`:146`, `:217`), so a worktree whose
  directory was deleted by hand counts as one; a detached one makes later calls
  refuse (`:218`).

Jira and verification:

- "Ordinary retries are deduplicated here": an answer to the search without an integer
  `total`, or without comments, is taken for the last page
  (`jira_work_management.py:545`, `:548`; `CutShort`), and if the key's comment was still
  ahead a second one is posted. `OneCommentPerKey` excepts these keys by `upset`.
- The revision of an issue is its `updated` time stamp (`jira_work_management.py:410`),
  which a comment of the provider's own moves, and so may invalidate an approval.
- `application/ports/verification.py` accepts a result that is ready with
  advisories and has a blocking finding; the runner looks at the status alone.

## 7. Not modelled, and why

Partly: the command line's `status` and `doctor` only read. The ports' value
objects appear as the choices they allow. Of `JiraIssue`'s sources, field
validation, configuration, status codes and the ADF conversion beyond sections and
blank blocks are left out; of the worktree manager, base branches and the syntax of
names and listings. Of the sandbox's own data, mounts, environment, resource limits
and output are left out: a request is blocked or not. `discover_checks` parses files
and is left out. The policy gateway's answers are translated by a pure function of
one answer: a decision is allowed or denied here.

Not: the verification and evidence ports are value objects that validate their
fields; prompt loading and the golden datasets load and validate files; all are pure
and sequential, and their failure shows as a load or a call that raises. Time
stamps, URLs, lengths and formats are left out, with the consequences that section 6
names. Packaging, container images and observability are configuration.

The adapters are modelled each by itself. The runner takes their answers as free
choices, which is more than they can do, so what is proved of the runner holds with
any adapters; what only a composition could show, that a particular sequence of
answers is impossible, is not claimed.

## 8. Order of the work, and what could follow

The most important behaviour came first: the aggregate, the runner, the commands,
their composition and abstract lifecycle; the stores; the executor's session; the
sandbox and the quality checks; the Jira provider; the worktrees; and for each the
theorems, the story of the durable run last. What could be added is narrower:

1. The session composed with the runner, to state what a resume in the same process
   meets when `start` returns a session that is being consumed.
2. A backend for concurrent writers, once there is one: it should implement
   `CasRegister` without the proviso of `ImplementsRegister`.
3. A publisher, when the repository has one: the port has no adapter yet.

## 9. Running it

`tlc -config <run>.cfg <module>.tla` with the module that `PROJECT.json` gives for
the run; `tlapm <module>.tla` for the eight `*Proofs` modules. The longest runs are
`runner_safety` (1.4 million states, two to three minutes), `quality_checks` (0.6
million, about two minutes) and `jira_comments` (0.3 million, about two minutes), the
last two mostly for liveness; the others take about half a minute or less. Of the proofs
`WorkRunSystemProofs` and `QualityChecksProofs` take longest.
