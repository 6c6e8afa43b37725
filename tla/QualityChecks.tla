---------------------------- MODULE QualityChecks ----------------------------
(***************************************************************************)
(* run_checks (src/gearmeshing_ai/adapters/quality_checks.py): a batch     *)
(* runs its checks one after the other, each in a sandboxed run of its     *)
(* own.  Beside the batches there are runs that somebody started directly. *)
(***************************************************************************)
EXTENDS DockerSandbox

CONSTANTS
  Batches,  \* calls of run_checks
  Checks    \* its checks: the name of each, and whether it has a command

CheckDefinition == [name: STRING, command: BOOLEAN]

ASSUME ChecksAssumption == Checks \in Seq(CheckDefinition)
ASSUME BatchRunsAssumption == Batches \X DOMAIN Checks \subseteq Runs

CheckOutcome == {"passed", "failed", "skipped", "timed_out", "unavailable"}

VARIABLES
  batch,              \* what each batch is doing
  results,            \* its results so far
  already_cancelled,  \* its local variable of that name
  cancellation        \* whether its caller's asyncio.Event is set

batchVars == <<batch, results, already_cancelled, cancellation>>
vars == <<sandboxVars, batchVars>>

\* The sandboxed run of check number i of batch b, and the check it is at.
Run(b, i) == <<b, i>>
Index(b) == Len(results[b]) + 1
Current(b) == Run(b, Index(b))
Direct == Runs \ (Batches \X DOMAIN Checks)

Init ==
  /\ SandboxInit
  /\ batch = [b \in Batches |-> "checking"]
  /\ results = [b \in Batches |-> <<>>]
  /\ already_cancelled = [b \in Batches |-> FALSE]
  /\ cancellation = [b \in Batches |-> FALSE]

\* Mutant: the results are collected in a list that each check begins anew.
ReportAlone(b, outcome) == results' = [results EXCEPT ![b] = <<outcome>>]

Report(b, outcome) == results' = [results EXCEPT ![b] = Append(@, outcome)]

IsNext(b) == batch[b] = "checking" /\ Index(b) \in DOMAIN Checks

\* The caller sets the event, or clears it again, before the batch begins or
\* while its task is suspended.
SetCancellation(b) ==
  /\ batch[b] = "awaiting" \/ (batch[b] = "checking" /\ results[b] = <<>>)
  /\ cancellation' = [cancellation EXCEPT ![b] = ~@]
  /\ UNCHANGED <<sandboxVars, batch, results, already_cancelled>>

\* No command: nothing is started.
Unavailable(b) ==
  /\ IsNext(b) /\ ~Checks[Index(b)].command
  /\ Report(b, "unavailable")
  /\ UNCHANGED <<sandboxVars, batch, already_cancelled, cancellation>>

\* Mutant: the cancellation counts for one check only.
IsBatchCancelledOnce(b) == ~already_cancelled[b] /\ cancellation[b]

IsBatchCancelled(b) == already_cancelled[b] \/ cancellation[b]

Skip(b) ==
  /\ IsNext(b) /\ Checks[Index(b)].command /\ IsBatchCancelled(b)
  /\ already_cancelled' = [already_cancelled EXCEPT ![b] = TRUE]
  /\ Report(b, "skipped")
  /\ UNCHANGED <<sandboxVars, batch, cancellation>>

\* The check's command goes to the sandbox, which may refuse the mounts, or
\* have no docker to launch; otherwise the batch awaits the session's result.
StartCheck(b) ==
  /\ IsNext(b) /\ Checks[Index(b)].command /\ ~IsBatchCancelled(b)
  /\ \/ StartBlocked(Current(b)) /\ Report(b, "failed") /\ UNCHANGED batch
     \/ /\ Launch(Current(b), "waiting")
        /\ batch' = [batch EXCEPT ![b] = "awaiting"]
        /\ UNCHANGED results
     \/ /\ batch' = [batch EXCEPT ![b] = "raised"]
        /\ UNCHANGED <<sandboxVars, results>>
  /\ UNCHANGED <<already_cancelled, cancellation>>

AwaitCheck(b) ==
  /\ batch[b] = "awaiting"
  /\ Await(Current(b))
  /\ UNCHANGED batchVars

\* Mutant: a command that has ended has passed.
CheckOutcomeOfAny(sandbox_result) ==
  CASE sandbox_result.outcome = "completed" -> "passed"
    [] sandbox_result.outcome = "timed_out" -> "timed_out"
    [] sandbox_result.outcome = "cancelled" -> "skipped"
    [] sandbox_result.outcome = "blocked" -> "failed"

\* _outcome_and_failure
CheckOutcomeOf(sandbox_result) ==
  CASE sandbox_result.outcome = "completed" ->
         IF sandbox_result.exit_code = "zero" THEN "passed" ELSE "failed"
    [] sandbox_result.outcome = "timed_out" -> "timed_out"
    [] sandbox_result.outcome = "cancelled" -> "skipped"
    [] sandbox_result.outcome = "blocked" -> "failed"

\* The session has its result and the batch reports it.
FinishCheck(b) ==
  /\ batch[b] = "awaiting"
  /\ Finish(Current(b))
  /\ Report(b, CheckOutcomeOf(result'[Current(b)]))
  /\ batch' = [batch EXCEPT ![b] = "checking"]
  /\ UNCHANGED <<already_cancelled, cancellation>>

ReturnResults(b) ==
  /\ batch[b] = "checking" /\ Len(results[b]) = Len(Checks)
  /\ batch' = [batch EXCEPT ![b] = "returned"]
  /\ UNCHANGED <<sandboxVars, results, already_cancelled, cancellation>>

\* The task of the batch is cancelled: nobody awaits the session any more, and
\* nothing kills its container.
InterruptBatch(b) ==
  /\ batch[b] = "awaiting"
  /\ Interrupt(Current(b))
  /\ batch' = [batch EXCEPT ![b] = "raised"]
  /\ UNCHANGED <<results, already_cancelled, cancellation>>

BatchStep(b) ==
  \/ Unavailable(b) \/ Skip(b) \/ StartCheck(b) \/ AwaitCheck(b)
  \/ FinishCheck(b) \/ ReturnResults(b)

\* Whoever uses the sandbox directly starts a run, awaits it, perhaps late, and
\* cancels it.
DirectStep(r) ==
  /\ \/ StartBlocked(r) \/ Launch(r, "started") \/ Result(r) \/ Await(r)
     \/ Finish(r) \/ Cancel(r)
  /\ UNCHANGED batchVars

EnvironmentStep(r) == Environment(r) /\ UNCHANGED batchVars

Next ==
  \/ \E b \in Batches : BatchStep(b) \/ InterruptBatch(b) \/ SetCancellation(b)
  \/ \E r \in Direct : DirectStep(r)
  \/ \E r \in Runs : EnvironmentStep(r)

Spec == Init /\ [][Next]_vars

TimePasses(b) == batch[b] = "awaiting" /\ Expire(Current(b)) /\ UNCHANGED batchVars

\* The event loop resumes a batch whose await is over, and time passes.  A
\* command need not end, and the daemon need not answer.
FairSpec ==
  /\ Spec
  /\ \A b \in Batches : WF_vars(BatchStep(b))
  /\ \A b \in Batches : WF_vars(TimePasses(b))

------------------------------------------------------------------------------

TypeOK ==
  /\ SandboxTypeOK
  /\ batch \in [Batches -> {"checking", "awaiting", "returned", "raised"}]
  /\ results \in [Batches -> Seq(CheckOutcome)]
  /\ already_cancelled \in [Batches -> BOOLEAN]
  /\ cancellation \in [Batches -> BOOLEAN]

\* What a batch reports of check i is what happened to it: "passed" means that
\* its own command ran and ended with status zero, although another run may
\* have had, or have killed, a container of the same name; "failed" that it did
\* not; "timed_out" that its time was over; and "unavailable" and "skipped"
\* that no container was ever asked for.
VerdictsAreTrue ==
  \A b \in Batches : \A i \in DOMAIN results[b] :
    LET run == Run(b, i)
    IN  CASE results[b][i] = "passed" -> fate[run] = "zero"
          [] results[b][i] = "failed" -> fate[run] # "zero"
          [] results[b][i] = "timed_out" -> run \in expired
          [] OTHER -> client[run] = "absent"

\* Once a check of a batch has been skipped, no later one of it is started.
CancelledBatchesStop ==
  \A b \in Batches : \A i, j \in DOMAIN results[b] :
    i < j /\ results[b][i] = "skipped" => results[b][j] \in {"skipped", "unavailable"}

\* The containers of a batch come one at a time: one runs only for the check
\* that the batch is at, and has not reported, so that a batch that has returned
\* has left none behind.  One that was given up at a check may have left that
\* one, since nothing kills it; and docker kill may not have reached others.
ContainersAreGone ==
  \A b \in Batches : \A i \in DOMAIN Checks :
    Running(Run(b, i)) =>
      \/ i = Index(b) /\ batch[b] \in {"awaiting", "raised"}
      \/ Run(b, i) \in missed

\* How far a batch has come, and how many steps it can still take.
Point(b) ==
  <<batch[b], results[b], IF batch[b] = "awaiting" THEN call[Current(b)] ELSE None>>

StepsLeft(b) ==
  LET unreported == Len(Checks) - Len(results[b])
  IN  CASE batch[b] \in {"returned", "raised"} -> 0
        [] batch[b] = "checking" -> 1 + 4 * unreported
        [] batch[b] = "awaiting" ->
             4 * unreported - (CASE call[Current(b)] = "waiting" -> 0
                                 [] call[Current(b)] = "settling" -> 1
                                 [] call[Current(b)] = "reading" -> 2)

\* Whatever happens to a batch takes it forward: no check is begun or awaited
\* twice, nothing it has come past returns, and after 1 + 4 * Len(Checks) steps
\* at most there is none left to take.
BatchesProgress ==
  [][\A b \in Batches :
       Point(b)' # Point(b) => StepsLeft(b)' \in 0..(StepsLeft(b) - 1)]_vars

\* Every batch comes to an end, whatever its commands and Docker do.
EveryBatchEnds == \A b \in Batches : <>(batch[b] \in {"returned", "raised"})

=============================================================================
