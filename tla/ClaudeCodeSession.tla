-------------------------- MODULE ClaudeCodeSession --------------------------
(***************************************************************************)
(* One ClaudeCodeExecutionSession                                          *)
(* (src/gearmeshing_ai/adapters/claude_code_executor.py): an asynchronous  *)
(* generator that streams the lines of a Claude Code process, the tasks    *)
(* that hold the session (start hands the same one to everybody who asks   *)
(* for its execution_id), and the calls of cancel.                         *)
(*                                                                         *)
(* The generator runs on behalf of the task that pulls its next event; it  *)
(* gives up control at its three awaits (the launch, the read of a line,   *)
(* the exit of the process) and at each yield.  Nothing else interleaves,  *)
(* for all of this is one event loop.                                      *)
(***************************************************************************)
EXTENDS Naturals, SequencesExt

CONSTANTS
  Tasks,          \* tasks that consume events() or await result()
  Cancellations,  \* calls of cancel, each with its own reason
  MaxEvents,      \* ResourceLimits.max_events
  MaxArtifacts,   \* ResourceLimits.max_artifacts
  FileCounts,     \* how many non-empty files a result line may report
  None            \* Python's None

ASSUME LimitsAssumption ==
  MaxEvents \in Nat /\ MaxEvents >= 2 /\ MaxArtifacts \in Nat
ASSUME FileCountsAssumption == FileCounts \subseteq Nat

TerminalOutcome ==
  {"completed", "blocked", "failed", "cancelled", "timed_out", "resource_exhausted"}

\* The result of a session; `failure` keeps the reason of a cancellation.
ExecutionResult ==
  [ outcome: TerminalOutcome, events_emitted: Nat, artifacts: Nat,
    failure: Cancellations \cup {None} ]

\* None is not a value of any other kind.
ASSUME SessionNoneAssumption ==
  None \notin Tasks \cup Cancellations \cup TerminalOutcome \cup ExecutionResult

VARIABLES
  task,       \* what each task is doing with the session
  stream,     \* where the generator is
  driver,     \* the task on whose behalf it runs, or None
  sequence,   \* the local variable `sequence`
  outcome,    \* the local variable `outcome`
  artifacts,  \* how many artifacts the result line produced
  left,       \* how many of them have not been yielded
  process,    \* "absent" before the launch, "killed" after kill()
  expired,    \* the wall clock has passed the deadline
  result,     \* self._result
  events,     \* history: the kinds of the events delivered
  cancels     \* history: accepted cancellations; the first sets _cancel_reason

vars == <<task, stream, driver, sequence, outcome, artifacts, left, process,
          expired, result, events, cancels>>

\* What the tasks leave alone when they do not run the generator, and what the
\* generator leaves alone when it only decides.
streamVars == <<driver, sequence, outcome, artifacts, left, process, expired,
                result, events, cancels>>
readVars == <<task, driver, sequence, artifacts, left, expired, result, events, cancels>>

Init ==
  /\ task = [t \in Tasks |-> "idle"]
  /\ stream = "unopened" /\ driver = None
  /\ sequence = 0 /\ outcome = None /\ artifacts = 0 /\ left = 0
  /\ process = "absent" /\ expired = FALSE
  /\ result = None /\ events = <<>> /\ cancels = <<>>

Becomes(t, label) == task' = [task EXCEPT ![t] = label]

Pulling(t) == task[t] \in {"draining", "awaiting"}

\* _is_cancelled
IsCancelled == cancels # <<>>

------------------------------------------------------------------------------
(* The tasks. *)

\* Mutant: the stream may be consumed again.
EventsAgain(t) ==
  /\ task[t] = "idle"
  /\ stream' = "opened" /\ Becomes(t, "draining")
  /\ UNCHANGED streamVars

\* events(): the stream may be consumed once.
Events(t) ==
  /\ task[t] = "idle"
  /\ IF stream = "unopened"
     THEN stream' = "opened" /\ Becomes(t, "draining")
     ELSE UNCHANGED stream /\ Becomes(t, "raised")
  /\ UNCHANGED streamVars

\* result(): the result if there is one, else pull the stream to its end.
Result(t) ==
  /\ task[t] = "idle"
  /\ Becomes(t, IF result = None THEN "awaiting" ELSE "returned")
  /\ stream' = IF stream = "unopened" THEN "opened" ELSE stream
  /\ UNCHANGED streamVars

\* A task that pulls while the generator runs for another one gets a
\* RuntimeError from Python, and the other one is not disturbed.
PullRunning(t) ==
  /\ Pulling(t) /\ driver \notin {None, t}
  /\ Becomes(t, "raised")
  /\ UNCHANGED <<stream, streamVars>>

\* The stream has ended: whoever drained it asks for the result.
PullEnded(t) ==
  /\ Pulling(t) /\ stream = "closed"
  /\ Becomes(t, IF task[t] = "draining" THEN "awaiting"
                ELSE IF result = None THEN "raised" ELSE "returned")
  /\ UNCHANGED <<stream, streamVars>>

\* Mutant: a cancellation is noted and the process is left running.
CancelQuietly(reason) ==
  /\ reason \notin {cancels[i].reason : i \in DOMAIN cancels}
  /\ result = None
  /\ cancels' = Append(cancels, [reason |-> reason, undecided |-> outcome = None])
  /\ UNCHANGED <<task, stream, driver, sequence, outcome, artifacts, left,
                 process, expired, result, events>>

\* cancel(reason): kill the process, if there is one; the stream notices at
\* its next read.  Without effect once there is a result.
Cancel(reason) ==
  /\ reason \notin {cancels[i].reason : i \in DOMAIN cancels}
  /\ result = None
  /\ cancels' = Append(cancels, [reason |-> reason, undecided |-> outcome = None])
  /\ process' = IF process = "running" THEN "killed" ELSE process
  /\ UNCHANGED <<task, stream, driver, sequence, outcome, artifacts, left,
                 expired, result, events>>

------------------------------------------------------------------------------
(* The generator, _stream_events. *)

\* yield: the event is delivered and the generator is suspended.
Yield(kind) ==
  /\ stream' = kind
  /\ driver' = None
  /\ sequence' = sequence + 1
  /\ events' = Append(events, kind)

\* The loop ends: kill the process and wait for it.
Settle(decided) ==
  /\ stream' = "exiting"
  /\ outcome' = decided
  /\ process' = "killed"

\* The beginning of _read_next_line, up to the read.
AwaitLine ==
  IF IsCancelled THEN Settle("cancelled")
  ELSE IF expired THEN Settle("timed_out")
  ELSE stream' = "reading" /\ process' = "running" /\ UNCHANGED outcome

PullStarted(t) ==
  /\ Pulling(t) /\ stream = "opened" /\ driver = None
  /\ Yield("started")
  /\ UNCHANGED <<task, outcome, artifacts, left, process, expired, result, cancels>>

PullLaunch(t) ==
  /\ Pulling(t) /\ stream = "started" /\ driver = None
  /\ stream' = "launching" /\ driver' = t
  /\ UNCHANGED <<task, sequence, outcome, artifacts, left, process, expired,
                 result, events, cancels>>

Launched ==
  /\ stream = "launching"
  /\ AwaitLine
  /\ UNCHANGED readVars

\* An exception leaves the generator and reaches the task that drives it.
Break ==
  /\ stream' = "closed" /\ driver' = None
  /\ task' = [task EXCEPT ![driver] = "raised"]
  /\ UNCHANGED <<sequence, outcome, artifacts, left, expired, result, events, cancels>>

LaunchFails ==
  /\ stream = "launching"
  /\ Break
  /\ UNCHANGED process

PullLine(t) ==
  /\ Pulling(t) /\ stream = "progress" /\ driver = None
  /\ AwaitLine
  /\ driver' = t
  /\ UNCHANGED <<task, sequence, artifacts, left, expired, result, events, cancels>>

\* A line that is no JSON object, or of no known type, is skipped.
SkipLine ==
  /\ stream = "reading" /\ ~IsCancelled
  /\ AwaitLine
  /\ UNCHANGED readVars

\* Mutant: the event limit leaves no room for the terminal event.
ReadProgressToLimit ==
  /\ stream = "reading" /\ ~IsCancelled
  /\ IF sequence + 1 > MaxEvents
     THEN Settle("resource_exhausted") /\ UNCHANGED <<driver, sequence, events>>
     ELSE Yield("progress") /\ UNCHANGED <<outcome, process>>
  /\ UNCHANGED <<task, artifacts, left, expired, result, cancels>>

\* A turn or a tool event, as long as the terminal event still fits.
ReadProgress ==
  /\ stream = "reading" /\ ~IsCancelled
  /\ IF sequence + 2 > MaxEvents
     THEN Settle("resource_exhausted") /\ UNCHANGED <<driver, sequence, events>>
     ELSE Yield("progress") /\ UNCHANGED <<outcome, process>>
  /\ UNCHANGED <<task, artifacts, left, expired, result, cancels>>

\* Mutant: nobody counts the events that the artifacts will need.
FitsUncounted(n) == n <= MaxArtifacts

\* The artifacts of the result, and the events they need, are within limits.
Fits(n) == sequence + n + 1 <= MaxEvents /\ n <= MaxArtifacts

\* Mutant: nobody looks for a cancellation once a line has been read.
ReadLateResult ==
  /\ stream = "reading"
  /\ \/ \E decided \in {"failed", "blocked", "resource_exhausted"} :
          Settle(decided) /\ UNCHANGED <<artifacts, left>>
     \/ \E n \in FileCounts :
          Fits(n) /\ Settle("completed") /\ artifacts' = n /\ left' = n
  /\ UNCHANGED <<task, driver, sequence, expired, result, events, cancels>>

\* The result line, through _finalize_result: an error or a file that is not
\* there, a change outside the boundary, too much of something, or success.
ReadResult ==
  /\ stream = "reading" /\ ~IsCancelled
  /\ \/ \E decided \in {"failed", "blocked", "resource_exhausted"} :
          Settle(decided) /\ UNCHANGED <<artifacts, left>>
     \/ \E n \in FileCounts :
          Fits(n) /\ Settle("completed") /\ artifacts' = n /\ left' = n
  /\ UNCHANGED <<task, driver, sequence, expired, result, events, cancels>>

\* A line, or the end of the output, after a cancellation.
ReadCancelled ==
  /\ stream = "reading" /\ IsCancelled
  /\ Settle("cancelled")
  /\ UNCHANGED readVars

\* The output ends without a result, or the pipe fails; only the first is
\* looked at for a cancellation.
ReadFails ==
  /\ stream = "reading"
  /\ Settle("failed")
  /\ UNCHANGED readVars

\* Mutant: the read of a line has no timeout of its own.
NoReadTimeout == FALSE

\* The read times out, whether or not a cancellation has just come.
ReadTimesOut ==
  /\ stream = "reading" /\ expired
  /\ Settle("timed_out")
  /\ UNCHANGED readVars

\* A line that the stream reader or an event refuses raises out of the loop,
\* through the same kill and wait; no outcome is decided.
ReadRaises ==
  /\ stream = "reading"
  /\ stream' = "exiting" /\ process' = "killed"
  /\ UNCHANGED <<task, driver, sequence, outcome, artifacts, left, expired,
                 result, events, cancels>>

\* ExecutionResult, and the terminal event after it.
Terminate ==
  /\ result' = [outcome |-> outcome, events_emitted |-> sequence + 1,
                artifacts |-> artifacts,
                failure |-> IF outcome = "cancelled" THEN cancels[1].reason ELSE None]
  /\ Yield("terminal")
  /\ UNCHANGED left

\* The next artifact event, or the end.
Advance ==
  IF left > 0
  THEN Yield("artifact") /\ left' = left - 1 /\ UNCHANGED result
  ELSE Terminate

\* The process has exited.
Exited ==
  /\ stream = "exiting"
  /\ \/ outcome = None /\ Break /\ UNCHANGED process
     \/ /\ outcome # None /\ Advance
        /\ UNCHANGED <<task, outcome, artifacts, process, expired, cancels>>

PullArtifact(t) ==
  /\ Pulling(t) /\ stream = "artifact" /\ driver = None
  /\ Advance
  /\ UNCHANGED <<task, outcome, artifacts, process, expired, cancels>>

PullLast(t) ==
  /\ Pulling(t) /\ stream = "terminal" /\ driver = None
  /\ stream' = "closed"
  /\ UNCHANGED <<task, driver, sequence, outcome, artifacts, left, process,
                 expired, result, events, cancels>>

------------------------------------------------------------------------------

\* The task is cancelled by the event loop.  A generator that was reading for
\* it leaves through the kill; one that was waiting for the exit just ends.
Interrupt(t) ==
  /\ Pulling(t)
  /\ \/ /\ driver # t
        /\ Becomes(t, "raised")
        /\ UNCHANGED <<stream, streamVars>>
     \/ /\ driver = t /\ stream \in {"launching", "exiting"}
        /\ Break /\ UNCHANGED process
     \/ driver = t /\ ReadRaises

\* Time passes the deadline that was set after the launch.
Expire ==
  /\ process # "absent" /\ ~expired
  /\ expired' = TRUE
  /\ UNCHANGED <<task, stream, driver, sequence, outcome, artifacts, left,
                 process, result, events, cancels>>

Pull(t) ==
  \/ PullRunning(t) \/ PullEnded(t) \/ PullStarted(t) \/ PullLaunch(t)
  \/ PullLine(t) \/ PullArtifact(t) \/ PullLast(t)

Read ==
  \/ SkipLine \/ ReadProgress \/ ReadResult \/ ReadCancelled
  \/ ReadFails \/ ReadTimesOut \/ ReadRaises

Next ==
  \/ \E t \in Tasks : Events(t) \/ Result(t) \/ Pull(t) \/ Interrupt(t)
  \/ \E reason \in Cancellations : Cancel(reason)
  \/ Launched \/ LaunchFails \/ Read \/ Exited \/ Expire

Spec == Init /\ [][Next]_vars

\* A task that has begun to pull goes on, the launcher answers, time passes,
\* a killed process exits and a timer fires.  The process itself need never
\* write a line, and nobody has to cancel.
FairSpec ==
  /\ Spec
  /\ \A t \in Tasks : WF_vars(Pull(t))
  /\ WF_vars(Launched \/ LaunchFails)
  /\ WF_vars(Expire) /\ WF_vars(ReadTimesOut) /\ WF_vars(Exited)

------------------------------------------------------------------------------

EventKind == {"started", "progress", "artifact", "terminal"}

\* The types of the variables; an event never has a number beyond the limit.
TypeOK ==
  /\ task \in [Tasks -> {"idle", "draining", "awaiting", "returned", "raised"}]
  /\ stream \in EventKind \cup
       {"unopened", "opened", "launching", "reading", "exiting", "closed"}
  /\ driver \in Tasks \cup {None}
  /\ sequence \in 0..MaxEvents
  /\ outcome \in TerminalOutcome \cup {None}
  /\ artifacts \in 0..MaxArtifacts /\ left \in 0..artifacts
  /\ process \in {"absent", "running", "killed"}
  /\ expired \in BOOLEAN
  /\ result \in ExecutionResult \cup {None}
  /\ events \in Seq(EventKind)
  /\ cancels \in Seq([reason: Cancellations, undecided: BOOLEAN])

\* What the consumers see, however they share the stream and whoever cancels:
\* events in order within the limit, STARTED first, the artifacts of the result
\* just before TERMINAL, and TERMINAL last, exactly when there is a result that
\* ExecutionResult accepts and that counts them.
StreamWellFormed ==
  LET n == Len(events)
  IN  /\ n <= MaxEvents
      /\ \A i \in 1..n : events[i] = "started" <=> i = 1
      /\ \A i \in 1..n : events[i] = "terminal" => i = n
      /\ (result # None) <=> (n > 0 /\ events[n] = "terminal")
      /\ result # None =>
           /\ result.events_emitted = n
           /\ result.artifacts <= MaxArtifacts
           /\ \A i \in 1..n :
                events[i] = "artifact" <=> n - result.artifacts <= i /\ i < n

\* All this is so because the session is one of the port, step by step: what a
\* consumer may rely on without knowing which executor it has.
Port == INSTANCE ExecutionSession
  WITH Reasons <- Cancellations,
       reason <- IF cancels = <<>> THEN None ELSE cancels[1].reason

ImplementsSession == Port!Spec

\* A cancellation that comes before the session has decided is never answered
\* with success, a policy block or an exhausted limit (a failure of the pipe
\* and the deadline may still win); one that comes later changes nothing; and
\* the reason of the first one is the reason in the result.
CancelHonoured ==
  outcome # None =>
    LET in_time == \E i \in DOMAIN cancels : cancels[i].undecided
    IN  /\ in_time => outcome \in {"cancelled", "timed_out", "failed"}
        /\ outcome = "cancelled" => in_time
        /\ result # None /\ outcome = "cancelled" => result.failure = cancels[1].reason

\* The Claude Code process is alive only while somebody may still read from
\* it: not after a cancellation, not behind a result, and not behind a stream
\* that ended in any other way.
NoProcessLeft ==
  process = "running" => stream \in {"reading", "progress"} /\ ~IsCancelled

\* How many steps the generator can still take, but for lines that it skips.
StepsLeft ==
  LET room == 2 * (MaxEvents - sequence)
  IN  CASE stream = "unopened" -> room + 7
        [] stream = "opened" -> room + 6
        [] stream = "started" -> room + 5
        [] stream \in {"launching", "progress"} -> room + 4
        [] stream = "reading" -> room + 3
        [] stream = "exiting" -> room + 2
        [] stream \in {"artifact", "terminal"} -> room + 1
        [] stream = "closed" -> 0

\* Whatever happens to the stream takes it forward, whoever drives it and
\* however it is cancelled: it is launched and settled once, and after
\* 2 * MaxEvents + 7 steps at most it is closed, however much the process says.
StreamProgresses ==
  [][ <<stream, sequence, outcome>>' # <<stream, sequence, outcome>>
        => StepsLeft' \in 0..(StepsLeft - 1) ]_vars

\* Whoever consumes the session comes to an end, be the process silent, deaf
\* or talking without end.
EveryReaderEnds == \A t \in Tasks : Pulling(t) ~> ~Pulling(t)

=============================================================================
