----------------------------- MODULE OperatorCli -----------------------------
(***************************************************************************)
(* The commands of the operator's command line that change the checkpoint  *)
(* (src/gearmeshing_ai/interfaces/cli.py): run, cancel and retry.  Each    *)
(* command is a process of its own: it loads the checkpoint, works, and    *)
(* saves against what it loaded, while a runner may be at any point.       *)
(***************************************************************************)
EXTENDS WorkRunPorts

CONSTANTS
  Commands,            \* command processes, each started at most once
  SanitizedRevision    \* what _sanitize_revision makes of each revision

ASSUME SanitizedRevisionAssumption == SanitizedRevision \in [Revisions -> Revisions]

VARIABLES
  command,   \* what each command process is doing
  loaded,    \* the checkpoint it loaded
  target     \* the WorkRun it is about to save

cliVars == <<command, loaded, target>>

CliInit ==
  /\ command = [k \in Commands |-> "idle"]
  /\ loaded = [k \in Commands |-> None]
  /\ target = [k \in Commands |-> None]

Become(k, label) == command' = [command EXCEPT ![k] = label]

\* run: report an existing checkpoint, or go on to start the run.
RunCommand(k) ==
  /\ command[k] = "idle"
  /\ Become(k, IF checkpoint = None THEN "start_run" ELSE "done")
  /\ UNCHANGED <<loaded, target, portVars>>

\* _start_run: the gate, the tracker and the domain may each refuse; else the
\* run is approved at the sanitized revision, and blocked if it is not ready.
StartRun(k) ==
  /\ command[k] = "start_run"
  /\ \/ /\ Become(k, "failed")
        /\ UNCHANGED target
     \/ /\ Become(k, "run")
        /\ \E actor \in Approvers, ready \in BOOLEAN :
             LET approved == approve(SanitizedRevision[issue], actor)
             IN  target' = [target EXCEPT ![k] =
                   IF ready THEN approved
                   ELSE transition_to(approved, "blocked", "work_item_not_ready")]
  /\ UNCHANGED <<loaded, portVars>>

\* cancel and retry: resolve the run and derive its next state.  The command
\* fails without a run, on a transition that is not permitted, and when its
\* clock is behind the last event.
Resolve(k, name, state) ==
  /\ command[k] = "idle"
  /\ \/ /\ Become(k, "failed")
        /\ UNCHANGED <<loaded, target>>
     \/ /\ checkpoint # None
        /\ CanTransition(checkpoint, state)
        /\ Become(k, name)
        /\ loaded' = [loaded EXCEPT ![k] = checkpoint]
        /\ target' = [target EXCEPT ![k] = transition_to(checkpoint, state, None)]
  /\ UNCHANGED portVars

Cancel(k) == Resolve(k, "cancel", "cancelled")

\* Mutant: a retry takes the run on to publication.
RetryPublishing(k) == Resolve(k, "retry", "publishing_draft_pr")

Retry(k) == Resolve(k, "retry", "verifying")

\* The save at the end of each command.
SaveCommand(k) ==
  /\ command[k] \in {"run", "cancel", "retry"}
  /\ \/ CompareAndSwap(loaded[k], target[k]) /\ Become(k, "done")
     \/ Conflict(loaded[k]) /\ Become(k, "failed")
  /\ UNCHANGED <<loaded, target, issue>>

CliNext ==
  \E k \in Commands :
    RunCommand(k) \/ StartRun(k) \/ Cancel(k) \/ Retry(k) \/ SaveCommand(k)

=============================================================================
