---------------------------- MODULE DockerSandbox ----------------------------
(***************************************************************************)
(* Sandboxed runs (src/gearmeshing_ai/adapters/docker_sandbox.py): each    *)
(* run is one SandboxSession with its docker run client, and asks the      *)
(* Docker daemon for a container.  Containers go by a name made from the   *)
(* run_id, so two runs may ask for the same one.  A session is awaited by  *)
(* one task at a time; other tasks may cancel it.                          *)
(*                                                                         *)
(* The daemon, the client and the command are external: they appear as     *)
(* what the adapter has to be ready for.                                   *)
(***************************************************************************)
EXTENDS Naturals, SequencesExt

CONSTANTS
  Runs,     \* sandboxed runs, each with its SandboxRunRequest
  Names,    \* names of containers
  NameOf,   \* _container_name of each run's run_id
  Reasons,  \* reasons given to cancel
  None      \* Python's None

ASSUME NameOfAssumption == NameOf \in [Runs -> Names]

\* Exit statuses: of the command, of a client that was refused by the daemon,
\* of one that was killed.
Status == {"zero", "nonzero", "refused", "killed"}

Outcome == {"blocked", "completed", "timed_out", "cancelled"}

\* The results that __post_init__ accepts; `reason` is the cancellation's.
SandboxResult ==
  [outcome: {"blocked"}, exit_code: {None}, reason: {None}] \cup
  [outcome: {"completed", "timed_out"}, exit_code: Status, reason: {None}] \cup
  [outcome: {"cancelled"}, exit_code: Status, reason: Reasons]

\* None is not a value of any other kind.
ASSUME SandboxNoneAssumption ==
  None \notin Runs \cup Reasons \cup Status \cup Outcome \cup SandboxResult

VARIABLES
  client,     \* the docker run client of each run
  exit_code,  \* its exit status
  container,  \* the run whose container has the name, or None
  fate,       \* how the command of a run ended
  killed,     \* handle._killed
  missed,     \* runs whose docker kill found no container to kill
  expired,    \* runs past their wall-clock deadline
  call,       \* where the call of result() is
  decided,    \* its local variable `outcome`
  reason,     \* self._cancel_reason
  result,     \* self._result
  in_time     \* history: runs cancelled before the outcome was decided

dockerVars == <<client, exit_code, container, fate, killed, missed>>
sessionVars == <<call, decided, reason, result, in_time>>
sandboxVars == <<dockerVars, expired, sessionVars>>

SandboxInit ==
  /\ client = [r \in Runs |-> "absent"]
  /\ exit_code = [r \in Runs |-> None]
  /\ container = [n \in Names |-> None]
  /\ fate = [r \in Runs |-> None]
  /\ killed = {} /\ missed = {} /\ expired = {}
  /\ call = [r \in Runs |-> "unstarted"]
  /\ decided = [r \in Runs |-> None]
  /\ reason = [r \in Runs |-> None]
  /\ result = [r \in Runs |-> None]
  /\ in_time = {}

IsCancelled(r) == reason[r] # None
Running(r) == container[NameOf[r]] = r

------------------------------------------------------------------------------
(* The environment. *)

\* The daemon starts the container of a client, if the name is free.
DaemonStarts(r) ==
  /\ client[r] = "starting" /\ container[NameOf[r]] = None
  /\ client' = [client EXCEPT ![r] = "attached"]
  /\ container' = [container EXCEPT ![NameOf[r]] = r]
  /\ UNCHANGED <<exit_code, fate, killed, missed, expired, sessionVars>>

\* The daemon refuses: the name is taken, there is no image, it is not there.
DaemonRefuses(r) ==
  /\ client[r] = "starting"
  /\ client' = [client EXCEPT ![r] = "exited"]
  /\ exit_code' = [exit_code EXCEPT ![r] = "refused"]
  /\ UNCHANGED <<container, fate, killed, missed, expired, sessionVars>>

\* A container that a kill came too early for is started after all.
DaemonStartsLate(r) ==
  /\ r \in missed /\ fate[r] = None /\ container[NameOf[r]] = None
  /\ container' = [container EXCEPT ![NameOf[r]] = r]
  /\ UNCHANGED <<client, exit_code, fate, killed, missed, expired, sessionVars>>

\* The command ends, the container is removed (--rm), and the client, if it is
\* still there, exits with the status of the command.
CommandEnds(r) ==
  /\ Running(r)
  /\ \E status \in {"zero", "nonzero"} :
       /\ fate' = [fate EXCEPT ![r] = status]
       /\ IF client[r] = "attached"
          THEN /\ client' = [client EXCEPT ![r] = "exited"]
               /\ exit_code' = [exit_code EXCEPT ![r] = status]
          ELSE UNCHANGED <<client, exit_code>>
  /\ container' = [container EXCEPT ![NameOf[r]] = None]
  /\ UNCHANGED <<killed, missed, expired, sessionVars>>

\* The deadline passes; once there is a result nobody looks at it.
Expire(r) ==
  /\ call[r] # "unstarted" /\ result[r] = None /\ r \notin expired
  /\ expired' = expired \cup {r}
  /\ UNCHANGED <<dockerVars, sessionVars>>

------------------------------------------------------------------------------
(* AsyncioSubprocessHandle.kill: docker kill by name, whatever comes of it,  *)
(* then the client, once.                                                    *)

\* The runs whose client ends with the container `victim` or is killed itself.
Dies(r, victim, s) ==
  \/ s = r /\ client[r] \in {"starting", "attached"}
  \/ s = victim /\ client[s] = "attached"

Kill(r) ==
  IF r \in killed
  THEN UNCHANGED dockerVars
  ELSE \E victim \in {container[NameOf[r]], None} :
         /\ killed' = killed \cup {r}
         /\ container' = IF victim = None THEN container
                         ELSE [container EXCEPT ![NameOf[r]] = None]
         /\ fate' = [s \in Runs |-> IF s = victim THEN "killed" ELSE fate[s]]
         /\ client' = [s \in Runs |-> IF Dies(r, victim, s) THEN "exited" ELSE client[s]]
         /\ exit_code' =
              [s \in Runs |-> IF Dies(r, victim, s) THEN "killed" ELSE exit_code[s]]
         /\ missed' = IF victim # r /\ client[r] \in {"starting", "attached"}
                      THEN missed \cup {r} ELSE missed

------------------------------------------------------------------------------
(* DockerSandbox.start and SandboxSession.                                   *)

\* A mount that the policy forbids: a settled session, and no container.
StartBlocked(r) ==
  /\ call[r] = "unstarted"
  /\ call' = [call EXCEPT ![r] = "started"]
  /\ result' = [result EXCEPT ![r] =
                  [outcome |-> "blocked", exit_code |-> None, reason |-> None]]
  /\ UNCHANGED <<dockerVars, expired, decided, reason, in_time>>

\* The client is launched; `next` is where the call of result() then is.
Launch(r, next) ==
  /\ call[r] = "unstarted"
  /\ call' = [call EXCEPT ![r] = next]
  /\ client' = [client EXCEPT ![r] = "starting"]
  /\ UNCHANGED <<exit_code, container, fate, killed, missed, expired, decided,
                 reason, result, in_time>>

\* cancel(reason): without effect once there is a result.
Cancel(r) ==
  /\ call[r] # "unstarted" /\ result[r] = None
  /\ \E given \in Reasons :
       reason' = [reason EXCEPT ![r] = IF IsCancelled(r) THEN @ ELSE given]
  /\ in_time' = IF decided[r] = None THEN in_time \cup {r} ELSE in_time
  /\ Kill(r)
  /\ UNCHANGED <<expired, call, decided, result>>

\* The outcome is decided; the call waits for the client to exit.
Settle(r, outcome) ==
  /\ decided' = [decided EXCEPT ![r] = outcome]
  /\ call' = [call EXCEPT ![r] = "settling"]

\* result() up to its first await.  A deadline that is over before the call
\* counts as missed even if the client has exited: wait_for with no time left
\* does not look.
Result(r) ==
  /\ call[r] = "started" /\ result[r] = None
  /\ IF IsCancelled(r) THEN Settle(r, "cancelled") /\ Kill(r)
     ELSE IF r \in expired THEN Settle(r, "timed_out") /\ Kill(r)
     ELSE /\ call' = [call EXCEPT ![r] = "waiting"]
          /\ UNCHANGED <<decided, dockerVars>>
  /\ UNCHANGED <<expired, reason, result, in_time>>

\* Mutant: a cancellation that came during the wait is overlooked.
WaitReturnsCompleted(r) ==
  /\ call[r] = "waiting" /\ client[r] = "exited"
  /\ decided' = [decided EXCEPT ![r] = "completed"]
  /\ call' = [call EXCEPT ![r] = "reading"]
  /\ UNCHANGED <<dockerVars, expired, reason, result, in_time>>

\* The client has exited before the deadline.
WaitReturns(r) ==
  /\ call[r] = "waiting" /\ client[r] = "exited"
  /\ decided' = [decided EXCEPT ![r] = IF IsCancelled(r) THEN "cancelled" ELSE "completed"]
  /\ call' = [call EXCEPT ![r] = "reading"]
  /\ UNCHANGED <<dockerVars, expired, reason, result, in_time>>

\* Mutant: the caller is told, and the container stays.
WaitTimesOutAlone(r) ==
  /\ call[r] = "waiting" /\ r \in expired
  /\ decided' = [decided EXCEPT ![r] = "timed_out"]
  /\ call' = [call EXCEPT ![r] = "settling"]
  /\ client' = [client EXCEPT ![r] = "exited"]
  /\ exit_code' = [exit_code EXCEPT ![r] = IF client[r] = "exited" THEN @ ELSE "killed"]
  /\ UNCHANGED <<container, fate, killed, missed, expired, reason, result, in_time>>

\* Mutant: the wait has no deadline.
WaitForEver(r) == FALSE

\* The deadline passes first, or at the same time.
WaitTimesOut(r) ==
  /\ call[r] = "waiting" /\ r \in expired
  /\ Settle(r, "timed_out") /\ Kill(r)
  /\ UNCHANGED <<expired, reason, result, in_time>>

\* The second wait, for the client that has been killed.
Settled(r) ==
  /\ call[r] = "settling" /\ client[r] = "exited"
  /\ call' = [call EXCEPT ![r] = "reading"]
  /\ UNCHANGED <<dockerVars, expired, decided, reason, result, in_time>>

\* Mutant: only the latest news of the session goes into the failure.
FinishLatest(r) ==
  /\ call[r] = "reading"
  /\ call' = [call EXCEPT ![r] = "started"]
  /\ result' = [result EXCEPT ![r] = [outcome |-> decided[r], exit_code |-> exit_code[r],
                                      reason |-> reason[r]]]
  /\ UNCHANGED <<dockerVars, expired, decided, reason, in_time>>

\* The output has been read to its end, and there is a result.
Finish(r) ==
  /\ call[r] = "reading"
  /\ call' = [call EXCEPT ![r] = "started"]
  /\ result' = [result EXCEPT ![r] =
       [outcome |-> decided[r], exit_code |-> exit_code[r],
        reason |-> IF decided[r] = "cancelled" THEN reason[r] ELSE None]]
  /\ UNCHANGED <<dockerVars, expired, decided, reason, in_time>>

\* The task that awaits result() is cancelled: the session stays as it is.
Interrupt(r) ==
  /\ call[r] \in {"waiting", "settling", "reading"}
  /\ call' = [call EXCEPT ![r] = "started"]
  /\ decided' = [decided EXCEPT ![r] = None]
  /\ UNCHANGED <<dockerVars, expired, reason, result, in_time>>

\* What Docker and the clock do to a run.
Environment(r) ==
  \/ DaemonStarts(r) \/ DaemonRefuses(r) \/ DaemonStartsLate(r)
  \/ CommandEnds(r) \/ Expire(r)

\* A call of result() goes on, except for its return.
Await(r) == WaitReturns(r) \/ WaitTimesOut(r) \/ Settled(r)

------------------------------------------------------------------------------

SandboxTypeOK ==
  /\ client \in [Runs -> {"absent", "starting", "attached", "exited"}]
  /\ exit_code \in [Runs -> Status \cup {None}]
  /\ container \in [Names -> Runs \cup {None}]
  /\ fate \in [Runs -> {"zero", "nonzero", "killed", None}]
  /\ killed \subseteq Runs /\ missed \subseteq Runs
  /\ expired \subseteq Runs /\ in_time \subseteq Runs
  /\ call \in [Runs -> {"unstarted", "started", "waiting", "settling", "reading"}]
  /\ decided \in [Runs -> Outcome \cup {None}]
  /\ reason \in [Runs -> Reasons \cup {None}]
  /\ result \in [Runs -> SandboxResult \cup {None}]

\* A result means that the container is gone, unless docker kill did not reach
\* it; and a result of "completed" has the status that the command ended with,
\* whichever other runs were using the name.
ResultsAreFinal ==
  \A r \in Runs :
    result[r] # None =>
      /\ Running(r) => r \in missed
      /\ result[r].outcome = "completed" =>
           fate[r] = IF result[r].exit_code = "refused" THEN None ELSE result[r].exit_code

\* A cancellation that comes while the session is still waiting is not
\* answered with the command's own result.
CancellationsCount ==
  \A r \in Runs :
    r \in in_time /\ result[r] # None => result[r].outcome # "completed"

=============================================================================
