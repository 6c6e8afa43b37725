------------------------- MODULE QualityChecksProofs -------------------------
(***************************************************************************)
(* Theorems about sandboxed runs and the batches of checks that use them,  *)
(* for any number of either and any sharing of container names.            *)
(***************************************************************************)
EXTENDS QualityChecks, TLAPS

\* What client, container and command of a run can be at the same time.
DockerRunInv(r) ==
  /\ client[r] = "exited" <=> exit_code[r] # None
  /\ client[r] \in {"absent", "starting"} =>
       fate[r] = None /\ ~Running(r) /\ r \notin killed
  /\ client[r] = "attached" => Running(r) /\ r \notin killed
  /\ Running(r) => fate[r] = None /\ (client[r] = "attached" \/ r \in missed)
  /\ r \in missed => r \in killed /\ exit_code[r] = "killed"
  /\ exit_code[r] \in {"zero", "nonzero"} => fate[r] = exit_code[r]
  /\ exit_code[r] = "refused" => fate[r] = None
  /\ exit_code[r] = "killed" => r \in killed \/ fate[r] = "killed"

DockerInv ==
  /\ \A n \in Names : container[n] # None => NameOf[container[n]] = n
  /\ \A r \in Runs : DockerRunInv(r)

\* The command was not stopped by this session, and how it ended is known.
EndedByItself(r) ==
  /\ client[r] = "exited" /\ r \notin missed /\ r \notin in_time
  /\ fate[r] = IF exit_code[r] = "refused" THEN None ELSE exit_code[r]

\* What a session knows at each point of result().
SessionRunInv(r) ==
  /\ call[r] = "unstarted" =>
       client[r] = "absent" /\ result[r] = None /\ decided[r] = None /\ reason[r] = None
  /\ call[r] \notin {"unstarted", "started"} => result[r] = None
  /\ client[r] = "absent" /\ call[r] # "unstarted" =>
       call[r] = "started" /\ result[r] # None /\ result[r].outcome = "blocked"
  /\ call[r] = "waiting" /\ r \in killed => reason[r] # None
  /\ call[r] \in {"settling", "reading"} => client[r] = "exited" /\ decided[r] # None
  /\ call[r] = "settling" => decided[r] # "completed"
  /\ decided[r] # "blocked"
  /\ r \in killed => reason[r] # None \/ r \in expired
  /\ r \in in_time => reason[r] # None
  /\ decided[r] = "cancelled" => reason[r] # None
  /\ decided[r] = "timed_out" => r \in expired
  /\ call[r] = "reading" /\ decided[r] = "completed" => EndedByItself(r)

\* What a result says.
ResultRunInv(r) ==
  result[r] # None =>
    /\ client[r] = IF result[r].outcome = "blocked" THEN "absent" ELSE "exited"
    /\ result[r].outcome # "blocked" => result[r].exit_code = exit_code[r]
    /\ result[r].outcome = "completed" => EndedByItself(r)
    /\ result[r].outcome = "timed_out" => r \in expired
    /\ result[r].outcome = "cancelled" => reason[r] # None

\* Where each run of a batch is, what its results are made from, and what it
\* does once it has skipped a check.
BatchOneInv(b) ==
  /\ Len(results[b]) <= Len(Checks)
  /\ batch[b] = "awaiting" =>
       /\ Index(b) \in DOMAIN Checks /\ ~already_cancelled[b]
       /\ call[Current(b)] \in {"waiting", "settling", "reading"}
  /\ batch[b] = "returned" => Len(results[b]) = Len(Checks)
  /\ \A i \in DOMAIN Checks :
       /\ reason[Run(b, i)] = None
       /\ i > Index(b) \/ (i = Index(b) /\ batch[b] = "checking") =>
            call[Run(b, i)] = "unstarted"
  /\ \A i \in DOMAIN results[b] :
       \/ results[b][i] \in {"skipped", "unavailable"} /\ call[Run(b, i)] = "unstarted"
       \/ /\ result[Run(b, i)] # None
          /\ results[b][i] = CheckOutcomeOf(result[Run(b, i)])
  /\ \A i \in DOMAIN results[b] : results[b][i] = "skipped" =>
       /\ already_cancelled[b]
       /\ \A j \in DOMAIN results[b] :
            i < j => results[b][j] \in {"skipped", "unavailable"}

SandboxInv ==
  /\ SandboxTypeOK /\ DockerInv
  /\ \A r \in Runs : SessionRunInv(r) /\ ResultRunInv(r)

BatchTypeOK ==
  /\ batch \in [Batches -> {"checking", "awaiting", "returned", "raised"}]
  /\ results \in [Batches -> Seq(CheckOutcome)]
  /\ already_cancelled \in [Batches -> BOOLEAN]
  /\ cancellation \in [Batches -> BOOLEAN]

ChecksInv == SandboxInv /\ BatchTypeOK /\ \A b \in Batches : BatchOneInv(b)

DockerTypeOK ==
  /\ client \in [Runs -> {"absent", "starting", "attached", "exited"}]
  /\ exit_code \in [Runs -> Status \cup {None}]
  /\ container \in [Names -> Runs \cup {None}]
  /\ fate \in [Runs -> {"zero", "nonzero", "killed", None}]
  /\ killed \subseteq Runs /\ missed \subseteq Runs

\* What Docker never does to a run, whoever kills what: launch its client, bring
\* it back, or change how it ended.
DockerSteady ==
  \A s \in Runs :
    /\ client[s] = "absent" <=> client'[s] = "absent"
    /\ client[s] = "exited" => client'[s] = "exited" /\ exit_code'[s] = exit_code[s]
    /\ client[s] = "exited" /\ s \notin missed => s \notin missed' /\ fate'[s] = fate[s]

------------------------------------------------------------------------------
(* Docker. *)

\* docker kill, whichever container it finds under the name, or none.
LEMMA KillStep ==
  ASSUME SandboxTypeOK, DockerInv, NEW r \in Runs, client[r] # "absent", Kill(r)
  PROVE  /\ DockerTypeOK' /\ DockerInv' /\ DockerSteady
         /\ client'[r] = "exited" /\ killed' = killed \cup {r}
<1>1. CASE r \in killed
  <2>1. UNCHANGED dockerVars
    BY <1>1 DEF Kill
  <2> QED
    BY <1>1, <2>1 DEF dockerVars, SandboxTypeOK, DockerTypeOK, DockerInv,
                      DockerRunInv, DockerSteady, Running
<1>2. CASE r \notin killed
  <2>1. PICK victim \in {container[NameOf[r]], None} :
         /\ killed' = killed \cup {r}
         /\ container' = IF victim = None THEN container
                         ELSE [container EXCEPT ![NameOf[r]] = None]
         /\ fate' = [s \in Runs |-> IF s = victim THEN "killed" ELSE fate[s]]
         /\ client' = [s \in Runs |-> IF Dies(r, victim, s) THEN "exited" ELSE client[s]]
         /\ exit_code' =
              [s \in Runs |-> IF Dies(r, victim, s) THEN "killed" ELSE exit_code[s]]
         /\ missed' = IF victim # r /\ client[r] \in {"starting", "attached"}
                      THEN missed \cup {r} ELSE missed
    BY <1>2 DEF Kill
  <2>2. victim \in Runs \cup {None} /\ NameOf[r] \in Names
    BY <2>1, NameOfAssumption DEF SandboxTypeOK
  <2>3. victim \in Runs => Running(victim) /\ NameOf[victim] = NameOf[r]
    BY <2>1, <2>2, SandboxNoneAssumption DEF DockerInv, Running
  <2>4. DockerTypeOK'
    BY <2>1, <2>2 DEF SandboxTypeOK, DockerTypeOK, Status
  <2>5. \A n \in Names : container'[n] # None =>
           container'[n] = container[n] /\ NameOf[container'[n]] = n
    BY <2>1, <2>2 DEF DockerInv, SandboxTypeOK
  <2>6. ASSUME NEW s \in Runs PROVE DockerRunInv(s)'
    <3>1. NameOf[s] \in Names /\ None \notin Runs \cup Status
      BY NameOfAssumption, SandboxNoneAssumption
    <3>2. DockerRunInv(s) /\ DockerRunInv(r)
      BY DEF DockerInv
    <3>3. Running(s)' <=> Running(s) /\ s # victim
      BY <2>1, <2>2, <2>3, <3>1 DEF Running, SandboxTypeOK
    <3>4. CASE s = victim
      BY <2>1, <2>2, <2>3, <3>1, <3>2, <3>3, <3>4, <1>2
        DEF DockerRunInv, SandboxTypeOK, Dies, Status
    <3>5. CASE s # victim
      BY <2>1, <2>2, <2>3, <3>1, <3>2, <3>3, <3>5, <1>2
        DEF DockerRunInv, SandboxTypeOK, Dies, Status
    <3> QED
      BY <3>4, <3>5
  <2>7. DockerSteady
    <3> SUFFICES ASSUME NEW s \in Runs
                 PROVE  /\ client[s] = "absent" <=> client'[s] = "absent"
                        /\ client[s] = "exited" =>
                             client'[s] = "exited" /\ exit_code'[s] = exit_code[s]
                        /\ client[s] = "exited" /\ s \notin missed =>
                             s \notin missed' /\ fate'[s] = fate[s]
      BY DEF DockerSteady
    <3>1. DockerRunInv(s) /\ DockerRunInv(r)
      BY DEF DockerInv
    <3> QED
      BY <2>1, <2>2, <2>3, <3>1 DEF DockerRunInv, SandboxTypeOK, Dies
  <2>8. client'[r] = "exited"
    BY <2>1 DEF SandboxTypeOK, Dies
  <2> QED
    BY <2>1, <2>4, <2>5, <2>6, <2>7, <2>8 DEF DockerInv
<1> QED
  BY <1>1, <1>2

\* The daemon, the command and the clock.
LEMMA DaemonStep ==
  ASSUME SandboxTypeOK, DockerInv, NEW r \in Runs, Environment(r)
  PROVE  /\ SandboxTypeOK' /\ DockerInv' /\ DockerSteady
         /\ UNCHANGED <<killed, sessionVars>> /\ expired \subseteq expired'
<1>1. NameOf[r] \in Names /\ None \notin Runs \cup Status /\ DockerRunInv(r)
  BY NameOfAssumption, SandboxNoneAssumption DEF DockerInv
<1>2. UNCHANGED <<killed, missed, sessionVars>> /\ expired \subseteq expired'
  BY DEF Environment, DaemonStarts, DaemonRefuses, DaemonStartsLate, CommandEnds, Expire,
         dockerVars
<1>3. SandboxTypeOK'
  BY <1>1, <1>2 DEF Environment, DaemonStarts, DaemonRefuses, DaemonStartsLate, CommandEnds,
         Expire, dockerVars, sessionVars, SandboxTypeOK, Status
<1>4. \A n \in Names : container'[n] # None => NameOf[container'[n]] = n
  BY <1>1 DEF Environment, DaemonStarts, DaemonRefuses, DaemonStartsLate, CommandEnds, Expire,
         dockerVars, SandboxTypeOK, DockerInv
<1>5. ASSUME NEW s \in Runs
      PROVE  /\ DockerRunInv(s)'
             /\ client[s] = "absent" <=> client'[s] = "absent"
             /\ client[s] = "exited" =>
                  client'[s] = "exited" /\ exit_code'[s] = exit_code[s]
             /\ client[s] = "exited" /\ s \notin missed => fate'[s] = fate[s]
  <2>1. NameOf[s] \in Names /\ DockerRunInv(s)
    BY NameOfAssumption DEF DockerInv
  <2>2. CASE DaemonStarts(r)
    BY <1>1, <2>1, <2>2 DEF DaemonStarts, DockerRunInv, Running, SandboxTypeOK
  <2>3. CASE DaemonRefuses(r)
    BY <1>1, <2>1, <2>3 DEF DaemonRefuses, DockerRunInv, Running, SandboxTypeOK, Status
  <2>4. CASE DaemonStartsLate(r)
    BY <1>1, <2>1, <2>4 DEF DaemonStartsLate, DockerRunInv, Running, SandboxTypeOK
  <2>5. CASE CommandEnds(r)
    BY <1>1, <2>1, <2>5 DEF CommandEnds, DockerRunInv, Running, SandboxTypeOK, Status
  <2>6. CASE Expire(r)
    BY <2>1, <2>6 DEF Expire, dockerVars, DockerRunInv, Running
  <2> QED
    BY <2>2, <2>3, <2>4, <2>5, <2>6 DEF Environment
<1> QED
  BY <1>2, <1>3, <1>4, <1>5 DEF DockerInv, DockerSteady

------------------------------------------------------------------------------
(* Sessions. *)

\* The session of a run that a step is not about.
Undisturbed(s) ==
  /\ call'[s] = call[s] /\ decided'[s] = decided[s] /\ reason'[s] = reason[s]
  /\ result'[s] = result[s] /\ (s \in in_time' <=> s \in in_time)
  /\ (s \in killed' <=> s \in killed) /\ (s \in expired => s \in expired')

\* What a session knows of its run stays true while others act.
LEMMA UndisturbedRuns ==
  ASSUME DockerSteady, NEW s \in Runs, Undisturbed(s), client[s] \in
           {"absent", "starting", "attached", "exited"},
         SessionRunInv(s), ResultRunInv(s)
  PROVE  SessionRunInv(s)' /\ ResultRunInv(s)'
<1>1. EndedByItself(s) => EndedByItself(s)'
  BY DEF DockerSteady, Undisturbed, EndedByItself
<1> QED
  BY <1>1 DEF DockerSteady, Undisturbed, SessionRunInv, ResultRunInv

\* What Docker does keeps what the sessions know.
LEMMA EnvironmentKeepsInv ==
  ASSUME SandboxInv, NEW r \in Runs, Environment(r)
  PROVE  SandboxInv'
<1>1. /\ SandboxTypeOK' /\ DockerInv' /\ DockerSteady
      /\ UNCHANGED <<killed, sessionVars>> /\ expired \subseteq expired'
  BY DaemonStep DEF SandboxInv
<1>2. ASSUME NEW s \in Runs PROVE SessionRunInv(s)' /\ ResultRunInv(s)'
  <2>1. Undisturbed(s)
    BY <1>1 DEF Undisturbed, sessionVars
  <2> QED
    BY <1>1, <2>1, UndisturbedRuns DEF SandboxInv, SandboxTypeOK
<1> QED
  BY <1>1, <1>2 DEF SandboxInv

\* The outcome is decided against the command, which is killed.
LEMMA SettleKeepsInv ==
  ASSUME SandboxInv, NEW r \in Runs, NEW outcome \in {"timed_out", "cancelled"},
         client[r] # "absent", result[r] = None,
         outcome = "timed_out" => r \in expired,
         outcome = "cancelled" => IsCancelled(r),
         r \in expired \/ IsCancelled(r),
         Settle(r, outcome), Kill(r), UNCHANGED <<expired, reason, result, in_time>>
  PROVE  SandboxInv'
<1>1. /\ DockerTypeOK' /\ DockerInv' /\ DockerSteady
      /\ client'[r] = "exited" /\ killed' = killed \cup {r}
  BY KillStep DEF SandboxInv
<1>2. SandboxTypeOK'
  BY <1>1 DEF SandboxInv, SandboxTypeOK, DockerTypeOK, Settle, Outcome
<1>3. SessionRunInv(r)' /\ ResultRunInv(r)'
  <2>1. /\ call'[r] = "settling" /\ decided'[r] = outcome /\ result'[r] = None
        /\ UNCHANGED <<reason, expired, in_time>> /\ outcome # None
    BY SandboxNoneAssumption DEF SandboxInv, SandboxTypeOK, Settle, Outcome
  <2> QED
    BY <1>1, <2>1 DEF SandboxInv, SessionRunInv, ResultRunInv, IsCancelled
<1>4. ASSUME NEW s \in Runs, s # r PROVE SessionRunInv(s)' /\ ResultRunInv(s)'
  <2>1. Undisturbed(s)
    BY <1>1, <1>4 DEF Undisturbed, Settle, SandboxInv, SandboxTypeOK
  <2> QED
    BY <1>1, <2>1, UndisturbedRuns DEF SandboxInv, SandboxTypeOK
<1> QED
  BY <1>1, <1>2, <1>3, <1>4 DEF SandboxInv

\* Steps of the session alone, which leave Docker as it is.
LEMMA QuietStep ==
  ASSUME SandboxInv, NEW r \in Runs, SandboxTypeOK', UNCHANGED dockerVars,
         expired' = expired, SessionRunInv(r)', ResultRunInv(r)',
         \A s \in Runs \ {r} : Undisturbed(s)
  PROVE  SandboxInv'
<1>1. DockerSteady
  BY DEF DockerSteady, dockerVars
<1>2. DockerInv'
  BY DEF SandboxInv, DockerInv, DockerRunInv, Running, dockerVars
<1>3. ASSUME NEW s \in Runs, s # r PROVE SessionRunInv(s)' /\ ResultRunInv(s)'
  BY <1>1, <1>3, UndisturbedRuns DEF SandboxInv, SandboxTypeOK
<1> QED
  BY <1>2, <1>3 DEF SandboxInv

\* A blocked session has its result and no container.
LEMMA StartBlockedKeepsInv ==
  ASSUME SandboxInv, NEW r \in Runs, StartBlocked(r)
  PROVE  SandboxInv'
<1>1. SandboxTypeOK'
  BY DEF StartBlocked, SandboxInv, SandboxTypeOK, dockerVars, SandboxResult
<1>2. SessionRunInv(r)' /\ ResultRunInv(r)'
  BY SandboxNoneAssumption DEF StartBlocked, SandboxInv, SandboxTypeOK, SessionRunInv, ResultRunInv,
     dockerVars, EndedByItself, SandboxResult, DockerInv, DockerRunInv
<1>3. \A s \in Runs \ {r} : Undisturbed(s)
  BY DEF StartBlocked, Undisturbed, SandboxInv, SandboxTypeOK, dockerVars
<1> QED
  BY <1>1, <1>2, <1>3, QuietStep DEF StartBlocked

\* The client has exited by itself, or the session has been cancelled.
LEMMA WaitReturnsKeepsInv ==
  ASSUME SandboxInv, NEW r \in Runs, WaitReturns(r)
  PROVE  SandboxInv'
<1>1. SandboxTypeOK'
  BY DEF WaitReturns, SandboxInv, SandboxTypeOK, dockerVars, Outcome
<1>2. ~IsCancelled(r) => EndedByItself(r)
  BY DEF WaitReturns, IsCancelled, EndedByItself, SandboxInv, SandboxTypeOK,
     SessionRunInv, DockerInv, DockerRunInv, Status
<1>3. EndedByItself(r) => EndedByItself(r)'
  BY DEF WaitReturns, EndedByItself, dockerVars
<1>4. SessionRunInv(r)' /\ ResultRunInv(r)'
  BY <1>2, <1>3, SandboxNoneAssumption DEF WaitReturns, IsCancelled, SandboxInv,
     SandboxTypeOK, SessionRunInv, ResultRunInv, dockerVars, Outcome
<1>5. \A s \in Runs \ {r} : Undisturbed(s)
  BY DEF WaitReturns, Undisturbed, SandboxInv, SandboxTypeOK, dockerVars
<1> QED
  BY <1>1, <1>4, <1>5, QuietStep DEF WaitReturns

\* The client has exited after its kill.
LEMMA SettledKeepsInv ==
  ASSUME SandboxInv, NEW r \in Runs, Settled(r)
  PROVE  SandboxInv'
<1>1. SandboxTypeOK'
  BY DEF Settled, SandboxInv, SandboxTypeOK, dockerVars
<1>2. SessionRunInv(r)' /\ ResultRunInv(r)'
  <2>1. /\ call'[r] = "reading" /\ decided' = decided /\ result' = result
        /\ reason' = reason /\ killed' = killed /\ expired' = expired
        /\ in_time' = in_time /\ client' = client /\ client[r] = "exited"
        /\ decided[r] \notin {None, "completed"} /\ result[r] = None
    BY DEF Settled, SandboxInv, SandboxTypeOK, SessionRunInv, dockerVars
  <2> QED
    BY <2>1 DEF SandboxInv, SessionRunInv, ResultRunInv
<1>3. \A s \in Runs \ {r} : Undisturbed(s)
  BY DEF Settled, Undisturbed, SandboxInv, SandboxTypeOK, dockerVars
<1> QED
  BY <1>1, <1>2, <1>3, QuietStep DEF Settled

\* The result is made from what the call has decided.
LEMMA FinishKeepsInv ==
  ASSUME SandboxInv, NEW r \in Runs, Finish(r)
  PROVE  SandboxInv' /\ result'[r] # None
<1>1. /\ client[r] = "exited" /\ exit_code[r] \in Status
      /\ decided[r] \in {"completed", "timed_out", "cancelled"}
      /\ decided[r] = "cancelled" => reason[r] \in Reasons
      /\ decided[r] = "completed" => EndedByItself(r)
      /\ decided[r] = "timed_out" => r \in expired
  BY DEF Finish, SandboxInv, SandboxTypeOK, SessionRunInv, DockerInv, DockerRunInv, Outcome
<1> DEFINE settled == [outcome |-> decided[r], exit_code |-> exit_code[r],
                       reason |-> IF decided[r] = "cancelled" THEN reason[r] ELSE None]
<1>2. settled \in SandboxResult /\ settled # None
  BY <1>1, SandboxNoneAssumption DEF SandboxResult
<1>3. result' = [result EXCEPT ![r] = settled] /\ result'[r] = settled
  BY DEF Finish, SandboxInv, SandboxTypeOK
<1>4. SandboxTypeOK'
  BY <1>2, <1>3 DEF Finish, SandboxInv, SandboxTypeOK, dockerVars
<1>5. EndedByItself(r) => EndedByItself(r)'
  BY DEF Finish, EndedByItself, dockerVars
<1>6. SessionRunInv(r)'
  BY <1>1, <1>2, <1>3 DEF Finish, SandboxInv, SandboxTypeOK, SessionRunInv, dockerVars
<1>7. ResultRunInv(r)'
  BY <1>1, <1>2, <1>3, <1>5, SandboxNoneAssumption
    DEF Finish, SandboxInv, SandboxTypeOK, ResultRunInv, dockerVars
<1>8. \A s \in Runs \ {r} : Undisturbed(s)
  BY DEF Finish, Undisturbed, SandboxInv, SandboxTypeOK, dockerVars
<1> QED
  BY <1>2, <1>3, <1>4, <1>6, <1>7, <1>8, QuietStep DEF Finish

\* A call that is given up forgets only what it had decided.
LEMMA InterruptKeepsInv ==
  ASSUME SandboxInv, NEW r \in Runs, Interrupt(r)
  PROVE  SandboxInv'
<1>1. SandboxTypeOK'
  BY DEF Interrupt, SandboxInv, SandboxTypeOK, dockerVars
<1>2. SessionRunInv(r)' /\ ResultRunInv(r)'
  <2>1. /\ call'[r] = "started" /\ decided'[r] = None /\ result'[r] = None
        /\ reason' = reason /\ killed' = killed /\ expired' = expired
        /\ in_time' = in_time /\ client' = client /\ client[r] # "absent"
    BY DEF Interrupt, SandboxInv, SandboxTypeOK, SessionRunInv, dockerVars
  <2> QED
    BY <2>1, SandboxNoneAssumption
      DEF SandboxInv, SessionRunInv, ResultRunInv, Outcome
<1>3. \A s \in Runs \ {r} : Undisturbed(s)
  BY DEF Interrupt, Undisturbed, SandboxInv, SandboxTypeOK, dockerVars
<1> QED
  BY <1>1, <1>2, <1>3, QuietStep DEF Interrupt

\* A client that has just been launched has no container.
LEMMA LaunchKeepsInv ==
  ASSUME SandboxInv, NEW r \in Runs, NEW next \in {"started", "waiting"}, Launch(r, next)
  PROVE  SandboxInv'
<1>1. DockerRunInv(r) /\ SessionRunInv(r) /\ NameOf[r] \in Names
  BY NameOfAssumption DEF SandboxInv, DockerInv
<1>2. client[r] = "absent" /\ exit_code[r] = None
  BY <1>1 DEF Launch, SessionRunInv, DockerRunInv, SandboxInv, SandboxTypeOK
<1>3. SandboxTypeOK'
  BY DEF Launch, SandboxInv, SandboxTypeOK
<1>4. DockerInv'
  <2>1. \A n \in Names : container'[n] # None => NameOf[container'[n]] = n
    BY DEF Launch, SandboxInv, DockerInv
  <2>2. ASSUME NEW s \in Runs PROVE DockerRunInv(s)'
    BY <1>1, <1>2 DEF Launch, SandboxInv, SandboxTypeOK, DockerInv, DockerRunInv, Running
  <2> QED
    BY <2>1, <2>2 DEF DockerInv
<1>5. SessionRunInv(r)' /\ ResultRunInv(r)'
  <2>1. /\ call'[r] = next /\ client'[r] = "starting" /\ r \notin killed
        /\ decided[r] = None /\ result[r] = None /\ r \notin in_time
        /\ UNCHANGED <<decided, result, reason, killed, in_time, expired>>
    BY <1>1, <1>2 DEF Launch, SandboxInv, SandboxTypeOK, SessionRunInv, DockerRunInv
  <2> QED
    BY <2>1, SandboxNoneAssumption DEF SessionRunInv, ResultRunInv, Outcome
<1>6. ASSUME NEW s \in Runs, s # r PROVE SessionRunInv(s)' /\ ResultRunInv(s)'
  <2>1. SessionRunInv(s) /\ ResultRunInv(s) /\ client'[s] = client[s] /\ call'[s] = call[s]
    BY <1>6 DEF Launch, SandboxInv, SandboxTypeOK
  <2> QED
    BY <2>1 DEF Launch, SessionRunInv, ResultRunInv, EndedByItself
<1> QED
  BY <1>3, <1>4, <1>5, <1>6 DEF SandboxInv

\* A cancellation kills, and the first one gives the reason.
LEMMA CancelKeepsInv ==
  ASSUME SandboxInv, NEW r \in Runs, Cancel(r)
  PROVE  SandboxInv'
<1>1. SessionRunInv(r) /\ ResultRunInv(r) /\ client[r] # "absent"
  BY DEF Cancel, SandboxInv, SessionRunInv
<1>2. /\ DockerTypeOK' /\ DockerInv' /\ DockerSteady
      /\ client'[r] = "exited" /\ killed' = killed \cup {r}
  BY <1>1, KillStep DEF SandboxInv, Cancel
<1>3. PICK given \in Reasons :
        reason' = [reason EXCEPT ![r] = IF IsCancelled(r) THEN @ ELSE given]
  BY DEF Cancel
<1>4. reason'[r] # None /\ reason' \in [Runs -> Reasons \cup {None}]
  BY <1>3, SandboxNoneAssumption DEF SandboxInv, SandboxTypeOK, IsCancelled
<1>5. SandboxTypeOK'
  BY <1>2, <1>4 DEF SandboxInv, SandboxTypeOK, DockerTypeOK, Cancel
<1>6. decided[r] = "completed" /\ EndedByItself(r) => EndedByItself(r)'
  BY <1>2, SandboxNoneAssumption DEF Cancel, EndedByItself, DockerSteady, Outcome
<1>7. SessionRunInv(r)' /\ ResultRunInv(r)'
  BY <1>1, <1>2, <1>4, <1>6 DEF Cancel, SessionRunInv, ResultRunInv
<1>8. ASSUME NEW s \in Runs, s # r PROVE SessionRunInv(s)' /\ ResultRunInv(s)'
  <2>1. Undisturbed(s)
    BY <1>2, <1>3, <1>8 DEF Undisturbed, Cancel, SandboxInv, SandboxTypeOK
  <2> QED
    BY <1>2, <2>1, UndisturbedRuns DEF SandboxInv, SandboxTypeOK
<1> QED
  BY <1>2, <1>5, <1>7, <1>8 DEF SandboxInv

\* A call that comes after a cancellation or the deadline settles at once.
LEMMA ResultKeepsInv ==
  ASSUME SandboxInv, NEW r \in Runs, Result(r)
  PROVE  SandboxInv'
<1>1. SessionRunInv(r) /\ ResultRunInv(r) /\ client[r] # "absent" /\ result[r] = None
  BY DEF Result, SandboxInv, SessionRunInv
<1>2. CASE IsCancelled(r)
  <2>1. Settle(r, "cancelled") /\ Kill(r) /\ UNCHANGED <<expired, reason, result, in_time>>
    BY <1>2 DEF Result
  <2> QED
    BY <1>1, <1>2, <2>1, SettleKeepsInv
<1>3. CASE ~IsCancelled(r) /\ r \in expired
  <2>1. Settle(r, "timed_out") /\ Kill(r) /\ UNCHANGED <<expired, reason, result, in_time>>
    BY <1>3 DEF Result
  <2> QED
    BY <1>1, <1>3, <2>1, SettleKeepsInv
<1>4. CASE ~IsCancelled(r) /\ r \notin expired
  <2>1. /\ call' = [call EXCEPT ![r] = "waiting"]
        /\ UNCHANGED <<dockerVars, expired, decided, reason, result, in_time>>
    BY <1>4 DEF Result
  <2>2. SandboxTypeOK'
    BY <2>1 DEF SandboxInv, SandboxTypeOK, dockerVars
  <2>3. call'[r] = "waiting"
    BY <2>1 DEF SandboxInv, SandboxTypeOK
  <2>4. SessionRunInv(r)' /\ ResultRunInv(r)'
    BY <1>1, <1>4, <2>1, <2>3 DEF SessionRunInv, ResultRunInv, dockerVars, IsCancelled
  <2>5. \A s \in Runs \ {r} : Undisturbed(s)
    BY <2>1 DEF Undisturbed, SandboxInv, SandboxTypeOK, dockerVars
  <2> QED
    BY <2>1, <2>2, <2>4, <2>5, QuietStep
<1> QED
  BY <1>2, <1>3, <1>4

\* Every way out of a wait.
LEMMA AwaitKeepsInv ==
  ASSUME SandboxInv, NEW r \in Runs, Await(r)
  PROVE  SandboxInv'
<1>1. CASE WaitTimesOut(r)
  <2>1. client[r] # "absent" /\ result[r] = None
    BY <1>1 DEF WaitTimesOut, SandboxInv, SessionRunInv
  <2> QED
    BY <1>1, <2>1, SettleKeepsInv DEF WaitTimesOut
<1> QED
  BY <1>1, WaitReturnsKeepsInv, SettledKeepsInv DEF Await

\* A step that touches no session and nothing of Docker's.
LEMMA SandboxStutter ==
  ASSUME SandboxInv, UNCHANGED sandboxVars
  PROVE  SandboxInv'
BY DEF SandboxInv, sandboxVars, dockerVars, sessionVars, SandboxTypeOK, DockerInv,
       DockerRunInv, Running, SessionRunInv, EndedByItself, ResultRunInv

------------------------------------------------------------------------------
(* Batches. *)

\* The sessions of all runs but one are as they were.
OnlyRun(r) ==
  \A s \in Runs \ {r} :
    call'[s] = call[s] /\ result'[s] = result[s] /\ reason'[s] = reason[s]

\* The checks of a batch have runs.
LEMMA BatchRuns ==
  ASSUME NEW b \in Batches, NEW i \in DOMAIN Checks
  PROVE  Run(b, i) \in Runs
BY BatchRunsAssumption DEF Run

\* A result that is one more than before.
LEMMA Reported ==
  ASSUME BatchTypeOK, NEW b \in Batches, NEW outcome \in CheckOutcome, Report(b, outcome)
  PROVE  /\ results' \in [Batches -> Seq(CheckOutcome)]
         /\ \A c \in Batches \ {b} : results'[c] = results[c]
         /\ Len(results[b]) \in Nat /\ Len(results'[b]) = Len(results[b]) + 1
         /\ DOMAIN results[b] = 1..Len(results[b])
         /\ DOMAIN results'[b] = DOMAIN results[b] \cup {Index(b)}
         /\ \A i \in DOMAIN results[b] : results'[b][i] = results[b][i]
         /\ results'[b][Index(b)] = outcome
<1>1. results[b] \in Seq(CheckOutcome) /\ results'[b] = Append(results[b], outcome)
  BY DEF BatchTypeOK, Report
<1>2. results' \in [Batches -> Seq(CheckOutcome)]
  BY <1>1 DEF BatchTypeOK, Report
<1> QED
  BY <1>1, <1>2 DEF Report, Index, BatchTypeOK

\* A batch that a step is not about.
LEMMA UndisturbedBatches ==
  ASSUME NEW c \in Batches, BatchOneInv(c), results[c] \in Seq(CheckOutcome),
         batch'[c] = batch[c], results'[c] = results[c],
         already_cancelled'[c] = already_cancelled[c],
         \A i \in DOMAIN Checks :
           /\ call'[Run(c, i)] = call[Run(c, i)] /\ result'[Run(c, i)] = result[Run(c, i)]
           /\ reason'[Run(c, i)] = reason[Run(c, i)]
  PROVE  BatchOneInv(c)'
<1>1. DOMAIN results[c] \subseteq DOMAIN Checks
  BY ChecksAssumption DEF BatchOneInv
<1> QED
  BY <1>1 DEF BatchOneInv, Index, Current

\* The steps of a batch and of direct users touch one session.
LEMMA SandboxFrames ==
  ASSUME SandboxInv, NEW r \in Runs
  PROVE  /\ StartBlocked(r) => OnlyRun(r) /\ reason' = reason
         /\ \A next : Launch(r, next) => OnlyRun(r) /\ reason' = reason /\ result' = result
         /\ Result(r) => OnlyRun(r)
         /\ Await(r) => /\ OnlyRun(r) /\ reason' = reason
                        /\ call'[r] \in {"settling", "reading"}
         /\ Finish(r) => OnlyRun(r) /\ reason' = reason /\ call'[r] = "started"
         /\ Interrupt(r) => OnlyRun(r) /\ reason' = reason /\ result' = result
         /\ Cancel(r) => OnlyRun(r)
<1> USE DEF SandboxInv, SandboxTypeOK, OnlyRun
<1>1. StartBlocked(r) => OnlyRun(r) /\ reason' = reason
  BY DEF StartBlocked
<1>2. \A next : Launch(r, next) => OnlyRun(r) /\ reason' = reason /\ result' = result
  BY DEF Launch
<1>3. Result(r) => OnlyRun(r)
  BY DEF Result, Settle
<1>4. Await(r) => OnlyRun(r) /\ reason' = reason /\ call'[r] \in {"settling", "reading"}
  BY DEF Await, WaitReturns, WaitTimesOut, Settled, Settle
<1>5. Finish(r) => OnlyRun(r) /\ reason' = reason /\ call'[r] = "started"
  BY DEF Finish
<1>6. Interrupt(r) => OnlyRun(r) /\ reason' = reason /\ result' = result
  BY DEF Interrupt
<1>7. Cancel(r) => OnlyRun(r)
  BY DEF Cancel
<1> QED
  BY <1>1, <1>2, <1>3, <1>4, <1>5, <1>6, <1>7

\* A step of batch b, which touches at most the session of its current check.
LEMMA OneBatch ==
  ASSUME BatchTypeOK, \A c \in Batches : BatchOneInv(c), NEW b \in Batches,
         OnlyRun(Current(b)), BatchOneInv(b)',
         \A c \in Batches \ {b} :
           /\ batch'[c] = batch[c] /\ results'[c] = results[c]
           /\ already_cancelled'[c] = already_cancelled[c]
  PROVE  \A c \in Batches : BatchOneInv(c)'
<1> SUFFICES ASSUME NEW c \in Batches, c # b PROVE BatchOneInv(c)'
  OBVIOUS
<1>1. \A i \in DOMAIN Checks :
        /\ call'[Run(c, i)] = call[Run(c, i)] /\ result'[Run(c, i)] = result[Run(c, i)]
        /\ reason'[Run(c, i)] = reason[Run(c, i)]
  BY BatchRuns DEF OnlyRun, Current, Run
<1> QED
  BY <1>1, UndisturbedBatches DEF BatchTypeOK

\* One more result of a check for which nothing was started.
LEMMA NotStarted ==
  ASSUME ChecksInv, NEW b \in Batches, NEW outcome \in {"skipped", "unavailable"},
         IsNext(b), Report(b, outcome), UNCHANGED <<sandboxVars, batch>>,
         already_cancelled' \in [Batches -> BOOLEAN],
         \A c \in Batches \ {b} : already_cancelled'[c] = already_cancelled[c],
         already_cancelled'[b] = (already_cancelled[b] \/ outcome = "skipped"),
         cancellation' = cancellation
  PROVE  BatchTypeOK' /\ \A c \in Batches : BatchOneInv(c)'
<1>1. /\ results' \in [Batches -> Seq(CheckOutcome)]
      /\ \A c \in Batches \ {b} : results'[c] = results[c]
      /\ Len(results[b]) \in Nat /\ Len(results'[b]) = Len(results[b]) + 1
      /\ DOMAIN results[b] = 1..Len(results[b])
      /\ DOMAIN results'[b] = DOMAIN results[b] \cup {Index(b)}
      /\ \A i \in DOMAIN results[b] : results'[b][i] = results[b][i]
      /\ results'[b][Index(b)] = outcome
  BY Reported DEF ChecksInv, CheckOutcome
<1>2. BatchTypeOK'
  BY <1>1 DEF ChecksInv, BatchTypeOK
<1>3. OnlyRun(Current(b)) /\ UNCHANGED <<call, result, reason>>
  BY DEF OnlyRun, sandboxVars, sessionVars
<1>4. Index(b) \in DOMAIN Checks /\ DOMAIN Checks = 1..Len(Checks) /\ Len(Checks) \in Nat
  BY ChecksAssumption DEF IsNext
<1>5. BatchOneInv(b) /\ batch[b] = "checking" /\ call[Run(b, Index(b))] = "unstarted"
  BY <1>4 DEF ChecksInv, BatchOneInv, IsNext
<1>6. BatchOneInv(b)'
  <2>1. Index(b)' = Index(b) + 1 /\ Index(b) = Len(results[b]) + 1
    BY <1>1 DEF Index
  <2>2. Len(results'[b]) <= Len(Checks)
    BY <1>1, <1>4 DEF Index
  <2>3. \A i \in DOMAIN Checks :
          /\ reason'[Run(b, i)] = None
          /\ i > Index(b)' \/ (i = Index(b)' /\ batch'[b] = "checking") =>
               call'[Run(b, i)] = "unstarted"
    BY <1>1, <1>3, <1>4, <1>5, <2>1 DEF BatchOneInv
  <2>4. \A i \in DOMAIN results'[b] :
          \/ /\ results'[b][i] \in {"skipped", "unavailable"}
             /\ call'[Run(b, i)] = "unstarted"
          \/ /\ result'[Run(b, i)] # None
             /\ results'[b][i] = CheckOutcomeOf(result'[Run(b, i)])
    BY <1>1, <1>3, <1>5 DEF BatchOneInv
  <2>5. ASSUME NEW i \in DOMAIN results'[b], results'[b][i] = "skipped"
        PROVE  /\ already_cancelled'[b]
               /\ \A j \in DOMAIN results'[b] :
                    i < j => results'[b][j] \in {"skipped", "unavailable"}
    <3>1. CASE i = Index(b)
      BY <1>1, <2>1, <2>5, <3>1
    <3>2. CASE i # Index(b)
      <4>1. i \in DOMAIN results[b] /\ results[b][i] = "skipped"
        BY <1>1, <2>5, <3>2
      <4>2. already_cancelled[b] /\ \A j \in DOMAIN results[b] :
              i < j => results[b][j] \in {"skipped", "unavailable"}
        BY <1>5, <4>1 DEF BatchOneInv
      <4> QED
        BY <1>1, <4>2
    <3> QED
      BY <3>1, <3>2
  <2> QED
    BY <1>5, <2>2, <2>3, <2>4, <2>5 DEF BatchOneInv
<1>7. \A c \in Batches \ {b} :
        /\ batch'[c] = batch[c] /\ results'[c] = results[c]
        /\ already_cancelled'[c] = already_cancelled[c]
  BY <1>1
<1>8. BatchTypeOK /\ \A c \in Batches : BatchOneInv(c)
  BY DEF ChecksInv
<1> QED
  BY <1>2, <1>3, <1>6, <1>7, <1>8, OneBatch

\* One more result of a check that went to the sandbox.
LEMMA Checked ==
  ASSUME ChecksInv, NEW b \in Batches, NEW settled \in SandboxResult,
         Index(b) \in DOMAIN Checks, ~already_cancelled[b],
         settled.outcome # "cancelled",
         OnlyRun(Current(b)), reason' = reason, result'[Current(b)] = settled,
         Report(b, CheckOutcomeOf(settled)),
         batch' \in [Batches -> {"checking", "awaiting", "returned", "raised"}],
         \A c \in Batches \ {b} : batch'[c] = batch[c], batch'[b] = "checking",
         UNCHANGED <<already_cancelled, cancellation>>
  PROVE  BatchTypeOK' /\ \A c \in Batches : BatchOneInv(c)'
<1>1. settled.outcome \in Outcome /\ settled # None
  BY SandboxNoneAssumption DEF SandboxResult, Outcome
<1>2. CheckOutcomeOf(settled) \in CheckOutcome \ {"skipped"}
  BY <1>1 DEF CheckOutcomeOf, CheckOutcome, Outcome
<1>3. /\ results' \in [Batches -> Seq(CheckOutcome)]
      /\ \A c \in Batches \ {b} : results'[c] = results[c]
      /\ Len(results[b]) \in Nat /\ Len(results'[b]) = Len(results[b]) + 1
      /\ DOMAIN results[b] = 1..Len(results[b])
      /\ DOMAIN results'[b] = DOMAIN results[b] \cup {Index(b)}
      /\ \A i \in DOMAIN results[b] : results'[b][i] = results[b][i]
      /\ results'[b][Index(b)] = CheckOutcomeOf(settled)
  BY <1>2, Reported DEF ChecksInv
<1>4. BatchTypeOK'
  BY <1>3 DEF ChecksInv, BatchTypeOK
<1>5. DOMAIN Checks = 1..Len(Checks) /\ Len(Checks) \in Nat /\ BatchOneInv(b)
  BY ChecksAssumption DEF ChecksInv
<1>6. \A i \in DOMAIN Checks : i # Index(b) =>
        call'[Run(b, i)] = call[Run(b, i)] /\ result'[Run(b, i)] = result[Run(b, i)]
  BY BatchRuns DEF OnlyRun, Current, Run
<1>7. BatchOneInv(b)'
  <2>1. Index(b)' = Index(b) + 1 /\ Index(b) = Len(results[b]) + 1
    BY <1>3 DEF Index
  <2>2. Len(results'[b]) <= Len(Checks)
    BY <1>3, <1>5, <2>1
  <2>3. \A i \in DOMAIN Checks :
          /\ reason'[Run(b, i)] = None
          /\ i > Index(b)' \/ (i = Index(b)' /\ batch'[b] = "checking") =>
               call'[Run(b, i)] = "unstarted"
    BY <1>5, <1>6, <1>3, <2>1 DEF BatchOneInv
  <2>4. \A i \in DOMAIN results'[b] :
          \/ /\ results'[b][i] \in {"skipped", "unavailable"}
             /\ call'[Run(b, i)] = "unstarted"
          \/ /\ result'[Run(b, i)] # None
             /\ results'[b][i] = CheckOutcomeOf(result'[Run(b, i)])
    <3> SUFFICES ASSUME NEW i \in DOMAIN results'[b]
                 PROVE  \/ /\ results'[b][i] \in {"skipped", "unavailable"}
                           /\ call'[Run(b, i)] = "unstarted"
                        \/ /\ result'[Run(b, i)] # None
                           /\ results'[b][i] = CheckOutcomeOf(result'[Run(b, i)])
      OBVIOUS
    <3>1. CASE i = Index(b)
      BY <1>1, <1>3, <3>1 DEF Current
    <3>2. CASE i # Index(b)
      <4>1. i \in DOMAIN results[b] /\ i \in DOMAIN Checks
        BY <1>3, <1>5, <2>1, <3>2
      <4>2. call'[Run(b, i)] = call[Run(b, i)] /\ result'[Run(b, i)] = result[Run(b, i)]
        BY <1>6, <3>2, <4>1
      <4> QED
        BY <1>3, <1>5, <4>1, <4>2 DEF BatchOneInv
    <3> QED
      BY <3>1, <3>2
  <2>5. \A i \in DOMAIN results'[b] : results'[b][i] # "skipped"
    BY <1>2, <1>3, <1>5 DEF BatchOneInv
  <2> QED
    BY <2>2, <2>3, <2>4, <2>5 DEF BatchOneInv
<1>8. \A c \in Batches \ {b} :
        /\ batch'[c] = batch[c] /\ results'[c] = results[c]
        /\ already_cancelled'[c] = already_cancelled[c]
  BY <1>3
<1>9. BatchTypeOK /\ \A c \in Batches : BatchOneInv(c)
  BY DEF ChecksInv
<1> QED
  BY <1>4, <1>7, <1>8, <1>9, OneBatch

\* A step that leaves the results of every batch as they are.
LEMMA NoReport ==
  ASSUME ChecksInv, NEW b \in Batches, OnlyRun(Current(b)), reason' = reason,
         \A i \in DOMAIN results[b] : result'[Run(b, i)] = result[Run(b, i)],
         Index(b) \in DOMAIN Checks, ~already_cancelled[b],
         batch' \in [Batches -> {"checking", "awaiting", "returned", "raised"}],
         \A c \in Batches \ {b} : batch'[c] = batch[c],
         batch'[b] \in {"awaiting", "raised"},
         batch'[b] = "awaiting" =>
           call'[Current(b)] \in {"waiting", "settling", "reading"},
         UNCHANGED <<results, already_cancelled, cancellation>>
  PROVE  BatchTypeOK' /\ \A c \in Batches : BatchOneInv(c)'
<1>1. BatchTypeOK /\ BatchTypeOK' /\ \A c \in Batches : BatchOneInv(c)
  BY DEF ChecksInv, BatchTypeOK
<1>2. /\ DOMAIN Checks = 1..Len(Checks) /\ Len(Checks) \in Nat
      /\ DOMAIN results[b] = 1..Len(results[b]) /\ Len(results[b]) \in Nat
      /\ Index(b) = Len(results[b]) + 1 /\ Index(b)' = Index(b)
  BY <1>1, ChecksAssumption DEF BatchTypeOK, Index
<1>3. \A i \in DOMAIN Checks : i # Index(b) =>
        call'[Run(b, i)] = call[Run(b, i)] /\ result'[Run(b, i)] = result[Run(b, i)]
  BY BatchRuns DEF OnlyRun, Current, Run
<1>4. BatchOneInv(b)'
  <2>1. \A i \in DOMAIN Checks :
          /\ reason'[Run(b, i)] = None
          /\ i > Index(b)' \/ (i = Index(b)' /\ batch'[b] = "checking") =>
               call'[Run(b, i)] = "unstarted"
    BY <1>1, <1>2, <1>3 DEF BatchOneInv
  <2>2. \A i \in DOMAIN results[b] : i \in DOMAIN Checks /\ i # Index(b)
    BY <1>1, <1>2
  <2>3. \A i \in DOMAIN results[b] :
          \/ /\ results[b][i] \in {"skipped", "unavailable"}
             /\ call'[Run(b, i)] = "unstarted"
          \/ /\ result'[Run(b, i)] # None
             /\ results[b][i] = CheckOutcomeOf(result'[Run(b, i)])
    BY <1>1, <1>3, <2>2 DEF BatchOneInv
  <2>4. Current(b)' = Current(b)
    BY <1>2 DEF Current, Run
  <2> QED
    BY <1>1, <1>2, <2>1, <2>3, <2>4 DEF BatchOneInv
<1>5. \A c \in Batches \ {b} :
        /\ batch'[c] = batch[c] /\ results'[c] = results[c]
        /\ already_cancelled'[c] = already_cancelled[c]
  OBVIOUS
<1> QED
  BY <1>1, <1>4, <1>5, OneBatch

\* Steps that touch no session of a batch.
LEMMA OutsideBatches ==
  ASSUME ChecksInv, UNCHANGED <<batch, results, already_cancelled>>,
         cancellation' \in [Batches -> BOOLEAN],
         \A b \in Batches, i \in DOMAIN Checks :
           /\ call'[Run(b, i)] = call[Run(b, i)] /\ result'[Run(b, i)] = result[Run(b, i)]
           /\ reason'[Run(b, i)] = reason[Run(b, i)]
  PROVE  BatchTypeOK' /\ \A c \in Batches : BatchOneInv(c)'
<1>1. BatchTypeOK /\ BatchTypeOK' /\ \A c \in Batches : BatchOneInv(c)
  BY DEF ChecksInv, BatchTypeOK
<1>2. ASSUME NEW c \in Batches PROVE BatchOneInv(c)'
  BY <1>1, UndisturbedBatches DEF BatchTypeOK
<1> QED
  BY <1>1, <1>2

\* What the invariant says of the check that a batch is at.
LEMMA AtCheck ==
  ASSUME ChecksInv, NEW b \in Batches, Index(b) \in DOMAIN Checks
  PROVE  /\ Current(b) \in Runs /\ reason[Current(b)] = None
         /\ \A i \in DOMAIN results[b] :
              /\ i \in DOMAIN Checks /\ i # Index(b)
              /\ Run(b, i) \in Runs /\ Run(b, i) # Current(b)
<1>1. /\ DOMAIN Checks = 1..Len(Checks) /\ Len(Checks) \in Nat
      /\ DOMAIN results[b] = 1..Len(results[b]) /\ Len(results[b]) \in Nat
      /\ BatchOneInv(b)
  BY ChecksAssumption DEF ChecksInv, BatchTypeOK
<1>2. Current(b) \in Runs /\ reason[Current(b)] = None
  BY <1>1, BatchRuns DEF BatchOneInv, Current
<1>3. \A i \in DOMAIN results[b] : i \in DOMAIN Checks /\ i # Index(b)
  BY <1>1 DEF BatchOneInv, Index
<1> QED
  BY <1>2, <1>3, BatchRuns DEF Current, Run

\* The next check is blocked, launched, or the launcher raises.
LEMMA StartCheckKeepsInv ==
  ASSUME ChecksInv, NEW b \in Batches, StartCheck(b)
  PROVE  ChecksInv'
<1>1. /\ Index(b) \in DOMAIN Checks /\ ~already_cancelled[b] /\ batch[b] = "checking"
      /\ UNCHANGED <<already_cancelled, cancellation>>
  BY DEF StartCheck, IsNext, IsBatchCancelled
<1>2. /\ Current(b) \in Runs
      /\ \A i \in DOMAIN results[b] : Run(b, i) \in Runs \ {Current(b)}
  BY <1>1, AtCheck
<1>3. SandboxInv /\ BatchTypeOK
  BY DEF ChecksInv
<1>4. CASE StartBlocked(Current(b)) /\ Report(b, "failed") /\ UNCHANGED batch
  <2> DEFINE blocked == [outcome |-> "blocked", exit_code |-> None, reason |-> None]
  <2>1. SandboxInv'
    BY <1>2, <1>3, <1>4, StartBlockedKeepsInv
  <2>2. OnlyRun(Current(b)) /\ reason' = reason
    BY <1>2, <1>3, <1>4, SandboxFrames
  <2>3. result'[Current(b)] = blocked /\ blocked \in SandboxResult
    BY <1>2, <1>3, <1>4 DEF StartBlocked, SandboxResult, SandboxInv, SandboxTypeOK
  <2>4. CheckOutcomeOf(blocked) = "failed" /\ blocked.outcome # "cancelled"
    BY DEF CheckOutcomeOf
  <2>5. BatchTypeOK' /\ \A c \in Batches : BatchOneInv(c)'
    <3> HIDE DEF blocked
    <3> QED
      BY <1>1, <1>3, <1>4, <2>2, <2>3, <2>4, Checked DEF BatchTypeOK
  <2> QED
    BY <2>1, <2>5 DEF ChecksInv
<1>5. CASE /\ Launch(Current(b), "waiting")
           /\ batch' = [batch EXCEPT ![b] = "awaiting"] /\ UNCHANGED results
  <2>1. SandboxInv'
    BY <1>2, <1>3, <1>5, LaunchKeepsInv
  <2>2. OnlyRun(Current(b)) /\ reason' = reason /\ result' = result
    BY <1>2, <1>3, <1>5, SandboxFrames
  <2>3. call'[Current(b)] = "waiting"
    BY <1>2, <1>3, <1>5 DEF Launch, SandboxInv, SandboxTypeOK
  <2>4. BatchTypeOK' /\ \A c \in Batches : BatchOneInv(c)'
    BY <1>1, <1>3, <1>5, <2>2, <2>3, NoReport DEF BatchTypeOK
  <2> QED
    BY <2>1, <2>4 DEF ChecksInv
<1>6. CASE batch' = [batch EXCEPT ![b] = "raised"] /\ UNCHANGED <<sandboxVars, results>>
  <2>1. SandboxInv'
    BY <1>3, <1>6, SandboxStutter
  <2>2. OnlyRun(Current(b)) /\ reason' = reason /\ result' = result
    BY <1>6 DEF OnlyRun, sandboxVars, sessionVars
  <2>3. BatchTypeOK' /\ \A c \in Batches : BatchOneInv(c)'
    BY <1>1, <1>3, <1>6, <2>2, NoReport DEF BatchTypeOK
  <2> QED
    BY <2>1, <2>3 DEF ChecksInv
<1> QED
  BY <1>4, <1>5, <1>6 DEF StartCheck

\* The batch awaits the session of its own check.
LEMMA AwaitCheckKeepsInv ==
  ASSUME ChecksInv, NEW b \in Batches, AwaitCheck(b)
  PROVE  ChecksInv'
<1>1. /\ batch[b] = "awaiting" /\ Await(Current(b)) /\ UNCHANGED batchVars
      /\ SandboxInv /\ BatchTypeOK /\ BatchOneInv(b)
  BY DEF AwaitCheck, ChecksInv
<1>2. Index(b) \in DOMAIN Checks /\ ~already_cancelled[b]
  BY <1>1 DEF BatchOneInv
<1>3. /\ Current(b) \in Runs
      /\ \A i \in DOMAIN results[b] : Run(b, i) \in Runs \ {Current(b)}
  BY <1>2, AtCheck
<1>4. SandboxInv'
  BY <1>1, <1>3, AwaitKeepsInv
<1>5. /\ OnlyRun(Current(b)) /\ reason' = reason
      /\ call'[Current(b)] \in {"settling", "reading"}
  BY <1>1, <1>3, SandboxFrames
<1>6. \A i \in DOMAIN results[b] : result'[Run(b, i)] = result[Run(b, i)]
  BY <1>3, <1>5 DEF OnlyRun
<1>7. BatchTypeOK' /\ \A c \in Batches : BatchOneInv(c)'
  BY <1>1, <1>2, <1>5, <1>6, NoReport DEF BatchTypeOK, batchVars
<1> QED
  BY <1>4, <1>7 DEF ChecksInv

\* No batch cancels its session, so the session's outcome is another.
LEMMA FinishCheckKeepsInv ==
  ASSUME ChecksInv, NEW b \in Batches, FinishCheck(b)
  PROVE  ChecksInv'
<1>1. /\ batch[b] = "awaiting" /\ Finish(Current(b))
      /\ Report(b, CheckOutcomeOf(result'[Current(b)]))
      /\ batch' = [batch EXCEPT ![b] = "checking"]
      /\ UNCHANGED <<already_cancelled, cancellation>>
      /\ SandboxInv /\ BatchTypeOK /\ BatchOneInv(b)
  BY DEF FinishCheck, ChecksInv
<1>2. Index(b) \in DOMAIN Checks /\ ~already_cancelled[b]
  BY <1>1 DEF BatchOneInv
<1>3. Current(b) \in Runs /\ reason[Current(b)] = None
  BY <1>2, AtCheck
<1>4. SandboxInv' /\ result'[Current(b)] # None
  BY <1>1, <1>3, FinishKeepsInv
<1>5. OnlyRun(Current(b)) /\ reason' = reason
  BY <1>1, <1>3, SandboxFrames
<1>6. result'[Current(b)] \in SandboxResult
  BY <1>3, <1>4 DEF SandboxInv, SandboxTypeOK
<1>7. result'[Current(b)].outcome # "cancelled"
  BY <1>3, <1>4, <1>5 DEF SandboxInv, ResultRunInv
<1>8. BatchTypeOK' /\ \A c \in Batches : BatchOneInv(c)'
  BY <1>1, <1>2, <1>5, <1>6, <1>7, Checked DEF BatchTypeOK
<1> QED
  BY <1>4, <1>8 DEF ChecksInv

\* A batch that is interrupted reports nothing.
LEMMA InterruptBatchKeepsInv ==
  ASSUME ChecksInv, NEW b \in Batches, InterruptBatch(b)
  PROVE  ChecksInv'
<1>1. /\ batch[b] = "awaiting" /\ Interrupt(Current(b))
      /\ batch' = [batch EXCEPT ![b] = "raised"]
      /\ UNCHANGED <<results, already_cancelled, cancellation>>
      /\ SandboxInv /\ BatchTypeOK /\ BatchOneInv(b)
  BY DEF InterruptBatch, ChecksInv
<1>2. Index(b) \in DOMAIN Checks /\ ~already_cancelled[b]
  BY <1>1 DEF BatchOneInv
<1>3. Current(b) \in Runs
  BY <1>2, AtCheck
<1>4. SandboxInv'
  BY <1>1, <1>3, InterruptKeepsInv
<1>5. OnlyRun(Current(b)) /\ reason' = reason /\ result' = result
  BY <1>1, <1>3, SandboxFrames
<1>6. BatchTypeOK' /\ \A c \in Batches : BatchOneInv(c)'
  BY <1>1, <1>2, <1>5, NoReport DEF BatchTypeOK
<1> QED
  BY <1>4, <1>6 DEF ChecksInv

\* A batch returns what it has reported.
LEMMA ReturnResultsKeepsInv ==
  ASSUME ChecksInv, NEW b \in Batches, ReturnResults(b)
  PROVE  ChecksInv'
<1>1. /\ batch[b] = "checking" /\ Len(results[b]) = Len(Checks)
      /\ batch' = [batch EXCEPT ![b] = "returned"]
      /\ UNCHANGED <<sandboxVars, results, already_cancelled, cancellation>>
      /\ SandboxInv /\ BatchTypeOK /\ \A c \in Batches : BatchOneInv(c)
  BY DEF ReturnResults, ChecksInv
<1>2. SandboxInv'
  BY <1>1, SandboxStutter
<1>3. BatchTypeOK' /\ batch'[b] = "returned" /\ \A c \in Batches \ {b} : batch'[c] = batch[c]
  BY <1>1 DEF BatchTypeOK
<1>4. OnlyRun(Current(b)) /\ UNCHANGED <<call, result, reason>>
  BY <1>1 DEF OnlyRun, sandboxVars, sessionVars
<1>5. BatchOneInv(b)'
  <2>1. Index(b)' = Index(b) /\ Current(b)' = Current(b)
    BY <1>1 DEF Index, Current
  <2> QED
    BY <1>1, <1>3, <1>4, <2>1 DEF BatchOneInv
<1>6. \A c \in Batches \ {b} :
        /\ batch'[c] = batch[c] /\ results'[c] = results[c]
        /\ already_cancelled'[c] = already_cancelled[c]
  BY <1>1, <1>3
<1> QED
  BY <1>1, <1>2, <1>3, <1>4, <1>5, <1>6, OneBatch DEF ChecksInv

\* A step of a batch keeps the invariant.
LEMMA BatchStepKeepsInv ==
  ASSUME ChecksInv, NEW b \in Batches, BatchStep(b)
  PROVE  ChecksInv'
<1>1. SandboxInv /\ BatchTypeOK
  BY DEF ChecksInv
<1>2. CASE Unavailable(b)
  <2>1. SandboxInv'
    BY <1>1, <1>2, SandboxStutter DEF Unavailable
  <2>2. BatchTypeOK' /\ \A c \in Batches : BatchOneInv(c)'
    BY <1>1, <1>2, NotStarted DEF Unavailable, BatchTypeOK
  <2> QED
    BY <2>1, <2>2 DEF ChecksInv
<1>3. CASE Skip(b)
  <2>1. SandboxInv'
    BY <1>1, <1>3, SandboxStutter DEF Skip
  <2>2. already_cancelled' \in [Batches -> BOOLEAN] /\ already_cancelled'[b]
    BY <1>1, <1>3 DEF Skip, BatchTypeOK
  <2>3. BatchTypeOK' /\ \A c \in Batches : BatchOneInv(c)'
    BY <1>1, <1>3, <2>2, NotStarted DEF Skip, BatchTypeOK
  <2> QED
    BY <2>1, <2>3 DEF ChecksInv
<1> QED
  BY <1>2, <1>3, StartCheckKeepsInv, AwaitCheckKeepsInv, FinishCheckKeepsInv,
     ReturnResultsKeepsInv DEF BatchStep

\* Runs that somebody else started are not those of a batch.
LEMMA DirectStepKeepsInv ==
  ASSUME ChecksInv, NEW r \in Direct, DirectStep(r)
  PROVE  ChecksInv'
<1>1. SandboxInv /\ BatchTypeOK /\ r \in Runs /\ UNCHANGED batchVars
  BY DEF ChecksInv, Direct, DirectStep
<1>2. SandboxInv'
  BY <1>1, StartBlockedKeepsInv, LaunchKeepsInv, ResultKeepsInv, AwaitKeepsInv,
     FinishKeepsInv, CancelKeepsInv DEF DirectStep
<1>3. OnlyRun(r)
  BY <1>1, SandboxFrames DEF DirectStep
<1>4. \A b \in Batches, i \in DOMAIN Checks :
        /\ call'[Run(b, i)] = call[Run(b, i)] /\ result'[Run(b, i)] = result[Run(b, i)]
        /\ reason'[Run(b, i)] = reason[Run(b, i)]
  <2> SUFFICES ASSUME NEW b \in Batches, NEW i \in DOMAIN Checks
               PROVE  Run(b, i) \in Runs \ {r}
    BY <1>3 DEF OnlyRun
  <2> QED
    BY BatchRuns DEF Direct, Run
<1>5. BatchTypeOK' /\ \A c \in Batches : BatchOneInv(c)'
  BY <1>1, <1>4, OutsideBatches DEF BatchTypeOK, batchVars
<1> QED
  BY <1>2, <1>5 DEF ChecksInv

\* Docker and the clock touch no session and no batch.
LEMMA EnvironmentStepKeepsInv ==
  ASSUME ChecksInv, NEW r \in Runs, EnvironmentStep(r)
  PROVE  ChecksInv'
<1>1. SandboxInv /\ BatchTypeOK /\ Environment(r) /\ UNCHANGED batchVars
  BY DEF ChecksInv, EnvironmentStep
<1>2. SandboxInv'
  BY <1>1, EnvironmentKeepsInv
<1>3. UNCHANGED <<call, result, reason>>
  BY <1>1, DaemonStep DEF SandboxInv, sessionVars
<1>4. BatchTypeOK' /\ \A c \in Batches : BatchOneInv(c)'
  BY <1>1, <1>3, OutsideBatches DEF BatchTypeOK, batchVars
<1> QED
  BY <1>2, <1>4 DEF ChecksInv

------------------------------------------------------------------------------
(* Theorems. *)

\* Nothing has been started.
LEMMA ChecksInitial == Init => ChecksInv
<1> SUFFICES ASSUME Init PROVE ChecksInv
  OBVIOUS
<1> USE DEF Init, SandboxInit
<1>1. SandboxTypeOK
  BY SandboxNoneAssumption DEF SandboxTypeOK
<1>2. DockerInv
  BY NameOfAssumption, SandboxNoneAssumption DEF DockerInv, DockerRunInv, Running, Status
<1>3. \A r \in Runs : SessionRunInv(r) /\ ResultRunInv(r)
  BY SandboxNoneAssumption DEF SessionRunInv, ResultRunInv, Outcome
<1>4. BatchTypeOK
  BY DEF BatchTypeOK
<1>5. ASSUME NEW b \in Batches PROVE BatchOneInv(b)
  <2>1. results[b] = <<>> /\ Len(Checks) \in Nat /\ batch[b] = "checking"
    BY ChecksAssumption
  <2>2. \A i \in DOMAIN Checks : reason[Run(b, i)] = None /\ call[Run(b, i)] = "unstarted"
    BY BatchRuns
  <2> QED
    BY <2>1, <2>2 DEF BatchOneInv
<1> QED
  BY <1>1, <1>2, <1>3, <1>4, <1>5 DEF ChecksInv, SandboxInv

\* Every step of batches, direct users, Docker and the clock keeps the invariant.
LEMMA ChecksStep == ChecksInv /\ [Next]_vars => ChecksInv'
<1> SUFFICES ASSUME ChecksInv, [Next]_vars PROVE ChecksInv'
  OBVIOUS
<1>1. ASSUME NEW b \in Batches, SetCancellation(b) PROVE ChecksInv'
  <2>1. UNCHANGED <<sandboxVars, batch, results, already_cancelled>>
    BY <1>1 DEF SetCancellation
  <2>2. SandboxInv'
    BY <2>1, SandboxStutter DEF ChecksInv
  <2>3. cancellation' \in [Batches -> BOOLEAN]
    BY <1>1 DEF SetCancellation, ChecksInv, BatchTypeOK
  <2>4. BatchTypeOK' /\ \A c \in Batches : BatchOneInv(c)'
    BY <2>1, <2>3, OutsideBatches DEF sandboxVars, sessionVars
  <2> QED
    BY <2>2, <2>4 DEF ChecksInv
<1>2. CASE UNCHANGED vars
  <2>1. SandboxInv'
    BY <1>2, SandboxStutter DEF ChecksInv, vars
  <2>2. BatchTypeOK' /\ \A c \in Batches : BatchOneInv(c)'
    BY <1>2, OutsideBatches DEF ChecksInv, BatchTypeOK, vars, batchVars, sandboxVars,
       sessionVars
  <2> QED
    BY <2>1, <2>2 DEF ChecksInv
<1> QED
  BY <1>1, <1>2, BatchStepKeepsInv, InterruptBatchKeepsInv, DirectStepKeepsInv,
     EnvironmentStepKeepsInv DEF Next

\* The invariant of sandboxed runs and batches holds in every reachable state:
\* what docker_sandbox.py knows of a run is what has happened to its container,
\* and what quality_checks.py has reported is made from that.
THEOREM ChecksInvariance == Spec => []ChecksInv
<1>1. Init => ChecksInv
  BY ChecksInitial
<1>2. ChecksInv /\ [Next]_vars => ChecksInv'
  BY ChecksStep
<1> QED
  BY <1>1, <1>2, PTL DEF Spec

\* Every variable keeps its type; in particular a settled result is one that
\* SandboxResult.__post_init__ accepts.
THEOREM ChecksTypeCorrect == Spec => []TypeOK
<1>1. ChecksInv => TypeOK
  BY DEF ChecksInv, SandboxInv, BatchTypeOK, TypeOK
<1> QED
  BY <1>1, ChecksInvariance, PTL

\* Once SandboxSession.result() has returned, the container is gone unless
\* docker kill missed it, and a completed run has its own command's status.
THEOREM ResultsStayFinal == Spec => []ResultsAreFinal
<1>1. ChecksInv => ResultsAreFinal
  <2> SUFFICES ASSUME ChecksInv, NEW r \in Runs, result[r] # None
               PROVE  /\ Running(r) => r \in missed
                      /\ result[r].outcome = "completed" =>
                           fate[r] = IF result[r].exit_code = "refused" THEN None
                                     ELSE result[r].exit_code
    BY DEF ResultsAreFinal
  <2>1. ResultRunInv(r) /\ DockerRunInv(r)
    BY DEF ChecksInv, SandboxInv, DockerInv
  <2> QED
    BY <2>1 DEF ResultRunInv, DockerRunInv, EndedByItself
<1> QED
  BY <1>1, ChecksInvariance, PTL

\* A run that SandboxSession.cancel reaches before its outcome is decided is
\* not reported as completed.
THEOREM CancellationsAreAnswered == Spec => []CancellationsCount
<1>1. ChecksInv => CancellationsCount
  BY DEF ChecksInv, SandboxInv, ResultRunInv, EndedByItself, CancellationsCount
<1> QED
  BY <1>1, ChecksInvariance, PTL

\* run_checks reports of each check what happened to the check's own container.
THEOREM VerdictsStayTrue == Spec => []VerdictsAreTrue
<1>1. ChecksInv => VerdictsAreTrue
  <2> SUFFICES ASSUME ChecksInv, NEW b \in Batches, NEW i \in DOMAIN results[b]
               PROVE  CASE results[b][i] = "passed" -> fate[Run(b, i)] = "zero"
                        [] results[b][i] = "failed" -> fate[Run(b, i)] # "zero"
                        [] results[b][i] = "timed_out" -> Run(b, i) \in expired
                        [] OTHER -> client[Run(b, i)] = "absent"
    BY DEF VerdictsAreTrue
  <2> DEFINE run == Run(b, i)
  <2>1. BatchOneInv(b) /\ i \in DOMAIN Checks
    BY ChecksAssumption DEF ChecksInv, BatchOneInv, BatchTypeOK
  <2>2. run \in Runs /\ reason[run] = None
    BY <2>1, BatchRuns DEF BatchOneInv
  <2>3. DockerRunInv(run) /\ SessionRunInv(run) /\ ResultRunInv(run)
    BY <2>2 DEF ChecksInv, SandboxInv, DockerInv
  <2> HIDE DEF run
  <2>4. CASE results[b][i] \in {"skipped", "unavailable"} /\ call[run] = "unstarted"
    BY <2>3, <2>4 DEF SessionRunInv, run
  <2>5. CASE result[run] # None /\ results[b][i] = CheckOutcomeOf(result[run])
    <3>1. result[run] \in SandboxResult
      BY <2>2, <2>5 DEF ChecksInv, SandboxInv, SandboxTypeOK
    <3>2. result[run].outcome \in Outcome \ {"cancelled"}
      BY <2>2, <2>3, <2>5, <3>1 DEF ResultRunInv, SandboxResult, Outcome
    <3>3. CASE result[run].outcome = "completed"
      <4>1. EndedByItself(run) /\ result[run].exit_code = exit_code[run]
        BY <2>3, <2>5, <3>3 DEF ResultRunInv
      <4>2. results[b][i] = IF exit_code[run] = "zero" THEN "passed" ELSE "failed"
        BY <2>5, <3>3, <4>1 DEF CheckOutcomeOf
      <4> QED
        BY <4>1, <4>2, SandboxNoneAssumption DEF EndedByItself, Status, run
    <3>4. CASE result[run].outcome = "timed_out"
      <4>1. results[b][i] = "timed_out" /\ run \in expired
        BY <2>3, <2>5, <3>4 DEF CheckOutcomeOf, ResultRunInv
      <4> QED
        BY <4>1 DEF run
    <3>5. CASE result[run].outcome = "blocked"
      <4>1. results[b][i] = "failed" /\ client[run] = "absent"
        BY <2>3, <2>5, <3>5 DEF CheckOutcomeOf, ResultRunInv
      <4>2. fate[run] # "zero"
        BY <2>3, <4>1, SandboxNoneAssumption DEF DockerRunInv, Status
      <4> QED
        BY <4>1, <4>2 DEF run
    <3> QED
      BY <3>2, <3>3, <3>4, <3>5 DEF Outcome
  <2> QED
    BY <2>1, <2>4, <2>5 DEF BatchOneInv, run
<1> QED
  BY <1>1, ChecksInvariance, PTL

\* After run_checks has skipped a check it starts no later one, even when its
\* caller clears the event again.
THEOREM CancelledBatchesStayStopped == Spec => []CancelledBatchesStop
<1>1. ChecksInv => CancelledBatchesStop
  BY DEF ChecksInv, BatchOneInv, CancelledBatchesStop
<1> QED
  BY <1>1, ChecksInvariance, PTL

\* run_checks has at most one container at a time, that of the check it awaits,
\* and leaves none behind when it returns: only a batch that was given up leaves
\* the container of its check, and only a kill that missed leaves another.
THEOREM ContainersGo == Spec => []ContainersAreGone
<1>1. ChecksInv => ContainersAreGone
  <2> SUFFICES ASSUME ChecksInv, NEW b \in Batches, NEW i \in DOMAIN Checks,
                      Running(Run(b, i)), Run(b, i) \notin missed
               PROVE  i = Index(b) /\ batch[b] \in {"awaiting", "raised"}
    BY DEF ContainersAreGone
  <2> DEFINE run == Run(b, i)
  <2>1. run \in Runs /\ BatchOneInv(b) /\ BatchTypeOK
    BY BatchRuns DEF ChecksInv
  <2>2. DockerRunInv(run) /\ SessionRunInv(run) /\ ResultRunInv(run)
    BY <2>1 DEF ChecksInv, SandboxInv, DockerInv
  <2>3. client[run] = "attached"
    BY <2>2 DEF DockerRunInv
  <2>4. call[run] # "unstarted" /\ result[run] = None
    BY <2>2, <2>3 DEF SessionRunInv, ResultRunInv
  <2>5. /\ DOMAIN Checks = 1..Len(Checks) /\ Len(Checks) \in Nat
        /\ DOMAIN results[b] = 1..Len(results[b]) /\ Len(results[b]) \in Nat
    BY <2>1, ChecksAssumption DEF BatchTypeOK
  <2>6. i \notin DOMAIN results[b]
    BY <2>1, <2>4 DEF BatchOneInv
  <2>7. i = Index(b) /\ batch[b] # "checking"
    BY <2>1, <2>4, <2>5, <2>6 DEF BatchOneInv, Index
  <2>8. batch[b] # "returned"
    BY <2>1, <2>5, <2>7 DEF BatchOneInv, Index
  <2> QED
    BY <2>1, <2>7, <2>8 DEF BatchTypeOK
<1> QED
  BY <1>1, ChecksInvariance, PTL

------------------------------------------------------------------------------
(* The steps a batch has left. *)

\* A step about another run, which leaves batch b what it was.
LEMMA PointKept ==
  ASSUME ChecksInv, NEW b \in Batches, NEW r \in Runs, OnlyRun(r),
         batch'[b] = batch[b], results'[b] = results[b],
         batch[b] = "awaiting" => Current(b) # r
  PROVE  Point(b)' = Point(b)
<1>1. Current(b)' = Current(b)
  BY DEF Current, Index
<1>2. batch[b] = "awaiting" => call'[Current(b)] = call[Current(b)]
  BY AtCheck DEF OnlyRun, ChecksInv, BatchOneInv
<1> QED
  BY <1>1, <1>2 DEF Point

\* One more result is four steps fewer.
LEMMA ReportingProgresses ==
  ASSUME ChecksInv, NEW b \in Batches, NEW outcome \in CheckOutcome, Report(b, outcome),
         Index(b) \in DOMAIN Checks, batch'[b] = "checking",
         batch[b] \in {"checking", "awaiting"}
  PROVE  StepsLeft(b)' \in 0..(StepsLeft(b) - 1)
<1>1. Len(results[b]) \in Nat /\ Len(results'[b]) = Len(results[b]) + 1
  BY Reported DEF ChecksInv
<1>2. Len(Checks) \in Nat /\ Len(results[b]) < Len(Checks)
  BY <1>1, ChecksAssumption DEF Index
<1>3. StepsLeft(b)' = 1 + 4 * (Len(Checks) - Len(results[b]) - 1)
  BY <1>1 DEF StepsLeft
<1>4. StepsLeft(b) \in Int /\ StepsLeft(b) >= 4 * (Len(Checks) - Len(results[b])) - 2
  <2>1. batch[b] = "awaiting" => call[Current(b)] \in {"waiting", "settling", "reading"}
    BY DEF ChecksInv, BatchOneInv
  <2> QED
    BY <1>1, <1>2, <2>1 DEF StepsLeft
<1> QED
  BY <1>1, <1>2, <1>3, <1>4

\* A batch that goes on has fewer steps left.
LEMMA BatchStepProgresses ==
  ASSUME ChecksInv, NEW b \in Batches, BatchStep(b) \/ InterruptBatch(b)
  PROVE  StepsLeft(b)' \in 0..(StepsLeft(b) - 1)
<1>1. SandboxInv /\ BatchTypeOK /\ BatchOneInv(b)
  BY DEF ChecksInv
<1>2. /\ Len(Checks) \in Nat /\ DOMAIN Checks = 1..Len(Checks) /\ Len(results[b]) \in Nat
      /\ Len(results[b]) <= Len(Checks)
  BY <1>1, ChecksAssumption DEF BatchTypeOK, BatchOneInv
<1>3. batch[b] = "awaiting" => Index(b) \in DOMAIN Checks
  BY <1>1 DEF BatchOneInv
<1> DEFINE unreported == Len(Checks) - Len(results[b])
<1>4. unreported \in Nat /\ (Index(b) \in DOMAIN Checks => unreported > 0)
  BY <1>2 DEF Index
<1>5. /\ batch[b] = "checking" => StepsLeft(b) = 1 + 4 * unreported
      /\ batch[b] = "awaiting" =>
           /\ call[Current(b)] = "waiting" => StepsLeft(b) = 4 * unreported
           /\ call[Current(b)] = "settling" => StepsLeft(b) = 4 * unreported - 1
           /\ call[Current(b)] = "reading" => StepsLeft(b) = 4 * unreported - 2
  BY <1>4 DEF StepsLeft
<1>6. CASE Unavailable(b) \/ Skip(b)
  BY <1>6, ReportingProgresses DEF Unavailable, Skip, IsNext, CheckOutcome
<1>7. CASE StartCheck(b)
  <2>1. Index(b) \in DOMAIN Checks /\ batch[b] = "checking"
    BY <1>7 DEF StartCheck, IsNext
  <2>2. CASE Report(b, "failed") /\ UNCHANGED batch
    BY <2>1, <2>2, ReportingProgresses DEF CheckOutcome
  <2>3. CASE /\ Launch(Current(b), "waiting")
             /\ batch' = [batch EXCEPT ![b] = "awaiting"] /\ UNCHANGED results
    <3>1. Current(b) \in Runs
      BY <2>1, AtCheck
    <3>2. batch'[b] = "awaiting" /\ Current(b)' = Current(b) /\ call'[Current(b)] = "waiting"
      BY <1>1, <2>3, <3>1 DEF Launch, SandboxInv, SandboxTypeOK, BatchTypeOK, Current, Index
    <3>3. StepsLeft(b)' = 4 * unreported
      BY <2>3, <3>2 DEF StepsLeft
    <3> QED
      BY <1>4, <1>5, <2>1, <3>3
  <2>4. CASE batch' = [batch EXCEPT ![b] = "raised"]
    <3>1. StepsLeft(b)' = 0
      BY <1>1, <2>4 DEF StepsLeft, BatchTypeOK
    <3> QED
      BY <1>4, <1>5, <2>1, <3>1
  <2> QED
    BY <1>7, <2>2, <2>3, <2>4 DEF StartCheck
<1>8. CASE AwaitCheck(b)
  <2>1. batch[b] = "awaiting" /\ Await(Current(b)) /\ UNCHANGED batchVars
    BY <1>8 DEF AwaitCheck
  <2>2. Current(b) \in Runs
    BY <1>3, <2>1, AtCheck
  <2>3. \/ call[Current(b)] = "waiting" /\ call'[Current(b)] \in {"settling", "reading"}
        \/ call[Current(b)] = "settling" /\ call'[Current(b)] = "reading"
    BY <1>1, <2>1, <2>2 DEF Await, WaitReturns, WaitTimesOut, Settled, Settle, SandboxInv,
       SandboxTypeOK
  <2>4. batch'[b] = "awaiting" /\ results' = results /\ Current(b)' = Current(b)
    BY <2>1 DEF batchVars, Current, Index
  <2>5. /\ call'[Current(b)] = "settling" => StepsLeft(b)' = 4 * unreported - 1
        /\ call'[Current(b)] = "reading" => StepsLeft(b)' = 4 * unreported - 2
    BY <2>4 DEF StepsLeft
  <2> QED
    BY <1>3, <1>4, <1>5, <2>1, <2>3, <2>5
<1>9. CASE FinishCheck(b)
  <2>1. batch[b] = "awaiting" /\ Current(b) \in Runs /\ reason[Current(b)] = None
    BY <1>3, <1>9, AtCheck DEF FinishCheck
  <2>2. SandboxInv' /\ result'[Current(b)] # None /\ reason' = reason
    BY <1>1, <1>9, <2>1, FinishKeepsInv, SandboxFrames DEF FinishCheck
  <2>3. result'[Current(b)].outcome \in Outcome
    BY <2>1, <2>2 DEF SandboxInv, SandboxTypeOK, SandboxResult, Outcome
  <2>4. CheckOutcomeOf(result'[Current(b)]) \in CheckOutcome
    BY <2>3 DEF CheckOutcomeOf, CheckOutcome, Outcome
  <2>5. batch'[b] = "checking"
    BY <1>1, <1>9 DEF FinishCheck, BatchTypeOK
  <2> QED
    BY <1>3, <1>9, <2>1, <2>4, <2>5, ReportingProgresses DEF FinishCheck
<1>10. CASE ReturnResults(b)
  <2>1. batch[b] = "checking" /\ StepsLeft(b)' = 0
    BY <1>1, <1>10 DEF ReturnResults, StepsLeft, BatchTypeOK
  <2> QED
    BY <1>4, <1>5, <2>1
<1>11. CASE InterruptBatch(b)
  <2>1. batch[b] = "awaiting" /\ StepsLeft(b)' = 0
    BY <1>1, <1>11 DEF InterruptBatch, StepsLeft, BatchTypeOK
  <2>2. call[Current(b)] \in {"waiting", "settling", "reading"}
    BY <1>1, <2>1 DEF BatchOneInv
  <2> QED
    BY <1>3, <1>4, <1>5, <2>1, <2>2
<1> QED
  BY <1>6, <1>7, <1>8, <1>9, <1>10, <1>11 DEF BatchStep

\* A batch is where it was after a step of another one.
LEMMA OtherBatchesStay ==
  ASSUME ChecksInv, NEW c \in Batches, NEW b \in Batches \ {c},
         BatchStep(c) \/ InterruptBatch(c)
  PROVE  Point(b)' = Point(b)
<1>1. SandboxInv /\ BatchTypeOK /\ BatchOneInv(c)
  BY DEF ChecksInv
<1>2. batch'[b] = batch[b] /\ results'[b] = results[b]
  BY <1>1 DEF BatchStep, Unavailable, Skip, StartCheck, AwaitCheck, FinishCheck, ReturnResults,
     InterruptBatch, Report, batchVars, BatchTypeOK
<1>3. \A r \in Runs : UNCHANGED sandboxVars => OnlyRun(r)
  BY DEF OnlyRun, sandboxVars, sessionVars
<1>4. CASE UNCHANGED sandboxVars
  <2>1. UNCHANGED call
    BY <1>4 DEF sandboxVars, sessionVars
  <2> QED
    BY <1>2, <2>1 DEF Point, Current, Index
<1>5. CASE ~UNCHANGED sandboxVars
  <2>1. Index(c) \in DOMAIN Checks
    BY <1>1, <1>5 DEF BatchStep, Unavailable, Skip, StartCheck, AwaitCheck, FinishCheck,
       ReturnResults, InterruptBatch, IsNext, BatchOneInv
  <2>2. Current(c) \in Runs
    BY <2>1, AtCheck
  <2>3. OnlyRun(Current(c))
    <3>1. \/ StartBlocked(Current(c)) \/ Launch(Current(c), "waiting") \/ Await(Current(c))
          \/ Finish(Current(c)) \/ Interrupt(Current(c))
      BY <1>5 DEF BatchStep, Unavailable, Skip, StartCheck, AwaitCheck, FinishCheck,
         ReturnResults, InterruptBatch
    <3> QED
      BY <1>1, <2>2, <3>1, SandboxFrames
  <2>4. Current(b) # Current(c)
    BY DEF Current, Run
  <2> QED
    BY <1>2, <2>2, <2>3, <2>4, PointKept
<1> QED
  BY <1>4, <1>5

\* The runs of direct users are not those of a batch, and Docker changes no call.
LEMMA OthersLeaveBatches ==
  ASSUME ChecksInv, NEW b \in Batches,
         \/ \E r \in Direct : DirectStep(r)
         \/ \E r \in Runs : EnvironmentStep(r)
         \/ \E c \in Batches : SetCancellation(c)
         \/ UNCHANGED vars
  PROVE  Point(b)' = Point(b)
<1>1. SandboxInv /\ BatchTypeOK /\ BatchOneInv(b)
  BY DEF ChecksInv
<1>2. CASE \E r \in Direct : DirectStep(r)
  <2>1. PICK r \in Direct : DirectStep(r)
    BY <1>2
  <2>2. r \in Runs /\ OnlyRun(r)
    BY <1>1, <2>1, SandboxFrames DEF Direct, DirectStep
  <2>3. batch'[b] = batch[b] /\ results'[b] = results[b]
    BY <2>1 DEF DirectStep, batchVars
  <2>4. batch[b] = "awaiting" => Current(b) # r
    BY <1>1 DEF BatchOneInv, Direct, Current, Run
  <2> QED
    BY <2>2, <2>3, <2>4, PointKept
<1>3. CASE \E r \in Runs : EnvironmentStep(r)
  <2>1. UNCHANGED <<batch, results, call>>
    BY <1>1, <1>3, DaemonStep DEF EnvironmentStep, batchVars, sessionVars, SandboxInv
  <2> QED
    BY <2>1 DEF Point, Current, Index
<1>4. CASE (\E c \in Batches : SetCancellation(c)) \/ UNCHANGED vars
  <2>1. UNCHANGED <<batch, results, call>>
    BY <1>4 DEF SetCancellation, vars, batchVars, sandboxVars, sessionVars
  <2> QED
    BY <2>1 DEF Point, Current, Index
<1> QED
  BY <1>2, <1>3, <1>4

\* run_checks goes through its checks once, and each wait of
\* SandboxSession._await_completion is left once: after 1 + 4 * Len(Checks) steps
\* at most a batch has returned or raised.
THEOREM BatchesMakeProgress == Spec => BatchesProgress
<1>1. ChecksInv /\ [Next]_vars =>
        [\A b \in Batches :
           Point(b)' # Point(b) => StepsLeft(b)' \in 0..(StepsLeft(b) - 1)]_vars
  <2> SUFFICES ASSUME ChecksInv, [Next]_vars, NEW b \in Batches, Point(b)' # Point(b)
               PROVE  StepsLeft(b)' \in 0..(StepsLeft(b) - 1)
    OBVIOUS
  <2>1. PICK c \in Batches : BatchStep(c) \/ InterruptBatch(c)
    BY OthersLeaveBatches DEF Next
  <2>2. c = b
    BY <2>1, OtherBatchesStay
  <2> QED
    BY <2>1, <2>2, BatchStepProgresses
<1> QED
  BY <1>1, ChecksInvariance, PTL DEF Spec, BatchesProgress

=============================================================================
