----------------------- MODULE ClaudeCodeSessionProofs -----------------------
(***************************************************************************)
(* Theorems about the executor's session, for any number of tasks and      *)
(* cancellations and any limits.                                           *)
(***************************************************************************)
EXTENDS ClaudeCodeSession, TLAPS

\* Where the local variables of the generator can be at each point of it.
CountInv ==
  /\ sequence = Len(events)
  /\ stream \in {"unopened", "opened"} <=> sequence = 0
  /\ stream \in {"unopened", "opened", "started", "launching", "reading", "progress"} =>
       outcome = None /\ artifacts = 0
  /\ stream \in {"started", "launching", "reading", "progress"} => sequence + 1 <= MaxEvents
  /\ stream \in {"exiting", "artifact"} => sequence + left + 1 <= MaxEvents
  /\ stream = "exiting" => left = artifacts
  /\ stream = "artifact" => outcome # None
  /\ stream \notin {"terminal", "closed"} => result = None

\* What has been delivered: until there is a result, the events end in the
\* artifacts yielded so far; then in all of them and the terminal event.
ShapeInv ==
  LET n == Len(events)
  IN  /\ \A i \in 1..n : events[i] = "started" <=> i = 1
      /\ result = None =>
           \A i \in 1..n : /\ events[i] # "terminal"
                           /\ events[i] = "artifact" <=> n - (artifacts - left) < i
      /\ result # None =>
           /\ n > 0 /\ result.events_emitted = n /\ result.artifacts = artifacts
           /\ \A i \in 1..n : /\ events[i] = "terminal" <=> i = n
                              /\ events[i] = "artifact" <=> n - artifacts <= i /\ i < n

\* What the cancellations so far have done to the outcome.
CancelInv ==
  /\ outcome = None => \A i \in DOMAIN cancels : cancels[i].undecided
  /\ CancelHonoured
  /\ outcome = None => result = None

SessionInv == TypeOK /\ CountInv /\ ShapeInv /\ CancelInv /\ NoProcessLeft

\* One more event.
LEMMA Extended ==
  ASSUME TypeOK, NEW kind \in EventKind
  PROVE  /\ Append(events, kind) \in Seq(EventKind)
         /\ Len(events) \in Nat
         /\ Len(Append(events, kind)) = Len(events) + 1
         /\ \A i \in 1..Len(events) : Append(events, kind)[i] = events[i]
         /\ Append(events, kind)[Len(events) + 1] = kind
BY DEF TypeOK

\* A cancelled outcome has a reason, so Terminate builds a proper result.
LEMMA AdvanceResult ==
  ASSUME SessionInv, Terminate, outcome # None
  PROVE  result' \in ExecutionResult
<1> USE DEF SessionInv
<1>1. ASSUME outcome = "cancelled" PROVE cancels[1].reason \in Cancellations
  <2> DEFINE Accepted == [reason: Cancellations, undecided: BOOLEAN]
  <2>1. \E i \in DOMAIN cancels : cancels[i].undecided
    BY <1>1 DEF CancelInv, CancelHonoured
  <2>2. cancels \in Seq(Accepted)
    BY DEF TypeOK
  <2> HIDE DEF Accepted
  <2>3. 1 \in DOMAIN cancels
    BY <2>1, <2>2
  <2>4. cancels[1] \in Accepted
    BY <2>2, <2>3
  <2> QED
    BY <2>4 DEF Accepted
<1>2. sequence + 1 \in Nat /\ artifacts \in Nat /\ outcome \in TerminalOutcome
  BY LimitsAssumption DEF TypeOK
<1> QED
  BY <1>1, <1>2 DEF Terminate, ExecutionResult

\* The next artifact event, or the result and the terminal event.
LEMMA AdvanceType ==
  ASSUME SessionInv, Advance, outcome # None, stream \in {"exiting", "artifact"},
         UNCHANGED <<task, outcome, artifacts, process, expired, cancels>>
  PROVE  TypeOK'
<1> USE DEF SessionInv
<1>1. PICK kind \in {"artifact", "terminal"} : Yield(kind)
  BY DEF Advance, Terminate
<1>2. stream' \in EventKind /\ events' \in Seq(EventKind) /\ driver' = None
  BY <1>1, Extended DEF Yield, EventKind
<1>3. artifacts \in Nat /\ artifacts <= MaxArtifacts /\ left \in 0..artifacts
  BY LimitsAssumption DEF TypeOK
<1>4. left' \in 0..artifacts
  BY <1>3 DEF Advance, Terminate
<1>5. sequence' \in 0..MaxEvents
  BY <1>1, <1>3, LimitsAssumption DEF Yield, TypeOK, CountInv
<1>6. result' \in ExecutionResult \cup {None}
  BY AdvanceResult DEF Advance, TypeOK
<1> QED
  BY <1>2, <1>4, <1>5, <1>6 DEF TypeOK

\* What is still to be announced fits in the events that are left.
LEMMA AdvanceCount ==
  ASSUME SessionInv, Advance, outcome # None, stream \in {"exiting", "artifact"},
         UNCHANGED <<task, outcome, artifacts, process, expired, cancels>>
  PROVE  CountInv'
<1> USE DEF SessionInv
<1>1. /\ sequence \in Nat /\ sequence > 0 /\ left \in Nat /\ sequence + left + 1 <= MaxEvents
      /\ sequence = Len(events) /\ result = None
  BY LimitsAssumption DEF TypeOK, CountInv
<1>2. CASE left > 0
  <2>1. Yield("artifact") /\ left' = left - 1 /\ UNCHANGED result
    BY <1>2 DEF Advance
  <2>2. Len(events') = Len(events) + 1
    BY <2>1, Extended DEF Yield, EventKind
  <2> QED
    BY <1>1, <1>2, <2>1, <2>2 DEF Yield, CountInv
<1>3. CASE ~(left > 0)
  <2>1. Yield("terminal")
    BY <1>3 DEF Advance, Terminate
  <2>2. Len(events') = Len(events) + 1
    BY <2>1, Extended DEF Yield, EventKind
  <2> QED
    BY <1>1, <1>3, <2>1, <2>2 DEF Yield, CountInv
<1> QED
  BY <1>2, <1>3

\* The artifacts come one by one, and the terminal event last.
LEMMA AdvanceShape ==
  ASSUME SessionInv, Advance, outcome # None, stream \in {"exiting", "artifact"},
         UNCHANGED <<task, outcome, artifacts, process, expired, cancels>>
  PROVE  ShapeInv'
<1> DEFINE n == Len(events)
<1> USE DEF SessionInv
<1>1. /\ left \in Nat /\ artifacts \in Nat /\ left <= artifacts /\ n \in Nat
      /\ sequence = n /\ n > 0 /\ result = None
  BY LimitsAssumption DEF TypeOK, CountInv
<1>2. /\ \A i \in 1..n : events[i] = "started" <=> i = 1
      /\ \A i \in 1..n : /\ events[i] # "terminal"
                         /\ events[i] = "artifact" <=> n - (artifacts - left) < i
  BY <1>1 DEF ShapeInv
<1>3. "artifact" \in EventKind /\ "terminal" \in EventKind
  BY DEF EventKind
<1>4. CASE left > 0
  <2>1. events' = Append(events, "artifact") /\ left' = left - 1 /\ result' = None
    BY <1>1, <1>4 DEF Advance, Yield
  <2>2. /\ Len(events') = n + 1 /\ events'[n + 1] = "artifact"
        /\ \A i \in 1..n : events'[i] = events[i]
    BY <1>3, <2>1, Extended
  <2> HIDE DEF n
  <2> QED
    BY <1>1, <1>2, <1>4, <2>1, <2>2 DEF ShapeInv
<1>5. CASE ~(left > 0)
  <2>1. /\ events' = Append(events, "terminal") /\ left' = left /\ result' # None
        /\ result'.events_emitted = n + 1 /\ result'.artifacts = artifacts
    <3>1. result' \in ExecutionResult
      BY <1>1, <1>5, AdvanceResult DEF Advance
    <3> QED
      BY <1>1, <1>5, <3>1, SessionNoneAssumption DEF Advance, Terminate, Yield
  <2>2. /\ Len(events') = n + 1 /\ events'[n + 1] = "terminal"
        /\ \A i \in 1..n : events'[i] = events[i]
    BY <1>3, <2>1, Extended
  <2> HIDE DEF n
  <2> QED
    BY <1>1, <1>2, <1>5, <2>1, <2>2 DEF ShapeInv
<1> QED
  BY <1>4, <1>5

\* Every way out of the loop goes through the kill.
LEMMA ProcessStep ==
  ASSUME SessionInv, [Next]_vars
  PROVE  NoProcessLeft'
<1> USE DEF SessionInv, NoProcessLeft, IsCancelled
<1>1. ASSUME NEW t \in Tasks, Events(t) PROVE NoProcessLeft'
  BY <1>1 DEF Events, Becomes, streamVars
<1>2. ASSUME NEW t \in Tasks, Result(t) PROVE NoProcessLeft'
  BY <1>2 DEF Result, Becomes, streamVars
<1>3. ASSUME NEW t \in Tasks, PullRunning(t) PROVE NoProcessLeft'
  BY <1>3 DEF PullRunning, Becomes, streamVars
<1>4. ASSUME NEW t \in Tasks, PullEnded(t) PROVE NoProcessLeft'
  BY <1>4 DEF PullEnded, Becomes, streamVars
<1>5. ASSUME NEW t \in Tasks, PullStarted(t) PROVE NoProcessLeft'
  BY <1>5 DEF PullStarted, Yield
<1>6. ASSUME NEW t \in Tasks, PullLaunch(t) PROVE NoProcessLeft'
  BY <1>6 DEF PullLaunch
<1>7. ASSUME NEW t \in Tasks, PullLine(t) PROVE NoProcessLeft'
  BY <1>7 DEF PullLine, AwaitLine, Settle, IsCancelled
<1>8. ASSUME NEW t \in Tasks, PullArtifact(t) PROVE NoProcessLeft'
  BY <1>8 DEF PullArtifact, Advance, Terminate, Yield
<1>9. ASSUME NEW t \in Tasks, PullLast(t) PROVE NoProcessLeft'
  BY <1>9 DEF PullLast
<1>10. ASSUME NEW t \in Tasks, Interrupt(t) PROVE NoProcessLeft'
  BY <1>10 DEF Interrupt, Break, ReadRaises, Becomes, streamVars
<1>11. ASSUME NEW r \in Cancellations, Cancel(r) PROVE NoProcessLeft'
  BY <1>11 DEF Cancel
<1>12. ASSUME Launched PROVE NoProcessLeft'
  BY <1>12 DEF Launched, AwaitLine, Settle, IsCancelled, readVars
<1>13. ASSUME LaunchFails PROVE NoProcessLeft'
  BY <1>13 DEF LaunchFails, Break
<1>14. ASSUME SkipLine PROVE NoProcessLeft'
  BY <1>14 DEF SkipLine, AwaitLine, Settle, IsCancelled, readVars
<1>15. ASSUME ReadProgress PROVE NoProcessLeft'
  BY <1>15 DEF ReadProgress, Settle, Yield, IsCancelled
<1>16. ASSUME ReadResult PROVE NoProcessLeft'
  BY <1>16 DEF ReadResult, Settle, Fits, IsCancelled
<1>17. ASSUME ReadCancelled PROVE NoProcessLeft'
  BY <1>17 DEF ReadCancelled, Settle, IsCancelled, readVars
<1>18. ASSUME ReadFails PROVE NoProcessLeft'
  BY <1>18 DEF ReadFails, Settle, readVars
<1>19. ASSUME ReadTimesOut PROVE NoProcessLeft'
  BY <1>19 DEF ReadTimesOut, Settle, readVars
<1>20. ASSUME ReadRaises PROVE NoProcessLeft'
  BY <1>20 DEF ReadRaises
<1>21. ASSUME Exited PROVE NoProcessLeft'
  BY <1>21 DEF Exited, Break, Advance, Terminate, Yield
<1>22. ASSUME Expire PROVE NoProcessLeft'
  BY <1>22 DEF Expire
<1>23. CASE UNCHANGED vars
  BY <1>23 DEF vars, IsCancelled
<1> QED
  BY <1>1, <1>2, <1>3, <1>4, <1>5, <1>6, <1>7, <1>8, <1>9, <1>10, <1>11, <1>12,
     <1>13, <1>14, <1>15, <1>16, <1>17, <1>18, <1>19, <1>20, <1>21, <1>22, <1>23
  DEF Next, Pull, Read

\* The limits keep the sequence within its type.
LEMMA TypeStep ==
  ASSUME SessionInv, [Next]_vars
  PROVE  TypeOK'
<1> USE DEF SessionInv, TypeOK, CountInv, TerminalOutcome, EventKind
<1>1. ASSUME NEW t \in Tasks, Events(t) PROVE TypeOK'
  BY <1>1 DEF Events, Becomes, streamVars
<1>2. ASSUME NEW t \in Tasks, Result(t) PROVE TypeOK'
  BY <1>2 DEF Result, Becomes, streamVars
<1>3. ASSUME NEW t \in Tasks, PullRunning(t) PROVE TypeOK'
  BY <1>3 DEF PullRunning, Becomes, streamVars
<1>4. ASSUME NEW t \in Tasks, PullEnded(t) PROVE TypeOK'
  BY <1>4 DEF PullEnded, Becomes, streamVars
<1>5. ASSUME NEW t \in Tasks, PullStarted(t) PROVE TypeOK'
  BY <1>5, LimitsAssumption DEF PullStarted, Yield
<1>6. ASSUME NEW t \in Tasks, PullLaunch(t) PROVE TypeOK'
  BY <1>6 DEF PullLaunch
<1>7. ASSUME NEW t \in Tasks, PullLine(t) PROVE TypeOK'
  BY <1>7 DEF PullLine, AwaitLine, Settle, IsCancelled
<1>8. ASSUME NEW t \in Tasks, PullArtifact(t) PROVE TypeOK'
  BY <1>8, AdvanceType DEF PullArtifact
<1>9. ASSUME NEW t \in Tasks, PullLast(t) PROVE TypeOK'
  BY <1>9 DEF PullLast
<1>10. ASSUME NEW t \in Tasks, Interrupt(t) PROVE TypeOK'
  BY <1>10 DEF Interrupt, Break, ReadRaises, Becomes, streamVars
<1>11. ASSUME NEW r \in Cancellations, Cancel(r) PROVE TypeOK'
  BY <1>11 DEF Cancel
<1>12. ASSUME Launched PROVE TypeOK'
  BY <1>12 DEF Launched, AwaitLine, Settle, IsCancelled, readVars
<1>13. ASSUME LaunchFails PROVE TypeOK'
  BY <1>13 DEF LaunchFails, Break
<1>14. ASSUME SkipLine PROVE TypeOK'
  BY <1>14 DEF SkipLine, AwaitLine, Settle, IsCancelled, readVars
<1>15. ASSUME ReadProgress PROVE TypeOK'
  BY <1>15 DEF ReadProgress, Settle, Yield, IsCancelled
<1>16. ASSUME ReadResult PROVE TypeOK'
  BY <1>16, LimitsAssumption, FileCountsAssumption
     DEF ReadResult, Settle, Fits, IsCancelled
<1>17. ASSUME ReadCancelled PROVE TypeOK'
  BY <1>17 DEF ReadCancelled, Settle, IsCancelled, readVars
<1>18. ASSUME ReadFails PROVE TypeOK'
  BY <1>18 DEF ReadFails, Settle, readVars
<1>19. ASSUME ReadTimesOut PROVE TypeOK'
  BY <1>19 DEF ReadTimesOut, Settle, readVars
<1>20. ASSUME ReadRaises PROVE TypeOK'
  BY <1>20 DEF ReadRaises
<1>21. ASSUME Exited PROVE TypeOK'
  <2>1. CASE outcome = None
    BY <1>21, <2>1, LimitsAssumption DEF Exited, Break
  <2>2. CASE outcome # None
    BY <1>21, <2>2, AdvanceType DEF Exited
  <2> QED
    BY <2>1, <2>2
<1>22. ASSUME Expire PROVE TypeOK'
  BY <1>22 DEF Expire
<1>23. CASE UNCHANGED vars
  BY <1>23 DEF vars, IsCancelled
<1> QED
  BY <1>1, <1>2, <1>3, <1>4, <1>5, <1>6, <1>7, <1>8, <1>9, <1>10, <1>11, <1>12,
     <1>13, <1>14, <1>15, <1>16, <1>17, <1>18, <1>19, <1>20, <1>21, <1>22, <1>23
  DEF Next, Pull, Read

\* The two checks of the event limit leave room for what is still to come.
LEMMA CountStep ==
  ASSUME SessionInv, [Next]_vars
  PROVE  CountInv'
<1> USE DEF SessionInv, TypeOK, CountInv
<1>1. ASSUME NEW t \in Tasks, Events(t) PROVE CountInv'
  BY <1>1 DEF Events, Becomes, streamVars
<1>2. ASSUME NEW t \in Tasks, Result(t) PROVE CountInv'
  BY <1>2 DEF Result, Becomes, streamVars
<1>3. ASSUME NEW t \in Tasks, PullRunning(t) PROVE CountInv'
  BY <1>3 DEF PullRunning, Becomes, streamVars
<1>4. ASSUME NEW t \in Tasks, PullEnded(t) PROVE CountInv'
  BY <1>4 DEF PullEnded, Becomes, streamVars
<1>5. ASSUME NEW t \in Tasks, PullStarted(t) PROVE CountInv'
  BY <1>5, LimitsAssumption DEF PullStarted, Yield
<1>6. ASSUME NEW t \in Tasks, PullLaunch(t) PROVE CountInv'
  BY <1>6 DEF PullLaunch
<1>7. ASSUME NEW t \in Tasks, PullLine(t) PROVE CountInv'
  BY <1>7 DEF PullLine, AwaitLine, Settle, IsCancelled
<1>8. ASSUME NEW t \in Tasks, PullArtifact(t) PROVE CountInv'
  BY <1>8, AdvanceCount DEF PullArtifact, CountInv
<1>9. ASSUME NEW t \in Tasks, PullLast(t) PROVE CountInv'
  BY <1>9 DEF PullLast
<1>10. ASSUME NEW t \in Tasks, Interrupt(t) PROVE CountInv'
  BY <1>10, LimitsAssumption DEF Interrupt, Break, ReadRaises, Becomes, streamVars
<1>11. ASSUME NEW r \in Cancellations, Cancel(r) PROVE CountInv'
  BY <1>11 DEF Cancel
<1>12. ASSUME Launched PROVE CountInv'
  BY <1>12 DEF Launched, AwaitLine, Settle, IsCancelled, readVars
<1>13. ASSUME LaunchFails PROVE CountInv'
  BY <1>13 DEF LaunchFails, Break
<1>14. ASSUME SkipLine PROVE CountInv'
  BY <1>14 DEF SkipLine, AwaitLine, Settle, IsCancelled, readVars
<1>15. ASSUME ReadProgress PROVE CountInv'
  BY <1>15, LimitsAssumption DEF ReadProgress, Settle, Yield, IsCancelled
<1>16. ASSUME ReadResult PROVE CountInv'
  BY <1>16, LimitsAssumption, FileCountsAssumption
     DEF ReadResult, Settle, Fits, IsCancelled
<1>17. ASSUME ReadCancelled PROVE CountInv'
  BY <1>17 DEF ReadCancelled, Settle, IsCancelled, readVars
<1>18. ASSUME ReadFails PROVE CountInv'
  BY <1>18 DEF ReadFails, Settle, readVars
<1>19. ASSUME ReadTimesOut PROVE CountInv'
  BY <1>19 DEF ReadTimesOut, Settle, readVars
<1>20. ASSUME ReadRaises PROVE CountInv'
  BY <1>20 DEF ReadRaises
<1>21. ASSUME Exited PROVE CountInv'
  <2>1. CASE outcome = None
    BY <1>21, <2>1, LimitsAssumption DEF Exited, Break
  <2>2. CASE outcome # None
    BY <1>21, <2>2, AdvanceCount DEF Exited
  <2> QED
    BY <2>1, <2>2
<1>22. ASSUME Expire PROVE CountInv'
  BY <1>22 DEF Expire
<1>23. CASE UNCHANGED vars
  BY <1>23 DEF vars, IsCancelled
<1> QED
  BY <1>1, <1>2, <1>3, <1>4, <1>5, <1>6, <1>7, <1>8, <1>9, <1>10, <1>11, <1>12,
     <1>13, <1>14, <1>15, <1>16, <1>17, <1>18, <1>19, <1>20, <1>21, <1>22, <1>23
  DEF Next, Pull, Read

\* An outcome is only decided by a read that has looked at the cancellations.
LEMMA CancelStep ==
  ASSUME SessionInv, [Next]_vars
  PROVE  CancelInv'
<1> USE DEF SessionInv, TypeOK, CountInv, CancelInv, CancelHonoured, IsCancelled
<1>1. ASSUME NEW t \in Tasks, Events(t) PROVE CancelInv'
  BY <1>1 DEF Events, Becomes, streamVars
<1>2. ASSUME NEW t \in Tasks, Result(t) PROVE CancelInv'
  BY <1>2 DEF Result, Becomes, streamVars
<1>3. ASSUME NEW t \in Tasks, PullRunning(t) PROVE CancelInv'
  BY <1>3 DEF PullRunning, Becomes, streamVars
<1>4. ASSUME NEW t \in Tasks, PullEnded(t) PROVE CancelInv'
  BY <1>4 DEF PullEnded, Becomes, streamVars
<1>5. ASSUME NEW t \in Tasks, PullStarted(t) PROVE CancelInv'
  BY <1>5 DEF PullStarted, Yield
<1>6. ASSUME NEW t \in Tasks, PullLaunch(t) PROVE CancelInv'
  BY <1>6 DEF PullLaunch
<1>7. ASSUME NEW t \in Tasks, PullLine(t) PROVE CancelInv'
  BY <1>7 DEF PullLine, AwaitLine, Settle, IsCancelled
<1>8. ASSUME NEW t \in Tasks, PullArtifact(t) PROVE CancelInv'
  BY <1>8 DEF PullArtifact, Advance, Terminate, Yield
<1>9. ASSUME NEW t \in Tasks, PullLast(t) PROVE CancelInv'
  BY <1>9 DEF PullLast
<1>10. ASSUME NEW t \in Tasks, Interrupt(t) PROVE CancelInv'
  BY <1>10 DEF Interrupt, Break, ReadRaises, Becomes, streamVars
<1>11. ASSUME NEW r \in Cancellations, Cancel(r) PROVE CancelInv'
  <2> DEFINE new == [reason |-> r, undecided |-> outcome = None]
  <2>1. new \in [reason: Cancellations, undecided: BOOLEAN]
    OBVIOUS
  <2>2. cancels \in Seq([reason: Cancellations, undecided: BOOLEAN]) /\ cancels' = Append(cancels, new)
    BY <1>11 DEF Cancel
  <2> HIDE DEF new
  <2>3. /\ DOMAIN cancels = 1..Len(cancels) /\ DOMAIN cancels' = 1..(Len(cancels) + 1)
        /\ \A i \in 1..Len(cancels) : cancels'[i] = cancels[i]
        /\ cancels'[Len(cancels) + 1] = new /\ Len(cancels) \in Nat
    BY <2>1, <2>2
  <2>4. new.undecided <=> outcome = None
    BY DEF new
  <2>5. UNCHANGED <<outcome, result>> /\ result = None
    BY <1>11 DEF Cancel
  <2>6. CASE outcome = None
    BY <2>3, <2>4, <2>5, <2>6
  <2>7. CASE outcome # None
    <3>1. (\E i \in DOMAIN cancels' : cancels'[i].undecided) <=>
            \E i \in DOMAIN cancels : cancels[i].undecided
      BY <2>3, <2>4, <2>7
    <3> QED
      BY <3>1, <2>5, <2>7
  <2> QED
    BY <2>6, <2>7
<1>12. ASSUME Launched PROVE CancelInv'
  BY <1>12 DEF Launched, AwaitLine, Settle, IsCancelled, readVars
<1>13. ASSUME LaunchFails PROVE CancelInv'
  BY <1>13 DEF LaunchFails, Break
<1>14. ASSUME SkipLine PROVE CancelInv'
  BY <1>14 DEF SkipLine, AwaitLine, Settle, IsCancelled, readVars
<1>15. ASSUME ReadProgress PROVE CancelInv'
  BY <1>15 DEF ReadProgress, Settle, Yield, IsCancelled
<1>16. ASSUME ReadResult PROVE CancelInv'
  BY <1>16 DEF ReadResult, Settle, Fits, IsCancelled
<1>17. ASSUME ReadCancelled PROVE CancelInv'
  BY <1>17 DEF ReadCancelled, Settle, IsCancelled, readVars
<1>18. ASSUME ReadFails PROVE CancelInv'
  BY <1>18 DEF ReadFails, Settle, readVars
<1>19. ASSUME ReadTimesOut PROVE CancelInv'
  BY <1>19 DEF ReadTimesOut, Settle, readVars
<1>20. ASSUME ReadRaises PROVE CancelInv'
  BY <1>20 DEF ReadRaises
<1>21. ASSUME Exited PROVE CancelInv'
  BY <1>21 DEF Exited, Break, Advance, Terminate, Yield
<1>22. ASSUME Expire PROVE CancelInv'
  BY <1>22 DEF Expire
<1>23. CASE UNCHANGED vars
  BY <1>23 DEF vars, IsCancelled
<1> QED
  BY <1>1, <1>2, <1>3, <1>4, <1>5, <1>6, <1>7, <1>8, <1>9, <1>10, <1>11, <1>12,
     <1>13, <1>14, <1>15, <1>16, <1>17, <1>18, <1>19, <1>20, <1>21, <1>22, <1>23
  DEF Next, Pull, Read

\* Only the yields deliver anything, and the artifacts are counted before.
LEMMA ShapeStep ==
  ASSUME SessionInv, [Next]_vars
  PROVE  ShapeInv'
<1> USE DEF SessionInv
<1>1. ASSUME UNCHANGED <<events, result, artifacts, left>> PROVE ShapeInv'
  BY <1>1 DEF ShapeInv
<1>2. ASSUME NEW t \in Tasks, PullStarted(t) PROVE ShapeInv'
  <2>1. events' = <<"started">> /\ result' = None /\ artifacts' - left' = 0
    BY <1>2 DEF PullStarted, Yield, TypeOK, CountInv
  <2> QED
    BY <2>1 DEF ShapeInv
<1>3. ASSUME ReadProgress PROVE ShapeInv'
  <2>1. artifacts = 0 /\ left = 0 /\ UNCHANGED <<result, artifacts, left>> /\ result = None
    BY <1>3 DEF ReadProgress, TypeOK, CountInv
  <2>2. CASE events' = Append(events, "progress")
    <3>1. "progress" \in EventKind /\ Len(events) > 0
      BY <1>3 DEF EventKind, ReadProgress, TypeOK, CountInv
    <3> QED
      BY <2>1, <2>2, <3>1, Extended DEF ShapeInv
  <2>3. CASE UNCHANGED events
    BY <2>1, <2>3, <1>1
  <2> QED
    BY <1>3, <2>2, <2>3 DEF ReadProgress, Yield
<1>4. ASSUME ReadResult PROVE ShapeInv'
  <2>1. artifacts = 0 /\ left = 0 /\ UNCHANGED <<events, result>>
    BY <1>4 DEF ReadResult, TypeOK, CountInv
  <2>2. artifacts' - left' = 0 /\ result = None
    BY <1>4, FileCountsAssumption DEF ReadResult, TypeOK, CountInv
  <2> QED
    BY <2>1, <2>2 DEF ShapeInv
<1>5. ASSUME Exited PROVE ShapeInv'
  <2>1. CASE outcome = None
    BY <1>5, <1>1, <2>1 DEF Exited, Break
  <2>2. CASE outcome # None
    BY <1>5, <2>2, AdvanceShape DEF Exited
  <2> QED
    BY <2>1, <2>2
<1>6. ASSUME NEW t \in Tasks, PullArtifact(t) PROVE ShapeInv'
  BY <1>6, AdvanceShape DEF PullArtifact, CountInv
<1>7. ASSUME NEW t \in Tasks,
             \/ Events(t) \/ Result(t) \/ PullRunning(t) \/ PullEnded(t)
             \/ PullLaunch(t) \/ PullLine(t) \/ PullLast(t) \/ Interrupt(t)
      PROVE  ShapeInv'
  BY <1>7, <1>1 DEF Events, Result, PullRunning, PullEnded, PullLaunch,
     PullLine, PullLast, Interrupt, Break, ReadRaises, streamVars
<1>8. CASE \/ Launched \/ LaunchFails \/ SkipLine \/ ReadCancelled \/ ReadFails
           \/ ReadTimesOut \/ ReadRaises \/ Expire \/ UNCHANGED vars
           \/ \E r \in Cancellations : Cancel(r)
  BY <1>8, <1>1 DEF Launched, LaunchFails, Break, SkipLine, ReadCancelled,
     ReadFails, ReadTimesOut, ReadRaises, Expire, Cancel, readVars, vars
<1> QED
  BY <1>2, <1>3, <1>4, <1>5, <1>6, <1>7, <1>8 DEF Next, Pull, Read

------------------------------------------------------------------------------

\* A new session has announced nothing.
LEMMA SessionInit == Init => SessionInv
<1> SUFFICES ASSUME Init PROVE SessionInv
  OBVIOUS
<1>1. TypeOK
  <2>1. <<>> \in Seq(EventKind) /\ <<>> \in Seq([reason: Cancellations, undecided: BOOLEAN])
    OBVIOUS
  <2>2. 0 \in 0..MaxEvents /\ 0 \in 0..MaxArtifacts /\ 0 \in 0..0
    BY LimitsAssumption
  <2> QED
    BY <2>1, <2>2 DEF Init, TypeOK
<1>2. CountInv /\ ShapeInv /\ CancelInv /\ NoProcessLeft
  BY DEF Init, CountInv, ShapeInv, CancelInv, CancelHonoured, NoProcessLeft
<1> QED
  BY <1>1, <1>2 DEF SessionInv

\* The inductive invariant of the session.
THEOREM SessionInvariance == Spec => []SessionInv
<1>1. SessionInv /\ [Next]_vars => SessionInv'
  BY TypeStep, CountStep, ShapeStep, CancelStep, ProcessStep DEF SessionInv
<1> QED
  BY <1>1, SessionInit, PTL DEF Spec

\* Every variable of the session keeps its type, and no event is numbered
\* beyond max_events, for any limits and any number of tasks.
THEOREM SessionTypeCorrect == Spec => []TypeOK
<1>1. SessionInv => TypeOK
  BY DEF SessionInv
<1> QED
  BY <1>1, SessionInvariance, PTL

\* The consumers of a session see a well-formed stream within the limits of
\* the request, and its result always satisfies the constructor's checks.
THEOREM StreamsAreWellFormed == Spec => []StreamWellFormed
<1>1. SessionInv => StreamWellFormed
  <2> SUFFICES ASSUME SessionInv PROVE StreamWellFormed
    OBVIOUS
  <2>1. Len(events) \in Nat /\ Len(events) <= MaxEvents
    BY LimitsAssumption DEF SessionInv, TypeOK, CountInv
  <2>2. result # None => result.artifacts <= MaxArtifacts
    BY DEF SessionInv, ShapeInv, TypeOK
  <2> QED
    BY <2>1, <2>2 DEF SessionInv, ShapeInv, StreamWellFormed
<1> QED
  BY <1>1, SessionInvariance, PTL

\* A cancellation that comes in time is honoured, however it interleaves with
\* the reads, the deadline and other cancellations.
THEOREM CancellationsAreHonoured == Spec => []CancelHonoured
<1>1. SessionInv => CancelHonoured
  BY DEF SessionInv, CancelInv
<1> QED
  BY <1>1, SessionInvariance, PTL

\* No path out of the stream leaves a Claude Code process behind.
THEOREM ProcessesAreKilled == Spec => []NoProcessLeft
<1>1. SessionInv => NoProcessLeft
  BY DEF SessionInv
<1> QED
  BY <1>1, SessionInvariance, PTL

------------------------------------------------------------------------------
(* The session is one of the port. *)

\* The artifacts yielded so far are the ones that the port has announced.
LEMMA PortAnnounced ==
  ASSUME SessionInv, result = None
  PROVE  Port!Announced(artifacts - left)
<1>1. Len(events) \in Nat /\ DOMAIN events = 1..Len(events)
  BY DEF SessionInv, TypeOK
<1>2. artifacts \in Nat /\ left \in Nat
  BY LimitsAssumption DEF SessionInv, TypeOK
<1> QED
  BY <1>1, <1>2 DEF SessionInv, ShapeInv, Port!Announced

\* A cancelled outcome has a first cancellation.
LEMMA PortReason ==
  ASSUME SessionInv, outcome = "cancelled"
  PROVE  cancels # <<>> /\ cancels[1].reason # None
<1> DEFINE Accepted == [reason: Cancellations, undecided: BOOLEAN]
<1>1. cancels \in Seq(Accepted)
  BY DEF SessionInv, TypeOK
<1>2. \E i \in DOMAIN cancels : cancels[i].undecided
  BY SessionNoneAssumption DEF SessionInv, CancelInv, CancelHonoured, TerminalOutcome
<1> HIDE DEF Accepted
<1>3. cancels # <<>> /\ cancels[1] \in Accepted
  BY <1>1, <1>2
<1> QED
  BY <1>3, SessionNoneAssumption DEF Accepted

\* The next artifact event, or the result and the terminal event.
LEMMA PortAdvance ==
  ASSUME SessionInv, Advance, outcome # None, stream \in {"exiting", "artifact"},
         UNCHANGED <<task, outcome, artifacts, process, expired, cancels>>
  PROVE  Port!Next
<1> USE DEF SessionInv
<1>1. /\ sequence = Len(events) /\ Len(events) \in Nat /\ events # <<>>
      /\ left \in Nat /\ artifacts \in 0..MaxArtifacts
      /\ Len(events) + left + 1 <= MaxEvents /\ MaxEvents \in Nat /\ result = None
  BY LimitsAssumption DEF TypeOK, CountInv
<1>2. CASE left > 0
  <2>1. events' = Append(events, "artifact") /\ UNCHANGED result
    BY <1>2 DEF Advance, Yield
  <2>2. Len(events) + 2 <= MaxEvents
    BY <1>1, <1>2
  <2>3. Port!Emit("artifact")
    BY <1>1, <2>1, <2>2 DEF Port!Emit
  <2> QED
    BY <2>3 DEF Port!Next
<1>3. CASE ~(left > 0)
  <2>1. Terminate /\ left = 0
    BY <1>1, <1>3 DEF Advance
  <2>2. Port!Announced(artifacts)
    BY <1>1, <2>1, PortAnnounced
  <2>3. Port!Terminate(outcome, artifacts)
    BY <1>1, <2>1, <2>2, PortReason DEF Terminate, Yield, Port!Terminate
  <2>4. outcome \in TerminalOutcome
    BY DEF TypeOK
  <2> QED
    BY <1>1, <2>3, <2>4 DEF Port!Next
<1> QED
  BY <1>2, <1>3

\* Every step of the session is one of the port, or none.
LEMMA PortStep ==
  ASSUME SessionInv, [Next]_vars
  PROVE  [Port!Next]_(Port!vars)
<1> USE DEF SessionInv
<1>1. ASSUME UNCHANGED <<events, result, cancels>> PROVE UNCHANGED Port!vars
  BY <1>1 DEF Port!vars
<1>2. ASSUME NEW t \in Tasks, PullStarted(t) PROVE Port!Next
  <2>1. events = <<>> /\ result = None /\ Len(events) + 2 <= MaxEvents
    BY <1>2, LimitsAssumption DEF PullStarted, TypeOK, CountInv
  <2>2. Port!Emit("started")
    BY <1>2, <2>1 DEF PullStarted, Yield, Port!Emit
  <2> QED
    BY <2>2 DEF Port!Next
<1>3. ASSUME ReadProgress PROVE [Port!Next]_(Port!vars)
  <2>1. /\ sequence = Len(events) /\ Len(events) \in Nat /\ events # <<>>
        /\ artifacts = 0 /\ left = 0 /\ result = None /\ MaxEvents \in Nat
    BY <1>3, LimitsAssumption DEF ReadProgress, TypeOK, CountInv
  <2>2. CASE sequence + 2 > MaxEvents
    BY <1>1, <1>3, <2>2 DEF ReadProgress
  <2>3. CASE ~(sequence + 2 > MaxEvents)
    <3>1. Port!Announced(0)
      BY <2>1, PortAnnounced
    <3>2. Len(events) + 2 <= MaxEvents
      BY <2>1, <2>3
    <3>3. events' = Append(events, "progress") /\ UNCHANGED <<result, cancels>>
      BY <1>3, <2>3 DEF ReadProgress, Yield
    <3>4. Port!Emit("progress")
      BY <2>1, <3>1, <3>2, <3>3 DEF Port!Emit
    <3> QED
      BY <3>4 DEF Port!Next
  <2> QED
    BY <2>2, <2>3
<1>4. ASSUME Exited PROVE [Port!Next]_(Port!vars)
  <2>1. CASE outcome = None
    BY <1>1, <1>4, <2>1 DEF Exited, Break
  <2>2. CASE outcome # None
    BY <1>4, <2>2, PortAdvance DEF Exited
  <2> QED
    BY <2>1, <2>2
<1>5. ASSUME NEW t \in Tasks, PullArtifact(t) PROVE Port!Next
  BY <1>5, PortAdvance DEF PullArtifact, CountInv
<1>6. ASSUME NEW r \in Cancellations, Cancel(r) PROVE [Port!Next]_(Port!vars)
  <2> DEFINE new == [reason |-> r, undecided |-> outcome = None]
  <2>1. /\ cancels \in Seq([reason: Cancellations, undecided: BOOLEAN])
        /\ cancels' = Append(cancels, new) /\ UNCHANGED <<events, result>> /\ result = None
    BY <1>6 DEF Cancel, TypeOK
  <2>2. new.reason = r
    OBVIOUS
  <2> HIDE DEF new
  <2>3. CASE cancels = <<>>
    <3>1. cancels' # <<>> /\ cancels'[1].reason = r
      BY <2>1, <2>2, <2>3
    <3>2. Port!Cancel
      BY <2>1, <2>3, <3>1 DEF Port!Cancel
    <3> QED
      BY <3>2 DEF Port!Next
  <2>4. CASE cancels # <<>>
    <3>1. cancels' # <<>> /\ cancels'[1] = cancels[1]
      BY <2>1, <2>4
    <3> QED
      BY <2>1, <2>4, <3>1 DEF Port!vars
  <2> QED
    BY <2>3, <2>4
<1>7. ASSUME NEW t \in Tasks,
             \/ Events(t) \/ Result(t) \/ PullRunning(t) \/ PullEnded(t)
             \/ PullLaunch(t) \/ PullLine(t) \/ PullLast(t) \/ Interrupt(t)
      PROVE  UNCHANGED Port!vars
  BY <1>7, <1>1 DEF Events, Result, PullRunning, PullEnded, PullLaunch,
     PullLine, PullLast, Interrupt, Break, ReadRaises, streamVars
<1>8. CASE \/ Launched \/ LaunchFails \/ SkipLine \/ ReadResult \/ ReadCancelled
           \/ ReadFails \/ ReadTimesOut \/ ReadRaises \/ Expire \/ UNCHANGED vars
  BY <1>8, <1>1 DEF Launched, LaunchFails, Break, SkipLine, ReadResult, ReadCancelled,
     ReadFails, ReadTimesOut, ReadRaises, Expire, readVars, vars
<1> QED
  BY <1>2, <1>3, <1>4, <1>5, <1>6, <1>7, <1>8 DEF Next, Pull, Read

\* Whoever shares, cancels or interrupts a Claude Code session, its consumers get
\* from it what the port promises of every session.
THEOREM SessionImplemented == Spec => ImplementsSession
<1>1. Init => Port!Init
  BY DEF Init, Port!Init
<1>2. SessionInv /\ [Next]_vars => [Port!Next]_(Port!vars)
  BY PortStep
<1> QED
  BY <1>1, <1>2, SessionInvariance, PTL DEF Spec, ImplementsSession, Port!Spec

------------------------------------------------------------------------------
(* The steps the generator has left. *)

\* The generator stays at its point, or has fewer steps left.
Onwards ==
  \/ UNCHANGED <<stream, sequence, outcome>>
  \/ StepsLeft' \in 0..(StepsLeft - 1)

\* Every step takes the generator onwards or leaves it where it is.
LEMMA OnwardsStep ==
  ASSUME SessionInv, TypeOK', [Next]_vars
  PROVE  Onwards
<1>1. /\ MaxEvents \in Nat /\ sequence \in Nat /\ sequence <= MaxEvents
      /\ sequence' \in Nat /\ sequence' <= MaxEvents
  <2>1. MaxEvents \in Nat /\ sequence \in 0..MaxEvents /\ sequence' \in 0..MaxEvents
    BY LimitsAssumption DEF TypeOK, SessionInv
  <2> QED
    BY <2>1
<1> USE <1>1 DEF SessionInv, StepsLeft, Onwards
<1>2. CASE UNCHANGED <<stream, sequence, outcome>>
  BY <1>2
<1>3. ASSUME NEW t \in Tasks, Events(t) \/ Result(t) PROVE Onwards
  BY <1>3 DEF Events, Result, streamVars
<1>4. ASSUME NEW t \in Tasks, PullRunning(t) \/ PullEnded(t) PROVE Onwards
  BY <1>4 DEF PullRunning, PullEnded, streamVars
<1>5. ASSUME NEW t \in Tasks, PullStarted(t) PROVE Onwards
  BY <1>5 DEF PullStarted, Yield
<1>6. ASSUME NEW t \in Tasks, PullLaunch(t) PROVE Onwards
  BY <1>6 DEF PullLaunch
<1>7. ASSUME NEW t \in Tasks, PullLine(t) PROVE Onwards
  BY <1>7 DEF PullLine, AwaitLine, Settle
<1>8. ASSUME Launched PROVE Onwards
  BY <1>8 DEF Launched, AwaitLine, Settle, readVars
<1>9. ASSUME LaunchFails PROVE Onwards
  BY <1>9 DEF LaunchFails, Break
<1>10. ASSUME SkipLine PROVE Onwards
  BY <1>10 DEF SkipLine, AwaitLine, Settle, readVars, CountInv
<1>11. ASSUME ReadProgress PROVE Onwards
  BY <1>11, SMTT(30) DEF ReadProgress, Settle, Yield
<1>12. ASSUME ReadResult PROVE Onwards
  BY <1>12 DEF ReadResult, Settle
<1>13. ASSUME ReadCancelled \/ ReadFails \/ ReadTimesOut \/ ReadRaises PROVE Onwards
  BY <1>13 DEF ReadCancelled, ReadFails, ReadTimesOut, ReadRaises, Settle, readVars
<1>14. ASSUME stream \in {"exiting", "artifact"}, Advance, UNCHANGED outcome PROVE Onwards
  BY <1>14, SMTT(30) DEF Advance, Terminate, Yield
<1>15. ASSUME Exited PROVE Onwards
  <2>1. CASE outcome = None /\ Break
    BY <1>15, <2>1 DEF Exited, Break
  <2> QED
    BY <1>14, <1>15, <2>1 DEF Exited
<1>16. ASSUME NEW t \in Tasks, PullArtifact(t) PROVE Onwards
  BY <1>14, <1>16 DEF PullArtifact
<1>17. ASSUME NEW t \in Tasks, PullLast(t) PROVE Onwards
  BY <1>17 DEF PullLast
<1>18. ASSUME NEW t \in Tasks, Interrupt(t) PROVE Onwards
  <2>1. CASE UNCHANGED <<stream, streamVars>>
    BY <2>1 DEF streamVars
  <2>2. CASE stream \in {"launching", "exiting"} /\ Break
    BY <2>2 DEF Break
  <2> QED
    BY <1>13, <1>18, <2>1, <2>2 DEF Interrupt
<1>19. ASSUME (\E reason \in Cancellations : Cancel(reason)) \/ Expire PROVE Onwards
  BY <1>19 DEF Cancel, Expire
<1> QED
  BY <1>2, <1>3, <1>4, <1>5, <1>6, <1>7, <1>8, <1>9, <1>10, <1>11, <1>12, <1>13,
     <1>15, <1>16, <1>17, <1>18, <1>19 DEF Next, Pull, Read, vars

\* _stream_events goes through its points once, in order, and yields no more than
\* max_events events, for any number of consumers and whatever interrupts them.
THEOREM StreamsMakeProgress == Spec => StreamProgresses
<1>1. SessionInv /\ [Next]_vars =>
        [ <<stream, sequence, outcome>>' # <<stream, sequence, outcome>>
            => StepsLeft' \in 0..(StepsLeft - 1) ]_vars
  BY TypeStep, OnwardsStep DEF Onwards
<1> QED
  BY <1>1, SessionInvariance, PTL DEF Spec, StreamProgresses

=============================================================================
