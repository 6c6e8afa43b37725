------------------------- MODULE EvidenceStoreProofs -------------------------
(***************************************************************************)
(* Theorems about the evidence store, for every number of savers, however  *)
(* they are spread over processes, and every assignment of records to      *)
(* them: an id takes one record and keeps it until two processes save at   *)
(* the same time, which the tasks of one event loop never do.              *)
(***************************************************************************)
EXTENDS EvidenceStore, TLAPS

Types ==
  /\ pc \in [Savers -> {"idle", "conflict"} \cup InSave]
  /\ overlapped \in BOOLEAN

\* A saver that passed the conflict check can rely on it until it returns:
\* nobody else is in a save, so the file is missing or holds its own record.
SaveInv ==
  /\ \A s, t \in Savers : pc[s] \in InSave /\ pc[t] \in InSave => s = t
  /\ \A s \in Savers :
       /\ pc[s] \in InSave => file \in {None, RecordOf[s]}
       /\ pc[s] = "return" => file = RecordOf[s]
  /\ None \notin durable
  /\ Kept

WriteOnceInv == Types /\ (overlapped \/ SaveInv)

\* Every saver has a record.
LEMMA RecordIsNotNone ==
  \A s \in Savers : RecordOf[s] # None /\ RecordOf[s] \in Range(RecordOf)
BY RecordOfAssumption DEF Range

\* An empty store has lost nothing.
LEMMA SaveInit == Init => WriteOnceInv
BY DEF Init, WriteOnceInv, Types, SaveInv, Kept, InSave

\* Once two saves were in progress at the same time, that has happened.
LEMMA OverlapStays ==
  ASSUME [Next]_vars, overlapped
  PROVE  overlapped'
BY DEF Next, BeginSave, WriteTemp, Replace, Return, Interrupt, Overlap, vars

\* As long as it is the only save in progress, a save that found no other
\* record still finds none.
LEMMA SaveStep == WriteOnceInv /\ [Next]_vars => WriteOnceInv'
<1> SUFFICES ASSUME WriteOnceInv, [Next]_vars PROVE WriteOnceInv'
  OBVIOUS
<1>t. Types'
  BY DEF WriteOnceInv, Types, InSave, Next, BeginSave, WriteTemp, Replace, Return,
         Interrupt, Goto, Overlap, vars
<1> SUFFICES ASSUME ~overlapped' PROVE SaveInv'
  BY <1>t DEF WriteOnceInv
<1>a. Types /\ SaveInv
  BY OverlapStays DEF WriteOnceInv
<1> USE <1>a DEF Types, SaveInv, Kept, InSave
<1>1. ASSUME NEW s \in Savers, BeginSave(s) PROVE SaveInv'
  <2>1. CASE file \in {None, RecordOf[s]}
    <3>1. \A t \in Savers : pc[t] \notin InSave
      BY <1>1, <2>1 DEF BeginSave, Overlap, Goto
    <3> QED
      BY <1>1, <2>1, <3>1 DEF BeginSave, Goto
  <2>2. CASE file \notin {None, RecordOf[s]}
    BY <1>1, <2>2 DEF BeginSave, Goto
  <2> QED
    BY <2>1, <2>2
<1>2. ASSUME NEW s \in Savers, WriteTemp(s) PROVE SaveInv'
  BY <1>2 DEF WriteTemp, Goto
<1>3. ASSUME NEW s \in Savers, Replace(s) PROVE SaveInv'
  BY <1>3 DEF Replace, Goto
<1>4. ASSUME NEW s \in Savers, Return(s) PROVE SaveInv'
  BY <1>4, RecordIsNotNone DEF Return, Goto
<1>5. ASSUME NEW s \in Savers, Interrupt(s) PROVE SaveInv'
  BY <1>5 DEF Interrupt, Goto
<1>6. CASE UNCHANGED vars
  BY <1>6 DEF vars
<1> QED
  BY <1>1, <1>2, <1>3, <1>4, <1>5, <1>6 DEF Next

\* Until two processes save at the same time, a record whose save returned
\* stays the stored one: the conflict check of JsonFileEvidenceStore.save keeps
\* retries, interrupted saves and colliding ids from replacing it.
THEOREM SavedEvidenceIsKept == Spec => []SavedEvidenceKept
<1>1. WriteOnceInv => SavedEvidenceKept
  BY DEF WriteOnceInv, SaveInv, SavedEvidenceKept
<1> QED
  BY <1>1, SaveInit, SaveStep, PTL DEF Spec

\* The first replacement takes the record, a later one by a retry shows
\* nothing new, and the return of a save acknowledges what is there.
LEMMA WriteOnceSimulation ==
  WriteOnceInv /\ [Next]_vars => [overlapped' \/ Once!Next]_(Once!vars)
<1> SUFFICES ASSUME WriteOnceInv, [Next]_vars, ~overlapped'
             PROVE  [Once!Next]_(Once!vars)
  OBVIOUS
<1>a. Types /\ SaveInv
  BY OverlapStays DEF WriteOnceInv
<1>1. ASSUME NEW s \in Savers, Replace(s) PROVE Once!Write \/ UNCHANGED Once!vars
  <2>1. file \in {None, RecordOf[s]}
    BY <1>1, <1>a DEF Replace, SaveInv, InSave
  <2> QED
    BY <1>1, <2>1, RecordIsNotNone DEF Replace, Once!Write, Once!vars
<1>2. ASSUME NEW s \in Savers, Return(s) PROVE Once!Acknowledge
  BY <1>2, <1>a, RecordIsNotNone DEF Return, SaveInv, InSave, Once!Acknowledge
<1>3. ASSUME NEW s \in Savers, BeginSave(s) \/ WriteTemp(s) \/ Interrupt(s)
      PROVE  UNCHANGED Once!vars
  BY <1>3 DEF BeginSave, WriteTemp, Interrupt, Once!vars
<1>4. CASE UNCHANGED vars
  BY <1>4 DEF vars, Once!vars
<1> QED
  BY <1>1, <1>2, <1>3, <1>4 DEF Next, Once!Next

\* Until two processes save at the same time, the store is the write-once
\* record of its evidence_id, also for readers who look before a save returns.
THEOREM WriteOnceImplemented == Spec => ImplementsWriteOnce
<1>1. Init => Once!Init
  BY DEF Init, Once!Init
<1> QED
  BY <1>1, SaveInit, SaveStep, WriteOnceSimulation, PTL DEF Spec, ImplementsWriteOnce

------------------------------------------------------------------------------
(* The tasks of one event loop. *)

\* All savers are tasks of the same process.
SingleProcess == \A s, t \in Savers : ProcessOf[s] = ProcessOf[t]

\* save is synchronous, so one event loop never has two in progress.
LEMMA NeverOverlapped ==
  ASSUME SingleProcess PROVE Spec => []~overlapped
<1>1. Init => ~overlapped
  BY DEF Init
<1>2. WriteOnceInv /\ ~overlapped /\ [Next]_vars => ~overlapped'
  BY DEF WriteOnceInv, Types, SingleProcess, Next, BeginSave, WriteTemp, Replace,
         Return, Interrupt, Overlap, Goto, vars
<1> QED
  BY <1>1, <1>2, SaveInit, SaveStep, PTL DEF Spec

\* For the savers of one event loop the store is the write-once record, with no
\* proviso.
THEOREM WriteOnceOfOneProcess ==
  ASSUME SingleProcess PROVE Spec => Once!Spec
<1>1. Spec => Once!Init /\ [][overlapped' \/ Once!Next]_(Once!vars)
  BY WriteOnceImplemented DEF ImplementsWriteOnce
<1>2. Spec => []~overlapped
  BY NeverOverlapped
<1> QED
  BY <1>1, <1>2, PTL DEF Once!Spec

=============================================================================
