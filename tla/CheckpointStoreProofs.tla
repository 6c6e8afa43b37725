------------------------ MODULE CheckpointStoreProofs ------------------------
(***************************************************************************)
(* Theorems about the checkpoint store, for every set of clients and       *)
(* however they are spread over processes: whole files always, and the     *)
(* compare-and-swap register until two processes save at the same time,    *)
(* which the tasks of one event loop never do.                             *)
(***************************************************************************)
EXTENDS CheckpointStore, TLAPS

\* What a save has in its temporary file at each of its steps.
TempInv ==
  \A w \in Clients :
    pc[w] = "replace" => temp[w] = Updated(w)

SafeInv == TypeOK /\ NeverTorn /\ TempInv

\* What a client saves is a whole run.
LEMMA UpdatedType ==
  ASSUME TypeOK, NEW w \in Clients
  PROVE  Updated(w) \in Content /\ Updated(w) # Torn
<1>1. loaded[w] \in Content
  BY DEF TypeOK
<1>2. Updated(w) \in Content
  BY <1>1 DEF Updated, Content
<1> QED
  BY <1>2, TornAssumption DEF Content

\* An empty store holds only whole files.
LEMMA SafeInit == Init => SafeInv
<1> SUFFICES ASSUME Init PROVE SafeInv
  OBVIOUS
<1>1. <<>> \in Content
  BY DEF Content
<1>2. <<>> # Torn
  BY <1>1, TornAssumption DEF Content
<1> QED
  BY <1>1, <1>2 DEF Init, SafeInv, TypeOK, NeverTorn, TempInv, InSave

\* No step of save, and no crash within one, spoils a file.
LEMMA SafeStep == SafeInv /\ [Next]_vars => SafeInv'
<1> SUFFICES ASSUME SafeInv, [Next]_vars PROVE SafeInv'
  OBVIOUS
<1> USE DEF SafeInv
<1>0. <<>> \in Content
  BY DEF Content
<1>b. Torn # <<>>
  BY <1>0, TornAssumption DEF Content
<1>1. ASSUME NEW w \in Clients, Load(w) PROVE SafeInv'
  BY <1>1 DEF Load, Goto, TypeOK, NeverTorn, TempInv, Updated
<1>2. ASSUME NEW w \in Clients, BeginSave(w) PROVE SafeInv'
  BY <1>2, <1>b DEF BeginSave, Overlap, Goto, TypeOK, NeverTorn, TempInv, Updated, InSave
<1>3. ASSUME NEW w \in Clients, WriteTemp(w) PROVE SafeInv'
  <2>a. loaded[w] \in Seq(Clients)
    BY DEF TypeOK, Content
  <2>b. Len(Updated(w)) # Len(<<>>)
    BY <2>a DEF Updated
  <2>1. Updated(w) \in Content /\ Updated(w) # <<>>
    BY <2>b, UpdatedType, Zenon
  <2>2. TypeOK'
    BY <1>3, <2>1 DEF WriteTemp, Goto, TypeOK, InSave
  <2> QED
    BY <1>3, <2>2 DEF WriteTemp, Goto, TypeOK, NeverTorn, TempInv, Updated
<1>4. ASSUME NEW w \in Clients, Replace(w) PROVE SafeInv'
  BY <1>4, <1>0, UpdatedType DEF Replace, Goto, TypeOK, NeverTorn, TempInv, Updated, InSave
<1>5. ASSUME NEW w \in Clients, Return(w) PROVE SafeInv'
  BY <1>5, UpdatedType DEF Return, Goto, TypeOK, NeverTorn, TempInv, Updated, InSave
<1>6. ASSUME NEW w \in Clients, FailSave(w) PROVE SafeInv'
  BY <1>6, <1>0 DEF FailSave, Goto, TypeOK, NeverTorn, TempInv, Updated, InSave
<1>7. ASSUME NEW p \in Range(ProcessOf), Crash(p) PROVE SafeInv'
  BY <1>7, <1>0 DEF Crash, TypeOK, NeverTorn, TempInv, Updated, InSave
<1>8. CASE UNCHANGED vars
  BY <1>8 DEF vars, TypeOK, NeverTorn, TempInv, Updated
<1> QED
  BY <1>1, <1>2, <1>3, <1>4, <1>5, <1>6, <1>7, <1>8 DEF Next

\* Every variable of the store keeps its type, for every set of clients,
\* every number of processes and every bound on the content.
THEOREM StoreTypeCorrect == Spec => []TypeOK
<1>1. SafeInv => TypeOK
  BY DEF SafeInv
<1> QED
  BY <1>1, SafeInit, SafeStep, PTL DEF Spec

\* No file is ever partly written: _write_json_atomic only ever puts a whole
\* run in place, whichever processes save at once and wherever they die.
THEOREM FilesStayWhole == Spec => []NeverTorn
<1>1. SafeInv => NeverTorn
  BY DEF SafeInv
<1> QED
  BY <1>1, SafeInit, SafeStep, PTL DEF Spec

------------------------------------------------------------------------------
(* Until two processes save at the same time. *)

\* One save runs at a time; what it compared is still there when it replaces
\* the file, and what it wrote is still there when it returns.
SaveInv ==
  /\ \A v, w \in Clients : pc[v] \in InSave /\ pc[w] \in InSave => v = w
  /\ \A w \in Clients :
       /\ pc[w] \in {"write", "replace"} => file = loaded[w]
       /\ pc[w] = "return" => file = Updated(w)

RegisterInv == SafeInv /\ (overlapped \/ SaveInv)

\* With no save in progress nothing has been compared.
LEMMA RegisterInit == Init => RegisterInv
BY SafeInit DEF Init, RegisterInv, SaveInv, InSave

\* Once two saves were in progress at the same time, that has happened.
LEMMA OverlapStays ==
  ASSUME TypeOK, [Next]_vars, overlapped
  PROVE  overlapped'
BY DEF Next, Load, BeginSave, WriteTemp, Replace, Return, FailSave, Crash, Overlap,
       vars, TypeOK

\* As long as the save in progress is the only one, what it compared with is
\* what it replaces, in whichever process it runs.
LEMMA RegisterStep == RegisterInv /\ [Next]_vars => RegisterInv'
<1> SUFFICES ASSUME RegisterInv, [Next]_vars PROVE RegisterInv'
  OBVIOUS
<1>0. SafeInv'
  BY SafeStep DEF RegisterInv
<1> SUFFICES ASSUME ~overlapped' PROVE SaveInv'
  BY <1>0 DEF RegisterInv
<1> USE DEF SafeInv
<1>a. SafeInv /\ SaveInv
  BY OverlapStays DEF RegisterInv
<1>1. ASSUME NEW w \in Clients, Load(w) PROVE SaveInv'
  BY <1>1, <1>a DEF Load, Goto, TypeOK, SaveInv, Updated, InSave
<1>2. ASSUME NEW w \in Clients, BeginSave(w) PROVE SaveInv'
  <2>1. CASE file = loaded[w]
    <3>1. \A v \in Clients : pc[v] \notin InSave
      BY <1>2, <1>a, <2>1 DEF BeginSave, Overlap, Goto, TypeOK
    <3> QED
      BY <1>2, <1>a, <2>1, <3>1 DEF BeginSave, Goto, TypeOK, SaveInv, Updated, InSave
  <2>2. CASE file # loaded[w]
    BY <1>2, <1>a, <2>2 DEF BeginSave, Goto, TypeOK, SaveInv, Updated, InSave
  <2> QED
    BY <2>1, <2>2
<1>3. ASSUME NEW w \in Clients, WriteTemp(w) PROVE SaveInv'
  BY <1>3, <1>a DEF WriteTemp, Goto, TypeOK, SaveInv, Updated, InSave
<1>4. ASSUME NEW w \in Clients, Replace(w) PROVE SaveInv'
  BY <1>4, <1>a DEF Replace, Goto, TypeOK, TempInv, SaveInv, Updated, InSave
<1>5. ASSUME NEW w \in Clients, Return(w) PROVE SaveInv'
  BY <1>5, <1>a DEF Return, Goto, TypeOK, SaveInv, Updated, InSave
<1>6. ASSUME NEW w \in Clients, FailSave(w) PROVE SaveInv'
  BY <1>6, <1>a DEF FailSave, Goto, TypeOK, SaveInv, Updated, InSave
<1>7. ASSUME NEW p \in Range(ProcessOf), Crash(p) PROVE SaveInv'
  BY <1>7, <1>a DEF Crash, TypeOK, SaveInv, Updated, InSave
<1>8. CASE UNCHANGED vars
  BY <1>8, <1>a DEF vars, SaveInv, Updated
<1> QED
  BY <1>1, <1>2, <1>3, <1>4, <1>5, <1>6, <1>7, <1>8 DEF Next

\* A replacement is the update of the register, the return of save is its
\* acknowledgement, and no other step of the store shows.
LEMMA RegisterSimulation ==
  RegisterInv /\ [Next]_vars => [overlapped' \/ Register!Next]_(Register!vars)
<1> SUFFICES ASSUME RegisterInv, [Next]_vars, ~overlapped'
             PROVE  [Register!Next]_(Register!vars)
  OBVIOUS
<1> USE DEF SafeInv
<1>a. SafeInv /\ SaveInv
  BY OverlapStays DEF RegisterInv
<1>1. ASSUME NEW w \in Clients, Replace(w) PROVE Register!Update(w)
  BY <1>1, <1>a DEF Replace, TypeOK, TempInv, SaveInv, Updated, Register!Update
<1>2. ASSUME NEW w \in Clients, Return(w)
      PROVE  \E n \in 1..Len(file) : Register!Acknowledge(SubSeq(file, 1, n))
  <2>1. file = Updated(w) /\ file \in Content /\ loaded[w] \in Content
    BY <1>2, <1>a DEF Return, TypeOK, SaveInv, NeverTorn
  <2>2. Len(file) \in 1..Len(file) /\ SubSeq(file, 1, Len(file)) = file
    BY <2>1 DEF Updated, Content
  <2>3. Register!IsPrefix(file, file)
    BY <2>1, <2>2 DEF Register!IsPrefix, Content
  <2>4. Register!Acknowledge(file)
    BY <1>2, <2>1, <2>3 DEF Return, Register!Acknowledge
  <2> QED
    BY <2>2, <2>4
<1>3. ASSUME NEW w \in Clients,
             Load(w) \/ BeginSave(w) \/ WriteTemp(w) \/ FailSave(w)
      PROVE  UNCHANGED Register!vars
  BY <1>3 DEF Load, BeginSave, WriteTemp, FailSave, Register!vars
<1>4. ASSUME NEW p \in Range(ProcessOf), Crash(p) PROVE UNCHANGED Register!vars
  BY <1>4 DEF Crash, Register!vars
<1>5. CASE UNCHANGED vars
  BY <1>5 DEF vars, Register!vars
<1> QED
  BY <1>1, <1>2, <1>3, <1>4, <1>5 DEF Next, Register!Next

\* However many clients in however many processes: until two processes save
\* at the same time, JsonFileCheckpointStore is the compare-and-swap register
\* that WorkflowCheckpointStore promises.
THEOREM RegisterImplemented == Spec => ImplementsRegister
<1>1. Init => Register!Init
  BY DEF Init, Register!Init
<1> QED
  BY <1>1, RegisterInit, RegisterStep, RegisterSimulation, PTL DEF Spec, ImplementsRegister

\* An update that was there stays there, and one that returns is there.
LEMMA KeptStep ==
  ASSUME RegisterInv, SavesAreKept, [Next]_vars
  PROVE  SavesAreKept'
<1> SUFFICES ASSUME ~overlapped' PROVE Kept'
  BY DEF SavesAreKept
<1>a. TypeOK /\ NeverTorn /\ TempInv /\ SaveInv /\ Kept
  BY OverlapStays DEF RegisterInv, SafeInv, SavesAreKept
<1>0. file \in Content /\ saved \subseteq Content
  BY <1>a DEF TypeOK, NeverTorn
<1>1. ASSUME NEW w \in Clients, Replace(w) PROVE Kept'
  <2>1. file' = Append(file, w) /\ saved' = saved
    BY <1>1, <1>a DEF Replace, TypeOK, TempInv, SaveInv, Updated
  <2>2. ASSUME NEW content \in saved PROVE IsPrefix(content, Append(file, w))
    <3>1. IsPrefix(content, file)
      BY <2>2, <1>a DEF Kept
    <3> QED
      BY <1>0, <3>1 DEF IsPrefix, Content
  <2> QED
    BY <2>1, <2>2 DEF Kept
<1>2. ASSUME NEW w \in Clients, Return(w) PROVE Kept'
  <2>1. file' = file /\ file = Updated(w) /\ saved' = saved \cup {file}
    BY <1>2, <1>a DEF Return, SaveInv
  <2>2. IsPrefix(file, file)
    BY <1>0 DEF IsPrefix, Content
  <2> QED
    BY <2>1, <2>2, <1>a DEF Kept
<1>3. ASSUME UNCHANGED <<file, saved>> PROVE Kept'
  BY <1>3, <1>a DEF Kept
<1> QED
  BY <1>1, <1>2, <1>3
  DEF Next, vars, Load, BeginSave, WriteTemp, FailSave, Crash

\* It takes two processes that save at the same time to lose an update whose
\* save returned: no stale load, failed disk or crash does, in any process.
THEOREM SavedUpdatesAreKept == Spec => []SavesAreKept
<1>1. Init => SavesAreKept
  BY DEF Init, SavesAreKept, Kept
<1>2. RegisterInv /\ SavesAreKept /\ [Next]_vars => SavesAreKept'
  BY KeptStep
<1> QED
  BY <1>1, <1>2, RegisterInit, RegisterStep, PTL DEF Spec

------------------------------------------------------------------------------
(* The tasks of one event loop. *)

\* All clients are tasks of the same process.
SingleProcess == \A v, w \in Clients : ProcessOf[v] = ProcessOf[w]

\* save is synchronous, so one event loop never has two in progress.
LEMMA NeverOverlapped ==
  ASSUME SingleProcess PROVE Spec => []~overlapped
<1>1. Init => ~overlapped
  BY DEF Init
<1>2. SafeInv /\ ~overlapped /\ [Next]_vars => ~overlapped'
  BY DEF SafeInv, TypeOK, SingleProcess, Next, Load, BeginSave, WriteTemp, Replace,
         Return, FailSave, Crash, Overlap, Goto, vars
<1> QED
  BY <1>1, <1>2, SafeInit, SafeStep, PTL DEF Spec

\* For the tasks of one event loop the store is the register, with no proviso.
THEOREM RegisterOfOneProcess ==
  ASSUME SingleProcess PROVE Spec => Register!Spec
<1>1. Spec => Register!Init /\ [][overlapped' \/ Register!Next]_(Register!vars)
  BY RegisterImplemented DEF ImplementsRegister
<1>2. Spec => []~overlapped
  BY NeverOverlapped
<1> QED
  BY <1>1, <1>2, PTL DEF Register!Spec

\* For the tasks of one event loop no update is lost whose save returned:
\* between the second read and the replacement nothing else can write.
THEOREM SavesKeptByOneProcess ==
  ASSUME SingleProcess PROVE Spec => []Kept
<1>1. SavesAreKept /\ ~overlapped => Kept
  BY DEF SavesAreKept
<1>2. Spec => []~overlapped
  BY NeverOverlapped
<1> QED
  BY <1>1, <1>2, SavedUpdatesAreKept, PTL

=============================================================================
