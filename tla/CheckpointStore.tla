--------------------------- MODULE CheckpointStore ---------------------------
(***************************************************************************)
(* JsonFileCheckpointStore (src/gearmeshing_ai/runtime/checkpoint_store.py)*)
(* for one work run: clients that load the run's JSON file and save their  *)
(* update of what they loaded.  A save reads the file again, compares, and *)
(* writes a temporary file that replaces it; only the replacement itself   *)
(* is atomic.                                                              *)
(*                                                                         *)
(* The content of the file is the sequence of the updates that went into   *)
(* it, as a WorkRun is the sequence of its events.  save is synchronous,   *)
(* so the clients of one process (the tasks of one event loop) never run   *)
(* two saves at once; those of different processes do.                     *)
(***************************************************************************)
EXTENDS Naturals, SequencesExt

CONSTANTS
  Clients,      \* tasks and commands that save the run
  ProcessOf,    \* the operating system process each of them runs in
  Torn,         \* the content of a file that was written in part
  MaxUpdates    \* bound on the length of the content

ASSUME ProcessOfAssumption == DOMAIN ProcessOf = Clients
ASSUME MaxUpdatesAssumption == MaxUpdates \in Nat
ASSUME TornAssumption == Torn \notin Seq(Clients)

VARIABLES
  file,     \* what is at the run's path; <<>> when nothing is
  pc,       \* where each client is
  loaded,   \* what each client last loaded
  temp,     \* the temporary file of each client's save; <<>> without one
  saved,    \* history: contents whose save returned to the client
  overlapped  \* history: a save began while one of another process was going on

vars == <<file, pc, loaded, temp, saved, overlapped>>

InSave == {"write", "replace", "return"}

Init ==
  /\ file = <<>>
  /\ pc = [w \in Clients |-> "idle"]
  /\ loaded = [w \in Clients |-> <<>>]
  /\ temp = [w \in Clients |-> <<>>]
  /\ saved = {}
  /\ overlapped = FALSE

Goto(w, label) == pc' = [pc EXCEPT ![w] = label]

Updated(w) == Append(loaded[w], w)

\* Client w comes to write its temporary file; who else is in a save?
Overlap(w) ==
  overlapped' = (\/ overlapped
                 \/ pc'[w] = "write" /\ \E v \in Clients : pc[v] \in InSave)

Load(w) ==
  /\ pc[w] = "idle" /\ file # Torn
  /\ loaded' = [loaded EXCEPT ![w] = file]
  /\ Goto(w, "loaded")
  /\ UNCHANGED <<file, temp, saved, overlapped>>

\* Mutant: the file is not compared with what the client loaded.
BeginBlindSave(w) ==
  /\ pc[w] = "loaded" /\ Len(loaded[w]) < MaxUpdates
  /\ \A v \in Clients : ProcessOf[v] = ProcessOf[w] => pc[v] \notin InSave
  /\ Goto(w, "write") /\ temp' = [temp EXCEPT ![w] = Torn]
  /\ Overlap(w)
  /\ UNCHANGED <<file, loaded, saved>>

\* Mutant: the file itself is opened for writing, not a temporary one.
BeginSaveInPlace(w) ==
  /\ pc[w] = "loaded" /\ Len(loaded[w]) < MaxUpdates
  /\ \A v \in Clients : ProcessOf[v] = ProcessOf[w] => pc[v] \notin InSave
  /\ IF file = loaded[w]
     THEN Goto(w, "write") /\ file' = Torn
     ELSE Goto(w, "idle") /\ UNCHANGED file
  /\ Overlap(w)
  /\ UNCHANGED <<loaded, temp, saved>>

\* save, up to the temporary file: read the file again and compare.
BeginSave(w) ==
  /\ pc[w] = "loaded" /\ Len(loaded[w]) < MaxUpdates
  /\ \A v \in Clients : ProcessOf[v] = ProcessOf[w] => pc[v] \notin InSave
  /\ IF file = loaded[w]
     THEN Goto(w, "write") /\ temp' = [temp EXCEPT ![w] = Torn]
     ELSE Goto(w, "idle") /\ UNCHANGED temp
  /\ Overlap(w)
  /\ UNCHANGED <<file, loaded, saved>>

WriteTemp(w) ==
  /\ pc[w] = "write"
  /\ temp' = [temp EXCEPT ![w] = Updated(w)]
  /\ Goto(w, "replace")
  /\ UNCHANGED <<file, loaded, saved, overlapped>>

Replace(w) ==
  /\ pc[w] = "replace"
  /\ file' = temp[w]
  /\ temp' = [temp EXCEPT ![w] = <<>>]
  /\ Goto(w, "return")
  /\ UNCHANGED <<loaded, saved, overlapped>>

Return(w) ==
  /\ pc[w] = "return"
  /\ saved' = saved \cup {Updated(w)}
  /\ Goto(w, "idle")
  /\ UNCHANGED <<file, loaded, temp, overlapped>>

\* Mutant: a save that fails leaves its temporary file behind.
FailSaveLeavingTemp(w) ==
  /\ pc[w] \in {"write", "replace"}
  /\ Goto(w, "idle")
  /\ UNCHANGED <<file, loaded, temp, saved, overlapped>>

\* The disk refuses the write or the replacement: the temporary file is
\* unlinked and save raises.
FailSave(w) ==
  /\ pc[w] \in {"write", "replace"}
  /\ temp' = [temp EXCEPT ![w] = <<>>]
  /\ Goto(w, "idle")
  /\ UNCHANGED <<file, loaded, saved, overlapped>>

\* A process dies with all its clients; a later process starts from a load.
\* Its temporary files stay behind under names that no load looks at.
Crash(p) ==
  LET dead == {w \in Clients : ProcessOf[w] = p}
  IN  /\ \E w \in dead : pc[w] # "idle"
      /\ pc' = [w \in Clients |-> IF w \in dead THEN "idle" ELSE pc[w]]
      /\ temp' = [w \in Clients |-> IF w \in dead THEN <<>> ELSE temp[w]]
      /\ UNCHANGED <<file, loaded, saved, overlapped>>

Next ==
  \/ \E w \in Clients :
       \/ Load(w) \/ BeginSave(w) \/ WriteTemp(w)
       \/ Replace(w) \/ Return(w) \/ FailSave(w)
  \/ \E p \in Range(ProcessOf) : Crash(p)

Spec == Init /\ [][Next]_vars

------------------------------------------------------------------------------

Content == Seq(Clients)

\* The types of the variables; a client has a temporary file exactly while it
\* writes one and replaces the run with it, also when a save fails.
TypeOK ==
  /\ file \in Content \cup {Torn}
  /\ pc \in [Clients -> {"idle", "loaded"} \cup InSave]
  /\ loaded \in [Clients -> Content]
  /\ temp \in [Clients -> Content \cup {Torn}]
  /\ \A w \in Clients : temp[w] # <<>> <=> pc[w] \in {"write", "replace"}
  /\ saved \subseteq Content
  /\ overlapped \in BOOLEAN

\* Nothing loads a partly written run, whatever crashes or fails mid-save and
\* however many processes save at once.
NeverTorn == file # Torn

\* As long as no two processes are in a save at once, the clients have the
\* compare-and-swap register of the port: this is what WorkRunPorts.tla assumes
\* of a save, and the tasks of one event loop always have it.
Register == INSTANCE CasRegister WITH register <- file, acknowledged <- saved

ImplementsRegister ==
  Register!Init /\ [][overlapped' \/ Register!Next]_(Register!vars)

\* The file still contains every update whose save returned.
Kept == \A content \in saved : IsPrefix(content, file)

\* "... compare-and-swap enforced by re-reading the file before every write":
\* it takes two processes that write at the same time to lose an update, and
\* no sequence of stale loads, failed disks and crashes does.
SavesAreKept == overlapped \/ Kept

=============================================================================
