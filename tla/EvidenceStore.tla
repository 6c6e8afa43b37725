---------------------------- MODULE EvidenceStore ----------------------------
(***************************************************************************)
(* JsonFileEvidenceStore (src/gearmeshing_ai/runtime/evidence_store.py)    *)
(* for one evidence_id: savers that persist a record each, some of them    *)
(* the same record (a retry after a crash), some a different one under the *)
(* same id.  save loads the existing record, refuses a different one, and  *)
(* writes a temporary file that replaces it.                               *)
(***************************************************************************)
EXTENDS Naturals, Functions

CONSTANTS
  Savers,      \* callers of save
  RecordOf,    \* the evidence record each of them saves
  ProcessOf,   \* the operating system process each of them runs in
  None         \* no file

ASSUME RecordOfAssumption == DOMAIN RecordOf = Savers /\ None \notin Range(RecordOf)
ASSUME SaverProcessAssumption == DOMAIN ProcessOf = Savers

VARIABLES
  file,     \* the record at the path of the evidence_id, or None
  pc,       \* where each saver is
  durable,  \* history: records whose save returned
  overlapped  \* history: a save began while one of another process was going on

vars == <<file, pc, durable, overlapped>>

InSave == {"write", "replace", "return"}

Init ==
  /\ file = None
  /\ pc = [s \in Savers |-> "idle"]
  /\ durable = {}
  /\ overlapped = FALSE

Goto(s, label) == pc' = [pc EXCEPT ![s] = label]

\* Saver s comes to write its temporary file; who else is in a save?
Overlap(s) ==
  overlapped' = (\/ overlapped
                 \/ pc'[s] = "write" /\ \E t \in Savers : pc[t] \in InSave)

\* Mutant: a different record under the same id is not refused.
BeginAnySave(s) ==
  /\ pc[s] = "idle"
  /\ \A t \in Savers : ProcessOf[t] = ProcessOf[s] => pc[t] \notin InSave
  /\ Goto(s, "write")
  /\ Overlap(s)
  /\ UNCHANGED <<file, durable>>

\* A save begins: it loads what is there and refuses to replace another record.
BeginSave(s) ==
  /\ pc[s] = "idle"
  /\ \A t \in Savers : ProcessOf[t] = ProcessOf[s] => pc[t] \notin InSave
  /\ Goto(s, IF file \notin {None, RecordOf[s]} THEN "conflict" ELSE "write")
  /\ Overlap(s)
  /\ UNCHANGED <<file, durable>>

WriteTemp(s) ==
  /\ pc[s] = "write"
  /\ Goto(s, "replace")
  /\ UNCHANGED <<file, durable, overlapped>>

Replace(s) ==
  /\ pc[s] = "replace"
  /\ file' = RecordOf[s]
  /\ Goto(s, "return")
  /\ UNCHANGED <<durable, overlapped>>

\* The caller may save the same record again later.
Return(s) ==
  /\ pc[s] = "return"
  /\ durable' = durable \cup {RecordOf[s]}
  /\ Goto(s, "idle")
  /\ UNCHANGED <<file, overlapped>>

\* The disk refuses, or the process dies; the caller may retry.
Interrupt(s) ==
  /\ pc[s] \in InSave
  /\ Goto(s, "idle")
  /\ UNCHANGED <<file, durable, overlapped>>

Next ==
  \E s \in Savers :
    BeginSave(s) \/ WriteTemp(s) \/ Replace(s) \/ Return(s) \/ Interrupt(s)

Spec == Init /\ [][Next]_vars

------------------------------------------------------------------------------

Kept == durable \subseteq {file}

\* Until two processes save at the same time, every record whose save returned
\* is still the stored one, across crashes, retries and collisions of the
\* evidence_id: a caller that saw its save succeed can hand the id on.
SavedEvidenceKept == overlapped \/ Kept

\* Until then the id takes one record and keeps it: a record that a reader has
\* seen is the one that later readers see, whether or not its save returned.
Once == INSTANCE WriteOnce
  WITH Records <- Range(RecordOf), record <- file, acknowledged <- durable

ImplementsWriteOnce ==
  Once!Init /\ [][overlapped' \/ Once!Next]_(Once!vars)

=============================================================================
