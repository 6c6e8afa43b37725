--------------------------- MODULE MCWorkRunSystem ---------------------------
(***************************************************************************)
(* Small instances of the work-run system for TLC.                         *)
(***************************************************************************)
EXTENDS WorkRunSystem

\* What a stage's port may return: nothing, or at most one artifact (which an
\* earlier attempt or another call may have returned already).
NoEvidence == {<<>>}
AtMostOne == {<<>>} \cup {<<a>> : a \in ArtifactIds}

\* Revisions within the safe character set pass _sanitize_revision unchanged;
\* timestamps do not, and become revisions the tracker never shows.
PlainRevisions == [r \in Revisions |-> r]

SafeRevision == CHOOSE r \in Revisions : TRUE
Timestamps == [r \in Revisions |-> SafeRevision]

\* The system while calls are only made one after another, each a resume of what
\* the ones before it left, and the work item is ready.
ResumeSpec ==
  Init /\ [][/\ Next
             /\ \A c \in Calls :
                  /\ pc'[c] # "block"
                  /\ pc[c] = "idle" /\ pc'[c] # "idle" =>
                       \A d \in Calls : pc[d] \in Ended \cup {"idle"}]_vars

\* Call c is made now, and only with the run that a finished command has saved.
CallsSavedRun(c) ==
  pc[c] = "idle" /\ pc'[c] # "idle" =>
    \E k \in Commands :
      command[k] = "done" /\ target[k] = checkpoint /\ input'[c] = checkpoint

\* The system while nobody edits an item whose revision is a timestamp, and
\* runs are approved on the command line only.
QuietSpec ==
  /\ Init /\ issue # SafeRevision
  /\ [][Next /\ UNCHANGED issue /\ \A c \in Calls : CallsSavedRun(c)]_vars

\* Calls, and commands, are interchangeable.
Symmetry == Permutations(Calls) \cup Permutations(Commands)

\* So are revisions, people and evidence, where no revision is sanitized.
FullSymmetry ==
  Symmetry \cup Permutations(Revisions) \cup Permutations(Approvers)
    \cup Permutations(ArtifactIds)

=============================================================================
