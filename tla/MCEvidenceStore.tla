--------------------------- MODULE MCEvidenceStore ---------------------------
(***************************************************************************)
(* Small instances of the evidence store for TLC: savers 1 and 2 save the  *)
(* same record, the others one of their own each; saver 4 is a command in  *)
(* a process of its own.                                                   *)
(***************************************************************************)
EXTENDS EvidenceStore

OneRetried == [s \in Savers |-> IF s = 2 THEN 1 ELSE s]
TwoProcesses == [s \in Savers |-> IF s = 4 THEN "gmai" ELSE "runner"]

=============================================================================
