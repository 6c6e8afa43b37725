--------------------------- MODULE MCQualityChecks ---------------------------
(***************************************************************************)
(* A small instance of batches of checks and sandboxed runs for TLC.       *)
(***************************************************************************)
EXTENDS QualityChecks

CONSTANTS b1, d1, n1, n2

\* Two checks with a command, and one that was not found between them.
ThreeChecks ==
  << [name |-> "pytest", command |-> TRUE], [name |-> "ruff", command |-> FALSE],
     [name |-> "mypy", command |-> TRUE] >>

BatchAndDirectRuns == ({b1} \X (1..3)) \cup {d1}

\* The direct run has the name of the first check's container: somebody else
\* verifies with the same run_id_prefix.
SharedName ==
  [r \in BatchAndDirectRuns |-> IF r \in {d1, <<b1, 1>>} THEN n1 ELSE n2]

=============================================================================
