---------------------------- MODULE MCGitWorktree ----------------------------
(***************************************************************************)
(* Small instances of the worktree manager for TLC.                        *)
(***************************************************************************)
EXTENDS GitWorktree, TLC

Symmetry == Permutations(Callers) \cup Permutations(Runs) \cup Permutations(Others)

=============================================================================
