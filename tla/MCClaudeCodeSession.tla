------------------------- MODULE MCClaudeCodeSession -------------------------
(***************************************************************************)
(* A small instance of the executor's session for TLC.                     *)
(***************************************************************************)
EXTENDS ClaudeCodeSession

\* One file more than there may be artifacts.
UpToOneTooMany == 0..(MaxArtifacts + 1)

=============================================================================
