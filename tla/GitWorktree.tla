----------------------------- MODULE GitWorktree -----------------------------
(***************************************************************************)
(* GitWorktreeManager (src/gearmeshing_ai/adapters/git_worktree.py): the   *)
(* worktree and the branch of a run, made or found again by                *)
(* ensure_worktree and taken away by cleanup.                              *)
(*                                                                         *)
(* A step is one git command, so that processes that use the same          *)
(* repository interleave between the commands, any of which may fail or be *)
(* the last one before its process dies.  Git and the people who work in   *)
(* the repository are external.                                            *)
(*                                                                         *)
(* branch_name and worktree_path are one-to-one in the run: the run stands *)
(* for its path and for its branch.                                        *)
(***************************************************************************)
EXTENDS Naturals

CONSTANTS
  Callers,     \* processes with a manager for the repository
  Runs,
  Others,      \* branches that are not of a run
  Home,        \* repository_root, the main worktree
  Detached,    \* a worktree without a branch
  None

ASSUME NamesAssumption ==
  /\ Home \notin Runs
  /\ Runs \cap Others = {}
  /\ Detached \notin Runs \cup Others
  /\ None \notin Runs \cup Others \cup {Detached} \cup {"base", "work"}

Paths == Runs \cup {Home}
Branches == Runs \cup Others

VARIABLES
  worktree,   \* git worktree list: what each path is bound to, None: not there
  tip,        \* of each run's branch: None, "base" or "work" on top of it
  clean,      \* git status has nothing to say
  pc,         \* the next command of each caller
  run,        \* the run that it is about
  disturbed   \* history: callers whose run was changed against their purpose

gitVars == <<worktree, tip, clean>>
vars == <<gitVars, pc, run, disturbed>>

Ensuring == {"status", "list", "branch", "attach", "create", "ensured"}
Cleaning == {"find", "remove", "probe", "delete", "cleaned", "unprobed"}

Init ==
  /\ worktree \in {[p \in Paths |-> IF p = Home THEN b ELSE None] : b \in Others}
  /\ tip = [r \in Runs |-> None]
  /\ clean \in BOOLEAN
  /\ pc = [c \in Callers |-> "idle"]
  /\ run = [c \in Callers |-> None]
  /\ disturbed = {}

Goto(c, label) == pc' = [pc EXCEPT ![c] = label]

\* A call returns or raises, or its process dies.
End(c) ==
  /\ Goto(c, "idle")
  /\ run' = [run EXCEPT ![c] = None]
  /\ disturbed' = disturbed \ {c}

Begin(c, r, label) ==
  /\ pc[c] = "idle"
  /\ Goto(c, label)
  /\ run' = [run EXCEPT ![c] = r]
  /\ UNCHANGED <<gitVars, disturbed>>

\* Those who want the run's worktree, and those who want it gone.
Users(r) == {c \in Callers : pc[c] \in Ensuring /\ run[c] = r}
Cleaners(r) == {c \in Callers : pc[c] \in Cleaning /\ run[c] = r}

IsCheckedOut(b) == \E p \in Paths : worktree[p] = b

\* git has refused or failed: GitCommandError, or the end of the process.  At
\* the rev-parse of _branch_exists it is the latter, or git cannot be run: that
\* it exits with an error is an answer there (FindBranch, Probe).
GitFails(c) ==
  /\ pc[c] # "idle"
  /\ End(c)
  /\ UNCHANGED gitVars

------------------------------------------------------------------------------
(* ensure_worktree, for a supported base branch. *)

EnsureWorktree(c, r) == Begin(c, r, "status")

\* _require_clean_repository
RequireClean(c) ==
  /\ pc[c] = "status"
  /\ IF clean THEN Goto(c, "list") /\ UNCHANGED <<run, disturbed>> ELSE End(c)
  /\ UNCHANGED gitVars

\* Mutant: a worktree at the run's path is taken for the run's.
FindWorktreeByPath(c) ==
  /\ pc[c] = "list"
  /\ IF worktree[run[c]] = None THEN Goto(c, "branch") ELSE Goto(c, "ensured")
  /\ UNCHANGED <<gitVars, run, disturbed>>

\* _find_worktree: a worktree that is bound to another branch is a conflict.
FindWorktree(c) ==
  /\ pc[c] = "list"
  /\ \/ worktree[run[c]] = None /\ Goto(c, "branch") /\ UNCHANGED <<run, disturbed>>
     \/ worktree[run[c]] = run[c] /\ Goto(c, "ensured") /\ UNCHANGED <<run, disturbed>>
     \/ worktree[run[c]] \notin {None, run[c]} /\ End(c)
  /\ UNCHANGED gitVars

\* _branch_exists: any exit code of rev-parse but 0, also that of an error, says
\* that there is no branch.
FindBranch(c) ==
  /\ pc[c] = "branch"
  /\ \/ tip[run[c]] # None /\ Goto(c, "attach")
     \/ Goto(c, "create")
  /\ UNCHANGED <<gitVars, run, disturbed>>

\* git worktree add <path> <branch>
Attach(c) ==
  /\ pc[c] = "attach"
  /\ worktree[run[c]] = None /\ tip[run[c]] # None /\ ~IsCheckedOut(run[c])
  /\ worktree' = [worktree EXCEPT ![run[c]] = run[c]]
  /\ Goto(c, "ensured")
  /\ disturbed' = disturbed \cup Cleaners(run[c])
  /\ UNCHANGED <<tip, clean, run>>

\* Mutant: git worktree add -B, which moves a branch that is there by now.
CreateOrReset(c) ==
  /\ pc[c] = "create"
  /\ worktree[run[c]] = None /\ ~IsCheckedOut(run[c])
  /\ tip' = [tip EXCEPT ![run[c]] = "base"]
  /\ worktree' = [worktree EXCEPT ![run[c]] = run[c]]
  /\ Goto(c, "ensured")
  /\ disturbed' = disturbed \cup Cleaners(run[c])
  /\ UNCHANGED <<clean, run>>

\* git worktree add -b <branch> <path> <base>: git makes the branch, then the
\* worktree, and may not come to the second (a directory in the way, a kill).
Create(c) ==
  /\ pc[c] = "create"
  /\ worktree[run[c]] = None /\ tip[run[c]] = None
  /\ tip' = [tip EXCEPT ![run[c]] = "base"]
  /\ \/ /\ worktree' = [worktree EXCEPT ![run[c]] = run[c]]
        /\ Goto(c, "ensured")
        /\ disturbed' = disturbed \cup Cleaners(run[c])
        /\ UNCHANGED run
     \/ /\ pc' = [pc EXCEPT ![c] = "idle"]
        /\ run' = [run EXCEPT ![c] = None]
        /\ disturbed' = (disturbed \cup Cleaners(run[c])) \ {c}
        /\ UNCHANGED worktree
  /\ UNCHANGED clean

\* A RepositoryContext, or None, is returned.
Return(c) ==
  /\ pc[c] \in {"ensured", "cleaned", "unprobed"}
  /\ End(c)
  /\ UNCHANGED gitVars

------------------------------------------------------------------------------
(* cleanup, unless evidence is to be preserved. *)

Cleanup(c, r) == Begin(c, r, "find")

\* Mutant: the branch of the worktree is not looked at.
FindAnyForCleanup(c) ==
  /\ pc[c] = "find"
  /\ Goto(c, IF worktree[run[c]] = None THEN "probe" ELSE "remove")
  /\ UNCHANGED <<gitVars, run, disturbed>>

\* Mutant: there is nothing to do when there is no worktree.
FindOrReturn(c) ==
  /\ pc[c] = "find"
  /\ \/ worktree[run[c]] = None /\ Goto(c, "cleaned") /\ UNCHANGED <<run, disturbed>>
     \/ worktree[run[c]] = run[c] /\ Goto(c, "remove") /\ UNCHANGED <<run, disturbed>>
     \/ worktree[run[c]] \notin {None, run[c]} /\ End(c)
  /\ UNCHANGED gitVars

\* _find_worktree: what is bound to another branch is not recognized.
FindForCleanup(c) ==
  /\ pc[c] = "find"
  /\ \/ worktree[run[c]] = None /\ Goto(c, "probe") /\ UNCHANGED <<run, disturbed>>
     \/ worktree[run[c]] = run[c] /\ Goto(c, "remove") /\ UNCHANGED <<run, disturbed>>
     \/ worktree[run[c]] \notin {None, run[c]} /\ End(c)
  /\ UNCHANGED gitVars

\* git worktree remove --force <path>, whatever is there by now.
Remove(c) ==
  /\ pc[c] = "remove"
  /\ worktree[run[c]] # None
  /\ worktree' = [worktree EXCEPT ![run[c]] = None]
  /\ Goto(c, "probe")
  /\ disturbed' = disturbed \cup Users(run[c])
  /\ UNCHANGED <<tip, clean, run>>

\* _branch_exists: cleanup is over when rev-parse finds no branch, and also
\* ("unprobed") when it exits with an error, whether there is one or not.
Probe(c) ==
  /\ pc[c] = "probe"
  /\ \/ tip[run[c]] # None /\ Goto(c, "delete")
     \/ tip[run[c]] = None /\ Goto(c, "cleaned")
     \/ Goto(c, "unprobed")
  /\ UNCHANGED <<gitVars, run, disturbed>>

\* Mutant: git update-ref -d, which does not look at the worktrees.
DeleteRef(c) ==
  /\ pc[c] = "delete"
  /\ tip' = [tip EXCEPT ![run[c]] = None]
  /\ Goto(c, "cleaned")
  /\ UNCHANGED <<worktree, clean, run, disturbed>>

\* git branch -D <branch>
Delete(c) ==
  /\ pc[c] = "delete"
  /\ tip[run[c]] # None /\ ~IsCheckedOut(run[c])
  /\ tip' = [tip EXCEPT ![run[c]] = None]
  /\ Goto(c, "cleaned")
  /\ UNCHANGED <<worktree, clean, run, disturbed>>

------------------------------------------------------------------------------
(* People, and the executor that works in a run's worktree. *)

Commit(p) ==
  /\ worktree[p] \in Runs
  /\ tip' = [tip EXCEPT ![worktree[p]] = "work"]
  /\ UNCHANGED <<worktree, clean, pc, run, disturbed>>

\* What a worktree may be switched to, or made for.
Free == {b \in Branches : ~IsCheckedOut(b) /\ (b \in Runs => tip[b] # None)}

Bind(p, b) ==
  /\ worktree' = [worktree EXCEPT ![p] = b]
  /\ disturbed' = IF p = Home THEN disturbed
                  ELSE disturbed \cup Users(p) \cup Cleaners(p)
  /\ UNCHANGED <<tip, clean, pc, run>>

Switch(p, b) == worktree[p] # None /\ Bind(p, b)

AddWorktree(r, b) == worktree[r] = None /\ Bind(r, b)

RemoveWorktree(r) == worktree[r] # None /\ Bind(r, None)

Edit ==
  /\ clean' = ~clean
  /\ UNCHANGED <<worktree, tip, pc, run, disturbed>>

------------------------------------------------------------------------------

Command(c) ==
  \/ RequireClean(c) \/ FindWorktree(c) \/ FindBranch(c) \/ Attach(c) \/ Create(c)
  \/ FindForCleanup(c) \/ Remove(c) \/ Probe(c) \/ Delete(c)
  \/ Return(c) \/ GitFails(c)

People ==
  \/ \E p \in Paths : Commit(p)
  \/ \E p \in Paths, b \in Free \cup {Detached} : Switch(p, b)
  \/ \E r \in Runs, b \in Free \cup {Detached} : AddWorktree(r, b)
  \/ \E r \in Runs : RemoveWorktree(r)
  \/ Edit

Next ==
  \/ \E c \in Callers, r \in Runs : EnsureWorktree(c, r) \/ Cleanup(c, r)
  \/ \E c \in Callers : Command(c)
  \/ People

Spec == Init /\ [][Next]_vars

------------------------------------------------------------------------------

\* The types of the variables, and what git relies on: a run's branch that is
\* checked out exists, and in one place.
TypeOK ==
  /\ worktree \in [Paths -> Branches \cup {Detached, None}]
  /\ tip \in [Runs -> {None, "base", "work"}]
  /\ clean \in BOOLEAN
  /\ pc \in [Callers -> {"idle"} \cup Ensuring \cup Cleaning]
  /\ run \in [Callers -> Runs \cup {None}]
  /\ \A c \in Callers : pc[c] # "idle" => run[c] \in Runs
  /\ disturbed \subseteq Callers
  /\ \A p, q \in Paths : worktree[p] \in Runs =>
       tip[worktree[p]] # None /\ (worktree[q] = worktree[p] => p = q)

\* ensure_worktree returns a context whose worktree is bound to the run's
\* branch, and whose branch exists, however many processes ensure the same run
\* at once and wherever an earlier one stopped; unless the run was cleaned up
\* or somebody changed its worktree meanwhile.
ContextsAreBound ==
  \A c \in Callers \ disturbed : pc[c] = "ensured" =>
    worktree[run[c]] = run[c] /\ tip[run[c]] # None

\* "Safe to call repeatedly": once cleanup has returned, the run has neither a
\* worktree nor a branch that its next use would start from, also when an
\* earlier cleanup or ensure_worktree stopped halfway.  The branch may be left
\* only by a cleanup whose look for it has failed, which nobody is told.
CleanedIsGone ==
  \A c \in Callers \ disturbed :
    /\ pc[c] \in {"cleaned", "unprobed"} => worktree[run[c]] = None
    /\ pc[c] = "cleaned" => tip[run[c]] = None

\* "An unrelated developer worktree that happens to share the path can never
\* be removed": the one that a cleanup removes is the run's, unless it was
\* changed after the cleanup looked.
ForeignWorktreesKept ==
  [][\A c \in Callers : Remove(c) /\ worktree[run[c]] # run[c] => c \in disturbed]_vars

\* What was committed for a run is lost only to a cleanup of that run, and not
\* while a worktree has the branch: ensure_worktree never starts over.
WorkIsKept ==
  [][\A r \in Runs : tip[r] = "work" /\ tip'[r] # "work" =>
       ~IsCheckedOut(r) /\ \E c \in Cleaners(r) : pc'[c] = "cleaned"]_vars

=============================================================================
