-------------------------- MODULE GitWorktreeProofs --------------------------
(***************************************************************************)
(* Theorems about the worktree manager, for any number of processes, runs  *)
(* and other branches.                                                     *)
(*                                                                         *)
(* The inductive invariant says what a call may rely on between two of its *)
(* commands as long as nobody has worked against it.                       *)
(***************************************************************************)
EXTENDS GitWorktree, TLAPS

\* What cleanup has found or done, unless it was disturbed.
CleanupInv ==
  \A c \in Callers \ disturbed :
    /\ pc[c] = "remove" => worktree[run[c]] \in {run[c], None}
    /\ pc[c] \in {"probe", "delete", "cleaned", "unprobed"} => worktree[run[c]] = None

Inv == TypeOK /\ CleanupInv /\ ContextsAreBound /\ CleanedIsGone

\* No worktree but the main one, and no call.
LEMMA InvInit == Init => Inv
BY NamesAssumption
DEF Init, Inv, TypeOK, CleanupInv, ContextsAreBound, CleanedIsGone, Paths, Branches,
    Ensuring, Cleaning

\* A call that changes nothing of the repository keeps the invariant if what it
\* goes on with is what it has found.
LEMMA CallStep ==
  ASSUME Inv, NEW c \in Callers, UNCHANGED gitVars,
         NEW label \in {"idle"} \cup Ensuring \cup Cleaning,
         NEW r \in Runs \cup {None},
         label = "idle" \/ r \in Runs,
         pc' = [pc EXCEPT ![c] = label], run' = [run EXCEPT ![c] = r],
         disturbed' \subseteq Callers, disturbed \ {c} \subseteq disturbed',
         c \in disturbed' \/
           /\ label = "ensured" => worktree[r] = r
           /\ label = "remove" => worktree[r] \in {r, None}
           /\ label \in {"probe", "delete", "cleaned", "unprobed"} => worktree[r] = None
           /\ label = "cleaned" => tip[r] = None
  PROVE  Inv'
<1>1. /\ pc'[c] = label /\ run'[c] = r
      /\ \A d \in Callers \ {c} : pc'[d] = pc[d] /\ run'[d] = run[d]
      /\ UNCHANGED <<worktree, tip, clean>>
  BY DEF Inv, TypeOK, gitVars
<1>2. TypeOK'
  BY <1>1 DEF Inv, TypeOK
<1>3. ASSUME NEW d \in Callers \ disturbed', d # c
      PROVE  d \in Callers \ disturbed /\ pc'[d] = pc[d] /\ run'[d] = run[d]
  BY <1>1, <1>3
<1>4. CleanupInv'
  BY <1>1, <1>3 DEF Inv, CleanupInv, Ensuring
<1>5. ContextsAreBound'
  <2>1. worktree[r] = r /\ r \in Runs => tip[r] # None
    BY DEF Inv, TypeOK, Paths
  <2> QED
    BY <1>1, <1>3, <2>1 DEF Inv, ContextsAreBound
<1>6. CleanedIsGone'
  BY <1>1, <1>3 DEF Inv, CleanedIsGone
<1> QED
  BY <1>2, <1>4, <1>5, <1>6 DEF Inv

\* The commands that only read, and the ends of calls.
LEMMA ReadSteps ==
  ASSUME Inv, NEW c \in Callers,
         \/ RequireClean(c) \/ FindWorktree(c) \/ FindBranch(c) \/ FindForCleanup(c)
         \/ Probe(c) \/ Return(c) \/ GitFails(c)
  PROVE  Inv'
<1>1. /\ run \in [Callers -> Runs \cup {None}] /\ disturbed \subseteq Callers
      /\ run[c] \in Runs \/ pc[c] = "idle"
      /\ run = [run EXCEPT ![c] = run[c]]
  BY DEF Inv, TypeOK
<1>2. CASE End(c) /\ UNCHANGED gitVars
  <2>1. "idle" \in {"idle"} \cup Ensuring \cup Cleaning
    OBVIOUS
  <2>2. /\ disturbed' \subseteq Callers /\ disturbed \ {c} \subseteq disturbed'
        /\ pc' = [pc EXCEPT ![c] = "idle"] /\ run' = [run EXCEPT ![c] = None]
    BY <1>1, <1>2 DEF End, Goto
  <2> QED
    BY <1>2, <2>1, <2>2, CallStep
<1>3. ASSUME NEW label \in Ensuring \cup Cleaning, Goto(c, label), run[c] \in Runs,
             UNCHANGED <<gitVars, run, disturbed>>,
             \/ c \in disturbed
             \/ /\ label = "ensured" => worktree[run[c]] = run[c]
                /\ label = "remove" => worktree[run[c]] \in {run[c], None}
                /\ label \in {"probe", "delete", "cleaned", "unprobed"} =>
                     worktree[run[c]] = None
                /\ label = "cleaned" => tip[run[c]] = None
      PROVE  Inv'
  <2>1. pc' = [pc EXCEPT ![c] = label] /\ run' = [run EXCEPT ![c] = run[c]]
    BY <1>1, <1>3 DEF Goto
  <2> QED
    BY <1>1, <1>3, <2>1, CallStep
<1>4. CASE RequireClean(c)
  BY <1>1, <1>2, <1>3, <1>4 DEF RequireClean, Ensuring, Cleaning
<1>5. CASE FindWorktree(c)
  BY <1>1, <1>2, <1>3, <1>5 DEF FindWorktree, Ensuring, Cleaning
<1>6. CASE FindBranch(c)
  <2>1. Goto(c, "attach") \/ Goto(c, "create")
    BY <1>6 DEF FindBranch
  <2> QED
    BY <1>1, <1>3, <1>6, <2>1 DEF FindBranch, Ensuring, Cleaning
<1>7. CASE FindForCleanup(c)
  BY <1>1, <1>2, <1>3, <1>7 DEF FindForCleanup, Ensuring, Cleaning
<1>8. CASE Probe(c)
  <2>1. c \in disturbed \/ worktree[run[c]] = None
    BY <1>8 DEF Probe, Inv, CleanupInv
  <2>2. CASE Goto(c, "delete")
    BY <1>1, <1>3, <1>8, <2>1, <2>2 DEF Probe, Ensuring, Cleaning
  <2>3. CASE tip[run[c]] = None /\ Goto(c, "cleaned")
    BY <1>1, <1>3, <1>8, <2>1, <2>3 DEF Probe, Ensuring, Cleaning
  <2>4. CASE Goto(c, "unprobed")
    BY <1>1, <1>3, <1>8, <2>1, <2>4 DEF Probe, Ensuring, Cleaning
  <2> QED
    BY <1>8, <2>2, <2>3, <2>4 DEF Probe
<1>9. CASE Return(c) \/ GitFails(c)
  BY <1>2, <1>9 DEF Return, GitFails
<1> QED
  BY <1>4, <1>5, <1>6, <1>7, <1>8, <1>9

\* A caller that is not disturbed after a step was not before; it is neither a
\* cleaner of a run whose cleaners were disturbed, nor a user of one whose users
\* were.
LEMMA Undisturbed ==
  ASSUME NEW r, NEW d \in Callers, pc[d] # "idle", run[d] = r
  PROVE  /\ d \notin Cleaners(r) => pc[d] \notin Cleaning
         /\ d \notin Users(r) => pc[d] \notin Ensuring
BY DEF Cleaners, Users

\* The worktree of a run is made, with its branch or for the branch there is.
LEMMA AddSteps ==
  ASSUME Inv, NEW c \in Callers, Attach(c) \/ Create(c)
  PROVE  Inv'
<1> DEFINE r == run[c]
<1>1. /\ r \in Runs /\ worktree[r] = None /\ r \in Paths
      /\ pc[c] \in Ensuring \ {"ensured"} /\ UNCHANGED clean
  BY DEF Attach, Create, Inv, TypeOK, Paths, Ensuring
<1>2. PICK t \in {"base", "work"}, label \in {"idle", "ensured"} :
        /\ tip' = [tip EXCEPT ![r] = t]
        /\ pc' = [pc EXCEPT ![c] = label]
        /\ label = "ensured" =>
             /\ worktree' = [worktree EXCEPT ![r] = r]
             /\ run' = run /\ disturbed' = disturbed \cup Cleaners(r)
             /\ ~IsCheckedOut(r)
        /\ label = "idle" =>
             /\ worktree' = worktree /\ run' = [run EXCEPT ![c] = None]
             /\ disturbed' = (disturbed \cup Cleaners(r)) \ {c}
  <2>1. CASE Attach(c)
    <3>1. tip[r] \in {"base", "work"} /\ tip' = [tip EXCEPT ![r] = tip[r]]
      BY <1>1, <2>1 DEF Attach, Inv, TypeOK
    <3> QED
      BY <2>1, <3>1 DEF Attach, Goto
  <2>2. CASE Create(c)
    <3>1. ~IsCheckedOut(r)
      BY <1>1, <2>2 DEF Create, IsCheckedOut, Inv, TypeOK
    <3> QED
      BY <2>2, <3>1 DEF Create, Goto
  <2> QED
    BY <2>1, <2>2
<1> HIDE DEF r
<1>3. /\ pc'[c] = label
      /\ \A d \in Callers \ {c} : pc'[d] = pc[d] /\ run'[d] = run[d]
      /\ label = "ensured" => run'[c] = r
      /\ tip'[r] \in {"base", "work"}
      /\ \A q \in Runs \ {r} : tip'[q] = tip[q]
      /\ \A q \in Paths \ {r} : worktree'[q] = worktree[q]
      /\ label = "ensured" => worktree'[r] = r
      /\ label = "idle" => worktree'[r] = worktree[r]
  BY <1>1, <1>2 DEF Inv, TypeOK, r
<1>4. TypeOK'
  <2>1. tip' \in [Runs -> {None, "base", "work"}]
    BY <1>2 DEF Inv, TypeOK
  <2>2. worktree' \in [Paths -> Branches \cup {Detached, None}]
    BY <1>1, <1>2 DEF Inv, TypeOK, Branches
  <2>3. /\ pc' \in [Callers -> {"idle"} \cup Ensuring \cup Cleaning]
        /\ run' \in [Callers -> Runs \cup {None}]
        /\ \A d \in Callers : pc'[d] # "idle" => run'[d] \in Runs
    <3>1. pc' \in [Callers -> {"idle"} \cup Ensuring \cup Cleaning]
      BY <1>2 DEF Inv, TypeOK, Ensuring
    <3>2. run' \in [Callers -> Runs \cup {None}]
      BY <1>2 DEF Inv, TypeOK
    <3> QED
      BY <1>1, <1>3, <3>1, <3>2 DEF Inv, TypeOK
  <2>4. disturbed' \subseteq Callers
    BY <1>2 DEF Inv, TypeOK, Cleaners
  <2>5. \A p, q \in Paths : worktree'[p] \in Runs =>
          tip'[worktree'[p]] # None /\ (worktree'[q] = worktree'[p] => p = q)
    <3>1. \A p \in Runs : tip'[p] = None => tip[p] = None /\ p # r
      BY <1>3, NamesAssumption
    <3>2. \A p \in Paths \ {r} : label = "ensured" => worktree'[p] # r
      BY <1>1, <1>2, <1>3 DEF IsCheckedOut
    <3> QED
      BY <1>1, <1>2, <1>3, <3>1, <3>2 DEF Inv, TypeOK
  <2> QED
    BY <1>1, <2>1, <2>2, <2>3, <2>4, <2>5 DEF Inv, TypeOK
<1>5. ASSUME NEW d \in Callers \ disturbed', d # c, pc'[d] # "idle"
      PROVE  /\ d \in Callers \ disturbed /\ pc'[d] = pc[d] /\ run'[d] = run[d]
             /\ run[d] \in Runs /\ (run[d] = r => pc[d] \notin Cleaning)
  <2>1. d \notin disturbed \cup Cleaners(r) /\ pc'[d] = pc[d] /\ run'[d] = run[d]
    BY <1>2, <1>3, <1>5
  <2> QED
    BY <1>5, <2>1, Undisturbed DEF Inv, TypeOK
<1>6. CleanupInv'
  BY <1>2, <1>3, <1>5 DEF Inv, CleanupInv, Cleaning, Paths
<1>7. ContextsAreBound'
  <2>1. \A q \in Runs : worktree'[q] = q => tip'[q] # None
    BY <1>4 DEF TypeOK, Paths
  <2> QED
    BY <1>1, <1>2, <1>3, <1>5, <2>1 DEF Inv, ContextsAreBound, Paths
<1>8. CleanedIsGone'
  BY <1>2, <1>3, <1>5 DEF Inv, CleanedIsGone, Cleaning, Paths
<1> QED
  BY <1>4, <1>6, <1>7, <1>8 DEF Inv

\* The worktree of a run is removed; its users have lost it.
LEMMA RemoveStep ==
  ASSUME Inv, NEW c \in Callers, Remove(c)
  PROVE  Inv'
<1> DEFINE r == run[c]
<1>1. /\ r \in Runs /\ r \in Paths /\ pc[c] = "remove"
      /\ worktree' = [worktree EXCEPT ![r] = None]
      /\ pc' = [pc EXCEPT ![c] = "probe"]
      /\ disturbed' = disturbed \cup Users(r)
      /\ UNCHANGED <<tip, clean, run>>
  BY DEF Remove, Goto, Inv, TypeOK, Paths
<1> HIDE DEF r
<1>2. /\ pc'[c] = "probe" /\ run[c] = r /\ worktree'[r] = None
      /\ \A d \in Callers \ {c} : pc'[d] = pc[d]
      /\ \A q \in Paths \ {r} : worktree'[q] = worktree[q]
  BY <1>1 DEF Inv, TypeOK, r
<1>3. TypeOK'
  <2>1. worktree' \in [Paths -> Branches \cup {Detached, None}]
    BY <1>1 DEF Inv, TypeOK
  <2>2. pc' \in [Callers -> {"idle"} \cup Ensuring \cup Cleaning]
    BY <1>1 DEF Inv, TypeOK, Cleaning
  <2>3. disturbed' \subseteq Callers
    BY <1>1 DEF Inv, TypeOK, Users
  <2>4. \A d \in Callers : pc'[d] # "idle" => run[d] \in Runs
    BY <1>1, <1>2 DEF Inv, TypeOK
  <2>5. \A p, q \in Paths : worktree'[p] \in Runs =>
          tip[worktree'[p]] # None /\ (worktree'[q] = worktree'[p] => p = q)
    BY <1>2, NamesAssumption DEF Inv, TypeOK
  <2> QED
    BY <1>1, <2>1, <2>2, <2>3, <2>4, <2>5 DEF Inv, TypeOK
<1>4. ASSUME NEW d \in Callers \ disturbed', d # c, pc'[d] # "idle"
      PROVE  /\ d \in Callers \ disturbed /\ pc'[d] = pc[d] /\ run[d] \in Runs
             /\ run[d] = r => pc[d] \notin Ensuring
  <2>1. d \notin disturbed \cup Users(r) /\ pc'[d] = pc[d]
    BY <1>1, <1>2, <1>4
  <2> QED
    BY <1>4, <2>1, Undisturbed DEF Inv, TypeOK
<1>5. CleanupInv'
  BY <1>1, <1>2, <1>4 DEF Inv, CleanupInv, Paths
<1>6. ContextsAreBound'
  BY <1>1, <1>2, <1>4 DEF Inv, ContextsAreBound, Paths, Ensuring
<1>7. CleanedIsGone'
  BY <1>1, <1>2, <1>4 DEF Inv, CleanedIsGone, Paths
<1> QED
  BY <1>3, <1>5, <1>6, <1>7 DEF Inv

\* The branch of a run is deleted, which nobody has checked out.
LEMMA DeleteStep ==
  ASSUME Inv, NEW c \in Callers, Delete(c)
  PROVE  Inv'
<1> DEFINE r == run[c]
<1>1. /\ r \in Runs /\ pc[c] = "delete" /\ ~IsCheckedOut(r)
      /\ tip' = [tip EXCEPT ![r] = None]
      /\ pc' = [pc EXCEPT ![c] = "cleaned"]
      /\ UNCHANGED <<worktree, clean, run, disturbed>>
  BY DEF Delete, Goto, Inv, TypeOK
<1> HIDE DEF r
<1>2. /\ pc'[c] = "cleaned" /\ run[c] = r /\ tip'[r] = None
      /\ \A d \in Callers \ {c} : pc'[d] = pc[d]
      /\ \A q \in Runs \ {r} : tip'[q] = tip[q]
      /\ \A p \in Paths : worktree[p] # r
  BY <1>1 DEF Inv, TypeOK, IsCheckedOut, r
<1>3. TypeOK'
  <2>1. tip' \in [Runs -> {None, "base", "work"}]
    BY <1>1 DEF Inv, TypeOK
  <2>2. pc' \in [Callers -> {"idle"} \cup Ensuring \cup Cleaning]
    BY <1>1 DEF Inv, TypeOK, Cleaning
  <2>3. \A d \in Callers : pc'[d] # "idle" => run[d] \in Runs
    BY <1>1, <1>2 DEF Inv, TypeOK
  <2>4. \A p, q \in Paths : worktree[p] \in Runs =>
          tip'[worktree[p]] # None /\ (worktree[q] = worktree[p] => p = q)
    BY <1>2 DEF Inv, TypeOK
  <2> QED
    BY <1>1, <2>1, <2>2, <2>3, <2>4 DEF Inv, TypeOK
<1>4. CleanupInv'
  BY <1>1, <1>2 DEF Inv, CleanupInv
<1>5. ContextsAreBound'
  BY <1>1, <1>2 DEF Inv, TypeOK, ContextsAreBound, Paths
<1>6. CleanedIsGone'
  BY <1>1, <1>2 DEF Inv, TypeOK, CleanedIsGone, CleanupInv
<1> QED
  BY <1>3, <1>4, <1>5, <1>6 DEF Inv

\* Somebody commits to a run's branch.
LEMMA CommitStep ==
  ASSUME Inv, NEW p \in Paths, Commit(p)
  PROVE  Inv'
<1>1. /\ worktree[p] \in Runs
      /\ tip' = [tip EXCEPT ![worktree[p]] = "work"]
      /\ UNCHANGED <<worktree, clean, pc, run, disturbed>>
      /\ tip[worktree[p]] # None
  BY DEF Commit, Inv, TypeOK
<1>2. /\ tip' \in [Runs -> {None, "base", "work"}]
      /\ \A r \in Runs : tip'[r] = None <=> tip[r] = None
  BY <1>1, NamesAssumption DEF Inv, TypeOK
<1>3. TypeOK'
  BY <1>1, <1>2 DEF Inv, TypeOK
<1>4. CleanupInv' /\ ContextsAreBound' /\ CleanedIsGone'
  BY <1>1, <1>2 DEF Inv, TypeOK, CleanupInv, ContextsAreBound, CleanedIsGone,
     Ensuring, Cleaning
<1> QED
  BY <1>3, <1>4 DEF Inv

\* Somebody changes what is at a path.
LEMMA BindStep ==
  ASSUME Inv, NEW p \in Paths, NEW b \in Free \cup {Detached, None}, Bind(p, b)
  PROVE  Inv'
<1>1. /\ worktree' = [worktree EXCEPT ![p] = b]
      /\ disturbed' = IF p = Home THEN disturbed
                      ELSE disturbed \cup Users(p) \cup Cleaners(p)
      /\ UNCHANGED <<tip, clean, pc, run>>
  BY DEF Bind
<1>2. /\ worktree'[p] = b /\ \A q \in Paths \ {p} : worktree'[q] = worktree[q]
      /\ b \in Runs => tip[b] # None /\ \A q \in Paths : worktree[q] # b
      /\ b \in Branches \cup {Detached, None}
  BY <1>1, NamesAssumption DEF Inv, TypeOK, Free, IsCheckedOut
<1>3. TypeOK'
  <2>1. worktree' \in [Paths -> Branches \cup {Detached, None}]
    BY <1>1, <1>2 DEF Inv, TypeOK
  <2>2. disturbed' \subseteq Callers
    BY <1>1 DEF Inv, TypeOK, Users, Cleaners
  <2>3. \A q, s \in Paths : worktree'[q] \in Runs =>
          tip[worktree'[q]] # None /\ (worktree'[s] = worktree'[q] => q = s)
    BY <1>2 DEF Inv, TypeOK
  <2> QED
    BY <1>1, <2>1, <2>2, <2>3 DEF Inv, TypeOK
<1>4. ASSUME NEW d \in Callers \ disturbed', pc[d] # "idle"
      PROVE  d \in Callers \ disturbed /\ run[d] \in Runs /\ run[d] # p
  <2>1. run[d] \in Runs /\ pc[d] \in Ensuring \cup Cleaning
    BY <1>4 DEF Inv, TypeOK
  <2>2. CASE p = Home
    BY <1>1, <1>4, <2>1, <2>2, NamesAssumption
  <2>3. CASE p # Home
    BY <1>1, <1>4, <2>1, <2>3 DEF Users, Cleaners
  <2> QED
    BY <2>2, <2>3
<1>5. CleanupInv' /\ ContextsAreBound' /\ CleanedIsGone'
  BY <1>1, <1>2, <1>4 DEF Inv, CleanupInv, ContextsAreBound, CleanedIsGone, Paths
<1> QED
  BY <1>3, <1>5 DEF Inv

\* Every step keeps the invariant.
LEMMA InvStep == Inv /\ [Next]_vars => Inv'
<1> SUFFICES ASSUME Inv, [Next]_vars PROVE Inv'
  OBVIOUS
<1>1. ASSUME NEW c \in Callers, NEW r \in Runs, EnsureWorktree(c, r) \/ Cleanup(c, r)
      PROVE  Inv'
  <2>1. PICK label \in {"status", "find"} : Begin(c, r, label)
    BY <1>1 DEF EnsureWorktree, Cleanup
  <2>2. label \in {"idle"} \cup Ensuring \cup Cleaning /\ disturbed \subseteq Callers
    BY DEF Ensuring, Cleaning, Inv, TypeOK
  <2> QED
    BY <2>1, <2>2, CallStep DEF Begin, Goto
<1>2. ASSUME NEW c \in Callers, Command(c) PROVE Inv'
  BY <1>2, ReadSteps, AddSteps, RemoveStep, DeleteStep DEF Command
<1>3. CASE People
  <2>1. ASSUME NEW p \in Paths, Commit(p) PROVE Inv'
    BY <2>1, CommitStep
  <2>2. ASSUME NEW p \in Paths, NEW b \in Free \cup {Detached}, Switch(p, b)
        PROVE  Inv'
    BY <2>2, BindStep DEF Switch
  <2>3. ASSUME NEW r \in Runs, NEW b \in Free \cup {Detached}, AddWorktree(r, b)
        PROVE  Inv'
    BY <2>3, BindStep DEF AddWorktree, Paths
  <2>4. ASSUME NEW r \in Runs, RemoveWorktree(r) PROVE Inv'
    BY <2>4, BindStep DEF RemoveWorktree, Paths
  <2>5. CASE Edit
    BY <2>5 DEF Edit, Inv, TypeOK, CleanupInv, ContextsAreBound, CleanedIsGone
  <2> QED
    BY <1>3, <2>1, <2>2, <2>3, <2>4, <2>5 DEF People
<1>4. CASE UNCHANGED vars
  BY <1>4 DEF vars, gitVars, Inv, TypeOK, CleanupInv, ContextsAreBound, CleanedIsGone
<1> QED
  BY <1>1, <1>2, <1>3, <1>4 DEF Next

\* The invariant of the worktree manager.
LEMMA SpecInv == Spec => []Inv
BY InvInit, InvStep, PTL DEF Spec

------------------------------------------------------------------------------

\* The variables keep their types, and a checked out branch exists.
THEOREM WorktreeTypeCorrect == Spec => []TypeOK
<1>1. Inv => TypeOK
  BY DEF Inv
<1> QED
  BY <1>1, SpecInv, PTL

\* A context that is returned is bound to the run's branch, with any number of
\* processes at work on the run.
THEOREM WorktreeContextsAreBound == Spec => []ContextsAreBound
<1>1. Inv => ContextsAreBound
  BY DEF Inv
<1> QED
  BY <1>1, SpecInv, PTL

\* After a cleanup there is no worktree left, and no branch unless the look for
\* it has failed, wherever an earlier one stopped.
THEOREM WorktreeCleanedIsGone == Spec => []CleanedIsGone
<1>1. Inv => CleanedIsGone
  BY DEF Inv
<1> QED
  BY <1>1, SpecInv, PTL

\* A worktree that is bound to another branch is removed only if it was changed
\* after the cleanup had looked at it.
THEOREM WorktreeForeignKept == Spec => ForeignWorktreesKept
<1>1. ASSUME Inv
      PROVE  \A c \in Callers : Remove(c) /\ worktree[run[c]] # run[c] => c \in disturbed
  BY <1>1 DEF Inv, CleanupInv, Remove
<1> QED
  BY <1>1, SpecInv, PTL DEF ForeignWorktreesKept

\* Commits of a run are lost to its cleanup alone.
THEOREM WorktreeWorkIsKept == Spec => WorkIsKept
<1> DEFINE Kept == \A r \in Runs : tip[r] = "work" /\ tip'[r] # "work" =>
                     ~IsCheckedOut(r) /\ \E c \in Cleaners(r) : pc'[c] = "cleaned"
<1>1. ASSUME Inv, [Next]_vars PROVE Kept
  <2> SUFFICES ASSUME NEW r \in Runs, tip[r] = "work", tip'[r] # "work"
               PROVE  ~IsCheckedOut(r) /\ \E c \in Cleaners(r) : pc'[c] = "cleaned"
    OBVIOUS
  <2>1. ASSUME NEW c \in Callers, Create(c) PROVE FALSE
    <3>1. run[c] # r
      BY <2>1, NamesAssumption DEF Create
    <3> QED
      BY <2>1, <3>1 DEF Create, Inv, TypeOK
  <2>2. ASSUME NEW p \in Paths, Commit(p) PROVE FALSE
    BY <2>2 DEF Commit, Inv, TypeOK
  <2>3. ASSUME NEW c \in Callers, Delete(c)
        PROVE  ~IsCheckedOut(r) /\ \E d \in Cleaners(r) : pc'[d] = "cleaned"
    <3>1. run[c] = r
      BY <2>3 DEF Delete, Inv, TypeOK
    <3>2. c \in Cleaners(r) /\ pc'[c] = "cleaned"
      <4>1. pc[c] = "delete" /\ pc' = [pc EXCEPT ![c] = "cleaned"]
        BY <2>3 DEF Delete, Goto
      <4>2. pc'[c] = "cleaned"
        BY <1>1, <4>1 DEF Inv, TypeOK
      <4> QED
        BY <3>1, <4>1, <4>2 DEF Cleaners, Cleaning
    <3> QED
      BY <2>3, <3>1, <3>2 DEF Delete
  <2>4. tip' # tip
    OBVIOUS
  <2>5. \A c \in Callers : Command(c) => Create(c) \/ Delete(c)
    BY <2>4 DEF Command, RequireClean, FindWorktree, FindBranch, Attach, FindForCleanup,
       Remove, Probe, Return, GitFails, gitVars
  <2>6. People => \E p \in Paths : Commit(p)
    BY <2>4 DEF People, Switch, AddWorktree, RemoveWorktree, Bind, Edit
  <2>7. \A c \in Callers, q \in Runs : ~(EnsureWorktree(c, q) \/ Cleanup(c, q))
    BY <2>4 DEF EnsureWorktree, Cleanup, Begin, gitVars
  <2>8. ~UNCHANGED vars
    BY <2>4 DEF vars, gitVars
  <2> QED
    BY <1>1, <2>1, <2>2, <2>3, <2>5, <2>6, <2>7, <2>8 DEF Next
<1> QED
  BY <1>1, SpecInv, PTL DEF Spec, WorkIsKept

=============================================================================
