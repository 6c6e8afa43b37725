\* Two processes that ensure and clean up the same run or two runs, while people
\* switch, add and remove worktrees.
SPECIFICATION Spec
CONSTANTS
  None = None
  Detached = Detached
  Home = Home
  Callers = {c1, c2}
  Runs = {r1, r2}
  Others = {main, topic}
SYMMETRY Symmetry
INVARIANTS
  TypeOK
  ContextsAreBound
  CleanedIsGone
PROPERTIES
  ForeignWorktreesKept
  WorkIsKept
