\* The code violates this statement of its documentation.
SPECIFICATION Spec
CONSTANTS
  None = None
  Revisions = {r1}
  Approvers = {alice}
  ArtifactIds = {e1}
  PullRequests = {p1}
  Calls = {c1, c2}
  Commands = {k1}
  MaxRemediationCycles = 1
  ArtifactBundles <- NoEvidence
  SanitizedRevision <- PlainRevisions
SYMMETRY Symmetry
INVARIANTS
  RetryOnlyFromRemediating
CHECK_DEADLOCK FALSE
