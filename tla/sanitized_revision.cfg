\* The code violates this statement of its documentation.
SPECIFICATION QuietSpec
CONSTANTS
  None = None
  Revisions = {r1, r2}
  Approvers = {alice}
  ArtifactIds = {e1}
  PullRequests = {p1}
  Calls = {c1, c2}
  Commands = {k1}
  MaxRemediationCycles = 1
  ArtifactBundles <- NoEvidence
  SanitizedRevision <- Timestamps
SYMMETRY Symmetry
INVARIANTS
  UnchangedApprovalAccepted
CHECK_DEADLOCK FALSE
