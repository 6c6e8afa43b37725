\* Two calls and one operator command; an item that is edited and approved again,
\* and evidence that every stage may return, once more or for the first time.
SPECIFICATION Spec
CONSTANTS
  None = None
  Revisions = {r1, r2}
  Approvers = {alice, bob}
  ArtifactIds = {e1}
  PullRequests = {p1}
  Calls = {c1, c2}
  Commands = {k1}
  MaxRemediationCycles = 1
  ArtifactBundles <- AtMostOne
  SanitizedRevision <- PlainRevisions
SYMMETRY FullSymmetry
INVARIANTS
  TypeOK
  CheckpointTrusted
  PublicationFollowsVerification
  ReportsMatchCheckpoint
  ExecutesApprovedRevision
  RemediationBounded
PROPERTIES
  HistoryPreserved
  ImplementsLifecycle
CHECK_DEADLOCK FALSE
