\* Fair calls; no symmetry, because EveryCallEnds is a liveness property.
SPECIFICATION FairSpec
CONSTANTS
  None = None
  Revisions = {r1}
  Approvers = {alice}
  ArtifactIds = {e1}
  PullRequests = {p1}
  Calls = {c1, c2}
  Commands = {k1}
  MaxRemediationCycles = 1
  ArtifactBundles <- NoEvidence
  SanitizedRevision <- PlainRevisions
INVARIANTS
  AnswersAreDurable
PROPERTIES
  CallsProgress
  EveryCallEnds
CHECK_DEADLOCK FALSE
