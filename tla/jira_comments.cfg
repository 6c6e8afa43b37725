\* Two callers of a key they take turns on, or of one (k2) on which they do not.
\* Pages of one comment and searches of two pages: three comments are more than a
\* search looks at.
SPECIFICATION OneKeySpec
CONSTANTS
  None = None
  IssueKey = IssueKey
  Repository = Repository
  Callers = {c1, c2}
  Keys = {k1, k2}
  Serialized = {k1}
  Updates <- Progress
  Payloads <- SomePayloads
  PAGE = 1
  PAGES = 2
  max_rate_limit_retries = 1
  MaxComments = 3
  MaxLate = 1
INVARIANTS
  TypeOK
  ReceiptsAreTrue
  OneCommentPerKey
  ReadyIsExecutable
PROPERTIES
  PublicationsProgress
  EveryPublicationEnds
CHECK_DEADLOCK FALSE
