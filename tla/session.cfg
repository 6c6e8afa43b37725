\* Two tasks that share one session, and two cancellations.  Five events are
\* room for three progress events, or for two artifacts and one of them.
SPECIFICATION FairSpec
CONSTANTS
  None = None
  Tasks = {t1, t2}
  Cancellations = {x1, x2}
  MaxEvents = 5
  MaxArtifacts = 2
  FileCounts <- UpToOneTooMany
INVARIANTS
  TypeOK
  CancelHonoured
  NoProcessLeft
PROPERTIES
  ImplementsSession
  StreamProgresses
  EveryReaderEnds
CHECK_DEADLOCK FALSE
