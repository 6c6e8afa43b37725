\* Savers in an event loop and one in another process, with crashes, retries
\* and collisions.
SPECIFICATION Spec
CONSTANTS
  Savers = {1, 2, 3, 4}
  RecordOf <- OneRetried
  ProcessOf <- TwoProcesses
  None = None
PROPERTIES ImplementsWriteOnce
CHECK_DEADLOCK FALSE
