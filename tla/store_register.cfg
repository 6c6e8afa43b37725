\* Two tasks of the runner and a command: the file is a compare-and-swap register
\* until the two processes save at the same time.
SPECIFICATION Spec
CONSTANTS
  Clients = {w1, w2, w3}
  Operator = w3
  ProcessOf <- TwoProcesses
  Torn = Torn
  MaxUpdates = 2
INVARIANTS TypeOK NeverTorn
PROPERTIES ImplementsRegister
CHECK_DEADLOCK FALSE
