CONSTANTS
  PollInterval = 2
  Timeout = 300
  RequestTimeout = 10
SPECIFICATION Spec
INVARIANTS   EndIsNoticed
\* A call may throw or crash.
CHECK_DEADLOCK FALSE
