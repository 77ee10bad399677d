SPECIFICATION WriteSpec
CONSTANTS
  Users = {"anonymous", "alice"}
  MaxWrites = 4
  Refused = {3}
  kMaxPendingWrites = 4
  MaxFaults = 0
INVARIANT FailureMeansRefused
\* The system stops when every write is done with and the stream has closed.
CHECK_DEADLOCK FALSE
