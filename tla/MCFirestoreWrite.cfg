SPECIFICATION WriteFairSpec
CONSTANTS
  Users = {"anonymous", "alice"}
  MaxWrites = 4
  Refused = {2}
  kMaxPendingWrites = 3
  MaxFaults = 3
INVARIANT WriterInv
PROPERTIES ImplementsDurableWrites PendingWritesDrain
\* The system stops when every write is done with and the stream has closed.
CHECK_DEADLOCK FALSE
