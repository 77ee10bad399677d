SPECIFICATION GetsFairSpec
CONSTANTS
  g1 = g1
  g2 = g2
  feed = feed
  Gets <- MCGets
  Queries <- MCQueries
  QueryOf <- MCQueryOf
  MaxVersion = 2
  MaxFaults = 1
INVARIANTS GetsInv SyncedIsCaughtUp
PROPERTY ImplementsOneShotGet
\* The system stops when every call is answered and the timers have run out.
CHECK_DEADLOCK FALSE
