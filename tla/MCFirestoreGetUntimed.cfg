SPECIFICATION SilentServerSpec
CONSTANTS
  g1 = g1
  g2 = g2
  feed = feed
  Gets <- MCGets
  Queries <- MCQueries
  QueryOf <- MCQueryOf
  MaxVersion = 2
  MaxFaults = 0
PROPERTY OnlineStateSettles
\* The system stops when every call is answered and the timers have run out.
CHECK_DEADLOCK FALSE
