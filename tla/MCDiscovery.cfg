SPECIFICATION FairSpec
CONSTANTS
  a = a
  b = b
  Sources = {a, b}
  Sinks = {b}
  Others = {o}
  Feeds <- MCFeeds
  MaxFaults = 3
INVARIANT Discovered
PROPERTY ComesToRest
CHECK_DEADLOCK FALSE
