SPECIFICATION FairSpec
CONSTANTS
  NSOURCES = 2
  Fds = {1}
  Pids = {11}
  Delays = {0, 1}
  MaxTag = 3
  MaxClock = 2
INVARIANTS TypeOK FreshRevents PollCoversTimers
PROPERTIES RegistryKept TimerFires ChildReaped
CHECK_DEADLOCK FALSE
