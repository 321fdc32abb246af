SPECIFICATION FairSpec
CONSTANTS
  o1 = o1
  o2 = o2
  NoUser = NoUser
  Users <- MCUsers
  Agents <- MCAgents
  Respawning <- MCRespawning
  Pids = {1, 2}
  NPROCS = 2
  HangupTicks = 1
  KillTicks = 2
  MaxStarts = 2
INVARIANTS CallbackOwner WatchedWhileUsed
PROPERTIES StopEndsIt ExitFreesEntry
\* kill(0, SIGKILL) ends the program, and so does sys_quit.
CHECK_DEADLOCK FALSE
