SPECIFICATION LauncherSpec
CONSTANTS
  engine = engine
  broker = broker
  NoUser = NoUser
  Users <- MCUsers
  Pids = {1, 2}
  NPROCS = 2
  HangupTicks = 0
  KillTicks = 0
  MQTT_MAX_RETRIES = 1
  Setups <- MCSetups
INVARIANTS RunHasEngine NeverStuck BrokerRestarts
\* exit(2), or a launcher that waits for ever.
CHECK_DEADLOCK FALSE
