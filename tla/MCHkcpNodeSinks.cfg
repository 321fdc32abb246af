SPECIFICATION Spec
CONSTANTS a = a  b = b  NoHost = NoHost
  Hosts <- MovingHosts  Sources <- MovingSources  Events = {}  Configs <- MovingConfigs
  Retries = 1  MaxVersion = 2  MaxLosses = 1
INVARIANT Converged
CHECK_DEADLOCK FALSE
