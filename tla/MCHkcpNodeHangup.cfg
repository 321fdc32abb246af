SPECIFICATION Spec
CONSTANTS a = a  b = b  NoHost = NoHost
  Hosts <- MCHosts  Sources <- MCSources  Events <- MCEvents  Configs <- MCConfigs
  Retries = 1  MaxVersion = 2  MaxLosses = 2
INVARIANTS KeepsTrying
