SPECIFICATION FairSpec
CONSTANTS Configs <- MCConfigs  Lines = {0, 1}  QueueSize = 1
INVARIANTS SerialSound ModemShown
PROPERTIES Reconnects
