SPECIFICATION Spec
CONSTANTS Configs <- MCConfigs  Lines = {0, 1}  QueueSize = 1
INVARIANT RetryArmed
