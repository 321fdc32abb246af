SPECIFICATION Spec
CONSTANTS Configs <- MCConfigs  Pulse = 2  Refresh = 4  MaxLate = 2
INVARIANTS TimersKnown OnTime RelayFollows
