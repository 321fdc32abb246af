SPECIFICATION Spec
CONSTANTS Programs <- MCPrograms  Names = {"x", "y", "z"}  Values = {0, 1}
  QueueMax = 2  TraceDepth = 3  MaxSets = 2  MaxLosses = 1
INVARIANTS LinksOK LinkedAgree WiresAgree TraceKept CutsAreLoops BrokerCurrent NamesakesAgree
CHECK_DEADLOCK FALSE
