CONSTANTS
  Window = 2
  SafetyStock = 1
  Tolerance = 0
  Thresholds <- MCThresholds
  Worlds <- MCWorlds
  Pieces <- MCPieces
  Instants = {1, 2, 6}
SPECIFICATION Spec
CHECK_DEADLOCK FALSE
INVARIANTS
  ReportedInOrder
PROPERTIES
  TimeOnlyAdds
  FlowRaisesNoAlarm
