SPECIFICATION Spec
CONSTANTS
  Pauses <- MCPauses
  MaxEvents = 6
INVARIANTS TypeOK RunIsPaced
PROPERTIES SlowTempoUnreachable TempoIsTapped
CHECK_DEADLOCK FALSE
