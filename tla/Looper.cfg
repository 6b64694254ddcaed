SPECIFICATION Spec
CONSTANTS
  BarSteps = 2
  Groups <- MCGroups
  Sections <- MCSections
INVARIANTS TypeOK PlaysFromBarStart PlaysWhatBarOpened HitRecordedWhereHeard RenewedInPhase FillEndsInterval
PROPERTIES RecordingKept PhaseKept
