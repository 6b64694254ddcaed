SPECIFICATION Spec
CONSTANTS
  c1 = c1
  c2 = c2
  Devices <- MCDevices
  Chords <- MCChords
  Sections <- MCSections
INVARIANTS TypeOK SoundIsKnown EndSilencesIfOrderly
CONSTRAINT WhileCalm
