SPECIFICATION Spec
CONSTANTS
  c1 = c1
  c2 = c2
  Chords <- MCChords
SYMMETRY ChordSymmetry
INVARIANTS TypeOK NoNoteHangs
CONSTRAINT BeforeSlip
