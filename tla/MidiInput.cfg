SPECIFICATION Spec
CONSTANTS
  Keys <- MCKeys
  Button <- IRigButton
CONSTRAINT FewMissed
INVARIANTS TypeOK CountIsHeld HearsKeyboard
PROPERTIES ChordIsPlayed ImplementsKeyboard
