SPECIFICATION Spec
CONSTANTS
  Contexts = {"bluetooth", "uart"}
  Buttons = {"orange", "starpower", "left"}
INVARIANTS TypeOK OneInside
PROPERTIES NoPressTwice Settles
