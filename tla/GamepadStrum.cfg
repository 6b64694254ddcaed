SPECIFICATION Spec
CONSTANTS
  Contexts = {"bluetooth", "uart"}
  Buttons = {"starpower", "right"}
PROPERTY OneStrumPerMotion
