--------------------------- MODULE MCGamepadHandler ---------------------------
EXTENDS GamepadHandler
=============================================================================
