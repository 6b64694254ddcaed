----------------------------- MODULE MCTapTempo -----------------------------
(* TLC instance of TapTempo.  The pauses are one that rounds to no          *)
(* millisecond, the fastest and a common tempo, and both sides of the       *)
(* timeout.                                                                 *)
EXTENDS TapTempo

MCPauses == {400, 250000, 600000, 1000000, 1000001}
=============================================================================
