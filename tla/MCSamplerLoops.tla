--------------------------- MODULE MCSamplerLoops ---------------------------
(* TLC instance of SamplerLoops: two chords, and an even and an odd        *)
(* section.                                                                 *)
EXTENDS SamplerLoops

CONSTANTS c1, c2
MCChords == {c1, c2}
MCSections == {0, 1}
MCDevices == {"wav", "mpc", "sp404"}
=============================================================================
