------------------------------- MODULE MCStrum -------------------------------
(* TLC instance of Strum: two chords.                                      *)
EXTENDS Strum, TLC

CONSTANTS c1, c2
MCChords == {c1, c2}
ChordSymmetry == Permutations(MCChords)

\* A note that slipped the memory stays out of it: nothing is left to check.
BeforeSlip == ~slipped
=============================================================================
