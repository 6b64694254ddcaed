---------------------------- MODULE MCMidiInput ----------------------------
(* TLC instance of MidiInput: C E A, an A minor over C.  The velocity of a  *)
(* key is the number of the E, for which an astray parser may take it.      *)
EXTENDS MidiInput

MCKeys == {60, 64, 69}

\* Not explored further: a third missed key, or an astray parser that has taken
\* up a note no key has.
FewMissed == missed \subseteq Keys /\ Cardinality(missed) <= 2
=============================================================================
