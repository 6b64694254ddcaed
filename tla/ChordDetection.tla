---------------------------- MODULE ChordDetection ----------------------------
(***************************************************************************)
(* What chord_detect of main.c makes of a set of notes.  A chord is a root *)
(* and a type, numbered as in advanced_chord.                              *)
(*                                                                         *)
(* EncodedBassFromZero is a defect that the properties detect.             *)
(***************************************************************************)
EXTENDS Integers, FiniteSetsExt

PitchClass == 0 .. 11

Major == 0
Minor == 1
Sus4 == 2
ChordTypes == {Major, Minor, Sus4}

Third(type) == CASE type = Major -> 4 [] type = Minor -> 3 [] type = Sus4 -> 5
Tones(root, type) == {root, (root + Third(type)) % 12, (root + 7) % 12}

PitchClasses(ns) == {n % 12 : n \in ns}
\* The order in which pitch classes are collected: by their lowest note.
LowestOf(pc, ns) == Min({n \in ns : n % 12 = pc})

triad_match(root, pcs, type) == pcs = Tones(root, type)
Triads(pcs) == {c \in pcs \X ChordTypes : triad_match(c[1], pcs, c[2])}

\* A major seventh, which is encoded as the major chord.
Sevenths(pcs) == {c \in pcs \X {Major} : pcs = Tones(c[1], Major) \cup {(c[1] + 11) % 12}}

\* The triad that is left when one of four pitch classes is the bass: the
\* first one collected that will do.
SlashChords(pcs, ns) ==
  LET skips == {pc \in pcs : Triads(pcs \ {pc}) # {}} IN
  UNION {Triads(pcs \ {pc}) :
           pc \in {s \in skips : \A r \in skips : LowestOf(s, ns) <= LowestOf(r, ns)}}

\* What chord_detect recognises in the notes ns: one chord or none.
Chords(ns) ==
  LET pcs == PitchClasses(ns) IN
  CASE Cardinality(pcs) = 3 -> Triads(pcs)
    [] Cardinality(pcs) = 4 ->
         IF Sevenths(pcs) # {} THEN Sevenths(pcs) ELSE SlashChords(pcs, ns)
    [] OTHER -> {}

\* Root and bass counted from 1, then the type.
Code(root, bass, type) == (root + 1) * 256 + (bass + 1) * 16 + type
Codes == {Code(root, bass, type) : root \in PitchClass, bass \in PitchClass, type \in ChordTypes}

EncodedBassFromZero(chord, ns) == (chord[1] + 1) * 256 + (Min(ns) % 12) * 16 + chord[2]
Encoded(chord, ns) == Code(chord[1], Min(ns) % 12, chord[2])

\* The gamepad code's way back.
RootOf(code) == code \div 256 - 1
BassOf(code) == ((code \div 16) % 16) - 1
TypeOf(code) == code % 16

\* The pitch classes a code stands for.
Sounding(code) == Tones(RootOf(code), TypeOf(code)) \cup {BassOf(code)}
=============================================================================
