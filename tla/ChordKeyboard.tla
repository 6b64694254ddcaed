---------------------------- MODULE ChordKeyboard ----------------------------
(***************************************************************************)
(* What the firmware promises to whoever plays chords on a keyboard: each  *)
(* message is heard whole and once, in the order it was sent; while the    *)
(* style plays it changes the held keys and perhaps the chord, which is    *)
(* one of held keys.  No bytes, no running status, no parser.              *)
(*                                                                         *)
(* While it does not listen, and from a message it came upon half-way to   *)
(* the next that says what it is, it may mishear one note for another.     *)
(***************************************************************************)
EXTENDS Sequences, ChordDetection

CONSTANTS
  Keys,     \* MIDI note numbers of the keys that are played
  Pads,     \* the notes that are pads and no keys once the style plays
  Button    \* controller number of the start/stop button

VARIABLES
  down,     \* the keys that are down
  message,  \* the message under way, <<>> when there is none
  held,     \* the keys the firmware takes for held
  chord,    \* the chord it has detected last
  playing,  \* the style plays
  listening,   \* the keyboard is listened to
  astray,   \* a message may be taken for another
  missed    \* history: keys whose last change went unheard

keyboardVars == <<down, message, held, chord, playing, listening, astray, missed>>

Init ==
  /\ down = {} /\ message = <<>>
  /\ held = {} /\ chord = 0 /\ playing = FALSE
  /\ listening \in BOOLEAN /\ astray = FALSE /\ missed = {}

Send(m) ==
  /\ message = <<>> /\ message' = m
  /\ UNCHANGED <<held, chord, playing, listening, astray, missed>>

Press(k) ==
  k \notin down /\ down' = down \cup {k} /\ Send(<<144, k, 64>>)

Release(k) ==
  /\ k \in down /\ down' = down \ {k}
  /\ Send(<<128, k, 64>>) \/ Send(<<144, k, 0>>)

\* The button, and messages that mean nothing to the firmware.
Other ==
  /\ UNCHANGED down
  /\ \/ \E value \in {0, 127} : Send(<<176, Button, value>>)
     \/ Send(<<192, 0>>) \/ Send(<<246>>)

IsHeard(k) == playing /\ k \notin Pads

HearKey(k, pressed) ==
  /\ IsHeard(k)
  /\ held' = IF pressed THEN held \cup {k} ELSE held \ {k}
  /\ missed' = missed \ {k}
  /\ \/ UNCHANGED chord
     \/ chord' \in Codes /\ Sounding(chord') \subseteq PitchClasses(held')
  /\ UNCHANGED playing

MissKey(k) ==
  /\ ~IsHeard(k)
  /\ missed' = missed \cup {k}
  /\ UNCHANGED <<held, chord, playing>>

\* The button starts and stops, unless the handler is busy or the keys held make it a
\* fill; all else is passed over.
HearOther ==
  /\ UNCHANGED <<held, chord, missed>>
  /\ \/ UNCHANGED playing
     \/ /\ message = <<176, Button, 127>>
        /\ Button = 23 => Cardinality(held) < 3
        /\ playing' = ~playing

Hear ==
  /\ listening /\ astray' = FALSE
  /\ message # <<>> /\ message' = <<>>
  /\ IF message[1] \in {128, 144}
     THEN \/ HearKey(message[2], message[1] = 144 /\ message[3] > 0)
          \/ MissKey(message[2])
     ELSE HearOther
  /\ UNCHANGED <<down, listening>>

\* A message says what it is.
Recover ==
  /\ listening /\ astray /\ astray' = FALSE /\ message # <<>>
  /\ UNCHANGED <<down, message, held, chord, playing, listening, missed>>

KeyOf(m) == IF m[1] \in {128, 144} THEN {m[2]} ELSE {}

\* A message, or a part of it, is dropped or taken for another: for one about any
\* note, or for the button's.
Mishear ==
  /\ ~listening \/ astray
  /\ astray' = TRUE
  /\ message # <<>> /\ message' \in {message, <<>>}
  /\ \E n \in 0 .. 127 : held' \in {held, held \cup {n}, held \ {n}}
  /\ missed' = missed \cup KeyOf(message) \cup (held \ held') \cup (held' \ held)
  /\ \/ UNCHANGED <<held, chord>> /\ playing' \in BOOLEAN
     \/ UNCHANGED <<playing, chord>>
     \/ /\ playing /\ UNCHANGED playing
        /\ chord' \in Codes /\ Sounding(chord') \subseteq PitchClasses(held')
  /\ ~listening => UNCHANGED <<held, chord, playing>>
  /\ UNCHANGED <<down, listening>>

\* Pulling the plug.
Unplug ==
  /\ down' = {} /\ message' = <<>>
  /\ missed' = missed \cup held
  /\ UNCHANGED <<held, chord, playing, listening, astray>>

\* The guitar starts and stops the style as well, and the listening.
StartStop ==
  /\ playing' = ~playing
  /\ UNCHANGED <<down, message, held, chord, listening, astray, missed>>

Listen ==
  /\ listening' = ~listening
  /\ UNCHANGED <<down, message, held, chord, playing, astray, missed>>

Next ==
  \/ \E k \in Keys : Press(k) \/ Release(k)
  \/ Other \/ Hear \/ Recover \/ Mishear \/ Unplug \/ StartStop \/ Listen

Spec == Init /\ [][Next]_keyboardVars
=============================================================================
