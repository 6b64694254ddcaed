-------------------------------- MODULE Strum --------------------------------
(***************************************************************************)
(* The guitar's notes in pico_bluetooth.c: the strum bar plays notes and   *)
(* stops them, and so does the auto-strum on every tick of the looper.     *)
(* The firmware remembers what it plays in old_midinotes, chord_notes and  *)
(* voice_note; the synthesizer sounds a note from its note on to its note  *)
(* off.  Every action is one callback of the async_context.                *)
(*                                                                         *)
(* A note is a chord, with the neck position it is played at, and the part *)
(* it plays in it; which strings a pattern plucks is left to choice.  MIDI *)
(* note 0, which pads the arrays, is silence.  The looper does not record, *)
(* the instrument is a plain synthesizer, and the accompaniment that       *)
(* enable_style_play adds on its own channel is left out.  OverPast and    *)
(* UnstoppedChord are defects that the properties detect.                  *)
(***************************************************************************)
EXTENDS Integers, Functions

CONSTANT Chords   \* the chords the frets form

ASSUME StrumAssumption == Chords # {}

None == <<"none">>

Strings  == {"low", "high"}
Plucked  == {<<"low">>, <<"low", "high">>}
Note(c, part) == <<c, part>>
Silence  == [n \in 1 .. 2 |-> None]
Patterns == -1 .. 2   \* none, strum, strum and bass, arpeggios

VARIABLES
  right, left,         \* the latched strum bar: up and down
  strum_neutral,
  enable_midi_drums, style_started, enable_auto_strum, enable_auto_hold,
  active_strum_pattern,
  last_chord,          \* last_chord_note and last_chord_type
  due,                 \* what the style's row started last, if still to be stopped
  old_midinotes,       \* notes of the last strum
  mute_midinotes,      \* strings of the last strum
  chord_notes,         \* notes of the auto-strum
  voice_note,          \* single note of the auto-strum
  sounding,            \* the notes the synthesizer sounds
  slipped              \* history: held notes were strummed over, or their style changed

modes == <<enable_midi_drums, style_started, enable_auto_strum, enable_auto_hold,
           active_strum_pattern>>
bar   == <<right, left, strum_neutral>>
notes == <<old_midinotes, mute_midinotes, chord_notes, voice_note, sounding>>
vars  == <<bar, modes, last_chord, due, notes, slipped>>

\* What stop_chord can stop.
Remembered == (Range(old_midinotes) \cup Range(chord_notes) \cup {voice_note}) \ {None}

Init ==
  /\ right = FALSE /\ left = FALSE /\ strum_neutral = TRUE
  /\ enable_midi_drums = FALSE /\ style_started = FALSE
  /\ enable_auto_strum = FALSE /\ enable_auto_hold = FALSE
  /\ active_strum_pattern = 0
  /\ last_chord \in Chords
  /\ due = "none"
  /\ old_midinotes = Silence /\ mute_midinotes = Silence /\ chord_notes = Silence
  /\ voice_note = None
  /\ sounding = {}
  /\ slipped = FALSE

-----------------------------------------------------------------------------
(* The strum bar.                                                          *)

StopChord ==
  /\ old_midinotes' = Silence
  /\ chord_notes' = Silence
  /\ sounding' = sounding \ Remembered
  /\ UNCHANGED <<mute_midinotes, voice_note>>

OverPast(memory, ns) == [n \in 1 .. 3 |-> IF n \in DOMAIN ns THEN ns[n] ELSE None]
\* The memory after notes ns replaced its first entries.
Over(memory, ns) == [n \in 1 .. 2 |-> IF n \in DOMAIN ns THEN ns[n] ELSE memory[n]]

\* A strum over chord c of the strings plucked.  With the drums on, the
\* auto-strum plays the strings on the beat and a downstroke plays the bass.
StrumChord(c, up, memory, sounds) == \E strings \in Plucked :
  LET ns == [n \in DOMAIN strings |-> Note(c, strings[n])]
      waits == enable_midi_drums /\ active_strum_pattern = 0
      bass == Note(c, "bass")
  IN
  /\ mute_midinotes' = Over(Silence, ns)
  /\ old_midinotes' = IF waits /\ ~up THEN [Over(memory, ns) EXCEPT ![1] = bass]
                                      ELSE Over(memory, ns)
  /\ sounding' = sounds \cup (IF ~waits THEN Range(ns) ELSE IF up THEN {} ELSE {bass})

StrumBass(c, memory, sounds) ==
  /\ old_midinotes' = [memory EXCEPT ![1] = Note(c, "bass")]
  /\ sounding' = sounds \cup {Note(c, "bass")}
  /\ UNCHANGED mute_midinotes

\* Without frets the strings of the last strum are muted.
StrumMuted(memory, sounds) ==
  /\ old_midinotes' = [n \in 1 .. 2 |-> IF mute_midinotes[n] # None THEN mute_midinotes[n]
                                        ELSE memory[n]]
  /\ sounding' = sounds \cup (Range(mute_midinotes) \ {None})
  /\ UNCHANGED mute_midinotes

\* play_chord, with the chord the frets form, if they do.
PlayChord(frets, up, memory, sounds) ==
  LET c == IF frets = None THEN last_chord ELSE frets IN
  /\ last_chord' = c
  /\ \/ /\ active_strum_pattern = -1
        /\ old_midinotes' = memory /\ sounding' = sounds /\ UNCHANGED mute_midinotes
     \/ /\ active_strum_pattern = 0
        /\ IF frets # None THEN StrumChord(c, up, memory, sounds) ELSE StrumMuted(memory, sounds)
     \/ /\ active_strum_pattern > 0
        /\ IF up THEN StrumChord(c, up, memory, sounds) ELSE StrumBass(c, memory, sounds)
     \/ /\ active_strum_pattern > 0 /\ frets = None   \* on the low neck
        /\ old_midinotes' = memory /\ sounding' = sounds /\ UNCHANGED mute_midinotes

\* A strum stops the last one, unless notes are held.
Press(frets, up) ==
  /\ strum_neutral' = FALSE
  /\ IF enable_auto_hold
     THEN /\ PlayChord(frets, up, old_midinotes, sounding)
          /\ UNCHANGED chord_notes
     ELSE /\ PlayChord(frets, up, Silence, sounding \ Remembered)
          /\ chord_notes' = Silence
  /\ UNCHANGED voice_note

\* Only fretted arpeggios sustain.
Releases(frets) == frets = None \/ active_strum_pattern \in {0, 1} \/ enable_auto_hold

Release(frets) ==
  /\ strum_neutral' = TRUE
  /\ IF Releases(frets) THEN StopChord ELSE UNCHANGED notes
  /\ UNCHANGED last_chord

\* A report of the guitar.  The handler takes one edge of the strum bar, and
\* the upstroke's first: another waits for the next report.
Report(dpad, frets) ==
  /\ \/ /\ (dpad = "right") # right
        /\ right' = ~right /\ UNCHANGED left
        /\ IF right' THEN Press(frets, TRUE) ELSE Release(frets)
     \/ /\ (dpad = "right") = right /\ (dpad = "left") # left
        /\ left' = ~left /\ UNCHANGED right
        /\ IF left' THEN Press(frets, FALSE) ELSE Release(frets)
  /\ UNCHANGED <<modes, due>>

-----------------------------------------------------------------------------
(* The auto-strum, midi_process_state.                                     *)

Strumming ==
  /\ enable_midi_drums \/ (enable_auto_strum /\ ~style_started)
  /\ active_strum_pattern = 0
  /\ enable_auto_hold \/ ~strum_neutral

\* A step of a style's row.  In every row of strum_styles, a step that starts
\* a chord or a voice stops what the row started before.
RowSteps == {r \in [start : {"none", "chord", "voice"}, stop : {"chord", "voice"}] :
               r.start # "none" /\ due # "none" => r.stop = due}
DueAfter(r) ==
  IF r.start # "none" THEN r.start ELSE IF r.stop = due THEN "none" ELSE due

UnstoppedChord(stop) == sounding \ {voice_note}
\* What still sounds after the stop action.
Unstopped(stop) ==
  IF stop = "chord" THEN sounding \ Range(chord_notes) ELSE sounding \ {voice_note}

Tick == \E r \in RowSteps :
  /\ due' = DueAfter(r)
  /\ \/ ~Strumming /\ UNCHANGED notes
     \/ /\ Strumming /\ r.start = "none"
        /\ sounding' = Unstopped(r.stop)
        /\ UNCHANGED <<old_midinotes, mute_midinotes, chord_notes, voice_note>>
     \/ /\ Strumming /\ r.start = "chord"
        /\ chord_notes' = mute_midinotes
        /\ sounding' = Unstopped(r.stop) \cup (Range(mute_midinotes) \ {None})
        /\ UNCHANGED <<old_midinotes, mute_midinotes, voice_note>>
     \/ /\ Strumming /\ r.start = "voice"
        /\ voice_note' = Note(last_chord, "high")
        /\ sounding' = Unstopped(r.stop) \cup {voice_note'}
        /\ UNCHANGED <<old_midinotes, mute_midinotes, chord_notes>>
  /\ UNCHANGED <<bar, modes, last_chord>>

-----------------------------------------------------------------------------
(* The selectors.                                                          *)

\* Another group or section of styles goes on with another row.
ChangeStyle ==
  /\ due' \in {"none", "chord", "voice"}
  /\ UNCHANGED <<bar, modes, last_chord, notes>>

StartStop ==
  /\ style_started' = ~style_started
  /\ UNCHANGED <<bar, enable_midi_drums, enable_auto_strum, enable_auto_hold,
                 active_strum_pattern, last_chord, due, notes>>

\* Choosing a strum after an arpeggio stops it.
Cuts(p) == p \in {0, 1} /\ active_strum_pattern > 1

SelectPattern == \E p \in Patterns :
  /\ active_strum_pattern' = p
  /\ IF Cuts(p) THEN StopChord ELSE UNCHANGED notes
  /\ UNCHANGED <<bar, enable_midi_drums, style_started, enable_auto_strum,
                 enable_auto_hold, last_chord, due>>

\* config_guitar(3).
SwitchDrums ==
  /\ enable_midi_drums' = ~enable_midi_drums
  /\ UNCHANGED <<bar, style_started, enable_auto_strum, enable_auto_hold,
                 active_strum_pattern, last_chord, due, notes>>

ToggleAutoHold ==
  /\ enable_auto_hold' = ~enable_auto_hold
  /\ UNCHANGED <<bar, enable_midi_drums, style_started, enable_auto_strum,
                 active_strum_pattern, last_chord, due, notes>>

\* The selector without frets.
ToggleAutoStrum ==
  /\ enable_auto_strum' = (~enable_auto_strum /\ (style_started => enable_midi_drums))
  /\ StopChord
  /\ UNCHANGED <<bar, enable_midi_drums, style_started, enable_auto_hold,
                 active_strum_pattern, last_chord, due>>

\* The history: a strum over held notes that sound; and the auto-strum going
\* on in another style, or pausing with its notes sounding.
StrumsOver == enable_auto_hold /\ (right' \/ left') /\ Range(old_midinotes) \cap sounding # {}
AutoSounds == (Range(chord_notes) \cup {voice_note}) \cap sounding # {}
Pauses == Strumming /\ ~Strumming' /\ AutoSounds'

Next ==
  \/ /\ ChangeStyle
     /\ slipped' = (slipped \/ AutoSounds)
  \/ /\ \E dpad \in {"neutral", "right", "left"}, frets \in Chords \cup {None} : Report(dpad, frets)
     /\ slipped' = (slipped \/ StrumsOver \/ Pauses)
  \/ /\ Tick \/ StartStop \/ SwitchDrums \/ SelectPattern \/ ToggleAutoHold \/ ToggleAutoStrum
     /\ slipped' = (slipped \/ Pauses)

Spec == Init /\ [][Next]_vars

-----------------------------------------------------------------------------
(* Properties.                                                             *)

AllNotes == {Note(c, part) : c \in Chords, part \in Strings \cup {"bass"}}

TypeOK ==
  /\ right \in BOOLEAN /\ left \in BOOLEAN /\ strum_neutral \in BOOLEAN
  /\ \A mode \in {enable_midi_drums, style_started, enable_auto_strum, enable_auto_hold} :
       mode \in BOOLEAN
  /\ active_strum_pattern \in Patterns
  /\ last_chord \in Chords
  /\ due \in {"none", "chord", "voice"}
  /\ \A memory \in {old_midinotes, mute_midinotes, chord_notes} :
       memory \in [1 .. 2 -> AllNotes \cup {None}]
  /\ voice_note \in AllNotes \cup {None}
  /\ sounding \subseteq AllNotes
  /\ slipped \in BOOLEAN

\* Over every order of strums, ticks and mode changes no note hangs: what
\* sounds is in an array that stop_chord stops, unless notes held by
\* enable_auto_hold were strummed over or went on in another style.
NoNoteHangs == ~slipped => sounding \subseteq Remembered
=============================================================================
