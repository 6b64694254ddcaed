----------------------------- MODULE SamplerLoops -----------------------------
(***************************************************************************)
(* The style transport of pico_bluetooth.c for the devices that play       *)
(* loops: WAV Trigger Pro ("wav"), MPC Sample ("mpc") and SP-404 ("sp404").*)
(* The firmware remembers which loop it last started on each track; the    *)
(* device plays what it was told.  The model holds both.                   *)
(*                                                                         *)
(* The WAV Trigger starts a loop on one channel and stops it on another;   *)
(* the other two toggle a loop each time its note arrives.  A note sent    *)
(* with velocity 0 is a note off and starts nothing.  Volumes are left     *)
(* out.  One device is enabled throughout, though config_guitar could      *)
(* switch devices, or enable several, while loops play.                    *)
(*                                                                         *)
(* Two contexts get here: the async_context, with one of the guitar's      *)
(* callbacks at a time, and the MIDI parser, with one message at a time of *)
(* one keyboard, on core 1 or in the main loop.  Nothing keeps them apart: *)
(* a keyboard's chord calls trigger_loop without finished_processing.      *)
(* Each begins (Begins), and has its effect when it returns.  The effect   *)
(* is the code's if the other context had none meanwhile.  overlapped      *)
(* records that it had: then the steps of both can mix, so that two loops  *)
(* play on a track of which one is remembered.  What that leaves is not    *)
(* modelled, and nothing is claimed from there on.                         *)
(*                                                                         *)
(* ReplacedOver, StoppedButChord and ReplaceDrumAsBass are defects that    *)
(* the properties detect.                                                  *)
(***************************************************************************)
EXTENDS Integers

CONSTANTS
  Devices,    \* the devices one of which is configured
  Chords,     \* the chords the musician plays
  Sections    \* the style sections selected

ASSUME SamplerAssumption ==
  /\ Devices \subseteq {"wav", "mpc", "sp404"}
  /\ Sections \subseteq 0 .. 7 /\ 0 \in Sections

Tracks == {"drum", "bass", "chord"}
Contexts == {"callback", "keyboard"}

VARIABLES
  device,         \* the one enable_* flag of a loop player that is set
  style_started, style_change_requested, style_end_requested, style_section,
  enable_stacatto_mode,
  enable_track,   \* enable_drum_track, enable_bass_track, enable_chord_track
  old,            \* the sampler_old_*, mpc_old_* or sp404_old_* notes
  playing,        \* the loops the device plays
  handling,       \* the contexts that have begun and not returned
  \* history
  disturbed,      \* those of them during whose work the other had an effect
  restarted,      \* a style was started over loops still playing
  overlapped      \* both contexts had an effect while both were at work

requests == <<style_started, style_change_requested, style_end_requested, style_section>>
vars == <<device, requests, enable_stacatto_mode, enable_track, old, playing,
          handling, disturbed, restarted, overlapped>>

Toggles == device # "wav"

\* A track without a loop: note 255, or 0 on the SP-404.
Off == <<"off">>

\* The notes, by the role of their loops.  Intro, main parts, fills and breaks
\* are drum loops.
Intro == <<"int">>
Arr(s) == <<"arr", IF device = "wav" THEN s % 4 ELSE s>>
Fill(s) == <<"fil", s % 4>>
Break(s) == <<"brk", IF device = "wav" THEN 0 ELSE s % 2>>
BassNote(c) == <<"bass", c>>
ChordNote(c, s) == <<"chord", c, s % 2>>

Notes(t) ==
  CASE t = "drum" -> {Intro} \cup UNION {{Arr(s), Fill(s), Break(s)} : s \in Sections}
    [] t = "bass" -> {BassNote(c) : c \in Chords}
    [] t = "chord" -> {ChordNote(c, s) : c \in Chords, s \in Sections}

Init ==
  /\ device \in Devices
  /\ style_started = FALSE
  /\ style_change_requested = FALSE
  /\ style_end_requested = FALSE
  /\ style_section = 0
  /\ enable_stacatto_mode = FALSE
  /\ enable_track = [t \in Tracks |-> TRUE]
  /\ old = [t \in Tracks |-> Off]
  /\ playing = [t \in Tracks |-> {}]
  /\ handling = {}
  /\ disturbed = {}
  /\ restarted = FALSE
  /\ overlapped = FALSE

-----------------------------------------------------------------------------
(* What the device makes of the notes it receives.                         *)

Toggle(p, n) == IF n \in p THEN p \ {n} ELSE p \cup {n}

\* A muted bass or chord track is sent velocity 0 on the WAV Trigger; the
\* other devices are sent at least velocity 1.
Audible(t) == Toggles \/ t = "drum" \/ enable_track[t]

StartNote(t, p, n) ==
  IF ~Audible(t) THEN p ELSE IF Toggles THEN Toggle(p, n) ELSE p \cup {n}

StopNote(t, p, n) ==
  IF n = Off THEN p ELSE IF Toggles THEN Toggle(p, n) ELSE p \ {n}

\* What plays on track t after its loop is replaced by n.
ReplacedOver(t, n) == StartNote(t, playing[t], n)
Replaced(t, n) == StartNote(t, StopNote(t, playing[t], old[t]), n)

\* *_stop_loops, and what plays on track t after it.
StoppedButChord(t) == IF t = "chord" THEN playing[t] ELSE StopNote(t, playing[t], old[t])
Stopped(t) == StopNote(t, playing[t], old[t])
StopLoops ==
  /\ old' = [t \in Tracks |-> Off]
  /\ playing' = [t \in Tracks |-> Stopped(t)]

-----------------------------------------------------------------------------
(* The start button.                                                       *)

\* Starting plays the intro over whatever plays, and on the WAV Trigger
\* forgets the bass and chord loops.
Start ==
  /\ ~style_started
  /\ style_started' = TRUE
  /\ style_change_requested' = TRUE
  /\ style_section' = 0
  /\ playing' = [playing EXCEPT !["drum"] = StartNote("drum", @, Intro)]
  /\ old' = [t \in Tracks |-> IF t = "drum" THEN Intro
                              ELSE IF device = "wav" THEN Off ELSE old[t]]
  /\ restarted' = (restarted \/ \E t \in Tracks : old[t] # Off)
  /\ UNCHANGED <<style_end_requested, enable_stacatto_mode, enable_track>>

\* Stopping only asks for the end, which the next chord plays.
Stop ==
  /\ style_started
  /\ style_started' = FALSE
  /\ style_end_requested' = TRUE
  /\ UNCHANGED <<style_change_requested, style_section, enable_stacatto_mode,
                 enable_track, old, playing, restarted>>

-----------------------------------------------------------------------------
(* Chords, strummed with frets pressed or played on a MIDI keyboard.       *)

\* The SP-404 has no staccato.
Changes(t, n) == old[t] # n \/ (enable_stacatto_mode /\ device # "sp404" /\ t # "drum")

\* sampler_trigger_loop, mpc_trigger_loop, sp404_trigger_loop
TriggerLoop(c) ==
  LET wanted == [t \in Tracks |->
        CASE t = "bass"  -> BassNote(c)
          [] t = "chord" -> ChordNote(c, style_section)
          [] t = "drum"  -> IF style_change_requested THEN Arr(style_section) ELSE old[t]]
      changed == {t \in Tracks : wanted[t] # Off /\ Changes(t, wanted[t])}
  IN
  /\ style_change_requested' = FALSE
  /\ playing' = [t \in Tracks |-> IF t \in changed THEN Replaced(t, wanted[t]) ELSE playing[t]]
  /\ old' = [t \in Tracks |-> IF t \in changed THEN wanted[t] ELSE old[t]]
  /\ UNCHANGED <<style_started, style_end_requested, style_section,
                 enable_stacatto_mode, enable_track, restarted>>

PlayStyle == style_started /\ \E c \in Chords : TriggerLoop(c)

\* A chord detected on the keyboard triggers the same loops, directly.
KeyboardChord == style_started /\ \E c \in Chords : TriggerLoop(c)

\* The first chord after the stop plays the ending and stops the loops.
PlayEnd ==
  /\ ~style_started /\ style_end_requested
  /\ StopLoops
  /\ style_end_requested' = FALSE
  /\ UNCHANGED <<style_started, style_change_requested, style_section,
                 enable_stacatto_mode, enable_track, restarted>>

\* A single note of a MIDI keyboard takes the end request too, but stops the
\* loops of the WAV Trigger only.
KeyboardNote ==
  /\ ~style_started /\ style_end_requested
  /\ style_end_requested' = FALSE
  /\ IF device = "wav" THEN StopLoops ELSE UNCHANGED <<old, playing>>
  /\ UNCHANGED <<style_started, style_change_requested, style_section,
                 enable_stacatto_mode, enable_track, restarted>>

-----------------------------------------------------------------------------
(* The other controls.                                                     *)

ReplaceDrumAsBass(n) ==
  /\ playing' = [playing EXCEPT !["drum"] = Replaced("drum", n)]
  /\ old' = [old EXCEPT !["bass"] = n]
ReplaceDrum(n) ==
  /\ playing' = [playing EXCEPT !["drum"] = Replaced("drum", n)]
  /\ old' = [old EXCEPT !["drum"] = n]

\* The style button, which plays a fill when it steps to the next or the
\* previous section.
SelectSection ==
  /\ style_section' \in Sections
  /\ style_change_requested' = (style_change_requested \/ style_started)
  /\ IF style_started THEN UNCHANGED <<old, playing>> \/ ReplaceDrum(Fill(style_section'))
                      ELSE UNCHANGED <<old, playing>>
  /\ UNCHANGED <<style_started, style_end_requested, enable_stacatto_mode,
                 enable_track, restarted>>

\* The joystick: sampler_trigger_fill and sampler_trigger_break
FillOrBreak ==
  /\ style_started
  /\ ReplaceDrum(Fill(style_section)) \/ ReplaceDrum(Break(style_section))
  /\ style_change_requested' = TRUE
  /\ UNCHANGED <<style_started, style_end_requested, style_section,
                 enable_stacatto_mode, enable_track, restarted>>

\* Muting stops the track's loop and forgets it; unmuting the drums asks for
\* them again.
Mute(t) ==
  /\ enable_track' = [enable_track EXCEPT ![t] = ~@]
  /\ IF enable_track[t]
     THEN /\ playing' = [playing EXCEPT ![t] = Stopped(t)]
          /\ old' = [old EXCEPT ![t] = Off]
     ELSE UNCHANGED <<playing, old>>
  /\ style_change_requested' = (style_change_requested \/ (t = "drum" /\ ~enable_track[t]))
  /\ UNCHANGED <<style_started, style_end_requested, style_section,
                 enable_stacatto_mode, restarted>>

\* The strum selector without frets stops the loops, once per change.
StopAll ==
  /\ ~style_change_requested
  /\ StopLoops
  /\ style_change_requested' = TRUE
  /\ UNCHANGED <<style_started, style_end_requested, style_section,
                 enable_stacatto_mode, enable_track, restarted>>

\* The knob changes the drum volume; a change of the drums is requested.
DrumVolume ==
  /\ style_change_requested' = TRUE
  /\ UNCHANGED <<style_started, style_end_requested, style_section,
                 enable_stacatto_mode, enable_track, old, playing, restarted>>

ToggleStacatto ==
  /\ enable_stacatto_mode' = ~enable_stacatto_mode
  /\ UNCHANGED <<requests, enable_track, old, playing, restarted>>

-----------------------------------------------------------------------------
(* Who does it.                                                            *)

\* A callback of the guitar, or the last byte of a keyboard's message.
Begins(x) ==
  /\ x \notin handling
  /\ handling' = handling \cup {x}
  /\ UNCHANGED <<device, requests, enable_stacatto_mode, enable_track, old, playing,
                 disturbed, restarted, overlapped>>

GuitarHandler ==
  \/ Start \/ Stop
  \/ PlayStyle \/ PlayEnd
  \/ SelectSection \/ FillOrBreak \/ StopAll \/ DrumVolume \/ ToggleStacatto
  \/ \E t \in Tracks : Mute(t)

\* The pads and buttons of the keyboard call the guitar's handler.
KeyboardHandler == KeyboardChord \/ KeyboardNote \/ GuitarHandler

Handles(x) ==
  /\ x \in handling \ disturbed
  /\ IF x = "callback" THEN GuitarHandler ELSE KeyboardHandler
  /\ handling' = handling \ {x}
  /\ disturbed' = handling \ {x}
  /\ UNCHANGED <<device, overlapped>>

\* An effect of x mixed with one of the other context.
Overlaps(x) ==
  /\ x \in disturbed
  /\ handling' = handling \ {x}
  /\ disturbed' = handling \ {x}
  /\ overlapped' = TRUE
  /\ UNCHANGED <<device, requests, enable_stacatto_mode, enable_track, old, playing, restarted>>

\* Nothing pressed, no chord detected, no end requested, or a call discarded.
HandlesNothing(x) ==
  /\ x \in handling
  /\ handling' = handling \ {x}
  /\ disturbed' = disturbed \ {x}
  /\ UNCHANGED <<device, requests, enable_stacatto_mode, enable_track, old, playing,
                 restarted, overlapped>>

Next == \E x \in Contexts : Begins(x) \/ Handles(x) \/ Overlaps(x) \/ HandlesNothing(x)

Spec == Init /\ [][Next]_vars

-----------------------------------------------------------------------------
(* Properties.                                                             *)

TypeOK ==
  /\ device \in Devices
  /\ style_started \in BOOLEAN
  /\ style_change_requested \in BOOLEAN
  /\ style_end_requested \in BOOLEAN
  /\ style_section \in Sections
  /\ enable_stacatto_mode \in BOOLEAN
  /\ enable_track \in [Tracks -> BOOLEAN]
  /\ DOMAIN old = Tracks /\ DOMAIN playing = Tracks
  /\ \A t \in Tracks : old[t] \in Notes(t) \cup {Off} /\ playing[t] \subseteq Notes(t)
  /\ handling \subseteq Contexts /\ disturbed \subseteq handling
  /\ restarted \in BOOLEAN
  /\ overlapped \in BOOLEAN

\* No style was started over the loops of the last, and no handling of one
\* context mixed with one of the other.
Calm == ~restarted /\ ~overlapped

\* What the properties speak of: nor is a handling under way that may have.
Orderly == Calm /\ disturbed = {}

\* Over every order of chords, sections, fills, breaks and mutes the device
\* plays exactly the loops the firmware remembers, so that each can be stopped
\* (on the WAV Trigger a loop remembered while its track was muted is silent),
\* as long as all goes orderly.
SoundIsKnown ==
  Orderly => \A t \in Tracks :
    /\ playing[t] \subseteq {old[t]}
    /\ Toggles \/ t = "drum" => {old[t]} \ {Off} \subseteq playing[t]

Silent == \A t \in Tracks : playing[t] = {}

\* On the WAV Trigger, once the end was asked for and played, nothing plays,
\* as long as all went orderly.
EndSilencesIfOrderly ==
  ~Toggles /\ Orderly /\ ~style_started /\ ~style_end_requested => Silent

\* The bound of the passing run, whose properties say nothing of what follows.
WhileCalm == Calm
=============================================================================
