------------------------------ MODULE MidiInput ------------------------------
(***************************************************************************)
(* process_midi_byte of main.c and the chord detection behind it, fed by   *)
(* one keyboard byte by byte.  The keyboard, the rest of its message in    *)
(* flight and the guitar, which starts and stops the style and selects the *)
(* samplers at any moment, are the environment.                            *)
(*                                                                         *)
(* The USB keyboard's bytes are parsed only while a sampler is enabled, so *)
(* that the parser may come upon a message half-way: it is then astray up  *)
(* to the next status byte it takes.  A keyboard on the serial line is one *)
(* with a sampler enabled all along.                                       *)
(*                                                                         *)
(* Left out: two keyboards at once, which share the parser; the bytes      *)
(* passed on to the synthesizer; the pads' and knobs'                      *)
(* effects, which are the gamepad handler's; and what a note does while    *)
(* the style is stopped, which is KeyboardNote of SamplerLoops.            *)
(* CountsTwice, IsNoteOnAlways, CountForever and RealTimeResets are        *)
(* defects that the properties detect.                                     *)
(***************************************************************************)
EXTENDS Sequences, ChordDetection

CONSTANTS
  Keys,      \* MIDI note numbers of the keys that are played
  Button     \* controller number of the start/stop button: iRig's or Launchkey's

IRigButton == 23
LaunchkeyButton == 115

ASSUME MidiInputAssumption ==
  /\ Keys \subseteq 0 .. 127 /\ IsFiniteSet(Keys)
  /\ Button \in {IRigButton, LaunchkeyButton}

VARIABLES
  midi_running_status, midi_data_count, midi_data0,   \* the parser
  held_notes, held_note_count,   \* held_notes_mask as a set, and its size
  advanced_chord,   \* the chord last detected; the guitar's are left out
  style_started,
  sampler_enabled,   \* one of the four enable_ flags of tuh_midi_rx_cb is set
  down,      \* the keys that are down
  sent,      \* the keyboard's own running status
  wire,      \* the rest of the message it is sending
  message,   \* history: the whole of that message
  astray,    \* history: a byte went unparsed, and no status byte was parsed since
  missed     \* history: keys whose last change the firmware did not take in

parser == <<midi_running_status, midi_data_count, midi_data0>>
notes == <<held_notes, held_note_count, advanced_chord>>
keyboard == <<down, sent, wire, message>>
vars == <<parser, notes, style_started, sampler_enabled, keyboard, astray, missed>>

NoteOff == 128
NoteOn == 144
ControlChange == 176
ProgramChange == 192
ChannelPressure == 208
TuneRequest == 246   \* a system common message of one byte
Clock == 248         \* a real-time message

Velocity == 64

\* The notes 0x60 to 0x77, which are pads and not keys once a style plays.
Pads == 96 .. 119

Init ==
  /\ midi_running_status = 0 /\ midi_data_count = 0 /\ midi_data0 = 0
  /\ held_notes = {} /\ held_note_count = 0
  /\ advanced_chord = 0
  /\ style_started = FALSE
  /\ sampler_enabled \in BOOLEAN
  /\ down = {} /\ sent = 0 /\ wire = <<>> /\ message = <<>>
  /\ astray = FALSE /\ missed = {}

-----------------------------------------------------------------------------
(* The parser.                                                             *)

chord_detect ==
  IF held_note_count' >= 3 /\ Chords(held_notes') # {}
  THEN \E chord \in Chords(held_notes') : advanced_chord' = Encoded(chord, held_notes')
  ELSE UNCHANGED advanced_chord

CountsTwice(note) == held_note_count + 1
CountWith(note) == IF note \in held_notes THEN held_note_count ELSE held_note_count + 1

chord_note_on(note) ==
  /\ held_note_count' = CountWith(note)
  /\ held_notes' = held_notes \cup {note}

chord_note_off(note) ==
  /\ held_note_count' = IF note \in held_notes /\ held_note_count > 0
                        THEN held_note_count - 1 ELSE held_note_count
  /\ held_notes' = held_notes \ {note}

\* A note goes to the chord detection while the style plays, unless it is a
\* pad.  While it does not play, note offs too are ignored.
NoteMessage(note, note_on) ==
  \/ /\ style_started /\ note \notin Pads
     /\ IF note_on THEN chord_note_on(note) ELSE chord_note_off(note)
     /\ chord_detect
  \/ ~(style_started /\ note \notin Pads) /\ UNCHANGED notes

\* iRig's button is a fill while three keys or more are held.
IsStartStop(cc, value) ==
  /\ cc = Button /\ value = 127
  /\ Button = IRigButton => held_note_count < 3

\* The gamepad handler discards the call when the other core is inside it.
ControlMessage(cc, value) ==
  \/ IsStartStop(cc, value) /\ style_started' = ~style_started
  \/ UNCHANGED style_started

RealTimeResets(b) ==
  /\ b >= 248
  /\ midi_data_count' = 0
  /\ UNCHANGED <<midi_running_status, midi_data0, notes, style_started>>
\* Real-time bytes come at any place and leave running status alone.
RealTimeByte(b) == b >= 248 /\ UNCHANGED <<parser, notes, style_started>>

SystemCommonByte(b) ==
  /\ b \in 240 .. 247
  /\ midi_running_status' = 0 /\ midi_data_count' = 0
  /\ UNCHANGED <<midi_data0, notes, style_started>>

StatusByte(b) ==
  /\ b \in 128 .. 239
  /\ midi_running_status' = b /\ midi_data_count' = 0
  /\ UNCHANGED <<midi_data0, notes, style_started>>

cmd == 16 * (midi_running_status \div 16)
IsParsed == cmd \in {NoteOff, NoteOn, ControlChange}

FirstDataByte(b) ==
  /\ b < 128 /\ IsParsed /\ midi_data_count = 0
  /\ midi_data0' = b /\ midi_data_count' = 1
  /\ UNCHANGED <<midi_running_status, notes, style_started>>

IsNoteOnAlways(velocity) == cmd = NoteOn
IsNoteOn(velocity) == cmd = NoteOn /\ velocity > 0

SecondDataByte(b) ==
  /\ b < 128 /\ IsParsed /\ midi_data_count # 0
  /\ midi_data_count' = 0
  /\ \/ /\ cmd \in {NoteOff, NoteOn}
        /\ NoteMessage(midi_data0, IsNoteOn(b))
        /\ UNCHANGED style_started
     \/ /\ cmd = ControlChange
        /\ ControlMessage(midi_data0, b)
        /\ UNCHANGED notes
  /\ UNCHANGED <<midi_running_status, midi_data0>>

CountForever(expected) == midi_data_count + 1
CountUpTo(expected) == IF midi_data_count + 1 >= expected THEN 0 ELSE midi_data_count + 1

OtherDataByte(b) ==
  /\ b < 128 /\ ~IsParsed
  /\ midi_data_count' = CountUpTo(IF cmd \in {ProgramChange, ChannelPressure} THEN 1 ELSE 2)
  /\ UNCHANGED <<midi_running_status, midi_data0, notes, style_started>>

process_midi_byte(b) ==
  \/ RealTimeByte(b) \/ SystemCommonByte(b) \/ StatusByte(b)
  \/ FirstDataByte(b) \/ SecondDataByte(b) \/ OtherDataByte(b)

-----------------------------------------------------------------------------
(* The keyboard and the guitar.                                            *)

firmware == <<parser, notes, style_started, sampler_enabled>>

\* A message, with its status byte or, where it is the one sent last, without.
Send(m) ==
  /\ wire = <<>>
  /\ wire' \in {m} \cup IF m[1] = sent THEN {Tail(m)} ELSE {}
  /\ sent' = m[1] /\ message' = m
  /\ UNCHANGED <<firmware, astray, missed>>

Press(k) ==
  k \notin down /\ down' = down \cup {k} /\ Send(<<NoteOn, k, Velocity>>)

\* A note off, or a note on without velocity.
Release(k) ==
  /\ k \in down
  /\ down' = down \ {k}
  /\ Send(<<NoteOff, k, Velocity>>) \/ Send(<<NoteOn, k, 0>>)

\* The button, and a message the firmware has no use for.
Control ==
  /\ \/ \E value \in {0, 127} : Send(<<ControlChange, Button, value>>)
     \/ Send(<<ProgramChange, 0>>)
  /\ UNCHANGED down

SystemCommon ==
  /\ wire = <<>> /\ wire' = <<TuneRequest>> /\ sent' = 0 /\ message' = <<TuneRequest>>
  /\ UNCHANGED <<firmware, astray, missed, down>>

\* One byte from the USB keyboard: without a sampler it is dropped.
tuh_midi_rx_cb(b) ==
  /\ IF sampler_enabled THEN process_midi_byte(b) ELSE UNCHANGED <<parser, notes, style_started>>
  /\ UNCHANGED sampler_enabled

\* The key that a message is about.
KeyOf(m) == IF m # <<>> /\ m[1] \in {NoteOff, NoteOn} THEN {m[2]} ELSE {}
HeardKeys == IF style_started THEN KeyOf(message) \ Pads ELSE {}
Changed(S, T) == (S \ T) \cup (T \ S)

\* What an astray parser makes of a key's message is missed, and so is every
\* note it takes up or drops.
Receive ==
  /\ wire # <<>>
  /\ tuh_midi_rx_cb(Head(wire))
  /\ wire' = Tail(wire)
  /\ message' = IF wire' = <<>> THEN <<>> ELSE message
  /\ astray' = (~sampler_enabled \/ (astray /\ Head(wire) < 128))
  /\ missed' = CASE astray' -> missed \cup KeyOf(message) \cup Changed(held_notes, held_notes')
                 [] ~astray' /\ wire' = <<>> -> (missed \cup KeyOf(message)) \ HeardKeys
                 [] OTHER -> missed
  /\ UNCHANGED <<down, sent>>

ReceiveClock == tuh_midi_rx_cb(Clock) /\ UNCHANGED <<keyboard, astray, missed>>

\* Unplugging loses what is in flight and every release to come; the firmware
\* keeps the parser's state and the held notes.
Unplug ==
  /\ down' = {} /\ sent' = 0 /\ wire' = <<>> /\ message' = <<>>
  /\ missed' = missed \cup held_notes
  /\ UNCHANGED <<firmware, astray>>

GuitarStartStop ==
  /\ style_started' = ~style_started
  /\ UNCHANGED <<parser, notes, sampler_enabled, keyboard, astray, missed>>

\* The guitar's configuration mode, the preferences loaded, or a device that is
\* recognised: the first sampler is enabled or the last one disabled.
ConfigGuitar ==
  /\ sampler_enabled' = ~sampler_enabled
  /\ UNCHANGED <<parser, notes, style_started, keyboard, astray, missed>>

Next ==
  \/ \E k \in Keys : Press(k) \/ Release(k)
  \/ Control \/ SystemCommon
  \/ Receive \/ ReceiveClock
  \/ Unplug \/ GuitarStartStop \/ ConfigGuitar

Spec == Init /\ [][Next]_vars

-----------------------------------------------------------------------------
(* Properties.                                                             *)

\* The parser's registers and the chord memory keep their ranges.
TypeOK ==
  /\ midi_running_status \in {0} \cup 128 .. 239
  /\ midi_data_count \in 0 .. 1
  /\ midi_data0 \in 0 .. 127
  /\ held_notes \subseteq 0 .. 127 /\ IsFiniteSet(held_notes)
  /\ held_note_count \in 0 .. 128
  /\ advanced_chord \in {0} \cup Codes
  /\ style_started \in BOOLEAN /\ sampler_enabled \in BOOLEAN /\ astray \in BOOLEAN
  /\ down \subseteq Keys
  /\ wire \in Seq(0 .. 255) /\ message \in Seq(0 .. 255)
  /\ missed \subseteq 0 .. 127

\* held_note_count, kept apart from the mask, is the number of its bits, also
\* when a key is pressed again whose release was ignored.
CountIsHeld == held_note_count = Cardinality(held_notes)

\* Between messages the held notes are the keys that are down, however the
\* keyboard uses running status, note ons without velocity and clocks; all but
\* those whose last change came while the style stood, the plug was out or no
\* sampler was enabled, or was misread before the next status byte.
HearsKeyboard ==
  wire = <<>> =>
    \A k \in Keys \ Pads : k \in missed \/ (k \in held_notes <=> k \in down)

\* A detected chord decodes, in the gamepad code's scheme, to tones and a bass
\* of keys that are down or whose last change was missed.
ChordIsPlayed ==
  [][advanced_chord' # advanced_chord =>
       /\ style_started
       /\ Sounding(advanced_chord') \subseteq PitchClasses(down' \cup missed')]_vars

\* Byte by byte, with running status and real-time bytes, the firmware hears each
\* message whole, once and as it was meant, while a sampler is enabled; and from
\* a byte it has dropped on, no more goes wrong up to the next status byte it takes
\* than that each message may put one note right or wrong.
Keyboard == INSTANCE ChordKeyboard WITH
  held <- held_notes,
  chord <- advanced_chord,
  playing <- style_started,
  listening <- sampler_enabled

ImplementsKeyboard == Keyboard!Spec
=============================================================================
