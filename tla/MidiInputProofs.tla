--------------------------- MODULE MidiInputProofs ---------------------------
(***************************************************************************)
(* Theorems about MidiInput, for every set of keys and both buttons.       *)
(*                                                                         *)
(* The parser is right between messages because of how it stands within    *)
(* one.  InFlight says so: each rest of a message that can be on the wire  *)
(* comes with the status and data bytes the parser must have taken, unless *)
(* it is astray.                                                           *)
(***************************************************************************)
EXTENDS MidiInput, FiniteSetTheorems, SequenceTheorems, WellFoundedInduction, TLAPS

-----------------------------------------------------------------------------
(* The count of the held notes.                                            *)

CountInv ==
  /\ IsFiniteSet(held_notes)
  /\ held_note_count = Cardinality(held_notes)

LEMMA NoteOnCounts ==
  ASSUME CountInv, NEW note, chord_note_on(note)
  PROVE  CountInv'
<1>1. /\ IsFiniteSet(held_notes \cup {note})
      /\ Cardinality(held_notes \cup {note}) =
         IF note \in held_notes THEN Cardinality(held_notes) ELSE Cardinality(held_notes) + 1
  BY FS_AddElement DEF CountInv
<1> QED
  BY <1>1 DEF CountInv, chord_note_on, CountWith

LEMMA NoteOffCounts ==
  ASSUME CountInv, NEW note, chord_note_off(note)
  PROVE  CountInv'
<1>1. /\ IsFiniteSet(held_notes \ {note})
      /\ Cardinality(held_notes \ {note}) =
         IF note \in held_notes THEN Cardinality(held_notes) - 1 ELSE Cardinality(held_notes)
  BY FS_RemoveElement DEF CountInv
<1>2. Cardinality(held_notes) \in Nat /\ (note \in held_notes => Cardinality(held_notes) # 0)
  BY FS_CardinalityType, FS_EmptySet DEF CountInv
<1> QED
  BY <1>1, <1>2 DEF CountInv, chord_note_off

\* Only a note message touches the held notes.
LEMMA ByteCounts ==
  ASSUME CountInv, NEW b, process_midi_byte(b)
  PROVE  CountInv'
<1>1. CASE UNCHANGED notes
  BY <1>1 DEF notes, CountInv
<1>2. ASSUME NEW note, NEW on, NoteMessage(note, on)
      PROVE  CountInv'
  BY <1>1, <1>2, NoteOnCounts, NoteOffCounts DEF NoteMessage
<1>3. CASE SecondDataByte(b)
  BY <1>1, <1>2, <1>3 DEF SecondDataByte
<1> QED
  BY <1>1, <1>3
     DEF process_midi_byte, RealTimeByte, SystemCommonByte, StatusByte, FirstDataByte, OtherDataByte

LEMMA CountInit == Init => CountInv
  BY FS_EmptySet DEF Init, CountInv

LEMMA CountStep == CountInv /\ [Next]_vars => CountInv'
<1> SUFFICES ASSUME CountInv, [Next]_vars
             PROVE  CountInv'
  OBVIOUS
<1>1. CASE UNCHANGED notes
  BY <1>1 DEF notes, CountInv
<1>2. CASE Receive \/ ReceiveClock
  BY <1>1, <1>2, ByteCounts DEF Receive, ReceiveClock, tuh_midi_rx_cb
<1> QED
  BY <1>1, <1>2 DEF Next, vars, firmware, Press, Release, Control, SystemCommon, Send, Unplug,
                    GuitarStartStop, ConfigGuitar

\* held_note_count is the size of held_notes_mask, for any keys and any bytes.
THEOREM HeldNotesCounted == Spec => []CountIsHeld
<1>1. CountInv => CountIsHeld
  BY DEF CountInv, CountIsHeld
<1> QED
  BY <1>1, CountInit, CountStep, PTL DEF Spec

-----------------------------------------------------------------------------
(* The parser against the keyboard.                                        *)

ChordNotes == (0 .. 127) \ Pads

\* The firmware and the musician agree on a note, or a change was missed.
Agrees(n) == n \in missed \/ (n \in held_notes <=> n \in down)

\* Nothing in flight: the parser holds the status the keyboard goes on with.
AtRest ==
  /\ wire = <<>> /\ message = <<>>
  /\ sent # 0 /\ ~astray => midi_running_status = sent /\ midi_data_count = 0

\* Some rest of a message is in flight and the parser has taken what is gone.
InFlight(status, data1, data2) ==
  /\ sent = status /\ message = <<status, data1, data2>>
  /\ \/ wire = <<status, data1, data2>>
     \/ /\ wire = <<data1, data2>>
        /\ ~astray => midi_running_status = status /\ midi_data_count = 0
     \/ /\ wire = <<data2>>
        /\ ~astray => /\ midi_running_status = status
                      /\ midi_data_count = 1 /\ midi_data0 = data1

ProgramInFlight ==
  /\ sent = ProgramChange /\ message = <<ProgramChange, 0>>
  /\ \/ wire = <<ProgramChange, 0>>
     \/ /\ wire = <<0>>
        /\ ~astray => midi_running_status = ProgramChange /\ midi_data_count = 0

TuneInFlight == sent = 0 /\ wire = <<TuneRequest>> /\ message = <<TuneRequest>>

ControlInFlight == \E value \in {0, 127} : InFlight(ControlChange, Button, value)

\* No change of a key is in flight.
Quiet ==
  /\ AtRest \/ TuneInFlight \/ ProgramInFlight \/ ControlInFlight
  /\ \A n \in ChordNotes : Agrees(n)

\* What tells of the last change of key k: status and second data byte.
Changes(k) ==
  IF k \in down THEN {<<NoteOn, Velocity>>} ELSE {<<NoteOff, Velocity>>, <<NoteOn, 0>>}

\* The change of key k is in flight; the other keys agree.
KeyInFlight(k) ==
  /\ \E c \in Changes(k) : InFlight(c[1], k, c[2])
  /\ \A n \in ChordNotes \ {k} : Agrees(n)

WireInv == Quiet \/ \E k \in Keys : KeyInFlight(k)

LEMMA StatusTaken ==
  ASSUME NEW b \in 128 .. 239, process_midi_byte(b)
  PROVE  /\ midi_running_status' = b /\ midi_data_count' = 0
         /\ UNCHANGED <<midi_data0, notes, style_started>>
  BY DEF process_midi_byte, RealTimeByte, SystemCommonByte, StatusByte, FirstDataByte,
         SecondDataByte, OtherDataByte

LEMMA FirstDataTaken ==
  ASSUME NEW b \in 0 .. 127, process_midi_byte(b),
         midi_running_status \in {NoteOff, NoteOn, ControlChange}, midi_data_count = 0
  PROVE  /\ midi_data0' = b /\ midi_data_count' = 1
         /\ UNCHANGED <<midi_running_status, notes, style_started>>
<1>1. IsParsed
  BY DEF IsParsed, cmd, NoteOff, NoteOn, ControlChange
<1> QED
  BY <1>1 DEF process_midi_byte, RealTimeByte, SystemCommonByte, StatusByte, FirstDataByte,
              SecondDataByte, OtherDataByte

\* What a complete message does.
Handled(status, data1, data2) ==
  \/ /\ status \in {NoteOff, NoteOn}
     /\ NoteMessage(data1, status = NoteOn /\ data2 > 0)
     /\ UNCHANGED style_started
  \/ status = ControlChange /\ ControlMessage(data1, data2) /\ UNCHANGED notes

LEMMA SecondDataTaken ==
  ASSUME NEW b \in 0 .. 127, process_midi_byte(b),
         midi_running_status \in {NoteOff, NoteOn, ControlChange}, midi_data_count = 1
  PROVE  /\ midi_data_count' = 0 /\ UNCHANGED midi_running_status
         /\ Handled(midi_running_status, midi_data0, b)
<1>1. IsParsed /\ cmd = midi_running_status
  BY DEF IsParsed, cmd, NoteOff, NoteOn, ControlChange
<1>2. SecondDataByte(b)
  BY <1>1 DEF process_midi_byte, RealTimeByte, SystemCommonByte, StatusByte, FirstDataByte,
              SecondDataByte, OtherDataByte
<1> QED
  BY <1>1, <1>2 DEF SecondDataByte, IsNoteOn, Handled

\* A parser that is not astray has parsed its byte, and was not astray before
\* unless the byte is a status.
LEMMA ByteParsed ==
  ASSUME Receive, ~astray'
  PROVE  process_midi_byte(Head(wire)) /\ sampler_enabled /\ (Head(wire) < 128 => ~astray)
  BY DEF Receive, tuh_midi_rx_cb

\* How a step reckons what is missed: in the midst of a message nothing, at its
\* end the key it is about, unless it is heard.
LEMMA MissedReckoned ==
  ASSUME Receive, ~astray'
  PROVE  /\ wire' # <<>> => UNCHANGED <<message, missed>>
         /\ wire' = <<>> => /\ message' = <<>>
                           /\ missed' = (missed \cup KeyOf(message)) \ HeardKeys
  BY DEF Receive

LEMMA KeyTold ==
  ASSUME NEW status, NEW data1, NEW data2
  PROVE  /\ status \in {NoteOff, NoteOn} => KeyOf(<<status, data1, data2>>) = {data1}
         /\ status \notin {NoteOff, NoteOn} => KeyOf(<<status, data1, data2>>) = {}
         /\ KeyOf(<<ProgramChange, 0>>) = {} /\ KeyOf(<<TuneRequest>>) = {}
  BY DEF KeyOf, ProgramChange, TuneRequest, NoteOff, NoteOn

\* Each byte of a message of two data bytes is taken for what it is: the
\* message stays in flight, or it is handled and the wire is at rest.
LEMMA MessageTaken ==
  ASSUME NEW status \in {NoteOff, NoteOn, ControlChange},
         NEW data1 \in 0 .. 127, NEW data2 \in 0 .. 127,
         InFlight(status, data1, data2), Receive, ~astray'
  PROVE  \/ InFlight(status, data1, data2)' /\ UNCHANGED <<notes, style_started, missed>>
         \/ /\ AtRest' /\ Handled(status, data1, data2)
            /\ missed' = (missed \cup KeyOf(message)) \ HeardKeys
<1>0. UNCHANGED sent /\ wire' = Tail(wire)
  BY DEF Receive
<1>1. CASE wire = <<status, data1, data2>>
  <2>1. /\ Head(wire) = status /\ wire' = <<data1, data2>> /\ wire' # <<>>
        /\ status \in 128 .. 239
    BY <1>0, <1>1 DEF NoteOff, NoteOn, ControlChange
  <2>2. /\ midi_running_status' = status /\ midi_data_count' = 0
        /\ UNCHANGED <<notes, style_started>>
    BY <2>1, StatusTaken, ByteParsed
  <2> QED
    BY <1>0, <2>1, <2>2, MissedReckoned DEF InFlight
<1>2. CASE /\ wire = <<data1, data2>>
           /\ ~astray => midi_running_status = status /\ midi_data_count = 0
  <2>1. Head(wire) = data1 /\ wire' = <<data2>> /\ wire' # <<>> /\ data1 < 128
    BY <1>0, <1>2
  <2>2. midi_running_status = status /\ midi_data_count = 0 /\ process_midi_byte(data1)
    BY <1>2, <2>1, ByteParsed
  <2>3. /\ midi_data0' = data1 /\ midi_data_count' = 1
        /\ UNCHANGED <<midi_running_status, notes, style_started>>
    BY <2>2, FirstDataTaken
  <2> QED
    BY <1>0, <2>1, <2>2, <2>3, MissedReckoned DEF InFlight
<1>3. CASE /\ wire = <<data2>>
           /\ ~astray => /\ midi_running_status = status
                         /\ midi_data_count = 1 /\ midi_data0 = data1
  <2>1. Head(wire) = data2 /\ wire' = <<>> /\ data2 < 128
    BY <1>0, <1>3
  <2>2. /\ midi_running_status = status /\ midi_data_count = 1 /\ midi_data0 = data1
        /\ process_midi_byte(data2)
    BY <1>3, <2>1, ByteParsed
  <2>3. /\ midi_data_count' = 0 /\ UNCHANGED midi_running_status
        /\ Handled(midi_running_status, midi_data0, data2)
    BY <2>2, SecondDataTaken
  <2>4. AtRest'
    BY <1>0, <2>1, <2>2, <2>3, MissedReckoned DEF AtRest, InFlight
  <2> QED
    BY <2>1, <2>2, <2>3, <2>4, MissedReckoned
<1> QED
  BY <1>1, <1>2, <1>3 DEF InFlight

\* Whatever the parser makes of a byte, the rest of the message stays on the wire.
LEMMA MessageShortened ==
  ASSUME NEW status, NEW data1, NEW data2, InFlight(status, data1, data2), Receive, astray'
  PROVE  (AtRest \/ InFlight(status, data1, data2))'
<1>1. UNCHANGED sent /\ wire' = Tail(wire) /\ message' = IF wire' = <<>> THEN <<>> ELSE message
  BY DEF Receive
<1>2. /\ Tail(<<status, data1, data2>>) = <<data1, data2>>
      /\ Tail(<<data1, data2>>) = <<data2>> /\ Tail(<<data2>>) = <<>>
      /\ <<data1, data2>> # <<>> /\ <<data2>> # <<>>
  OBVIOUS
<1> QED
  BY <1>1, <1>2 DEF InFlight, AtRest

\* The same for each kind of message that may be in flight: a key's,
LEMMA KeyReceived ==
  ASSUME NEW k \in Keys, NEW c \in Changes(k), InFlight(c[1], k, c[2]), Receive, ~astray'
  PROVE  \/ InFlight(c[1], k, c[2])' /\ UNCHANGED <<notes, style_started, missed>>
         \/ /\ AtRest' /\ NoteMessage(k, k \in down) /\ UNCHANGED style_started
            /\ missed' = (missed \cup {k}) \ HeardKeys /\ KeyOf(message) = {k}
<1>1. /\ c[1] \in {NoteOff, NoteOn} /\ c[2] \in 0 .. 127 /\ k \in 0 .. 127
      /\ c[1] # ControlChange
      /\ (c[1] = NoteOn /\ c[2] > 0) = (k \in down)
  BY MidiInputAssumption DEF Changes, NoteOn, NoteOff, ControlChange, Velocity
<1>2. c[1] \in {NoteOff, NoteOn, ControlChange}
  BY <1>1
<1>3. \/ InFlight(c[1], k, c[2])' /\ UNCHANGED <<notes, style_started, missed>>
      \/ /\ AtRest' /\ Handled(c[1], k, c[2])
         /\ missed' = (missed \cup KeyOf(message)) \ HeardKeys
  BY <1>1, <1>2, MessageTaken, Zenon
<1>4. KeyOf(message) = {k}
  BY <1>1, KeyTold DEF InFlight
<1> QED
  BY <1>1, <1>3, <1>4 DEF Handled

\* the button's,
LEMMA ControlReceived ==
  ASSUME NEW value \in {0, 127}, InFlight(ControlChange, Button, value), Receive, ~astray'
  PROVE  \/ InFlight(ControlChange, Button, value)' /\ UNCHANGED <<notes, style_started, missed>>
         \/ AtRest' /\ ControlMessage(Button, value) /\ UNCHANGED <<notes, missed>>
<1>1. Button \in 0 .. 127 /\ value \in 0 .. 127
  BY MidiInputAssumption DEF IRigButton, LaunchkeyButton
<1>2. \/ InFlight(ControlChange, Button, value)' /\ UNCHANGED <<notes, style_started, missed>>
      \/ /\ AtRest' /\ Handled(ControlChange, Button, value)
         /\ missed' = (missed \cup KeyOf(message)) \ HeardKeys
  BY <1>1, MessageTaken
<1>3. KeyOf(message) = {} /\ HeardKeys = {}
  BY KeyTold DEF InFlight, HeardKeys, ControlChange, NoteOff, NoteOn
<1> QED
  BY <1>2, <1>3 DEF Handled, ControlChange, NoteOff, NoteOn

\* a program change of one data byte,
LEMMA ProgramReceived ==
  ASSUME ProgramInFlight, Receive
  PROVE  /\ (AtRest \/ ProgramInFlight)'
         /\ ~astray' => UNCHANGED <<notes, style_started, missed>>
<1>0. /\ UNCHANGED sent /\ wire' = Tail(wire)
      /\ message' = IF wire' = <<>> THEN <<>> ELSE message
  BY DEF Receive
<1>m. ~astray' => UNCHANGED missed
  <2>1. KeyOf(message) = {} /\ HeardKeys = {}
    BY KeyTold DEF ProgramInFlight, HeardKeys
  <2> QED
    BY <2>1, MissedReckoned
<1>1. CASE wire = <<ProgramChange, 0>>
  <2>1. /\ Head(wire) = ProgramChange /\ wire' = <<0>> /\ wire' # <<>>
        /\ ProgramChange \in 128 .. 239
    BY <1>0, <1>1 DEF ProgramChange
  <2>2. ASSUME ~astray'
        PROVE  /\ midi_running_status' = ProgramChange /\ midi_data_count' = 0
               /\ UNCHANGED <<notes, style_started>>
    BY <2>1, <2>2, StatusTaken, ByteParsed
  <2> QED
    BY <1>0, <1>m, <2>1, <2>2 DEF ProgramInFlight
<1>2. CASE /\ wire = <<0>>
           /\ ~astray => midi_running_status = ProgramChange /\ midi_data_count = 0
  <2>1. Head(wire) = 0 /\ wire' = <<>>
    BY <1>0, <1>2
  <2>2. ASSUME ~astray'
        PROVE  /\ midi_data_count' = 0 /\ midi_running_status' = ProgramChange
               /\ UNCHANGED <<notes, style_started>>
    <3>1. /\ midi_running_status = ProgramChange /\ midi_data_count = 0
          /\ process_midi_byte(0)
      BY <1>2, <2>1, <2>2, ByteParsed
    <3>2. cmd = ProgramChange /\ ~IsParsed
      BY <3>1 DEF cmd, IsParsed, ProgramChange, NoteOff, NoteOn, ControlChange
    <3>3. OtherDataByte(0)
      BY <3>1, <3>2 DEF process_midi_byte, RealTimeByte, SystemCommonByte, StatusByte,
                        FirstDataByte, SecondDataByte
    <3> QED
      BY <3>1, <3>2, <3>3 DEF OtherDataByte, CountUpTo
  <2> QED
    BY <1>0, <1>m, <2>1, <2>2 DEF AtRest, ProgramInFlight
<1> QED
  BY <1>1, <1>2 DEF ProgramInFlight

\* and a system common message.
LEMMA TuneReceived ==
  ASSUME TuneInFlight, Receive
  PROVE  AtRest' /\ (~astray' => UNCHANGED <<notes, style_started, missed>>)
<1>1. Head(wire) = TuneRequest /\ wire' = <<>> /\ message' = <<>> /\ sent' = 0
  BY DEF TuneInFlight, Receive
<1>2. KeyOf(message) = {} /\ HeardKeys = {}
  BY KeyTold DEF TuneInFlight, HeardKeys
<1>3. ASSUME ~astray'
      PROVE  UNCHANGED <<notes, style_started, missed>>
  <2>1. process_midi_byte(TuneRequest)
    BY <1>1, <1>3, ByteParsed
  <2>2. UNCHANGED <<notes, style_started>>
    BY <2>1 DEF process_midi_byte, RealTimeByte, SystemCommonByte, StatusByte, FirstDataByte,
                SecondDataByte, OtherDataByte, TuneRequest
  <2> QED
    BY <1>1, <1>2, <1>3, <2>2, MissedReckoned
<1> QED
  BY <1>1, <1>3 DEF AtRest

\* A handled note brings its key in line, or records that it was ignored.
LEMMA NoteAgrees ==
  ASSUME NEW k, UNCHANGED down, NoteMessage(k, k \in down), KeyOf(message) = {k},
         missed' = (missed \cup {k}) \ HeardKeys,
         \A n \in ChordNotes \ {k} : Agrees(n)
  PROVE  \A n \in ChordNotes : Agrees(n)'
<1> SUFFICES ASSUME NEW n \in ChordNotes
             PROVE  Agrees(n)'
  OBVIOUS
<1>1. CASE n = k
  BY <1>1 DEF NoteMessage, Agrees, chord_note_on, chord_note_off, HeardKeys, ChordNotes
<1>2. CASE n # k
  BY <1>2 DEF NoteMessage, Agrees, chord_note_on, chord_note_off, HeardKeys, notes
<1> QED
  BY <1>1, <1>2

\* What an astray parser changes is missed, and so is the message's key.
LEMMA AstrayAgrees ==
  ASSUME Receive, astray', \A n \in ChordNotes \ KeyOf(message) : Agrees(n)
  PROVE  \A n \in ChordNotes : Agrees(n)'
<1>1. /\ UNCHANGED down
      /\ missed' = missed \cup KeyOf(message) \cup Changed(held_notes, held_notes')
  BY DEF Receive
<1> QED
  BY <1>1 DEF Changed, Agrees

LEMMA KeptAgreeing ==
  ASSUME NEW K, UNCHANGED <<notes, missed, down>>, \A n \in K : Agrees(n)
  PROVE  \A n \in K : Agrees(n)'
  BY DEF Agrees, notes

\* A message can be sent whole, and without its status where the parser holds it.
LEMMA SentInFlight ==
  ASSUME NEW status \in 1 .. 255, NEW data1, NEW data2, AtRest,
         Send(<<status, data1, data2>>)
  PROVE  InFlight(status, data1, data2)' /\ UNCHANGED <<notes, missed>>
<1>0. /\ sent' = status /\ message' = <<status, data1, data2>>
      /\ UNCHANGED <<midi_running_status, midi_data_count, astray>>
  <2>1. <<status, data1, data2>>[1] = status
    OBVIOUS
  <2> QED
    BY <2>1 DEF Send, firmware, parser
<1>1. UNCHANGED <<notes, missed>>
  BY DEF Send, firmware
<1>2. CASE wire' = <<status, data1, data2>>
  BY <1>0, <1>1, <1>2 DEF InFlight
<1>3. CASE wire' = <<data1, data2>> /\ sent = status
  BY <1>0, <1>1, <1>3 DEF InFlight, AtRest
<1>4. <<status, data1, data2>>[1] = status /\ Tail(<<status, data1, data2>>) = <<data1, data2>>
  OBVIOUS
<1> QED
  BY <1>1, <1>2, <1>3, <1>4 DEF Send

LEMMA AtRestIsQuiet ==
  ASSUME WireInv, wire = <<>>
  PROVE  AtRest /\ \A n \in ChordNotes : Agrees(n)
  BY DEF WireInv, Quiet, KeyInFlight, InFlight, ProgramInFlight, TuneInFlight, ControlInFlight

LEMMA WireInit == Init => WireInv
  BY DEF Init, WireInv, Quiet, AtRest, Agrees

LEMMA WireSend ==
  ASSUME WireInv, Control \/ SystemCommon \/ \E k \in Keys : Press(k) \/ Release(k)
  PROVE  WireInv'
<1>1. wire = <<>>
  BY DEF Control, SystemCommon, Press, Release, Send
<1>2. AtRest /\ \A n \in ChordNotes : Agrees(n)
  BY <1>1, AtRestIsQuiet
<1>3. ASSUME NEW k \in Keys, Press(k)
      PROVE  WireInv'
  <2>1. InFlight(NoteOn, k, Velocity)' /\ UNCHANGED <<notes, missed>>
    <3>1. Send(<<NoteOn, k, Velocity>>)
      BY <1>3 DEF Press
    <3>2. NoteOn \in 1 .. 255
      BY DEF NoteOn
    <3> QED
      BY <1>2, <3>1, <3>2, SentInFlight, Zenon
  <2>2. \A n \in ChordNotes \ {k} : Agrees(n)'
    BY <1>2, <1>3, <2>1 DEF Press, Agrees, notes
  <2>3. <<NoteOn, Velocity>> \in Changes(k)'
    BY <1>3 DEF Press, Changes
  <2>4. KeyInFlight(k)'
    BY <2>1, <2>2, <2>3 DEF KeyInFlight
  <2> QED
    BY <2>4 DEF WireInv
<1>4. ASSUME NEW k \in Keys, Release(k)
      PROVE  WireInv'
  <2>1. PICK c \in {<<NoteOff, Velocity>>, <<NoteOn, 0>>} : Send(<<c[1], k, c[2]>>)
    BY <1>4 DEF Release
  <2>2. InFlight(c[1], k, c[2])' /\ UNCHANGED <<notes, missed>>
    <3>1. c[1] \in 1 .. 255
      BY <2>1 DEF NoteOn, NoteOff
    <3> QED
      BY <1>2, <2>1, <3>1, SentInFlight, Zenon
  <2>3. \A n \in ChordNotes \ {k} : Agrees(n)'
    BY <1>2, <1>4, <2>2 DEF Release, Agrees, notes
  <2>4. c \in Changes(k)'
    BY <1>4, <2>1 DEF Release, Changes
  <2>5. KeyInFlight(k)'
    BY <2>2, <2>3, <2>4 DEF KeyInFlight
  <2> QED
    BY <2>5 DEF WireInv
<1>5. CASE Control
  <2>1. ASSUME NEW value \in {0, 127}, Send(<<ControlChange, Button, value>>)
        PROVE  ControlInFlight' /\ UNCHANGED <<notes, missed>>
    <3>1. ControlChange \in 1 .. 255
      BY DEF ControlChange
    <3>2. InFlight(ControlChange, Button, value)' /\ UNCHANGED <<notes, missed>>
      BY <1>2, <2>1, <3>1, SentInFlight, Zenon
    <3> QED
      BY <3>2 DEF ControlInFlight
  <2>2. ASSUME Send(<<ProgramChange, 0>>)
        PROVE  ProgramInFlight' /\ UNCHANGED <<notes, missed>>
    <3>1. <<ProgramChange, 0>>[1] = ProgramChange /\ Tail(<<ProgramChange, 0>>) = <<0>>
      OBVIOUS
    <3> QED
      BY <1>2, <2>2, <3>1 DEF Send, AtRest, ProgramInFlight, ProgramChange, firmware, parser
  <2>3. (ControlInFlight \/ ProgramInFlight)' /\ UNCHANGED <<notes, missed, down>>
    BY <1>5, <2>1, <2>2 DEF Control
  <2>4. \A n \in ChordNotes : Agrees(n)'
    BY <1>2, <2>3, KeptAgreeing
  <2> QED
    BY <2>3, <2>4 DEF WireInv, Quiet
<1>6. CASE SystemCommon
  <2>1. \A n \in ChordNotes : Agrees(n)'
    BY <1>2, <1>6, KeptAgreeing DEF SystemCommon, firmware
  <2> QED
    BY <1>6, <2>1 DEF SystemCommon, TuneInFlight, WireInv, Quiet
<1> QED
  BY <1>3, <1>4, <1>5, <1>6

\* A byte leaves the notes alone, or completes the message about a key, or is
\* lost on an astray parser; in the latter two cases all agrees afterwards.
LEMMA ReceiveHears ==
  ASSUME WireInv, Receive
  PROVE  \/ UNCHANGED <<notes, missed>>
         \/ \A n \in ChordNotes : Agrees(n)'
<1>0. UNCHANGED down
  BY DEF Receive
<1>1. ASSUME NEW k \in Keys, KeyInFlight(k)
      PROVE  UNCHANGED <<notes, missed>> \/ \A n \in ChordNotes : Agrees(n)'
  <2>1. PICK c \in Changes(k) : InFlight(c[1], k, c[2])
    BY <1>1 DEF KeyInFlight
  <2>2. \A n \in ChordNotes \ {k} : Agrees(n)
    BY <1>1 DEF KeyInFlight
  <2>3. CASE astray'
    <3>1. KeyOf(message) = {k}
      BY <2>1, KeyTold DEF InFlight, Changes
    <3> QED
      BY <2>2, <2>3, <3>1, AstrayAgrees
  <2>4. CASE ~astray'
    BY <1>0, <2>1, <2>2, <2>4, KeyReceived, NoteAgrees
  <2> QED
    BY <2>3, <2>4
<1>2. ASSUME Quiet, ~astray'
      PROVE  UNCHANGED <<notes, missed>>
  <2>1. ~AtRest
    BY DEF AtRest, Receive
  <2> QED
    BY <1>2, <2>1, ControlReceived, ProgramReceived, TuneReceived DEF Quiet, ControlInFlight
<1>3. ASSUME Quiet, astray'
      PROVE  \A n \in ChordNotes : Agrees(n)'
  BY <1>3, AstrayAgrees DEF Quiet
<1> QED
  BY <1>1, <1>2, <1>3 DEF WireInv

LEMMA WireReceive ==
  ASSUME WireInv, Receive
  PROVE  WireInv'
<1>1. UNCHANGED down
  BY DEF Receive
<1>2. ASSUME NEW k \in Keys, KeyInFlight(k)
      PROVE  WireInv'
  <2>1. PICK c \in Changes(k) : InFlight(c[1], k, c[2])
    BY <1>2 DEF KeyInFlight
  <2>2. c \in Changes(k)'
    BY <1>1, <2>1 DEF Changes
  <2>3. \A n \in ChordNotes \ {k} : Agrees(n)'
    <3>1. CASE UNCHANGED <<notes, missed>>
      BY <1>1, <1>2, <3>1 DEF KeyInFlight, Agrees, notes
    <3>2. CASE \A n \in ChordNotes : Agrees(n)'
      BY <3>2
    <3> QED
      BY <3>1, <3>2, ReceiveHears
  <2>4. CASE InFlight(c[1], k, c[2])'
    <3>1. KeyInFlight(k)'
      BY <2>2, <2>3, <2>4 DEF KeyInFlight
    <3> QED
      BY <3>1 DEF WireInv
  <2>5. CASE AtRest'
    <3>1. \A n \in ChordNotes : Agrees(n)'
      <4>1. CASE astray'
        <5>1. KeyOf(message) = {k}
          BY <2>1, KeyTold DEF InFlight, Changes
        <5> QED
          BY <1>2, <4>1, <5>1, AstrayAgrees DEF KeyInFlight
      <4>2. CASE ~astray'
        <5>1. ~InFlight(c[1], k, c[2])'
          BY <2>5 DEF AtRest, InFlight
        <5> QED
          BY <1>1, <1>2, <2>1, <4>2, <5>1, KeyReceived, NoteAgrees DEF KeyInFlight
      <4> QED
        BY <4>1, <4>2
    <3> QED
      BY <2>5, <3>1 DEF WireInv, Quiet
  <2>6. (AtRest \/ InFlight(c[1], k, c[2]))'
    BY <2>1, KeyReceived, MessageShortened
  <2> QED
    BY <2>4, <2>5, <2>6
<1>3. CASE Quiet
  <2>1. (AtRest \/ ControlInFlight \/ ProgramInFlight)'
    <3>1. ~AtRest
      BY DEF AtRest, Receive
    <3>2. CASE ControlInFlight
      <4>1. PICK value \in {0, 127} : InFlight(ControlChange, Button, value)
        BY <3>2 DEF ControlInFlight
      <4>2. (AtRest \/ InFlight(ControlChange, Button, value))'
        BY <4>1, ControlReceived, MessageShortened
      <4> QED
        BY <4>2 DEF ControlInFlight
    <3> QED
      BY <1>3, <3>1, <3>2, ProgramReceived, TuneReceived DEF Quiet
  <2>2. \A n \in ChordNotes : Agrees(n)'
    <3>1. CASE UNCHANGED <<notes, missed>>
      BY <1>1, <1>3, <3>1, KeptAgreeing DEF Quiet
    <3> QED
      BY <3>1, ReceiveHears, <1>3
  <2> QED
    BY <2>1, <2>2 DEF WireInv, Quiet
<1> QED
  BY <1>2, <1>3 DEF WireInv

\* A real-time byte, wherever it comes, is passed over.
LEMMA ClockIgnored ==
  ReceiveClock => UNCHANGED <<parser, notes, style_started, sampler_enabled, keyboard, astray, missed>>
  BY DEF ReceiveClock, tuh_midi_rx_cb, process_midi_byte, RealTimeByte, SystemCommonByte,
         StatusByte, FirstDataByte, SecondDataByte, OtherDataByte, Clock

LEMMA WireStep == WireInv /\ [Next]_vars => WireInv'
<1> SUFFICES ASSUME WireInv, [Next]_vars
             PROVE  WireInv'
  OBVIOUS
<1>1. CASE UNCHANGED <<parser, notes, keyboard, astray, missed>>
  BY <1>1 DEF WireInv, Quiet, AtRest, TuneInFlight, ProgramInFlight, ControlInFlight, InFlight,
              KeyInFlight, Changes, Agrees, parser, notes, keyboard
<1>2. CASE ReceiveClock
  BY <1>1, <1>2, ClockIgnored
<1>3. CASE Unplug
  <2>1. AtRest'
    BY <1>3 DEF Unplug, AtRest
  <2>2. \A n \in ChordNotes : Agrees(n)'
    BY <1>3 DEF Unplug, Agrees, firmware, notes
  <2> QED
    BY <2>1, <2>2 DEF WireInv, Quiet
<1>4. CASE Receive
  BY <1>4, WireReceive
<1>5. CASE Control \/ SystemCommon \/ \E k \in Keys : Press(k) \/ Release(k)
  BY <1>5, WireSend
<1>6. CASE UNCHANGED vars \/ GuitarStartStop \/ ConfigGuitar
  BY <1>1, <1>6 DEF vars, GuitarStartStop, ConfigGuitar
<1> QED
  BY <1>2, <1>3, <1>4, <1>5, <1>6 DEF Next

\* Whatever keys the keyboard has, its bytes are paired as it meant them: between
\* messages the firmware holds the keys that are down, but for the changes that
\* it ignores, that the unplugged cable loses, that come while no sampler is
\* enabled, or that it misreads from there to the next status byte.
THEOREM KeyboardHeard == Spec => []HearsKeyboard
<1>1. WireInv => HearsKeyboard
  BY AtRestIsQuiet, MidiInputAssumption DEF HearsKeyboard, ChordNotes, Agrees
<1> QED
  BY <1>1, WireInit, WireStep, PTL DEF Spec

-----------------------------------------------------------------------------
(* Chords.                                                                 *)

\* A set of notes has a least one: induction, in the form of well-foundedness.
LEMMA LeastExists ==
  ASSUME NEW S \in SUBSET Nat, S # {}
  PROVE  \E m \in S : \A n \in S : m <= n
<1> DEFINE R == OpToRel(<, Nat)
<1>1. IsWellFoundedOn(R, Nat)
  BY NatLessThanWellFounded
<1>2. \A x, y \in Nat : y < x => <<y, x>> \in R
  BY DEF OpToRel
<1>3. \A x, y \in Nat : ~(y < x) => x <= y
  OBVIOUS
<1> HIDE DEF R
<1>4. \E x \in S : \A y \in S : <<y, x>> \notin R
  BY <1>1, WFMin
<1> QED
  BY <1>2, <1>3, <1>4, Zenon

LEMMA MinIsLeast ==
  ASSUME NEW S \in SUBSET Nat, S # {}
  PROVE  Min(S) \in S /\ \A n \in S : Min(S) <= n
  BY LeastExists DEF Min

\* What is encoded is decoded.
LEMMA CodeDecodes ==
  ASSUME NEW root \in PitchClass, NEW bass \in PitchClass, NEW type \in ChordTypes
  PROVE  /\ RootOf(Code(root, bass, type)) = root
         /\ BassOf(Code(root, bass, type)) = bass
         /\ TypeOf(Code(root, bass, type)) = type
         /\ Code(root, bass, type) \in Codes
<1>1. Code(root, bass, type) \in Codes
  BY DEF Codes
<1> SUFFICES ASSUME NEW code, code = (root + 1) * 256 + (bass + 1) * 16 + type,
                    root \in 0 .. 11, bass \in 0 .. 11, type \in 0 .. 2
             PROVE  code \div 256 - 1 = root /\ ((code \div 16) % 16) - 1 = bass /\ code % 16 = type
  BY <1>1 DEF Code, RootOf, BassOf, TypeOf, PitchClass, ChordTypes, Major, Minor, Sus4
<1>2. code \div 256 = root + 1
  OBVIOUS
<1>3. code \div 16 = (root + 1) * 16 + (bass + 1)
  OBVIOUS
<1>4. code % 16 = type
  OBVIOUS
<1> QED
  BY <1>2, <1>3, <1>4

LEMMA PitchClassesTyped ==
  ASSUME NEW ns \in SUBSET (0 .. 127)
  PROVE  PitchClasses(ns) \in SUBSET PitchClass
<1>1. \A n \in 0 .. 127 : n % 12 \in 0 .. 11
  OBVIOUS
<1>2. \A n \in ns : n % 12 \in 0 .. 11
  BY <1>1
<1> QED
  BY <1>2, Zenon DEF PitchClasses, PitchClass

\* A chord found in some notes has its tones among them.
LEMMA ChordAmongNotes ==
  ASSUME NEW ns \in SUBSET (0 .. 127), NEW c \in Chords(ns)
  PROVE  /\ c[1] \in PitchClass /\ c[2] \in ChordTypes
         /\ Tones(c[1], c[2]) \subseteq PitchClasses(ns)
         /\ ns # {}
<1>1. PitchClasses(ns) \subseteq PitchClass
  BY PitchClassesTyped
<1>2. ASSUME NEW pcs, c \in Triads(pcs)
      PROVE  c[1] \in pcs /\ c[2] \in ChordTypes /\ Tones(c[1], c[2]) \subseteq pcs
  BY <1>2 DEF Triads, triad_match
<1>3. ASSUME c \in Sevenths(PitchClasses(ns))
      PROVE  /\ c[1] \in PitchClasses(ns) /\ c[2] \in ChordTypes
             /\ Tones(c[1], c[2]) \subseteq PitchClasses(ns)
  BY <1>3 DEF Sevenths, ChordTypes
<1>4. ASSUME c \in SlashChords(PitchClasses(ns), ns)
      PROVE  \E pc : c \in Triads(PitchClasses(ns) \ {pc})
  BY <1>4 DEF SlashChords
<1>5. /\ c[1] \in PitchClasses(ns) /\ c[2] \in ChordTypes
      /\ Tones(c[1], c[2]) \subseteq PitchClasses(ns)
  <2>1. \/ c \in Triads(PitchClasses(ns)) \/ c \in Sevenths(PitchClasses(ns))
        \/ c \in SlashChords(PitchClasses(ns), ns)
    BY DEF Chords
  <2> QED
    BY <2>1, <1>2, <1>3, <1>4
<1>6. ns # {}
  BY <1>5 DEF PitchClasses
<1> QED
  BY <1>1, <1>5, <1>6

LEMMA EncodedSounds ==
  ASSUME NEW ns \in SUBSET (0 .. 127), NEW c \in Chords(ns)
  PROVE  Encoded(c, ns) \in Codes /\ Sounding(Encoded(c, ns)) \subseteq PitchClasses(ns)
<1>1. Min(ns) \in ns
  BY ChordAmongNotes, MinIsLeast
<1>2. Min(ns) % 12 \in PitchClass /\ Min(ns) % 12 \in PitchClasses(ns)
  <2> DEFINE m == Min(ns)
  <2>1. m \in ns /\ m \in 0 .. 127
    BY <1>1
  <2> HIDE DEF m
  <2>2. m % 12 \in 0 .. 11
    BY <2>1
  <2>3. m % 12 \in {n % 12 : n \in ns}
    BY <2>1
  <2> QED
    BY <2>2, <2>3 DEF m, PitchClass, PitchClasses
<1> QED
  BY <1>2, ChordAmongNotes, CodeDecodes DEF Encoded, Sounding

\* No three tones are two triads,
LEMMA TriadUnique ==
  ASSUME NEW pcs \in SUBSET PitchClass, NEW c \in Triads(pcs), NEW d \in Triads(pcs)
  PROVE  c = d
<1>1. \A r, s \in 0 .. 11, i, j \in 3 .. 5 :
        /\ s \in {r, (r + i) % 12, (r + 7) % 12}
        /\ (s + j) % 12 \in {r, (r + i) % 12, (r + 7) % 12}
        /\ (s + 7) % 12 \in {r, (r + i) % 12, (r + 7) % 12}
        => r = s /\ i = j
  OBVIOUS
<1>2. /\ c[1] \in 0 .. 11 /\ d[1] \in 0 .. 11 /\ c[2] \in ChordTypes /\ d[2] \in ChordTypes
      /\ c = <<c[1], c[2]>> /\ d = <<d[1], d[2]>>
      /\ Tones(c[1], c[2]) = Tones(d[1], d[2])
  <2>1. ASSUME NEW e \in Triads(pcs)
        PROVE  e[1] \in pcs /\ e[2] \in ChordTypes /\ e = <<e[1], e[2]>> /\ pcs = Tones(e[1], e[2])
    BY <2>1 DEF Triads, triad_match
  <2>2. pcs \subseteq 0 .. 11
    BY DEF PitchClass
  <2>3. c[1] \in 0 .. 11 /\ d[1] \in 0 .. 11
    BY <2>1, <2>2
  <2> QED
    BY <2>1, <2>3
<1>3. \A t \in ChordTypes : Third(t) \in 3 .. 5
  BY DEF ChordTypes, Third, Major, Minor, Sus4
<1>4. \A t, u \in ChordTypes : Third(t) = Third(u) => t = u
  BY DEF ChordTypes, Third, Major, Minor, Sus4
<1>5. c[1] = d[1] /\ Third(c[2]) = Third(d[2])
  <2>1. {d[1], (d[1] + Third(d[2])) % 12, (d[1] + 7) % 12} \subseteq
        {c[1], (c[1] + Third(c[2])) % 12, (c[1] + 7) % 12}
    BY <1>2 DEF Tones
  <2> QED
    BY <2>1, <1>1, <1>2, <1>3
<1> QED
  BY <1>2, <1>4, <1>5

\* no four are two major sevenths,
LEMMA SeventhUnique ==
  ASSUME NEW pcs \in SUBSET PitchClass, NEW c \in Sevenths(pcs), NEW d \in Sevenths(pcs)
  PROVE  c = d
<1>1. \A r, s \in 0 .. 11 :
        /\ s \in {r, (r + 4) % 12, (r + 7) % 12, (r + 11) % 12}
        /\ (s + 4) % 12 \in {r, (r + 4) % 12, (r + 7) % 12, (r + 11) % 12}
        /\ (s + 7) % 12 \in {r, (r + 4) % 12, (r + 7) % 12, (r + 11) % 12}
        => r = s
  OBVIOUS
<1>2. /\ c[1] \in 0 .. 11 /\ d[1] \in 0 .. 11
      /\ c = <<c[1], Major>> /\ d = <<d[1], Major>>
      /\ Tones(d[1], Major) \subseteq Tones(c[1], Major) \cup {(c[1] + 11) % 12}
  <2>1. ASSUME NEW e \in Sevenths(pcs)
        PROVE  /\ e[1] \in pcs /\ e = <<e[1], Major>>
               /\ pcs = Tones(e[1], Major) \cup {(e[1] + 11) % 12}
    BY <2>1 DEF Sevenths
  <2>2. pcs \subseteq 0 .. 11
    BY DEF PitchClass
  <2>3. c[1] \in 0 .. 11 /\ d[1] \in 0 .. 11
    BY <2>1, <2>2
  <2> QED
    BY <2>1, <2>3
<1>3. Third(Major) = 4
  BY DEF Third, Major, Minor, Sus4
<1> QED
  BY <1>1, <1>2, <1>3 DEF Tones

\* and no two pitch classes have the same lowest note.
LEMMA LowestUnique ==
  ASSUME NEW ns \in SUBSET (0 .. 127), NEW p \in PitchClasses(ns), NEW q \in PitchClasses(ns)
  PROVE  /\ LowestOf(p, ns) \in Nat /\ LowestOf(q, ns) \in Nat
         /\ LowestOf(p, ns) = LowestOf(q, ns) => p = q
<1>1. ASSUME NEW pc \in PitchClasses(ns)
      PROVE  LowestOf(pc, ns) \in Nat /\ LowestOf(pc, ns) % 12 = pc
  <2>1. {n \in ns : n % 12 = pc} # {} /\ {n \in ns : n % 12 = pc} \in SUBSET Nat
    <3>1. PICK n \in ns : n % 12 = pc
      BY Zenon DEF PitchClasses
    <3>2. n \in {m \in ns : m % 12 = pc}
      BY <3>1
    <3>3. \A m \in ns : m \in Nat
      OBVIOUS
    <3>4. {m \in ns : m % 12 = pc} \subseteq ns
      OBVIOUS
    <3> QED
      BY <3>2, <3>3, <3>4, Zenon
  <2>2. Min({n \in ns : n % 12 = pc}) \in {n \in ns : n % 12 = pc}
    BY <2>1, MinIsLeast
  <2> QED
    BY <2>1, <2>2 DEF LowestOf
<1> QED
  BY <1>1

\* Whatever the order in which the code tries roots, types and basses, it finds the same
\* chord: at most one shape fits any set of notes.  Chords leaves that order
\* out, but for the bass.
THEOREM DetectionUnique ==
  \A ns \in SUBSET (0 .. 127) : \A c, d \in Chords(ns) : c = d
<1> SUFFICES ASSUME NEW ns \in SUBSET (0 .. 127), NEW c \in Chords(ns), NEW d \in Chords(ns)
             PROVE  c = d
  OBVIOUS
<1> DEFINE pcs == PitchClasses(ns)
<1>1. pcs \in SUBSET PitchClass
  BY PitchClassesTyped
<1>2. CASE Chords(ns) = Triads(pcs)
  BY <1>1, <1>2, TriadUnique
<1>3. CASE Chords(ns) = Sevenths(pcs)
  BY <1>1, <1>3, SeventhUnique
<1>4. CASE Chords(ns) = SlashChords(pcs, ns)
  <2> DEFINE Skips == {pc \in pcs : Triads(pcs \ {pc}) # {}}
             First(s) == s \in Skips /\ \A r \in Skips : LowestOf(s, ns) <= LowestOf(r, ns)
  <2>1. PICK s \in pcs : First(s) /\ c \in Triads(pcs \ {s})
    BY <1>4 DEF SlashChords
  <2>2. PICK r \in pcs : First(r) /\ d \in Triads(pcs \ {r})
    BY <1>4 DEF SlashChords
  <2>3. s = r
    BY <2>1, <2>2, LowestUnique
  <2>4. pcs \ {s} \in SUBSET PitchClass
    BY <1>1
  <2> QED
    BY <2>1, <2>2, <2>3, <2>4, TriadUnique
<1>5. Chords(ns) \in {Triads(pcs), Sevenths(pcs), SlashChords(pcs, ns), {}}
  BY DEF Chords
<1> QED
  BY <1>2, <1>3, <1>4, <1>5

-----------------------------------------------------------------------------
(* Types.                                                                  *)

\* The registers of the parser, and what a byte may do to them.
ParserTyped ==
  /\ midi_running_status \in {0} \cup 128 .. 239
  /\ midi_data_count \in 0 .. 1
  /\ midi_data0 \in 0 .. 127

NotesTyped ==
  /\ held_notes \subseteq ChordNotes
  /\ advanced_chord \in {0} \cup Codes
  /\ CountInv

LEMMA ParserTypeKept ==
  ASSUME ParserTyped, NEW b \in 0 .. 255, process_midi_byte(b)
  PROVE  ParserTyped'
<1>1. CASE RealTimeByte(b) \/ SystemCommonByte(b) \/ StatusByte(b)
  BY <1>1 DEF ParserTyped, RealTimeByte, SystemCommonByte, StatusByte, parser
<1>2. CASE FirstDataByte(b) \/ SecondDataByte(b)
  BY <1>2 DEF ParserTyped, FirstDataByte, SecondDataByte
<1>3. CASE OtherDataByte(b)
  BY <1>3 DEF ParserTyped, OtherDataByte, CountUpTo
<1> QED
  BY <1>1, <1>2, <1>3 DEF process_midi_byte

\* Whatever the bytes, a byte does no more than to handle one note or to start or
\* stop the style.
LEMMA ByteDoes ==
  ASSUME ParserTyped, style_started \in BOOLEAN, NEW b, process_midi_byte(b)
  PROVE  \/ UNCHANGED notes /\ style_started' \in BOOLEAN
         \/ /\ UNCHANGED style_started
            /\ \E note \in 0 .. 127, on \in BOOLEAN : NoteMessage(note, on)
<1>1. CASE SecondDataByte(b)
  <2>1. CASE NoteMessage(midi_data0, IsNoteOn(b)) /\ UNCHANGED style_started
    <3>1. midi_data0 \in 0 .. 127 /\ IsNoteOn(b) \in BOOLEAN
      BY DEF ParserTyped, IsNoteOn
    <3> QED
      BY <2>1, <3>1
  <2>2. CASE ControlMessage(midi_data0, b) /\ UNCHANGED notes
    BY <2>2 DEF ControlMessage
  <2> QED
    BY <1>1, <2>1, <2>2 DEF SecondDataByte
<1> QED
  BY <1>1
     DEF process_midi_byte, RealTimeByte, SystemCommonByte, StatusByte, FirstDataByte, OtherDataByte

LEMMA DetectTyped ==
  ASSUME held_notes' \subseteq ChordNotes, advanced_chord \in {0} \cup Codes, chord_detect
  PROVE  advanced_chord' \in {0} \cup Codes
<1>1. held_notes' \in SUBSET (0 .. 127)
  BY DEF ChordNotes
<1> QED
  BY <1>1, EncodedSounds DEF chord_detect

LEMMA NoteTyped ==
  ASSUME NotesTyped, NEW note \in 0 .. 127, NEW on, NoteMessage(note, on)
  PROVE  NotesTyped'
<1>1. CASE UNCHANGED notes
  BY <1>1 DEF NotesTyped, CountInv, notes
<1>2. CASE /\ note \notin Pads
           /\ chord_note_on(note) \/ chord_note_off(note)
           /\ chord_detect
  <2>1. CountInv'
    BY <1>2, NoteOnCounts, NoteOffCounts DEF NotesTyped
  <2>2. held_notes' \subseteq ChordNotes
    BY <1>2 DEF NotesTyped, chord_note_on, chord_note_off, ChordNotes
  <2> QED
    BY <1>2, <2>1, <2>2, DetectTyped DEF NotesTyped
<1> QED
  BY <1>1, <1>2 DEF NoteMessage

LEMMA NotesTypeKept ==
  ASSUME ParserTyped, NotesTyped, style_started \in BOOLEAN, NEW b, process_midi_byte(b)
  PROVE  NotesTyped' /\ style_started' \in BOOLEAN
<1>1. CASE UNCHANGED notes
  BY <1>1, ByteDoes DEF notes, NotesTyped, CountInv
<1>2. ASSUME NEW note \in 0 .. 127, NEW on, NoteMessage(note, on)
      PROVE  NotesTyped'
  BY <1>2, NoteTyped
<1> QED
  BY <1>1, <1>2, ByteDoes

LEMMA HeadTailTyped ==
  ASSUME NEW S, NEW s \in Seq(S), s # <<>>
  PROVE  Head(s) \in S /\ s[1] \in S /\ Tail(s) \in Seq(S)
  OBVIOUS

KeyboardTyped ==
  /\ down \subseteq Keys
  /\ wire \in Seq(0 .. 255) /\ message \in Seq(0 .. 255)

LEMMA SendTyped ==
  ASSUME KeyboardTyped, NEW m \in Seq(0 .. 255), m # <<>>, Send(m)
  PROVE  wire' \in Seq(0 .. 255) /\ message' \in Seq(0 .. 255)
<1>1. Tail(m) \in Seq(0 .. 255)
  BY HeadTailTyped
<1> QED
  BY <1>1 DEF Send

LEMMA KeyboardTypeKept ==
  ASSUME KeyboardTyped, [Next]_vars
  PROVE  KeyboardTyped'
<1>1. ASSUME NEW k \in Keys, Press(k) \/ Release(k)
      PROVE  KeyboardTyped'
  <2>1. /\ <<NoteOn, k, Velocity>> \in Seq(0 .. 255) /\ <<NoteOff, k, Velocity>> \in Seq(0 .. 255)
        /\ <<NoteOn, k, 0>> \in Seq(0 .. 255)
    BY MidiInputAssumption DEF NoteOn, NoteOff, Velocity
  <2> QED
    BY <1>1, <2>1, SendTyped DEF Press, Release, KeyboardTyped
<1>2. CASE Control
  <2>1. /\ \A value \in {0, 127} : <<ControlChange, Button, value>> \in Seq(0 .. 255)
        /\ <<ProgramChange, 0>> \in Seq(0 .. 255)
    BY MidiInputAssumption DEF ControlChange, ProgramChange, IRigButton, LaunchkeyButton
  <2> QED
    BY <1>2, <2>1, SendTyped DEF Control, KeyboardTyped
<1>3. CASE SystemCommon \/ Receive \/ Unplug
  <2>1. <<>> \in Seq(0 .. 255) /\ <<TuneRequest>> \in Seq(0 .. 255)
    BY DEF TuneRequest
  <2>2. wire \in Seq(0 .. 255) /\ (wire # <<>> => Tail(wire) \in Seq(0 .. 255))
    BY HeadTailTyped DEF KeyboardTyped
  <2>3. wire' \in Seq(0 .. 255) /\ message' \in Seq(0 .. 255)
    BY <1>3, <2>1, <2>2 DEF SystemCommon, Receive, Unplug, KeyboardTyped
  <2>4. down' \subseteq Keys
    <3>1. UNCHANGED down \/ down' = {}
      BY <1>3 DEF SystemCommon, Receive, Unplug
    <3>2. down \subseteq Keys
      BY DEF KeyboardTyped
    <3> QED
      BY <3>1, <3>2, Zenon
  <2> QED
    BY <2>3, <2>4 DEF KeyboardTyped
<1>4. CASE UNCHANGED keyboard
  BY <1>4 DEF KeyboardTyped, keyboard
<1> QED
  BY <1>1, <1>2, <1>3, <1>4
     DEF Next, ReceiveClock, GuitarStartStop, ConfigGuitar, vars

FlagsTyped == style_started \in BOOLEAN /\ sampler_enabled \in BOOLEAN /\ astray \in BOOLEAN
MissedTyped == missed \subseteq 0 .. 127

Typed == ParserTyped /\ NotesTyped /\ KeyboardTyped /\ FlagsTyped /\ MissedTyped

LEMMA TypedIsTypeOK == Typed => TypeOK
<1> SUFFICES ASSUME Typed
             PROVE  TypeOK
  OBVIOUS
<1>1. held_note_count \in 0 .. 128
  <2>1. IsFiniteSet(0 .. 127) /\ Cardinality(0 .. 127) = 128
    <3>1. 0 \in Int /\ 127 \in Int /\ (IF 0 > 127 THEN 0 ELSE 127 - 0 + 1) = 128
      OBVIOUS
    <3>2. /\ IsFiniteSet(0 .. 127)
          /\ Cardinality(0 .. 127) = IF 0 > 127 THEN 0 ELSE 127 - 0 + 1
      BY <3>1, FS_Interval, Zenon
    <3> QED
      BY <3>1, <3>2
  <2>2. held_notes \in SUBSET (0 .. 127) /\ held_note_count = Cardinality(held_notes)
    BY DEF Typed, NotesTyped, CountInv, ChordNotes
  <2>3. Cardinality(held_notes) <= 128 /\ Cardinality(held_notes) \in Nat
    <3>1. IsFiniteSet(held_notes) /\ Cardinality(held_notes) <= Cardinality(0 .. 127)
      BY <2>1, <2>2, FS_Subset, Zenon
    <3>2. Cardinality(held_notes) \in Nat
      BY <3>1, FS_CardinalityType, Zenon
    <3> QED
      BY <2>1, <3>1, <3>2
  <2> QED
    BY <2>2, <2>3
<1>2. held_notes \subseteq 0 .. 127
  BY DEF Typed, NotesTyped, ChordNotes
<1> QED
  BY <1>1, <1>2 DEF Typed, ParserTyped, NotesTyped, KeyboardTyped, FlagsTyped, MissedTyped,
                    CountInv, TypeOK

LEMMA TypedInit == Init => Typed
<1> SUFFICES ASSUME Init
             PROVE  Typed
  OBVIOUS
<1>1. ParserTyped /\ MissedTyped
  BY DEF Init, ParserTyped, MissedTyped
<1>2. KeyboardTyped /\ FlagsTyped
  <2>1. <<>> \in Seq(0 .. 255)
    OBVIOUS
  <2>2. FlagsTyped
    BY Zenon DEF Init, FlagsTyped
  <2> QED
    BY <2>1, <2>2 DEF Init, KeyboardTyped
<1>3. NotesTyped
  BY FS_EmptySet DEF Init, NotesTyped, CountInv
<1> QED
  BY <1>1, <1>2, <1>3 DEF Typed

\* A message under way, whichever it is, is about a key or about none.
LEMMA UnderWay ==
  ASSUME WireInv, wire # <<>>
  PROVE  message # <<>> /\ KeyOf(message) \subseteq Keys
<1>1. ASSUME NEW status, NEW data1 \in Keys, NEW data2, InFlight(status, data1, data2)
      PROVE  message # <<>> /\ KeyOf(message) \subseteq Keys
  BY <1>1, KeyTold DEF InFlight
<1>2. CASE ControlInFlight
  BY <1>2, KeyTold DEF ControlInFlight, InFlight, ControlChange, NoteOff, NoteOn
<1>3. CASE ProgramInFlight \/ TuneInFlight
  <2>1. <<ProgramChange, 0>> # <<>> /\ <<TuneRequest>> # <<>>
    OBVIOUS
  <2>2. message \in {<<ProgramChange, 0>>, <<TuneRequest>>}
    BY <1>3 DEF ProgramInFlight, TuneInFlight
  <2>3. KeyOf(<<ProgramChange, 0>>) = {} /\ KeyOf(<<TuneRequest>>) = {}
    BY KeyTold
  <2> QED
    BY <2>1, <2>2, <2>3
<1>4. ~AtRest
  BY DEF AtRest
<1> QED
  BY <1>1, <1>2, <1>3, <1>4 DEF WireInv, Quiet, KeyInFlight

LEMMA ReceiveTyped ==
  ASSUME Typed, WireInv, Receive
  PROVE  (ParserTyped /\ NotesTyped /\ FlagsTyped /\ MissedTyped)'
<1>1. (ParserTyped /\ NotesTyped /\ style_started \in BOOLEAN)'
  <2>1. Head(wire) \in 0 .. 255
    <3>1. wire \in Seq(0 .. 255) /\ wire # <<>>
      BY DEF Typed, KeyboardTyped, Receive
    <3> QED
      BY <3>1, HeadTailTyped
  <2>2. CASE process_midi_byte(Head(wire))
    BY <2>1, <2>2, ParserTypeKept, NotesTypeKept DEF Typed, FlagsTyped
  <2>3. CASE UNCHANGED <<parser, notes, style_started>>
    BY <2>3 DEF Typed, FlagsTyped, parser, notes, ParserTyped, NotesTyped, CountInv
  <2> QED
    BY <2>2, <2>3 DEF Receive, tuh_midi_rx_cb
<1>2. FlagsTyped'
  BY <1>1 DEF Receive, tuh_midi_rx_cb, FlagsTyped, Typed
<1>3. MissedTyped'
  <2>1. KeyOf(message) \subseteq 0 .. 127
    BY UnderWay, MidiInputAssumption DEF Receive
  <2>2. Changed(held_notes, held_notes') \subseteq 0 .. 127
    BY <1>1 DEF Typed, NotesTyped, ChordNotes, Changed
  <2>3. missed' \subseteq missed \cup KeyOf(message) \cup Changed(held_notes, held_notes')
    BY DEF Receive
  <2>4. missed \subseteq 0 .. 127
    BY DEF Typed, MissedTyped
  <2> QED
    BY <2>1, <2>2, <2>3, <2>4, Zenon DEF MissedTyped
<1> QED
  BY <1>1, <1>2, <1>3

LEMMA TypedStep == Typed /\ WireInv /\ [Next]_vars => Typed'
<1> SUFFICES ASSUME Typed, WireInv, [Next]_vars
             PROVE  Typed'
  OBVIOUS
<1>1. KeyboardTyped'
  BY KeyboardTypeKept DEF Typed
<1>2. CASE Receive
  BY <1>1, <1>2, ReceiveTyped DEF Typed
<1>3. CASE UNCHANGED <<parser, notes>>
  <2>1. (ParserTyped /\ NotesTyped)'
    BY <1>3 DEF Typed, parser, notes, ParserTyped, NotesTyped, CountInv
  <2>2. (FlagsTyped /\ MissedTyped)'
    <3>1. CASE UNCHANGED <<style_started, sampler_enabled, astray, missed>>
      BY <3>1 DEF Typed, FlagsTyped, MissedTyped
    <3>2. CASE Unplug
      BY <3>2 DEF Unplug, firmware, Typed, FlagsTyped, MissedTyped, NotesTyped, ChordNotes
    <3>3. CASE GuitarStartStop \/ ConfigGuitar
      BY <3>3 DEF GuitarStartStop, ConfigGuitar, Typed, FlagsTyped, MissedTyped
    <3>4. CASE Receive
      BY <3>4, ReceiveTyped
    <3> QED
      BY <3>1, <3>2, <3>3, <3>4, ClockIgnored
         DEF Next, vars, firmware, Press, Release, Control, SystemCommon, Send
  <2> QED
    BY <1>1, <2>1, <2>2 DEF Typed
<1> QED
  BY <1>2, <1>3, ClockIgnored
     DEF Next, vars, firmware, Press, Release, Control, SystemCommon, Send, Unplug,
         GuitarStartStop, ConfigGuitar

\* What the theorems below rest on.
IInv == Typed /\ WireInv

LEMMA IInvInit == Init => IInv
  BY TypedInit, WireInit DEF IInv

LEMMA IInvStep == IInv /\ [Next]_vars => IInv'
  BY TypedStep, WireStep DEF IInv

\* The parser's registers, the count and the detected chord keep their ranges:
\* whatever arrives, what the gamepad code decodes is a chord.
THEOREM MidiInputTypeOK == Spec => []TypeOK
<1>1. IInv => TypeOK
  BY TypedIsTypeOK DEF IInv
<1> QED
  BY <1>1, IInvInit, IInvStep, PTL DEF Spec

-----------------------------------------------------------------------------
(* The chord is of keys that are down.                                     *)

\* A note that changes the chord was heard, and the chord is of the notes held.
LEMMA NoteDetects ==
  ASSUME NEW note, NEW on, NoteMessage(note, on), held_notes' \subseteq ChordNotes,
         advanced_chord' # advanced_chord
  PROVE  /\ style_started
         /\ advanced_chord' \in Codes
         /\ Sounding(advanced_chord') \subseteq PitchClasses(held_notes')
<1>1. held_notes' \in SUBSET (0 .. 127)
  BY DEF ChordNotes
<1>2. style_started /\ chord_detect
  BY DEF NoteMessage, notes
<1> QED
  BY <1>1, <1>2, EncodedSounds DEF chord_detect

\* For every set of keys, and however messages, clocks, unplugging, the samplers
\* and the guitar interleave: a chord is detected while the style plays only, and
\* it decodes to tones and a bass of keys that are down or whose last change was
\* missed.
THEOREM ChordsArePlayed == Spec => ChordIsPlayed
<1>1. IInv /\ IInv' /\ [Next]_vars =>
        [advanced_chord' # advanced_chord =>
           /\ style_started
           /\ Sounding(advanced_chord') \subseteq PitchClasses(down' \cup missed')]_vars
  <2> SUFFICES ASSUME IInv, IInv', [Next]_vars, advanced_chord' # advanced_chord
               PROVE  /\ style_started
                      /\ Sounding(advanced_chord') \subseteq PitchClasses(down' \cup missed')
    OBVIOUS
  <2>1. Receive
    BY ClockIgnored DEF Next, vars, notes, firmware, Press, Release, Control, SystemCommon, Send,
                        Unplug, GuitarStartStop, ConfigGuitar
  <2>2. PICK note, on : NoteMessage(note, on)
    <3>1. process_midi_byte(Head(wire))
      BY <2>1 DEF Receive, tuh_midi_rx_cb, notes
    <3> QED
      BY <3>1, ByteDoes DEF IInv, Typed, FlagsTyped, notes
  <2>3. held_notes' \subseteq ChordNotes
    BY DEF IInv, Typed, NotesTyped
  <2>4. style_started /\ Sounding(advanced_chord') \subseteq PitchClasses(held_notes')
    BY <2>2, <2>3, NoteDetects
  <2>5. \A n \in ChordNotes : Agrees(n)'
    BY <2>1, ReceiveHears DEF IInv, notes
  <2>6. held_notes' \subseteq down' \cup missed'
    BY <2>3, <2>5 DEF Agrees
  <2>7. PitchClasses(held_notes') \subseteq PitchClasses(down' \cup missed')
    BY <2>6 DEF PitchClasses
  <2> QED
    BY <2>4, <2>7
<1> QED
  BY <1>1, IInvInit, IInvStep, PTL DEF Spec, ChordIsPlayed

-----------------------------------------------------------------------------
(* The parser is transparent.                                              *)

\* Both modules take the chords from ChordDetection.
LEMMA SameChords ==
  /\ Keyboard!Codes = Codes
  /\ \A code : Keyboard!Sounding(code) = Sounding(code)
  /\ \A ns : Keyboard!PitchClasses(ns) = PitchClasses(ns)
  BY DEF Keyboard!Codes, Codes, Keyboard!Code, Code, Keyboard!PitchClass, PitchClass,
         Keyboard!ChordTypes, ChordTypes, Keyboard!Major, Major, Keyboard!Minor, Minor,
         Keyboard!Sus4, Sus4, Keyboard!Sounding, Sounding, Keyboard!Tones, Tones,
         Keyboard!Third, Third, Keyboard!RootOf, RootOf, Keyboard!BassOf, BassOf,
         Keyboard!TypeOf, TypeOf, Keyboard!PitchClasses, PitchClasses

LEMMA KeyboardInit == Init => Keyboard!Init
  BY DEF Init, Keyboard!Init

\* What the abstract keyboard does not look at.
LEMMA KeyboardSame ==
  UNCHANGED <<notes, style_started, sampler_enabled, down, message, astray, missed>>
    => UNCHANGED Keyboard!keyboardVars
  BY DEF Keyboard!keyboardVars, notes

\* A message is begun: whether its status byte is sent or not makes no difference.
LEMMA KeyboardSends ==
  ASSUME WireInv, Control \/ SystemCommon \/ \E k \in Keys : Press(k) \/ Release(k)
  PROVE  Keyboard!Next
<1>1. wire = <<>>
  BY DEF Control, SystemCommon, Press, Release, Send
<1>2. message = <<>>
  BY <1>1, AtRestIsQuiet DEF AtRest
<1>3. ASSUME NEW m, Send(m)
      PROVE  Keyboard!Send(m)
  BY <1>2, <1>3 DEF Send, firmware, notes, Keyboard!Send
<1>4. ASSUME NEW k \in Keys, Press(k)
      PROVE  Keyboard!Press(k)
  BY <1>3, <1>4 DEF Press, Keyboard!Press, NoteOn, Velocity
<1>5. ASSUME NEW k \in Keys, Release(k)
      PROVE  Keyboard!Release(k)
  BY <1>3, <1>5 DEF Release, Keyboard!Release, NoteOn, NoteOff, Velocity
<1>6. CASE Control
  <2>1. Keyboard!Other
    BY <1>3, <1>6 DEF Control, Keyboard!Other, ControlChange, ProgramChange
  <2> QED
    BY <2>1 DEF Keyboard!Next
<1>7. CASE SystemCommon
  <2>1. Keyboard!Other
    BY <1>2, <1>7 DEF SystemCommon, firmware, notes, Keyboard!Other, Keyboard!Send, TuneRequest
  <2> QED
    BY <2>1 DEF Keyboard!Next
<1> QED
  BY <1>4, <1>5, <1>6, <1>7 DEF Keyboard!Next

\* What the abstract keyboard hears when the message about key k is complete.
LEMMA HearsNote ==
  ASSUME NEW k \in Keys, NEW c \in Changes(k), message = <<c[1], k, c[2]>>, message' = <<>>,
         held_notes' \subseteq ChordNotes, sampler_enabled, ~astray', astray' \in BOOLEAN,
         missed' = (missed \cup {k}) \ HeardKeys,
         UNCHANGED <<down, style_started, sampler_enabled>>, NoteMessage(k, k \in down)
  PROVE  Keyboard!Hear
<1>1. /\ c[1] \in {128, 144} /\ (c[1] = 144 /\ c[2] > 0) = (k \in down)
  BY DEF Changes, NoteOn, NoteOff, Velocity
<1>2. /\ message # <<>> /\ message[1] = c[1] /\ message[2] = k /\ message[3] = c[2]
  OBVIOUS
<1>3. HeardKeys = IF style_started THEN {k} \ Pads ELSE {}
  <2>1. KeyOf(message) = {k}
    BY <1>1, <1>2 DEF KeyOf, NoteOn, NoteOff
  <2> QED
    BY <2>1 DEF HeardKeys
<1>4. CASE ~Keyboard!IsHeard(k)
  <2>1. Keyboard!MissKey(k)
    BY <1>3, <1>4 DEF NoteMessage, notes, Keyboard!IsHeard, Keyboard!MissKey
  <2> QED
    BY <1>1, <1>2, <2>1 DEF Keyboard!Hear
<1>5. CASE Keyboard!IsHeard(k)
  <2>1. /\ IF k \in down THEN chord_note_on(k) ELSE chord_note_off(k)
        /\ chord_detect /\ missed' = missed \ {k}
    BY <1>3, <1>5 DEF NoteMessage, Keyboard!IsHeard
  <2>2. held_notes' = IF k \in down THEN held_notes \cup {k} ELSE held_notes \ {k}
    BY <2>1 DEF chord_note_on, chord_note_off
  <2>3. \/ UNCHANGED advanced_chord
        \/ /\ advanced_chord' \in Codes
           /\ Sounding(advanced_chord') \subseteq PitchClasses(held_notes')
    BY NoteDetects
  <2>4. Keyboard!HearKey(k, k \in down)
    BY <1>5, <2>1, <2>2, <2>3, SameChords DEF Keyboard!HearKey
  <2> QED
    BY <1>1, <1>2, <2>4 DEF Keyboard!Hear
<1> QED
  BY <1>4, <1>5

\* An astray parser puts one note right or wrong, or starts or stops the style.
LEMMA Mishears ==
  ASSUME IInv, IInv', Receive, astray'
  PROVE  Keyboard!Mishear
<1>1. /\ ~sampler_enabled \/ astray
      /\ UNCHANGED <<down, sampler_enabled>>
      /\ message' \in {message, <<>>}
      /\ missed' = missed \cup KeyOf(message) \cup Changed(held_notes, held_notes')
      /\ ~sampler_enabled => UNCHANGED <<notes, style_started>>
  BY DEF Receive, tuh_midi_rx_cb
<1>2. message # <<>> /\ KeyOf(message) = Keyboard!KeyOf(message)
  BY UnderWay DEF IInv, Receive, KeyOf, Keyboard!KeyOf, NoteOn, NoteOff
<1>3. astray' = TRUE /\ style_started' \in BOOLEAN
  BY DEF IInv, Typed, FlagsTyped
<1>4. CASE UNCHANGED notes
  <2>1. UNCHANGED <<held_notes, advanced_chord>> /\ 0 \in 0 .. 127
    BY <1>4 DEF notes
  <2> QED
    BY <1>1, <1>2, <1>3, <2>1 DEF Keyboard!Mishear, Changed, notes
<1>5. ASSUME NEW note \in 0 .. 127, NEW on \in BOOLEAN, NoteMessage(note, on),
             UNCHANGED style_started, ~UNCHANGED notes
      PROVE  Keyboard!Mishear
  <2>1. /\ style_started
        /\ held_notes' \in {held_notes, held_notes \cup {note}, held_notes \ {note}}
    BY <1>5 DEF NoteMessage, chord_note_on, chord_note_off
  <2>2. held_notes' \subseteq ChordNotes
    BY DEF IInv, Typed, NotesTyped
  <2>3. \/ UNCHANGED advanced_chord
        \/ /\ advanced_chord' \in Keyboard!Codes
           /\ Keyboard!Sounding(advanced_chord') \subseteq Keyboard!PitchClasses(held_notes')
    BY <1>5, <2>2, NoteDetects, SameChords
  <2>4. sampler_enabled
    BY <1>1, <1>5
  <2> QED
    BY <1>1, <1>2, <1>3, <1>5, <2>1, <2>3, <2>4 DEF Keyboard!Mishear, Changed
<1>6. \/ UNCHANGED notes
      \/ /\ UNCHANGED style_started
         /\ \E note \in 0 .. 127, on \in BOOLEAN : NoteMessage(note, on)
  BY ByteDoes DEF IInv, Typed, FlagsTyped, Receive, tuh_midi_rx_cb
<1> QED
  BY <1>4, <1>5, <1>6

\* A byte is received: it completes a message, tells the next, or is passed over.
LEMMA KeyboardHears ==
  ASSUME IInv, IInv', Receive
  PROVE  Keyboard!Next \/ UNCHANGED Keyboard!keyboardVars
<1>1. CASE astray'
  BY <1>1, Mishears DEF Keyboard!Next
<1> SUFFICES ASSUME ~astray'
             PROVE  Keyboard!Hear \/ Keyboard!Recover \/ UNCHANGED Keyboard!keyboardVars
  BY <1>1 DEF Keyboard!Next
<1>2. /\ UNCHANGED <<down, sampler_enabled>> /\ sampler_enabled
      /\ astray' = FALSE /\ astray \in BOOLEAN
  BY ByteParsed DEF Receive, tuh_midi_rx_cb, IInv, Typed, FlagsTyped
<1>3. ASSUME UNCHANGED <<notes, style_started, missed, message>>
      PROVE  Keyboard!Recover \/ UNCHANGED Keyboard!keyboardVars
  <2>1. message # <<>>
    BY UnderWay DEF IInv, Receive
  <2>2. CASE astray
    BY <1>2, <1>3, <2>1, <2>2 DEF Keyboard!Recover, notes
  <2>3. CASE ~astray
    BY <1>2, <1>3, <2>3, KeyboardSame
  <2> QED
    BY <2>2, <2>3
<1>4. ASSUME NEW k \in Keys, KeyInFlight(k)
      PROVE  Keyboard!Hear \/ Keyboard!Recover \/ UNCHANGED Keyboard!keyboardVars
  <2>1. PICK c \in Changes(k) : InFlight(c[1], k, c[2])
    BY <1>4 DEF KeyInFlight
  <2>2. message = <<c[1], k, c[2]>>
    BY <2>1 DEF InFlight
  <2>3. CASE InFlight(c[1], k, c[2])' /\ UNCHANGED <<notes, style_started, missed>>
    BY <1>3, <2>2, <2>3 DEF InFlight
  <2>4. CASE /\ AtRest' /\ NoteMessage(k, k \in down) /\ UNCHANGED style_started
             /\ missed' = (missed \cup {k}) \ HeardKeys
    <3>1. message' = <<>> /\ held_notes' \subseteq ChordNotes
      BY <2>4 DEF AtRest, IInv, Typed, NotesTyped
    <3> QED
      BY <1>2, <2>2, <2>4, <3>1, HearsNote
  <2> QED
    BY <2>1, <2>3, <2>4, KeyReceived
<1>5. ASSUME message # <<>>, message[1] \notin {128, 144}, message' = <<>>,
             UNCHANGED <<notes, missed>>,
             \/ UNCHANGED style_started
             \/ /\ message = <<ControlChange, Button, 127>>
                /\ Button = IRigButton => held_note_count < 3
                /\ style_started' = ~style_started
      PROVE  Keyboard!Hear
  <2>1. Keyboard!Cardinality(held_notes) = Cardinality(held_notes)
    BY DEF Keyboard!Cardinality, Cardinality
  <2>2. Keyboard!HearOther
    BY <1>5, <2>1 DEF Keyboard!HearOther, notes, ControlChange, IRigButton, IInv, Typed,
                      NotesTyped, CountInv
  <2> QED
    BY <1>2, <1>5, <2>2 DEF Keyboard!Hear
<1>6. ASSUME NEW value \in {0, 127}, InFlight(ControlChange, Button, value)
      PROVE  Keyboard!Hear \/ Keyboard!Recover \/ UNCHANGED Keyboard!keyboardVars
  <2>1. message = <<ControlChange, Button, value>>
    BY <1>6 DEF InFlight
  <2>2. CASE /\ InFlight(ControlChange, Button, value)'
             /\ UNCHANGED <<notes, style_started, missed>>
    BY <1>3, <2>1, <2>2 DEF InFlight
  <2>3. CASE AtRest' /\ ControlMessage(Button, value) /\ UNCHANGED <<notes, missed>>
    <3>1. \/ UNCHANGED style_started
          \/ /\ value = 127 /\ style_started' = ~style_started
             /\ Button = IRigButton => held_note_count < 3
      BY <2>3 DEF ControlMessage, IsStartStop
    <3>2. message # <<>> /\ message[1] \notin {128, 144} /\ message' = <<>>
      BY <2>1, <2>3 DEF ControlChange, AtRest
    <3> QED
      BY <1>5, <2>1, <2>3, <3>1, <3>2
  <2> QED
    BY <1>6, <2>2, <2>3, ControlReceived
<1>7. CASE ProgramInFlight
  <2>1. message = <<ProgramChange, 0>> /\ message # <<>> /\ message[1] \notin {128, 144}
    BY <1>7 DEF ProgramInFlight, ProgramChange
  <2>2. (AtRest \/ ProgramInFlight)' /\ UNCHANGED <<notes, style_started, missed>>
    BY <1>7, ProgramReceived
  <2>3. message' = <<>> \/ UNCHANGED message
    BY <2>1, <2>2 DEF AtRest, ProgramInFlight
  <2> QED
    BY <1>3, <1>5, <2>1, <2>2, <2>3
<1>8. CASE TuneInFlight
  <2>1. message = <<TuneRequest>> /\ message # <<>> /\ message[1] \notin {128, 144}
    BY <1>8 DEF TuneInFlight, TuneRequest
  <2>2. message' = <<>> /\ UNCHANGED <<notes, style_started, missed>>
    BY <1>8, TuneReceived DEF AtRest
  <2> QED
    BY <1>5, <2>1, <2>2
<1>9. ~AtRest
  BY DEF AtRest, Receive
<1> QED
  BY <1>4, <1>6, <1>7, <1>8, <1>9 DEF IInv, WireInv, Quiet, ControlInFlight

LEMMA KeyboardStep ==
  ASSUME IInv, IInv', [Next]_vars
  PROVE  [Keyboard!Next]_Keyboard!keyboardVars
<1>1. CASE Control \/ SystemCommon \/ \E k \in Keys : Press(k) \/ Release(k)
  BY <1>1, KeyboardSends DEF IInv
<1>2. CASE Receive
  BY <1>2, KeyboardHears
<1>3. CASE ReceiveClock \/ UNCHANGED vars
  BY <1>3, ClockIgnored, KeyboardSame DEF vars, keyboard
<1>4. CASE Unplug
  <2>1. Keyboard!Unplug
    BY <1>4 DEF Unplug, firmware, notes, Keyboard!Unplug
  <2> QED
    BY <2>1 DEF Keyboard!Next
<1>5. CASE GuitarStartStop
  <2>1. Keyboard!StartStop
    BY <1>5 DEF GuitarStartStop, notes, keyboard, Keyboard!StartStop
  <2> QED
    BY <2>1 DEF Keyboard!Next
<1>6. CASE ConfigGuitar
  <2>1. Keyboard!Listen
    BY <1>6 DEF ConfigGuitar, notes, keyboard, Keyboard!Listen
  <2> QED
    BY <2>1 DEF Keyboard!Next
<1> QED
  BY <1>1, <1>2, <1>3, <1>4, <1>5, <1>6 DEF Next

\* Byte by byte, with running status, real-time bytes in between, the plug pulled
\* and the samplers enabled or disabled at any moment, the firmware does what one
\* does that hears whole messages, each once and in order while a sampler is
\* enabled, and that mishears one note for another only from a message it was not
\* listening to up to the next that brings its status; for every set of keys and
\* both buttons.
THEOREM ParserIsTransparent == Spec => ImplementsKeyboard
<1>1. Init => IInv /\ Keyboard!Init
  BY IInvInit, KeyboardInit
<1>2. IInv /\ IInv' /\ [Next]_vars => [Keyboard!Next]_Keyboard!keyboardVars
  BY KeyboardStep
<1> QED
  BY <1>1, <1>2, IInvStep, PTL DEF Spec, ImplementsKeyboard, Keyboard!Spec
=============================================================================
