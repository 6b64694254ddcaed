----------------------------- MODULE StrumProofs -----------------------------
(***************************************************************************)
(* Theorems about Strum, for every set of chords.                          *)
(***************************************************************************)
EXTENDS Strum, TLAPS

Memories == [1 .. 2 -> AllNotes \cup {None}]

-----------------------------------------------------------------------------
(* What a strum leaves behind.                                             *)

LEMMA PluckedStrings ==
  \A strings \in Plucked :
    /\ DOMAIN strings \subseteq 1 .. 2
    /\ \A n \in DOMAIN strings : strings[n] \in Strings
BY DEF Plucked, Strings

LEMMA NoneIsNoNote == None \notin AllNotes
BY DEF AllNotes, Note, None

LEMMA SilenceIsMemory == Silence \in Memories
BY DEF Silence, Memories

\* Notes written over a memory of two are all in it afterwards.
LEMMA OverKeepsNotes ==
  ASSUME NEW memory \in Memories, NEW D \in SUBSET (1 .. 2), NEW ns \in [D -> AllNotes]
  PROVE  Over(memory, ns) \in Memories /\ Range(ns) \subseteq Range(Over(memory, ns))
<1>1. Over(memory, ns) \in Memories
  BY DEF Over, Memories
<1>2. \A n \in D : Over(memory, ns)[n] = ns[n]
  BY DEF Over
<1> QED
  BY <1>1, <1>2 DEF Range, Memories

\* What every strum does: the notes it starts are in old_midinotes, and what
\* sounded before goes on.
Plays(sounds) ==
  /\ old_midinotes' \in Memories /\ mute_midinotes' \in Memories
  /\ sounding' \subseteq sounds \cup Range(old_midinotes')
  /\ sounding' \subseteq AllNotes

LEMMA StrumChordPlays ==
  ASSUME NEW c \in Chords, NEW up \in BOOLEAN, NEW memory \in Memories,
         NEW sounds \in SUBSET AllNotes, StrumChord(c, up, memory, sounds)
  PROVE  Plays(sounds)
<1> DEFINE ns(strings) == [n \in DOMAIN strings |-> Note(c, strings[n])]
           bass == Note(c, "bass")
           waits == enable_midi_drums /\ active_strum_pattern = 0
<1>1. PICK strings \in Plucked :
        /\ mute_midinotes' = Over(Silence, ns(strings))
        /\ old_midinotes' = IF waits /\ ~up THEN [Over(memory, ns(strings)) EXCEPT ![1] = bass]
                                            ELSE Over(memory, ns(strings))
        /\ sounding' = sounds \cup (IF ~waits THEN Range(ns(strings))
                                    ELSE IF up THEN {} ELSE {bass})
  BY DEF StrumChord
<1>2. DOMAIN strings \in SUBSET (1 .. 2) /\ ns(strings) \in [DOMAIN strings -> AllNotes]
  BY PluckedStrings DEF AllNotes
<1>3. bass \in AllNotes
  BY DEF AllNotes
<1> HIDE DEF ns, bass, waits
<1>4. /\ Over(memory, ns(strings)) \in Memories
      /\ Range(ns(strings)) \subseteq Range(Over(memory, ns(strings)))
      /\ Over(Silence, ns(strings)) \in Memories
  BY <1>2, OverKeepsNotes, SilenceIsMemory
<1>5. Range(ns(strings)) \subseteq AllNotes
  BY <1>2 DEF Range
<1>6. CASE waits /\ ~up
  <2>1. old_midinotes' = [Over(memory, ns(strings)) EXCEPT ![1] = bass]
        /\ sounding' = sounds \cup {bass}
    BY <1>1, <1>6
  <2>2. old_midinotes' \in Memories /\ bass \in Range(old_midinotes')
    BY <1>3, <1>4, <2>1 DEF Memories, Range
  <2> QED
    BY <1>1, <1>3, <1>4, <2>1, <2>2 DEF Plays
<1>7. CASE ~(waits /\ ~up)
  BY <1>1, <1>4, <1>5, <1>7 DEF Plays
<1> QED
  BY <1>6, <1>7

LEMMA StrumBassPlays ==
  ASSUME TypeOK, NEW c \in Chords, NEW memory \in Memories,
         NEW sounds \in SUBSET AllNotes, StrumBass(c, memory, sounds)
  PROVE  Plays(sounds)
<1>1. Note(c, "bass") \in AllNotes
  BY DEF AllNotes
<1>2. old_midinotes' \in Memories /\ Note(c, "bass") \in Range(old_midinotes')
  BY <1>1 DEF StrumBass, Memories, Range
<1>3. mute_midinotes' \in Memories
  BY DEF StrumBass, TypeOK, Memories
<1> QED
  BY <1>1, <1>2, <1>3 DEF StrumBass, Plays

LEMMA StrumMutedPlays ==
  ASSUME TypeOK, NEW memory \in Memories, NEW sounds \in SUBSET AllNotes,
         StrumMuted(memory, sounds)
  PROVE  Plays(sounds)
<1>1. mute_midinotes \in Memories /\ mute_midinotes' = mute_midinotes
  BY DEF StrumMuted, TypeOK, Memories
<1>2. old_midinotes' \in Memories
  BY <1>1 DEF StrumMuted, Memories
<1>3. \A n \in 1 .. 2 : mute_midinotes[n] # None => old_midinotes'[n] = mute_midinotes[n]
  BY DEF StrumMuted
<1>4. Range(mute_midinotes) \ {None} \subseteq Range(old_midinotes')
  BY <1>1, <1>2, <1>3 DEF Range, Memories
<1>5. Range(mute_midinotes) \ {None} \subseteq AllNotes
  BY <1>1 DEF Range, Memories
<1> QED
  BY <1>1, <1>2, <1>4, <1>5 DEF StrumMuted, Plays

LEMMA PlayChordPlays ==
  ASSUME TypeOK, NEW frets \in Chords \cup {None}, NEW up \in BOOLEAN, NEW memory \in Memories,
         NEW sounds \in SUBSET AllNotes, PlayChord(frets, up, memory, sounds)
  PROVE  Plays(sounds) /\ last_chord' \in Chords
<1> DEFINE c == IF frets = None THEN last_chord ELSE frets
<1>1. c \in Chords /\ last_chord' = c
  BY DEF PlayChord, TypeOK
<1>2. ASSUME old_midinotes' = memory, sounding' = sounds, UNCHANGED mute_midinotes
      PROVE  Plays(sounds)
  BY <1>2 DEF Plays, TypeOK, Memories
<1>3. ASSUME StrumChord(c, up, memory, sounds) PROVE Plays(sounds)
  <2> HIDE DEF c
  <2> QED
    BY <1>1, <1>3, StrumChordPlays
<1>4. ASSUME StrumMuted(memory, sounds) PROVE Plays(sounds)
  BY <1>4, StrumMutedPlays
<1>5. ASSUME StrumBass(c, memory, sounds) PROVE Plays(sounds)
  <2> HIDE DEF c
  <2> QED
    BY <1>1, <1>5, StrumBassPlays
<1>6. Plays(sounds)
  BY <1>2, <1>3, <1>4, <1>5 DEF PlayChord
<1> QED
  BY <1>1, <1>6

-----------------------------------------------------------------------------
(* The strum bar.                                                          *)

LEMMA PressPlays ==
  ASSUME TypeOK, NEW frets \in Chords \cup {None}, NEW up \in BOOLEAN, Press(frets, up)
  PROVE  /\ Plays(IF enable_auto_hold THEN sounding ELSE sounding \ Remembered)
         /\ last_chord' \in Chords
         /\ chord_notes' = IF enable_auto_hold THEN chord_notes ELSE Silence
         /\ voice_note' = voice_note
         /\ strum_neutral' = FALSE
<1>1. /\ strum_neutral' = FALSE /\ voice_note' = voice_note
      /\ chord_notes' = IF enable_auto_hold THEN chord_notes ELSE Silence
  BY DEF Press
<1>2. sounding \in SUBSET AllNotes /\ sounding \ Remembered \in SUBSET AllNotes
  BY DEF TypeOK
<1>3. CASE enable_auto_hold
  <2>1. PlayChord(frets, up, old_midinotes, sounding)
    BY <1>3 DEF Press
  <2>2. old_midinotes \in Memories
    BY DEF TypeOK, Memories
  <2> QED
    BY <1>1, <1>2, <1>3, <2>1, <2>2, PlayChordPlays
<1>4. CASE ~enable_auto_hold
  <2>1. PlayChord(frets, up, Silence, sounding \ Remembered)
    BY <1>4 DEF Press
  <2> QED
    BY <1>1, <1>2, <1>4, <2>1, SilenceIsMemory, PlayChordPlays
<1> QED
  BY <1>3, <1>4

LEMMA ReleaseStops ==
  ASSUME NEW frets \in Chords \cup {None}, Release(frets)
  PROVE  /\ StopChord \/ UNCHANGED notes
         /\ last_chord' = last_chord /\ strum_neutral' = TRUE
BY DEF Release

\* A report does nothing to the notes but a press or a release.
LEMMA ReportIsEdge ==
  ASSUME TypeOK, NEW dpad \in {"neutral", "right", "left"}, NEW frets \in Chords \cup {None},
         Report(dpad, frets)
  PROVE  /\ \/ \E up \in BOOLEAN : Press(frets, up) /\ (right' \/ left')
            \/ Release(frets)
         /\ right' \in BOOLEAN /\ left' \in BOOLEAN
         /\ UNCHANGED <<modes, due>>
<1>1. CASE (dpad = "right") # right
  BY <1>1 DEF Report, TypeOK
<1>2. CASE (dpad = "right") = right
  BY <1>2 DEF Report, TypeOK
<1> QED
  BY <1>1, <1>2

-----------------------------------------------------------------------------
(* Type correctness.                                                       *)

NotesOK ==
  /\ old_midinotes \in Memories /\ mute_midinotes \in Memories /\ chord_notes \in Memories
  /\ voice_note \in AllNotes \cup {None}
  /\ sounding \subseteq AllNotes

ModesOK ==
  /\ enable_midi_drums \in BOOLEAN /\ style_started \in BOOLEAN
  /\ enable_auto_strum \in BOOLEAN /\ enable_auto_hold \in BOOLEAN
  /\ active_strum_pattern \in Patterns

Parts ==
  /\ right \in BOOLEAN /\ left \in BOOLEAN /\ strum_neutral \in BOOLEAN
  /\ ModesOK /\ NotesOK
  /\ last_chord \in Chords
  /\ due \in {"none", "chord", "voice"}
  /\ slipped \in BOOLEAN

LEMMA TypeOKParts == TypeOK <=> Parts
BY DEF TypeOK, Parts, NotesOK, ModesOK, Memories

LEMMA StopChordTypes ==
  ASSUME NotesOK, StopChord
  PROVE  NotesOK'
BY SilenceIsMemory DEF NotesOK, StopChord, AllNotes, Memories

LEMMA TickTypes ==
  ASSUME TypeOK, Tick
  PROVE  NotesOK' /\ due' \in {"none", "chord", "voice"}
<1>1. PICK r \in RowSteps :
        /\ due' = DueAfter(r)
        /\ \/ ~Strumming /\ UNCHANGED notes
           \/ /\ Strumming /\ r.start = "none"
              /\ sounding' = Unstopped(r.stop)
              /\ UNCHANGED <<old_midinotes, mute_midinotes, chord_notes, voice_note>>
           \/ /\ Strumming /\ r.start = "chord"
              /\ chord_notes' = mute_midinotes
              /\ sounding' = Unstopped(r.stop) \cup (Range(mute_midinotes) \ {None})
              /\ UNCHANGED <<old_midinotes, mute_midinotes, voice_note>>
           \/ /\ Strumming /\ r.start = "voice"
              /\ voice_note' = Note(last_chord, "high")
              /\ sounding' = Unstopped(r.stop) \cup {voice_note'}
              /\ UNCHANGED <<old_midinotes, mute_midinotes, chord_notes>>
  BY DEF Tick
<1>2. NotesOK /\ last_chord \in Chords /\ due \in {"none", "chord", "voice"}
  BY TypeOKParts DEF Parts
<1>3. Note(last_chord, "high") \in AllNotes
  BY <1>2 DEF AllNotes, Strings
<1>4. Unstopped(r.stop) \subseteq AllNotes
  BY <1>2 DEF NotesOK, Unstopped
<1>5. Range(mute_midinotes) \ {None} \subseteq AllNotes
  BY <1>2 DEF NotesOK, Memories, Range
<1>6. due' \in {"none", "chord", "voice"}
  BY <1>1, <1>2 DEF RowSteps, DueAfter
<1>7. NotesOK'
  <2>1. CASE UNCHANGED notes
    BY <1>2, <2>1 DEF NotesOK, notes, AllNotes, Memories
  <2>2. CASE ~UNCHANGED notes
    BY <1>1, <1>2, <1>3, <1>4, <1>5, <2>2 DEF NotesOK, AllNotes, Memories
  <2> QED
    BY <2>1, <2>2
<1> QED
  BY <1>6, <1>7

LEMMA TypeOKKept ==
  ASSUME TypeOK, [Next]_vars
  PROVE  TypeOK'
<1>1. /\ right \in BOOLEAN /\ left \in BOOLEAN /\ strum_neutral \in BOOLEAN
      /\ ModesOK /\ NotesOK /\ last_chord \in Chords
      /\ due \in {"none", "chord", "voice"} /\ slipped \in BOOLEAN
  BY TypeOKParts DEF Parts
<1> SUFFICES Parts'
  BY TypeOKParts, PTL
<1> USE DEF Parts
<1>2. slipped' \in BOOLEAN
  BY <1>1 DEF Next, vars
<1>3. UNCHANGED notes => NotesOK'
  BY <1>1 DEF notes, NotesOK, AllNotes, Memories
<1>4. UNCHANGED modes => ModesOK'
  BY <1>1 DEF modes, ModesOK
<1>5. ASSUME NEW dpad \in {"neutral", "right", "left"}, NEW frets \in Chords \cup {None},
             Report(dpad, frets)
      PROVE  /\ right' \in BOOLEAN /\ left' \in BOOLEAN /\ strum_neutral' \in BOOLEAN
             /\ ModesOK' /\ NotesOK' /\ last_chord' \in Chords
             /\ due' \in {"none", "chord", "voice"}
  <2>1. right' \in BOOLEAN /\ left' \in BOOLEAN /\ UNCHANGED modes /\ due' = due
    BY <1>5, ReportIsEdge
  <2>2. ASSUME NEW up \in BOOLEAN, Press(frets, up)
        PROVE  NotesOK' /\ last_chord' \in Chords /\ strum_neutral' \in BOOLEAN
    <3>1. /\ Plays(IF enable_auto_hold THEN sounding ELSE sounding \ Remembered)
          /\ last_chord' \in Chords /\ strum_neutral' = FALSE
          /\ chord_notes' = IF enable_auto_hold THEN chord_notes ELSE Silence
          /\ voice_note' = voice_note
      BY <2>2, PressPlays
    <3>2. chord_notes' \in Memories
      BY <1>1, <3>1, SilenceIsMemory DEF NotesOK
    <3>3. NotesOK'
      BY <1>1, <3>1, <3>2 DEF Plays, NotesOK, AllNotes, Memories
    <3> QED
      BY <3>1, <3>3
  <2>3. ASSUME Release(frets)
        PROVE  NotesOK' /\ last_chord' \in Chords /\ strum_neutral' \in BOOLEAN
    BY <1>1, <1>3, <2>3, ReleaseStops, StopChordTypes
  <2> QED
    BY <1>1, <1>4, <1>5, <2>1, <2>2, <2>3, ReportIsEdge
<1>6. CASE Tick
  BY <1>1, <1>2, <1>4, <1>6, TickTypes DEF Tick, bar
<1>7. CASE ChangeStyle
  BY <1>1, <1>2, <1>3, <1>4, <1>7 DEF ChangeStyle, bar
<1>8. CASE StartStop
  BY <1>1, <1>2, <1>3, <1>8 DEF StartStop, bar, ModesOK
<1>9. CASE SwitchDrums
  BY <1>1, <1>2, <1>3, <1>9 DEF SwitchDrums, bar, ModesOK
<1>10. CASE SelectPattern
  BY <1>1, <1>2, <1>3, <1>10, StopChordTypes DEF SelectPattern, bar, ModesOK
<1>11. CASE ToggleAutoHold
  BY <1>1, <1>2, <1>3, <1>11 DEF ToggleAutoHold, bar, ModesOK
<1>12. CASE ToggleAutoStrum
  BY <1>1, <1>2, <1>12, StopChordTypes DEF ToggleAutoStrum, bar, ModesOK
<1>13. CASE UNCHANGED vars
  BY <1>1, <1>2, <1>3, <1>4, <1>13 DEF vars, bar
<1> QED
  BY <1>2, <1>5, <1>6, <1>7, <1>8, <1>9, <1>10, <1>11, <1>12, <1>13 DEF Next

\* The arrays of notes keep their two strings, and hold nothing but notes.
THEOREM StrumTypeOK == Spec => []TypeOK
<1>1. Init => TypeOK
  <2> SUFFICES ASSUME Init PROVE TypeOK
    OBVIOUS
  <2>1. NotesOK
    BY SilenceIsMemory DEF Init, NotesOK
  <2>2. ModesOK
    <3>1. 0 \in Patterns
      BY DEF Patterns
    <3> QED
      BY <3>1 DEF Init, ModesOK
  <2> QED
    BY <2>1, <2>2, TypeOKParts DEF Init, Parts
<1> QED
  BY <1>1, TypeOKKept, PTL DEF Spec

-----------------------------------------------------------------------------
(* No note hangs.  NoNoteHangs alone is not inductive: a step of the       *)
(* auto-strum stops what the style's row started last and overwrites the   *)
(* array of what it starts now.  Therefore nothing may sound that only the *)
(* other array remembers, and nothing the strum did not play while the     *)
(* auto-strum rests.                                                       *)

Started == Range(old_midinotes)
AutoStrummed ==
  IF due = "chord" THEN Range(chord_notes)
  ELSE IF due = "voice" THEN {voice_note} ELSE {}

DueInv ==
  ~slipped => /\ sounding \subseteq Started \cup AutoStrummed
              /\ ~Strumming => sounding \subseteq Started

LEMMA DueRemembers ==
  ASSUME TypeOK, DueInv
  PROVE  NoNoteHangs
BY NoneIsNoNote DEF TypeOK, DueInv, NoNoteHangs, Remembered, Started, AutoStrummed

\* Stopping stops everything.
LEMMA StopChordSilences ==
  ASSUME TypeOK, DueInv, ~slipped, StopChord
  PROVE  sounding' = {}
BY DueRemembers DEF StopChord, NoNoteHangs

\* What sounds when the auto-strum pauses is the strum's.
LEMMA PausingKeeps ==
  ASSUME sounding' \subseteq Started' \cup AutoStrummed',
         ~Strumming => sounding' \subseteq Started',
         ~Pauses
  PROVE  DueInv'
<1> SUFFICES ASSUME ~Strumming' PROVE sounding' \subseteq Started'
  BY DEF DueInv
<1>1. CASE ~Strumming
  BY <1>1
<1>2. CASE Strumming
  <2>1. ~AutoSounds'
    BY <1>2 DEF Pauses
  <2>2. AutoStrummed' \cap sounding' = {}
    BY <2>1 DEF AutoSounds, AutoStrummed
  <2> QED
    BY <2>2
<1> QED
  BY <1>1, <1>2

LEMMA ReportKeeps ==
  ASSUME TypeOK, DueInv, ~slipped, ~StrumsOver, ~Pauses,
         NEW dpad \in {"neutral", "right", "left"}, NEW frets \in Chords \cup {None},
         Report(dpad, frets)
  PROVE  DueInv'
<1>1. due' = due
  BY ReportIsEdge
<1>2. ASSUME NEW up \in BOOLEAN, Press(frets, up), right' \/ left'
      PROVE  DueInv'
  <2>1. /\ Plays(IF enable_auto_hold THEN sounding ELSE sounding \ Remembered)
        /\ chord_notes' = IF enable_auto_hold THEN chord_notes ELSE Silence
        /\ voice_note' = voice_note
    BY <1>2, PressPlays
  <2>2. CASE enable_auto_hold
    <3>1. Started \cap sounding = {}
      BY <1>2, <2>2 DEF StrumsOver, Started
    <3>2. sounding' \subseteq sounding \cup Started' /\ AutoStrummed' = AutoStrummed
      BY <1>1, <2>1, <2>2 DEF Plays, AutoStrummed, Started
    <3>3. sounding \subseteq AutoStrummed /\ (~Strumming => sounding = {})
      BY <3>1 DEF DueInv
    <3> QED
      BY <3>2, <3>3, PausingKeeps
  <2>3. CASE ~enable_auto_hold
    <3>1. sounding \ Remembered = {}
      BY DueRemembers DEF NoNoteHangs
    <3>2. sounding' \subseteq Started'
      BY <2>1, <2>3, <3>1 DEF Plays, Started
    <3> QED
      BY <3>2, PausingKeeps
  <2> QED
    BY <2>2, <2>3
<1>3. ASSUME Release(frets) PROVE DueInv'
  <2>1. CASE StopChord
    BY <2>1, StopChordSilences, PausingKeeps
  <2>2. CASE UNCHANGED notes
    <3>1. Started' = Started /\ AutoStrummed' = AutoStrummed /\ sounding' = sounding
      BY <1>1, <2>2 DEF notes, Started, AutoStrummed
    <3> QED
      BY <3>1, PausingKeeps DEF DueInv
  <2> QED
    BY <1>3, <2>1, <2>2, ReleaseStops
<1> QED
  BY <1>2, <1>3, ReportIsEdge

\* A tick keeps to the row: what it starts replaces what it stops.
LEMMA TickKeeps ==
  ASSUME TypeOK, DueInv, ~slipped, ~Pauses, Tick
  PROVE  DueInv'
<1>1. PICK r \in RowSteps :
        /\ due' = DueAfter(r)
        /\ \/ ~Strumming /\ UNCHANGED notes
           \/ /\ Strumming /\ r.start = "none"
              /\ sounding' = Unstopped(r.stop)
              /\ UNCHANGED <<old_midinotes, mute_midinotes, chord_notes, voice_note>>
           \/ /\ Strumming /\ r.start = "chord"
              /\ chord_notes' = mute_midinotes
              /\ sounding' = Unstopped(r.stop) \cup (Range(mute_midinotes) \ {None})
              /\ UNCHANGED <<old_midinotes, mute_midinotes, voice_note>>
           \/ /\ Strumming /\ r.start = "voice"
              /\ voice_note' = Note(last_chord, "high")
              /\ sounding' = Unstopped(r.stop) \cup {voice_note'}
              /\ UNCHANGED <<old_midinotes, mute_midinotes, chord_notes>>
  BY DEF Tick
<1>2. /\ r.start \in {"none", "chord", "voice"} /\ r.stop \in {"chord", "voice"}
      /\ r.start # "none" /\ due # "none" => r.stop = due
      /\ due \in {"none", "chord", "voice"}
  BY DEF RowSteps, TypeOK
<1>3. sounding \subseteq Started \cup AutoStrummed /\ (~Strumming => sounding \subseteq Started)
  BY DEF DueInv
<1>4. CASE ~Strumming
  <2>1. Started' = Started /\ sounding' = sounding
    BY <1>1, <1>4 DEF notes, Started
  <2> QED
    BY <1>3, <1>4, <2>1, PausingKeeps
<1>5. Strumming => Started' = Started
  BY <1>1 DEF Started
<1>6. r.stop = due => Unstopped(r.stop) \subseteq Started
  BY <1>2, <1>3 DEF Unstopped, AutoStrummed
<1>7. Unstopped(r.stop) \subseteq sounding
  BY DEF Unstopped
<1>8. r.start # "none" => Unstopped(r.stop) \subseteq Started
  <2>1. due = "none" => sounding \subseteq Started
    BY <1>3 DEF AutoStrummed
  <2> QED
    BY <1>2, <1>6, <1>7, <2>1
<1>9. CASE Strumming /\ r.start = "none"
  <2>1. sounding' = Unstopped(r.stop) /\ chord_notes' = chord_notes /\ voice_note' = voice_note
    BY <1>1, <1>9
  <2>2. CASE r.stop = due
    BY <1>5, <1>6, <1>9, <2>1, <2>2, PausingKeeps
  <2>3. CASE r.stop # due
    <3>1. AutoStrummed' = AutoStrummed
      BY <1>1, <1>9, <2>1, <2>3 DEF DueAfter, AutoStrummed
    <3> QED
      BY <1>3, <1>5, <1>7, <1>9, <2>1, <3>1, PausingKeeps
  <2> QED
    BY <2>2, <2>3
<1>10. CASE Strumming /\ r.start = "chord"
  <2>1. /\ sounding' = Unstopped(r.stop) \cup (Range(mute_midinotes) \ {None})
        /\ due' = "chord" /\ chord_notes' = mute_midinotes
    BY <1>1, <1>10 DEF DueAfter
  <2>2. AutoStrummed' = Range(mute_midinotes)
    BY <2>1 DEF AutoStrummed
  <2> QED
    BY <1>5, <1>8, <1>10, <2>1, <2>2, PausingKeeps
<1>11. CASE Strumming /\ r.start = "voice"
  <2>1. sounding' = Unstopped(r.stop) \cup {voice_note'} /\ due' = "voice"
    BY <1>1, <1>11 DEF DueAfter
  <2>2. AutoStrummed' = {voice_note'}
    BY <2>1 DEF AutoStrummed
  <2> QED
    BY <1>5, <1>8, <1>11, <2>1, <2>2, PausingKeeps
<1> QED
  BY <1>2, <1>4, <1>9, <1>10, <1>11

LEMMA DueInvKept ==
  ASSUME TypeOK, DueInv, [Next]_vars
  PROVE  DueInv'
<1> SUFFICES ASSUME ~slipped' PROVE DueInv'
  BY DEF DueInv
<1>1. ~slipped
  BY DEF Next, vars
<1>2. sounding \subseteq Started \cup AutoStrummed /\ (~Strumming => sounding \subseteq Started)
  BY <1>1 DEF DueInv
<1>3. ASSUME ~Pauses, UNCHANGED <<due, notes>> PROVE DueInv'
  <2>1. Started' = Started /\ AutoStrummed' = AutoStrummed /\ sounding' = sounding
    BY <1>3 DEF notes, Started, AutoStrummed
  <2> QED
    BY <1>2, <1>3, <2>1, PausingKeeps
<1>4. ASSUME ~Pauses, StopChord PROVE DueInv'
  BY <1>1, <1>4, StopChordSilences, PausingKeeps
<1>5. CASE ChangeStyle /\ slipped' = (slipped \/ AutoSounds)
  <2>1. ~AutoSounds /\ Started' = Started /\ sounding' = sounding
    BY <1>5 DEF ChangeStyle, notes, Started
  <2>2. sounding \subseteq Started
    BY <1>2, <2>1 DEF AutoSounds, AutoStrummed
  <2> QED
    BY <2>1, <2>2 DEF DueInv
<1>6. ASSUME NEW dpad \in {"neutral", "right", "left"}, NEW frets \in Chords \cup {None},
             Report(dpad, frets), slipped' = (slipped \/ StrumsOver \/ Pauses)
      PROVE  DueInv'
  BY <1>1, <1>6, ReportKeeps
<1>7. ASSUME slipped' = (slipped \/ Pauses),
             Tick \/ StartStop \/ SwitchDrums \/ SelectPattern \/ ToggleAutoHold \/ ToggleAutoStrum
      PROVE  DueInv'
  <2>1. ~Pauses
    BY <1>7
  <2>2. CASE Tick
    BY <1>1, <2>1, <2>2, TickKeeps
  <2>3. CASE StartStop \/ SwitchDrums \/ ToggleAutoHold
    BY <1>3, <2>1, <2>3 DEF StartStop, SwitchDrums, ToggleAutoHold
  <2>4. CASE SelectPattern
    BY <1>3, <1>4, <2>1, <2>4 DEF SelectPattern
  <2>5. CASE ToggleAutoStrum
    BY <1>4, <2>1, <2>5 DEF ToggleAutoStrum
  <2> QED
    BY <1>7, <2>2, <2>3, <2>4, <2>5
<1>8. CASE UNCHANGED vars
  <2>1. UNCHANGED <<due, notes>> /\ ~Pauses
    BY <1>8 DEF vars, modes, bar, Pauses, Strumming
  <2> QED
    BY <1>3, <2>1
<1> QED
  BY <1>5, <1>6, <1>7, <1>8 DEF Next

\* Over every order of strums, ticks and mode changes, what sounds can be
\* stopped, unless held notes were strummed over or their style changed.
THEOREM NothingHangs == Spec => []NoNoteHangs
<1>1. Init => DueInv
  BY DEF Init, DueInv
<1> QED
  BY <1>1, StrumTypeOK, DueInvKept, DueRemembers, PTL DEF Spec
=============================================================================
