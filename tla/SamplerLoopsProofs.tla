------------------------- MODULE SamplerLoopsProofs -------------------------
(***************************************************************************)
(* Theorems about SamplerLoops, for every set of chords and sections and   *)
(* every device.                                                           *)
(***************************************************************************)
EXTENDS SamplerLoops, TLAPS

\* No loop has the note that stands for a track without a loop.
LEMMA OffIsNoNote == \A t \in Tracks : Off \notin Notes(t)
  BY DEF Tracks, Notes, Off, Intro, Arr, Fill, Break, BassNote, ChordNote

\* The notes that the handlers start belong to their tracks.
LEMMA NotesOfTracks ==
  /\ Intro \in Notes("drum")
  /\ \A s \in Sections : {Arr(s), Fill(s), Break(s)} \subseteq Notes("drum")
  /\ \A c \in Chords : BassNote(c) \in Notes("bass")
  /\ \A c \in Chords, s \in Sections : ChordNote(c, s) \in Notes("chord")
  BY DEF Notes

\* What a track may be in while all is calm: it plays the remembered loop or nothing.
Known(t, p, n) ==
  /\ p \subseteq {n}
  /\ Toggles \/ t = "drum" => {n} \ {Off} \subseteq p

\* Stopping the loop a track remembers silences the track, whether the device
\* is told to stop it or toggles it.
LEMMA StopSilences ==
  ASSUME NEW t \in Tracks, playing[t] \subseteq Notes(t), Known(t, playing[t], old[t])
  PROVE  Stopped(t) = {}
<1>1. Off \notin playing[t]
  BY OffIsNoNote
<1>2. CASE old[t] = Off
  BY <1>1, <1>2 DEF Stopped, StopNote, Known
<1>3. CASE old[t] # Off /\ Toggles
  BY <1>3 DEF Stopped, StopNote, Known, Toggle
<1>4. CASE old[t] # Off /\ ~Toggles
  BY <1>4 DEF Stopped, StopNote, Known
<1> QED
  BY <1>2, <1>3, <1>4

\* Replacing the loop a track remembers leaves the new loop, or nothing if the
\* track is muted.
LEMMA ReplaceLeavesNew ==
  ASSUME NEW t \in Tracks, playing[t] \subseteq Notes(t), Known(t, playing[t], old[t]),
         NEW n
  PROVE  Known(t, Replaced(t, n), n)
<1>1. StopNote(t, playing[t], old[t]) = {}
  BY StopSilences DEF Stopped
<1>2. Replaced(t, n) \in {{}, {n}}
  BY <1>1 DEF Replaced, StartNote, Toggle
<1>3. Toggles \/ t = "drum" => Replaced(t, n) = {n}
  BY <1>1 DEF Replaced, StartNote, Toggle, Audible
<1> QED
  BY <1>2, <1>3 DEF Known

-----------------------------------------------------------------------------
(* The inductive invariant.  Types are needed because a loop that belonged *)
(* to no track, or the note of no loop, could be remembered in its place;  *)
(* the ending silences what SoundTracked says the firmware remembers.      *)
(* Both hold while a handling is disturbed too, which may come to nothing. *)

\* TypeOK, but for who is at work.
EffectTypes ==
  /\ device \in Devices
  /\ style_started \in BOOLEAN
  /\ style_change_requested \in BOOLEAN
  /\ style_end_requested \in BOOLEAN
  /\ style_section \in Sections
  /\ enable_stacatto_mode \in BOOLEAN
  /\ enable_track \in [Tracks -> BOOLEAN]
  /\ DOMAIN old = Tracks /\ DOMAIN playing = Tracks
  /\ \A t \in Tracks : old[t] \in Notes(t) \cup {Off} /\ playing[t] \subseteq Notes(t)
  /\ restarted \in BOOLEAN

SoundTracked == Calm => \A t \in Tracks : Known(t, playing[t], old[t])
EndTracked == ~Toggles /\ Calm /\ ~style_started /\ ~style_end_requested => Silent

EffectInv == EffectTypes /\ SoundTracked /\ EndTracked
WhoIsAtWork ==
  /\ handling \subseteq Contexts /\ disturbed \subseteq handling
  /\ overlapped \in BOOLEAN
IInv == EffectInv /\ WhoIsAtWork

LEMMA InvIsTyped == IInv => TypeOK
  BY DEF IInv, EffectInv, EffectTypes, WhoIsAtWork, TypeOK

\* A single track whose loop is replaced by a note of that track.
LEMMA ReplaceKeeps ==
  ASSUME EffectTypes, SoundTracked, NEW t \in Tracks, NEW n \in Notes(t)
  PROVE  /\ Replaced(t, n) \subseteq Notes(t)
         /\ Calm => Known(t, Replaced(t, n), n)
<1>1. playing[t] \subseteq Notes(t)
  BY DEF EffectTypes
<1>2. Replaced(t, n) \subseteq Notes(t)
  BY <1>1 DEF Replaced, StartNote, StopNote, Toggle, EffectTypes
<1>3. Calm => Known(t, Replaced(t, n), n)
  BY <1>1, ReplaceLeavesNew DEF SoundTracked
<1> QED
  BY <1>2, <1>3

\* A single track whose loop is stopped.
LEMMA StopKeeps ==
  ASSUME EffectTypes, SoundTracked, NEW t \in Tracks
  PROVE  /\ Stopped(t) \subseteq Notes(t)
         /\ Calm => Stopped(t) = {} /\ Known(t, Stopped(t), Off)
<1>1. playing[t] \subseteq Notes(t)
  BY DEF EffectTypes
<1>2. Stopped(t) \subseteq Notes(t)
  BY <1>1 DEF Stopped, StopNote, Toggle, EffectTypes
<1>3. Calm => Stopped(t) = {}
  BY <1>1, StopSilences DEF SoundTracked
<1>4. Calm => Known(t, Stopped(t), Off)
  BY <1>3 DEF Known
<1> QED
  BY <1>2, <1>3, <1>4

\* All loops stopped.
LEMMA StopLoopsKeeps ==
  ASSUME EffectTypes, SoundTracked, StopLoops, UNCHANGED <<device, restarted, overlapped>>
  PROVE  /\ \A t \in Tracks : old'[t] \in Notes(t)' \cup {Off} /\ playing'[t] \subseteq Notes(t)'
         /\ SoundTracked'
         /\ Calm => Silent'
<1>1. \A t \in Tracks : Notes(t)' = Notes(t)
  BY DEF Notes, Arr, Break
<1>2. \A t \in Tracks : old'[t] = Off /\ playing'[t] = Stopped(t)
  BY DEF StopLoops
<1>3. \A t \in Tracks : old'[t] \in Notes(t)' \cup {Off} /\ playing'[t] \subseteq Notes(t)'
  BY <1>1, <1>2, StopKeeps
<1>4. SoundTracked'
  BY <1>2, StopKeeps DEF SoundTracked, Calm, Known, Toggles
<1>5. Calm => Silent'
  BY <1>2, StopKeeps DEF Silent
<1> QED
  BY <1>3, <1>4, <1>5

\* One track's loop replaced by one of its notes, the other tracks as they were.
LEMMA ReplaceDrumKeeps ==
  ASSUME EffectTypes, SoundTracked, NEW n \in Notes("drum"), ReplaceDrum(n),
         UNCHANGED <<device, restarted, overlapped>>
  PROVE  /\ \A t \in Tracks : old'[t] \in Notes(t)' \cup {Off} /\ playing'[t] \subseteq Notes(t)'
         /\ SoundTracked'
<1>1. \A t \in Tracks : Notes(t)' = Notes(t)
  BY DEF Notes, Arr, Break
<1>2. \A t \in Tracks : t # "drum" => old'[t] = old[t] /\ playing'[t] = playing[t]
  BY DEF ReplaceDrum, EffectTypes
<1>3. "drum" \in Tracks
  BY DEF Tracks
<1>4. old'["drum"] = n /\ playing'["drum"] = Replaced("drum", n)
  BY <1>3 DEF ReplaceDrum, EffectTypes
<1> QED
  BY <1>1, <1>2, <1>3, <1>4, ReplaceKeeps DEF EffectTypes, SoundTracked, Calm, Known, Toggles

\* A chord's loops: every track it changes is replaced by one of its notes.
LEMMA TriggerLoopKeeps ==
  ASSUME EffectTypes, SoundTracked, NEW c \in Chords, TriggerLoop(c),
         UNCHANGED <<device, overlapped>>
  PROVE  /\ DOMAIN old' = Tracks /\ DOMAIN playing' = Tracks
         /\ \A t \in Tracks : old'[t] \in Notes(t)' \cup {Off} /\ playing'[t] \subseteq Notes(t)'
         /\ SoundTracked'
<1> DEFINE wanted == [t \in Tracks |->
             CASE t = "bass"  -> BassNote(c)
               [] t = "chord" -> ChordNote(c, style_section)
               [] t = "drum"  -> IF style_change_requested THEN Arr(style_section) ELSE old[t]]
           changed == {t \in Tracks : wanted[t] # Off /\ Changes(t, wanted[t])}
<1>1. \A t \in Tracks : Notes(t)' = Notes(t)
  BY DEF Notes, Arr, Break
<1>2. /\ old' = [t \in Tracks |-> IF t \in changed THEN wanted[t] ELSE old[t]]
      /\ playing' = [t \in Tracks |-> IF t \in changed THEN Replaced(t, wanted[t]) ELSE playing[t]]
      /\ UNCHANGED <<restarted, overlapped>>
  BY DEF TriggerLoop
<1>3. \A t \in changed : wanted[t] \in Notes(t)
  <2> SUFFICES ASSUME NEW t \in changed
               PROVE  wanted[t] \in Notes(t)
    OBVIOUS
  <2>1. CASE t = "bass"
    BY <2>1, NotesOfTracks DEF Tracks
  <2>2. CASE t = "chord"
    BY <2>2, NotesOfTracks DEF Tracks, EffectTypes
  <2>3. CASE t = "drum"
    BY <2>3, NotesOfTracks DEF Tracks, EffectTypes
  <2> QED
    BY <2>1, <2>2, <2>3 DEF Tracks
<1> HIDE DEF wanted
<1>4. ASSUME NEW t \in Tracks
      PROVE  /\ old'[t] \in Notes(t) \cup {Off} /\ playing'[t] \subseteq Notes(t)
             /\ Calm => Known(t, playing'[t], old'[t])
  <2>1. CASE t \in changed
    BY <1>2, <1>3, <2>1, ReplaceKeeps
  <2>2. CASE t \notin changed
    BY <1>2, <2>2 DEF EffectTypes, SoundTracked
  <2> QED
    BY <2>1, <2>2
<1>5. SoundTracked'
  BY <1>2, <1>4 DEF SoundTracked, Calm, Known, Toggles
<1> QED
  BY <1>1, <1>2, <1>4, <1>5

-----------------------------------------------------------------------------
(* The handlers' effects, one case each.                                   *)

LEMMA EffectsKeep ==
  ASSUME EffectInv, GuitarHandler \/ KeyboardHandler, UNCHANGED <<device, overlapped>>
  PROVE  EffectInv'
<1> USE DEF EffectInv
<1>1. device' = device /\ overlapped' = overlapped
  OBVIOUS
<1>2. \A t \in Tracks : Notes(t)' = Notes(t)
  BY <1>1 DEF Notes, Arr, Break
<1>3. ASSUME UNCHANGED <<old, playing, restarted>>
      PROVE  /\ \A t \in Tracks : /\ old'[t] \in Notes(t)' \cup {Off}
                                  /\ playing'[t] \subseteq Notes(t)'
             /\ SoundTracked'
             /\ Silent' = Silent
  BY <1>1, <1>2, <1>3 DEF EffectTypes, SoundTracked, Calm, Known, Silent, Toggles
<1>4. CASE Start
  <2>1. "drum" \in Tracks /\ Intro \in Notes("drum")
    BY NotesOfTracks DEF Tracks
  <2>2. \A t \in Tracks : /\ old'[t] = IF t = "drum" THEN Intro
                                     ELSE IF device = "wav" THEN Off ELSE old[t]
                          /\ playing'[t] = IF t = "drum" THEN StartNote("drum", playing[t], Intro)
                                           ELSE playing[t]
    BY <1>4, <2>1 DEF Start, EffectTypes
  <2>3. EffectTypes'
    BY <1>1, <1>2, <1>4, <2>1, <2>2, SamplerAssumption
    DEF Start, EffectTypes, StartNote, Toggle
  <2>4. SoundTracked'
    <3> SUFFICES ASSUME Calm'
                 PROVE  SoundTracked'
      BY DEF SoundTracked
    <3>1. Calm /\ \A t \in Tracks : old[t] = Off
      <4>1. ~restarted' /\ ~overlapped
        BY <1>1 DEF Calm
      <4>2. restarted' = (restarted \/ \E t \in Tracks : old[t] # Off)
        BY <1>4 DEF Start
      <4>3. ~restarted /\ ~(\E t \in Tracks : old[t] # Off)
        BY <4>1, <4>2, Zenon
      <4> QED
        BY <4>1, <4>3 DEF Calm
    <3>2. \A t \in Tracks : playing[t] = {}
      BY <3>1, OffIsNoNote DEF SoundTracked, Known, EffectTypes
    <3>3. playing'["drum"] = {Intro} /\ old'["drum"] = Intro
      BY <2>1, <2>2, <3>2 DEF StartNote, Toggle, Audible
    <3>4. \A t \in Tracks : t # "drum" => playing'[t] = {} /\ old'[t] = Off
      BY <2>2, <3>1, <3>2
    <3> QED
      BY <1>1, <3>3, <3>4 DEF SoundTracked, Known, Toggles
  <2>5. EndTracked'
    BY <1>4 DEF Start, EndTracked
  <2> QED
    BY <2>3, <2>4, <2>5
<1>5. CASE Stop
  BY <1>1, <1>3, <1>5 DEF Stop, EffectTypes, EndTracked, Calm, Toggles
<1>6. CASE PlayStyle
  <2>1. PICK c \in Chords : TriggerLoop(c)
    BY <1>6 DEF PlayStyle
  <2>2. style_started
    BY <1>6 DEF PlayStyle
  <2>3. EffectTypes' /\ SoundTracked'
    BY <1>1, <2>1, TriggerLoopKeeps DEF TriggerLoop, EffectTypes
  <2>4. EndTracked'
    BY <2>1, <2>2 DEF TriggerLoop, EndTracked, Calm, Toggles
  <2> QED
    BY <2>3, <2>4
<1>7. CASE PlayEnd
  <2>1. StopLoops /\ UNCHANGED <<device, restarted, overlapped>>
    BY <1>1, <1>7 DEF PlayEnd
  <2>2. /\ \A t \in Tracks : old'[t] \in Notes(t)' \cup {Off} /\ playing'[t] \subseteq Notes(t)'
        /\ SoundTracked'
        /\ Calm => Silent'
    BY <2>1, StopLoopsKeeps
  <2>3. EffectTypes'
    BY <1>1, <1>7, <2>1, <2>2 DEF PlayEnd, StopLoops, EffectTypes
  <2>4. Calm' => Calm
    BY <2>1 DEF Calm
  <2>5. EndTracked'
    BY <2>2, <2>4 DEF EndTracked
  <2> QED
    BY <2>2, <2>3, <2>5
<1>8. CASE KeyboardNote
  <2>1. CASE device = "wav"
    <3>1. StopLoops /\ UNCHANGED <<device, restarted, overlapped>>
      BY <1>1, <1>8, <2>1 DEF KeyboardNote
    <3>2. /\ \A t \in Tracks : old'[t] \in Notes(t)' \cup {Off} /\ playing'[t] \subseteq Notes(t)'
          /\ SoundTracked'
          /\ Calm => Silent'
      BY <3>1, StopLoopsKeeps
    <3>3. EffectTypes'
      BY <1>1, <1>8, <2>1, <3>1, <3>2 DEF KeyboardNote, StopLoops, EffectTypes
    <3>4. Calm' => Calm
      BY <3>1 DEF Calm
    <3>5. EndTracked'
      BY <3>2, <3>4 DEF EndTracked
    <3> QED
      BY <3>2, <3>3, <3>5
  <2>2. CASE device # "wav"
    BY <1>1, <1>3, <1>8, <2>2 DEF KeyboardNote, EffectTypes, EndTracked, Calm, Toggles
  <2> QED
    BY <2>1, <2>2
<1>9. CASE SelectSection
  <2>1. CASE UNCHANGED <<old, playing>>
    BY <1>1, <1>3, <1>9, <2>1 DEF SelectSection, EffectTypes, EndTracked, Calm, Toggles
  <2>2. CASE style_started /\ ReplaceDrum(Fill(style_section'))
    <3>1. Fill(style_section') \in Notes("drum")
      BY <1>9, NotesOfTracks DEF SelectSection
    <3>2. DOMAIN old' = Tracks /\ DOMAIN playing' = Tracks
      BY <2>2 DEF ReplaceDrum, EffectTypes
    <3> QED
      BY <1>1, <1>9, <2>2, <3>1, <3>2, ReplaceDrumKeeps
      DEF SelectSection, EffectTypes, EndTracked, Calm, Toggles
  <2> QED
    BY <1>9, <2>1, <2>2 DEF SelectSection
<1>10. CASE FillOrBreak
  <2>1. PICK n \in {Fill(style_section), Break(style_section)} : ReplaceDrum(n)
    BY <1>10 DEF FillOrBreak
  <2>2. n \in Notes("drum")
    BY NotesOfTracks DEF EffectTypes
  <2>3. DOMAIN old' = Tracks /\ DOMAIN playing' = Tracks
    BY <2>1 DEF ReplaceDrum, EffectTypes
  <2> QED
    BY <1>1, <1>10, <2>1, <2>2, <2>3, ReplaceDrumKeeps
    DEF FillOrBreak, EffectTypes, EndTracked, Calm, Toggles
<1>11. CASE StopAll
  BY <1>1, <1>11, StopLoopsKeeps DEF StopAll, StopLoops, EffectTypes, EndTracked, Calm, Toggles
<1>12. CASE DrumVolume
  BY <1>1, <1>3, <1>12 DEF DrumVolume, EffectTypes, EndTracked, Calm, Toggles
<1>13. CASE ToggleStacatto
  BY <1>1, <1>3, <1>13 DEF ToggleStacatto, requests, EffectTypes, EndTracked, Calm, Toggles
<1>14. ASSUME NEW t \in Tracks, Mute(t)
       PROVE  EffectInv'
  <2>1. CASE ~enable_track[t]
    BY <1>1, <1>3, <1>14, <2>1 DEF Mute, EffectTypes, EndTracked, Calm, Toggles
  <2>2. CASE enable_track[t]
    <3>1. /\ old'[t] = Off /\ playing'[t] = Stopped(t)
          /\ \A u \in Tracks : u # t => old'[u] = old[u] /\ playing'[u] = playing[u]
      BY <1>14, <2>2 DEF Mute, EffectTypes
    <3>2. EffectTypes'
      BY <1>1, <1>2, <1>14, <2>2, <3>1, StopKeeps DEF Mute, EffectTypes
    <3>3. restarted' = restarted
      BY <1>14 DEF Mute
    <3>4. SoundTracked'
      BY <1>1, <3>1, <3>3, StopKeeps DEF SoundTracked, Calm, Known, Toggles
    <3>5. Calm /\ Silent => Silent'
      BY <3>1, StopKeeps DEF Silent
    <3>6. EndTracked'
      BY <1>1, <1>14, <3>3, <3>5 DEF Mute, EndTracked, Calm, Toggles
    <3> QED
      BY <3>2, <3>4, <3>6
  <2> QED
    BY <2>1, <2>2
<1>15. CASE KeyboardChord
  BY <1>6, <1>15 DEF KeyboardChord, PlayStyle
<1> QED
  BY <1>4, <1>5, <1>6, <1>7, <1>8, <1>9, <1>10, <1>11, <1>12, <1>13, <1>14, <1>15
  DEF GuitarHandler, KeyboardHandler

\* Beginning, returning without effect and overlapping leave the device alone.
LEMMA NoEffectKeeps ==
  ASSUME EffectInv,
         UNCHANGED <<device, requests, enable_stacatto_mode, enable_track, old, playing, restarted>>,
         overlapped' \in {overlapped, TRUE}
  PROVE  EffectInv'
<1>1. \A t \in Tracks : Notes(t)' = Notes(t)
  BY DEF Notes, Arr, Break
<1>2. EffectTypes'
  BY <1>1 DEF EffectInv, EffectTypes, requests
<1>3. Calm' => Calm
  BY DEF Calm
<1>4. SoundTracked'
  BY <1>3 DEF EffectInv, SoundTracked, Known, Toggles
<1>5. EndTracked'
  BY <1>3 DEF EffectInv, EndTracked, Silent, Toggles, requests
<1> QED
  BY <1>2, <1>4, <1>5 DEF EffectInv

LEMMA SamplerInit == Init => IInv
<1> SUFFICES ASSUME Init
             PROVE  IInv
  OBVIOUS
<1>1. EffectTypes
  <2>1. DOMAIN old = Tracks /\ DOMAIN playing = Tracks
    BY DEF Init
  <2>2. \A t \in Tracks : old[t] = Off /\ playing[t] = {}
    BY DEF Init
  <2>3. enable_track \in [Tracks -> BOOLEAN]
    BY DEF Init
  <2> QED
    BY <2>1, <2>2, <2>3, SamplerAssumption DEF Init, EffectTypes
<1>2. SoundTracked
  BY DEF Init, SoundTracked, Known
<1>3. EndTracked
  BY DEF Init, EndTracked, Silent
<1>4. WhoIsAtWork
  BY DEF Init, WhoIsAtWork
<1> QED
  BY <1>1, <1>2, <1>3, <1>4 DEF IInv, EffectInv

LEMMA SamplerStep == IInv /\ [Next]_vars => IInv'
<1> SUFFICES ASSUME IInv, [Next]_vars
             PROVE  IInv'
  OBVIOUS
<1> USE DEF IInv
<1>1. CASE UNCHANGED vars
  BY <1>1, NoEffectKeeps DEF vars, WhoIsAtWork
<1>2. ASSUME NEW x \in Contexts, Begins(x) PROVE IInv'
  BY <1>2, NoEffectKeeps DEF Begins, WhoIsAtWork
<1>3. ASSUME NEW x \in Contexts, Handles(x) PROVE IInv'
  <2>1. EffectInv'
    BY <1>3, EffectsKeep DEF Handles
  <2> QED
    BY <1>3, <2>1 DEF Handles, WhoIsAtWork
<1>4. ASSUME NEW x \in Contexts, Overlaps(x) PROVE IInv'
  BY <1>4, NoEffectKeeps DEF Overlaps, WhoIsAtWork
<1>5. ASSUME NEW x \in Contexts, HandlesNothing(x) PROVE IInv'
  BY <1>5, NoEffectKeeps DEF HandlesNothing, WhoIsAtWork
<1> QED
  BY <1>1, <1>2, <1>3, <1>4, <1>5 DEF Next

\* The notes the firmware remembers and the loops that play stay in range.
THEOREM SamplerTypeOK == Spec => []TypeOK
BY InvIsTyped, SamplerInit, SamplerStep, PTL DEF Spec

\* Whatever chords, sections, fills, breaks, mutes and stops the guitar's
\* callbacks and the keyboard bring, on every device the loops that sound are
\* exactly those the firmware remembers, until a style is started over the
\* loops of the last or a callback and a keyboard's note mix their steps.
THEOREM LoopsAreKnown == Spec => []SoundIsKnown
<1>1. IInv => SoundIsKnown
  BY DEF IInv, EffectInv, SoundTracked, SoundIsKnown, Orderly, Known
<1> QED
  BY <1>1, SamplerInit, SamplerStep, PTL DEF Spec

\* On the WAV Trigger the ending silences every loop, under the same two
\* exceptions.
THEOREM EndingSilences == Spec => []EndSilencesIfOrderly
<1>1. IInv => EndSilencesIfOrderly
  BY DEF IInv, EffectInv, EndTracked, EndSilencesIfOrderly, Orderly
<1> QED
  BY <1>1, SamplerInit, SamplerStep, PTL DEF Spec
=============================================================================
