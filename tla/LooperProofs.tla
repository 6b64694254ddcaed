---------------------------- MODULE LooperProofs ----------------------------
(***************************************************************************)
(* Theorems about Looper, for every length of a bar and every choice of    *)
(* style groups and sections.                                              *)
(***************************************************************************)
EXTENDS Looper, TLAPS

\* Remainders that stay within two rounds, without multiplication.
LEMMA SmallMod ==
  ASSUME NEW m \in Nat \ {0}, NEW a \in 0 .. 2 * m
  PROVE  a % m = IF a < m THEN a ELSE IF a < 2 * m THEN a - m ELSE 0
<1>1. PICK q \in Int : q = a \div m
  OBVIOUS
<1>2. a = m * q + (a % m) /\ (a % m) \in 0 .. m - 1
  BY <1>1
<1>3. CASE q <= -1
  <2>1. m * q <= m * (-1)
    BY <1>3
  <2> QED
    BY <1>2, <2>1
<1>4. CASE q = 0
  BY <1>2, <1>4
<1>5. CASE q = 1
  BY <1>2, <1>5
<1>6. CASE q = 2
  BY <1>2, <1>6
<1>7. CASE q >= 3
  <2>1. m * q >= m * 3
    BY <1>7
  <2> QED
    BY <1>2, <2>1
<1> QED
  BY <1>3, <1>4, <1>5, <1>6, <1>7

\* Quotients that stay below two.
LEMMA SmallDiv ==
  ASSUME NEW m \in Nat \ {0}, NEW a \in 0 .. 2 * m - 1
  PROVE  a \div m = IF a < m THEN 0 ELSE 1
<1>1. PICK q \in Int : q = a \div m
  OBVIOUS
<1>2. a = m * q + (a % m) /\ (a % m) \in 0 .. m - 1
  BY <1>1
<1>3. CASE q <= -1
  <2>1. m * q <= m * (-1)
    BY <1>3
  <2> QED
    BY <1>2, <2>1
<1>4. CASE q \in {0, 1}
  BY <1>1, <1>2, <1>4
<1>5. CASE q >= 2
  <2>1. m * q >= m * 2
    BY <1>5
  <2> QED
    BY <1>2, <2>1
<1> QED
  BY <1>3, <1>4, <1>5

\* The loop has two bars: which steps begin one, which bar a step is in, and
\* the step after it.
LEMMA StepsOfTwoBars ==
  /\ TotalSteps \in Nat /\ TotalSteps = BarSteps + BarSteps
  /\ BarSteps \in Nat /\ BarSteps > 1 /\ BarSteps < 100
  /\ \A s \in Steps :
       /\ s \in Nat /\ s < TotalSteps
       /\ IsBarStart(s) <=> s = 0 \/ s = BarSteps
       /\ s \div BarSteps = IF s < BarSteps THEN 0 ELSE 1
       /\ AdvanceFrom(s) = IF s = TotalSteps - 1 THEN 0 ELSE s + 1
       /\ AdvanceFrom(s) \in Steps
<1>1. /\ TotalSteps \in Nat /\ TotalSteps = BarSteps + BarSteps
      /\ BarSteps \in Nat /\ BarSteps > 1 /\ BarSteps < 100
  BY LooperAssumption DEF TotalSteps, Bars
<1>2. ASSUME NEW s \in Steps
      PROVE  /\ s \in Nat /\ s < TotalSteps
             /\ IsBarStart(s) <=> s = 0 \/ s = BarSteps
             /\ s \div BarSteps = IF s < BarSteps THEN 0 ELSE 1
             /\ AdvanceFrom(s) = IF s = TotalSteps - 1 THEN 0 ELSE s + 1
             /\ AdvanceFrom(s) \in Steps
  <2>1. s \in 0 .. 2 * BarSteps - 1
    BY <1>1 DEF Steps
  <2>2. s % BarSteps = IF s < BarSteps THEN s ELSE IF s < 2 * BarSteps THEN s - BarSteps ELSE 0
    <3>1. s \in 0 .. 2 * BarSteps /\ BarSteps \in Nat \ {0}
      BY <1>1, <2>1
    <3> QED
      BY <3>1, SmallMod
  <2>3. s \div BarSteps = IF s < BarSteps THEN 0 ELSE 1
    <3>1. BarSteps \in Nat \ {0}
      BY <1>1
    <3> QED
      BY <2>1, <3>1, SmallDiv
  <2>4. (s + 1) % TotalSteps = IF s + 1 < TotalSteps THEN s + 1
                               ELSE IF s + 1 < 2 * TotalSteps THEN s + 1 - TotalSteps ELSE 0
    <3>1. s + 1 \in 0 .. 2 * TotalSteps /\ TotalSteps \in Nat \ {0}
      BY <1>1, <2>1
    <3>2. \A a \in 0 .. 2 * TotalSteps :
            a % TotalSteps = IF a < TotalSteps THEN a
                             ELSE IF a < 2 * TotalSteps THEN a - TotalSteps ELSE 0
      BY <3>1, SmallMod
    <3> DEFINE a == s + 1
    <3>3. a \in 0 .. 2 * TotalSteps
      BY <3>1
    <3> HIDE DEF a
    <3>4. a % TotalSteps = IF a < TotalSteps THEN a
                           ELSE IF a < 2 * TotalSteps THEN a - TotalSteps ELSE 0
      BY <3>2, <3>3
    <3> QED
      BY <1>1, <2>1, <3>3, <3>4 DEF a
  <2> QED
    BY <1>1, <2>1, <2>2, <2>3, <2>4 DEF IsBarStart, AdvanceFrom, Steps
<1> QED
  BY <1>1, <1>2

-----------------------------------------------------------------------------
(* Type correctness.                                                       *)

\* What ghost_note_maintenance_step leaves behind.
LEMMA MaintenanceTypes ==
  ASSUME TypeOK, NEW s \in Steps, NEW st, GhostMaintenance(s, st)
  PROVE  /\ ghost_bar_counter' \in 0 .. IntervalBar - 1
         /\ fill' \in BOOLEAN
         /\ unrenewed' \in 0 .. IntervalBar + 1
         /\ looped' \in BOOLEAN
<1>1. NextBar \in 0 .. IntervalBar - 1
  BY DEF NextBar, IntervalBar, TypeOK
<1>2. ghost_bar_counter' \in 0 .. IntervalBar - 1
  BY <1>1 DEF GhostMaintenance, TypeOK
<1>3. unrenewed' \in 0 .. IntervalBar + 1
  BY DEF GhostMaintenance, TypeOK, IntervalBar
<1>4. fill' \in BOOLEAN
  BY DEF GhostMaintenance, TypeOK, ClearsFills
<1>5. looped' \in BOOLEAN
  BY DEF GhostMaintenance, TypeOK
<1> QED
  BY <1>2, <1>3, <1>4, <1>5

LEMMA TicksOnTypes ==
  ASSUME TypeOK, TicksOn
  PROVE  /\ since' \in Distances
         /\ held' \in BOOLEAN /\ late' \in BOOLEAN /\ stretched' \in BOOLEAN
<1>1. TotalSteps \in Nat /\ TotalSteps > 0 /\ LongAgo = 2 * TotalSteps
  BY StepsOfTwoBars DEF LongAgo
<1>2. CASE since = None
  BY <1>2 DEF TypeOK, TicksOn
<1>3. CASE since # None
  <2>1. since \in 0 .. LongAgo + TotalSteps - 1
    BY <1>3 DEF TypeOK, Distances
  <2>2. since' \in 0 .. LongAgo + TotalSteps - 1
    BY <1>1, <1>3, <2>1 DEF TicksOn
  <2> QED
    BY <2>2 DEF TypeOK, TicksOn, Distances
<1> QED
  BY <1>2, <1>3

\* A press whose distance is lost.
LEMMA RetimedTypes ==
  ASSUME Retimed
  PROVE  /\ since' \in Distances
         /\ late' \in BOOLEAN
         /\ heard' \in Steps \cup {None}
BY DEF Retimed, Distances

LEMMA TypeOKKept ==
  ASSUME TypeOK, [Next]_vars
  PROVE  TypeOK'
<1> USE DEF TypeOK
<1>1. CASE TickWaiting
  <2> DEFINE s == AdvanceFrom(IF enable_midi_drums THEN 0 ELSE current_step)
  <2>1. s \in Steps
    BY StepsOfTwoBars DEF Steps
  <2>2. GhostMaintenance(s, "WAITING") /\ TicksOn /\ current_step' = s
    BY <1>1 DEF TickWaiting
  <2> HIDE DEF s
  <2>3. /\ ghost_bar_counter' \in 0 .. IntervalBar - 1 /\ fill' \in BOOLEAN
        /\ unrenewed' \in 0 .. IntervalBar + 1 /\ looped' \in BOOLEAN
    BY <2>1, <2>2, MaintenanceTypes
  <2>4. /\ since' \in Distances
        /\ held' \in BOOLEAN /\ late' \in BOOLEAN /\ stretched' \in BOOLEAN
    BY <2>2, TicksOnTypes
  <2> QED
    BY <1>1, <2>1, <2>2, <2>3, <2>4 DEF TickWaiting, styleVars
<1>2. CASE TickPlaying \/ TickRecordingOrTapTempo
  <2> DEFINE s == AdvanceFrom(current_step)
  <2>1. s \in Steps
    BY StepsOfTwoBars
  <2>2. GhostMaintenance(s, state) /\ TicksOn /\ current_step' = s
    BY <1>2 DEF TickPlaying, TickRecordingOrTapTempo
  <2>3. /\ ghost_bar_counter' \in 0 .. IntervalBar - 1 /\ fill' \in BOOLEAN
        /\ unrenewed' \in 0 .. IntervalBar + 1 /\ looped' \in BOOLEAN
    BY <2>1, <2>2, MaintenanceTypes
  <2>4. /\ since' \in Distances
        /\ held' \in BOOLEAN /\ late' \in BOOLEAN /\ stretched' \in BOOLEAN
    BY <2>2, TicksOnTypes
  <2>5. bar_group' \in Groups \cup {None, -1}
    BY <1>2 DEF TickPlaying, TickRecordingOrTapTempo
  <2> HIDE DEF s
  <2>6. content' \in Contents
    <3>1. CASE content' = content
      BY <3>1
    <3>2. CASE TickPlaying /\ CopiesStyle
      <4>1. content' = Style(style_group, style_section % TableStyles)
        BY <3>2 DEF TickPlaying
      <4>2. style_section % TableStyles \in 0 .. TableStyles - 1
        <5>1. style_section \in Int
          BY LooperAssumption
        <5> QED
          BY ONLY <5>1 DEF TableStyles
      <4>3. style_group \in Groups
        BY <3>2 DEF CopiesStyle
      <4> QED
        BY <4>1, <4>2, <4>3 DEF Contents
    <3> QED
      BY <1>2, <3>1, <3>2 DEF TickPlaying, TickRecordingOrTapTempo
  <2> QED
    BY <1>2, <2>1, <2>2, <2>3, <2>4, <2>5, <2>6
       DEF TickPlaying, TickRecordingOrTapTempo, styleVars
<1>3. CASE StartStop
  <2>1. /\ style_started' \in BOOLEAN
        /\ UNCHANGED <<enable_midi_drums, style_group, held, since, late, stretched>>
    BY <1>3 DEF StartStop
  <2>2. since' \in Distances
    BY <2>1
  <2>3. CASE StartWithDrums
    <3>1. 0 \in Steps /\ 0 \in 0 .. IntervalBar + 1
      BY StepsOfTwoBars DEF Steps, IntervalBar
    <3> QED
      BY <2>1, <2>2, <2>3, <3>1, LooperAssumption DEF StartWithDrums
  <2>4. CASE StopWithDrums
    BY <2>1, <2>2, <2>4 DEF StopWithDrums
  <2>5. CASE StartStopOtherDevice
    BY <2>1, <2>2, <2>5, LooperAssumption DEF StartStopOtherDevice, looperVars
  <2> QED
    BY <1>3, <2>3, <2>4, <2>5 DEF StartStop
<1>4. ASSUME NEW fretted \in BOOLEAN, StrumPress(fretted) PROVE TypeOK'
  <2>1. \A half \in BOOLEAN :
          (current_step + TotalSteps - 1 + (IF half THEN 1 ELSE 0)) % TotalSteps \in Steps
    <3>1. TotalSteps \in Nat \ {0} /\ current_step \in Nat
      BY StepsOfTwoBars
    <3>2. ASSUME NEW half \in BOOLEAN
          PROVE  (current_step + TotalSteps - 1 + (IF half THEN 1 ELSE 0)) % TotalSteps \in Steps
      <4>1. current_step + TotalSteps - 1 + (IF half THEN 1 ELSE 0) \in Int
        BY <3>1
      <4> QED
        BY ONLY <3>1, <4>1 DEF Steps
    <3> QED
      BY <3>2
  <2>2. 0 \in Distances
    BY StepsOfTwoBars DEF LongAgo, Distances
  <2>3. CASE Retimed
    BY <1>4, <2>3, RetimedTypes DEF StrumPress, looperVars, styleVars
  <2>4. CASE ~Retimed
    BY <1>4, <2>1, <2>2, <2>4 DEF StrumPress, looperVars, styleVars
  <2> QED
    BY <2>3, <2>4
<1>5. CASE StrumRelease
  <2>1. content' \in Contents
    BY <1>5 DEF StrumRelease, Contents
  <2>2. /\ since' \in Distances
        /\ late' \in BOOLEAN /\ stretched' \in BOOLEAN
        /\ heard' \in Steps \cup {None}
    BY <1>5, RetimedTypes DEF StrumRelease
  <2> QED
    BY <1>5, <2>1, <2>2 DEF StrumRelease, styleVars
<1>6. CASE Record
  BY <1>6, StepsOfTwoBars DEF Record, Contents, ClearSelectedStyle, Steps, IntervalBar
<1>7. CASE TapTempoMode
  BY <1>7 DEF TapTempoMode, styleVars, pressVars, IntervalBar
<1>8. CASE SelectSection
  BY <1>8 DEF SelectSection, looperVars, pressVars
<1>9. CASE SelectGroup
  BY <1>9 DEF SelectGroup, looperVars, pressVars
<1>10. CASE SwitchDrums
  BY <1>10 DEF SwitchDrums, pressVars, Contents
<1>11. CASE ResetPreferences
  <2>1. enable_midi_drums' \in BOOLEAN
    BY <1>11 DEF ResetPreferences
  <2>2. UNCHANGED <<looperVars, style_started, style_group, style_section, pressVars, bar_group>>
    BY <1>11 DEF ResetPreferences
  <2> QED
    BY <2>1, <2>2 DEF looperVars, pressVars
<1>12. CASE ChangeTempo
  BY <1>12, RetimedTypes DEF ChangeTempo, looperVars, styleVars
<1>13. CASE UNCHANGED vars
  BY <1>13 DEF vars, looperVars, styleVars, pressVars
<1> QED
  BY <1>1, <1>2, <1>3, <1>4, <1>5, <1>6, <1>7, <1>8, <1>9, <1>10, <1>11, <1>12, <1>13
     DEF Next, Tick, Handler

\* The looper's state keeps its ranges: in particular the step stays inside
\* the pattern whatever handlers write between ticks.
THEOREM LooperTypeOK == Spec => []TypeOK
<1>1. Init => TypeOK
  <2>1. LongAgo \in Distances /\ 0 \in Steps
    BY StepsOfTwoBars DEF LongAgo, Distances, Steps
  <2>2. Empty \in Contents
    BY DEF Contents
  <2>3. 0 \in 0 .. IntervalBar - 1 /\ 0 \in 0 .. IntervalBar + 1
    BY DEF IntervalBar
  <2> QED
    BY <2>1, <2>2, <2>3, LooperAssumption DEF Init, TypeOK
<1> QED
  BY <1>1, TypeOKKept, PTL DEF Spec

-----------------------------------------------------------------------------
(* Playing.  A step that ends in PLAYING is the tick, the start, or a      *)
(* handler that leaves the sequence alone and at most clears the tracks.   *)

Aside ==
  /\ state = "PLAYING"
  /\ UNCHANGED <<current_step, ghost_bar_counter, unrenewed, looped, bar_group>>
  /\ fill' => fill
  /\ content' \in {content, Empty}

LEMMA WhilePlaying ==
  ASSUME TypeOK, [Next]_vars, state' = "PLAYING"
  PROVE  TickPlaying \/ StartWithDrums \/ Aside
<1>1. CASE Tick
  BY <1>1 DEF Tick, TickWaiting, TickRecordingOrTapTempo
<1>2. CASE StartStop
  BY <1>2 DEF StartStop, StopWithDrums, StartStopOtherDevice, Aside, looperVars
<1>3. ASSUME NEW fretted \in BOOLEAN, StrumPress(fretted) PROVE Aside
  BY <1>3 DEF StrumPress, Aside, looperVars
<1>4. CASE StrumRelease
  BY <1>4 DEF StrumRelease, Aside
<1>5. CASE Record \/ TapTempoMode
  BY <1>5 DEF Record, TapTempoMode
<1>6. CASE SelectSection \/ SelectGroup
  BY <1>6 DEF SelectSection, SelectGroup, Aside, looperVars
<1>7. CASE SwitchDrums
  BY <1>7 DEF SwitchDrums, Aside
<1>8. CASE ResetPreferences
  BY <1>8 DEF ResetPreferences, Aside, looperVars
<1>9. CASE ChangeTempo
  BY <1>9 DEF ChangeTempo, Aside, looperVars
<1>10. CASE UNCHANGED vars
  BY <1>10 DEF vars, looperVars, Aside
<1> QED
  BY <1>1, <1>2, <1>3, <1>4, <1>5, <1>6, <1>7, <1>8, <1>9, <1>10 DEF Next, Handler

LEMMA PlaysFromBarStartKept ==
  ASSUME TypeOK, PlaysFromBarStart, [Next]_vars
  PROVE  PlaysFromBarStart'
<1> SUFFICES ASSUME state' = "PLAYING", ~IsBarStart(current_step')
             PROVE  bar_group' # None
  BY DEF PlaysFromBarStart, IsBarStart
<1>1. CASE TickPlaying
  <2>1. CASE IsBarStart(current_step)
    BY <1>1, <2>1, LooperAssumption DEF TickPlaying, TypeOK, None
  <2>2. CASE ~IsBarStart(current_step)
    BY <1>1, <2>2 DEF TickPlaying, PlaysFromBarStart
  <2> QED
    BY <2>1, <2>2
<1>2. CASE StartWithDrums
  BY <1>2, StepsOfTwoBars DEF StartWithDrums, Steps
<1>3. CASE Aside
  BY <1>3 DEF Aside, PlaysFromBarStart
<1> QED
  BY <1>1, <1>2, <1>3, WhilePlaying

\* Whatever was played, recorded or switched before, playing never enters a
\* bar in its middle.
THEOREM BarsPlayedFromStart == Spec => []PlaysFromBarStart
<1>1. Init => PlaysFromBarStart
  BY DEF Init, PlaysFromBarStart
<1> QED
  BY <1>1, PlaysFromBarStartKept, LooperTypeOK, PTL DEF Spec

LEMMA PlaysWhatBarOpenedKept ==
  ASSUME TypeOK, PlaysWhatBarOpened, [Next]_vars
  PROVE  PlaysWhatBarOpened'
<1> SUFFICES ASSUME state' = "PLAYING", bar_group' >= 0, ~IsBarStart(current_step')
             PROVE  \E s \in 0 .. TableStyles - 1 : content' \in {Style(bar_group', s), Empty}
  BY DEF PlaysWhatBarOpened, IsBarStart, Style, Empty
<1>1. CASE TickPlaying
  <2>1. CASE IsBarStart(current_step)
    <3>1. bar_group' = style_group /\ CopiesStyle
      BY <1>1, <2>1, LooperAssumption DEF TickPlaying, CopiesStyle, TypeOK
    <3>2. content' = Style(style_group, style_section % TableStyles)
      BY <1>1, <3>1 DEF TickPlaying
    <3>3. style_section % TableStyles \in 0 .. TableStyles - 1
      <4>1. style_section \in Int
        BY LooperAssumption DEF TypeOK
      <4> QED
        BY ONLY <4>1 DEF TableStyles
    <3> QED
      BY <3>1, <3>2, <3>3
  <2>2. CASE ~IsBarStart(current_step)
    BY <1>1, <2>2 DEF TickPlaying, PlaysWhatBarOpened, CopiesStyle
  <2> QED
    BY <2>1, <2>2
<1>2. CASE StartWithDrums
  BY <1>2, StepsOfTwoBars DEF StartWithDrums, Steps
<1>3. CASE Aside
  BY <1>3 DEF Aside, PlaysWhatBarOpened
<1> QED
  BY <1>1, <1>2, <1>3, WhilePlaying

\* A bar keeps the style group it began with, whatever is selected meanwhile.
THEOREM BarsKeepTheirStyle == Spec => []PlaysWhatBarOpened
<1>1. Init => PlaysWhatBarOpened
  BY DEF Init, PlaysWhatBarOpened
<1> QED
  BY <1>1, PlaysWhatBarOpenedKept, LooperTypeOK, PTL DEF Spec

-----------------------------------------------------------------------------
(* The bar counter.  A tick while playing advances step and counter by the *)
(* same bar; only the count modulo four and the loop of two bars matter.   *)

\* The step s that a tick reaches and the counter that belongs to it.
LEMMA TickAdvances ==
  ASSUME TypeOK, TickPlaying
  PROVE  /\ current_step' = IF current_step = TotalSteps - 1 THEN 0 ELSE current_step + 1
         /\ current_step' \in Steps
         /\ ghost_bar_counter' = IF current_step' = 0 \/ current_step' = BarSteps
                                 THEN (IF ghost_bar_counter = 3 THEN 0 ELSE ghost_bar_counter + 1)
                                 ELSE ghost_bar_counter
         /\ unrenewed' = IF current_step' = 0 /\ ghost_bar_counter' = 0 THEN 0
                         ELSE IF (current_step' = 0 \/ current_step' = BarSteps) /\ unrenewed <= 4
                         THEN unrenewed + 1 ELSE unrenewed
         /\ fill' => IF current_step' = 0 THEN ghost_bar_counter' = 2 ELSE fill
         /\ looped' => looped \/ current_step' = 0
<1> DEFINE s == AdvanceFrom(current_step)
<1>1. s \in Steps /\ s = IF current_step = TotalSteps - 1 THEN 0 ELSE current_step + 1
  BY StepsOfTwoBars DEF TypeOK
<1>2. IsBarStart(s) <=> s = 0 \/ s = BarSteps
  BY <1>1, StepsOfTwoBars
<1>3. current_step' = s /\ GhostMaintenance(s, "PLAYING")
  BY DEF TickPlaying
<1> HIDE DEF s
<1>4. NextBar = IF ghost_bar_counter = 3 THEN 0 ELSE ghost_bar_counter + 1
  BY DEF NextBar, TypeOK, IntervalBar
<1>5. ghost_bar_counter' = IF s = 0 \/ s = BarSteps
                           THEN (IF ghost_bar_counter = 3 THEN 0 ELSE ghost_bar_counter + 1)
                           ELSE ghost_bar_counter
  BY <1>2, <1>3, <1>4 DEF GhostMaintenance
<1>6. unrenewed' = IF s = 0 /\ ghost_bar_counter' = 0 THEN 0
                   ELSE IF (s = 0 \/ s = BarSteps) /\ unrenewed <= 4 THEN unrenewed + 1
                   ELSE unrenewed
  BY <1>2, <1>3 DEF GhostMaintenance, CreatesGhosts, IntervalBar
<1>7. fill' => IF s = 0 THEN ghost_bar_counter' = 2 ELSE fill
  <2>1. CreatesFill(s, ghost_bar_counter') <=> ghost_bar_counter' = 2 /\ s = 0
    BY DEF CreatesFill, IntervalBar
  <2>2. \/ CreatesFill(s, ghost_bar_counter')
        \/ fill' = (fill /\ ~ClearsFills(s))
    BY <1>3 DEF GhostMaintenance
  <2> QED
    BY <2>1, <2>2 DEF ClearsFills
<1>8. looped' => looped \/ s = 0
  BY <1>3 DEF GhostMaintenance
<1> QED
  BY <1>1, <1>3, <1>5, <1>6, <1>7, <1>8

\* The phase in numbers.
LEMMA PhaseOfTwoBars ==
  ASSUME TypeOK
  PROVE  Phase = IF current_step < BarSteps
                 THEN ghost_bar_counter % 2 ELSE (ghost_bar_counter + 1) % 2
BY StepsOfTwoBars DEF TypeOK, Phase, IntervalBar

LEMMA TickKeepsPhase ==
  ASSUME TypeOK, TypeOK', TickPlaying
  PROVE  Phase' = Phase
<1>1. Phase = IF current_step < BarSteps
              THEN ghost_bar_counter % 2 ELSE (ghost_bar_counter + 1) % 2
  BY PhaseOfTwoBars
<1>2. Phase' = IF current_step' < BarSteps
               THEN ghost_bar_counter' % 2 ELSE (ghost_bar_counter' + 1) % 2
  BY StepsOfTwoBars DEF TypeOK, Phase, IntervalBar
<1>3. ghost_bar_counter \in {0, 1, 2, 3}
  BY DEF TypeOK, IntervalBar
<1>4. current_step \in 0 .. TotalSteps - 1
  BY DEF TypeOK, Steps
<1>5. CASE current_step' = 0
  BY <1>1, <1>2, <1>3, <1>4, <1>5, TickAdvances, StepsOfTwoBars
<1>6. CASE current_step' = BarSteps
  BY <1>1, <1>2, <1>3, <1>4, <1>6, TickAdvances, StepsOfTwoBars
<1>7. CASE current_step' # 0 /\ current_step' # BarSteps
  <2>1. current_step' = current_step + 1 /\ ghost_bar_counter' = ghost_bar_counter
    BY <1>7, TickAdvances
  <2>2. current_step' < BarSteps <=> current_step < BarSteps
    BY <1>4, <1>7, <2>1, StepsOfTwoBars
  <2> QED
    BY <1>1, <1>2, <2>1, <2>2
<1> QED
  BY <1>5, <1>6, <1>7

\* Playing never shifts the bar counter against the loop.
THEOREM PhaseIsKept == Spec => PhaseKept
<1>1. ASSUME TypeOK, TypeOK', [Next]_vars, state = "PLAYING", state' = "PLAYING"
      PROVE  Phase' = Phase
  <2>1. CASE TickPlaying
    BY <1>1, <2>1, TickKeepsPhase
  <2>2. CASE StartWithDrums
    BY <1>1, <2>2 DEF StartWithDrums
  <2>3. CASE Aside
    BY <2>3 DEF Aside, Phase
  <2> QED
    BY <1>1, <2>1, <2>2, <2>3, WhilePlaying
<1>2. TypeOK /\ TypeOK' /\ [Next]_vars => [state = "PLAYING" /\ state' = "PLAYING" => Phase' = Phase]_vars
  BY <1>1
<1> QED
  BY <1>2, LooperTypeOK, PTL DEF Spec, PhaseKept

\* In phase, the bars since the last renewal are at most what the counter
\* shows, which starts again with each renewal.
RenewedByCount == state = "PLAYING" /\ Phase = 0 => unrenewed <= ghost_bar_counter

LEMMA RenewedByCountKept ==
  ASSUME TypeOK, TypeOK', RenewedByCount, [Next]_vars
  PROVE  RenewedByCount'
<1> SUFFICES ASSUME state' = "PLAYING", Phase' = 0
             PROVE  unrenewed' <= ghost_bar_counter'
  BY DEF RenewedByCount
<1>1. CASE TickPlaying
  <2>1. Phase = 0
    BY <1>1, TickKeepsPhase
  <2>2. unrenewed <= ghost_bar_counter
    BY <1>1, <2>1 DEF TickPlaying, RenewedByCount
  <2>3. ghost_bar_counter \in {0, 1, 2, 3} /\ unrenewed \in 0 .. 5
    BY DEF TypeOK, IntervalBar
  <2>4. CASE current_step' = BarSteps /\ ghost_bar_counter = 3
    <3>1. ghost_bar_counter' = 0
      BY <1>1, <2>4, TickAdvances
    <3>2. Phase' = 1
      <4>1. current_step' \div BarSteps = 1
        BY <2>4, StepsOfTwoBars DEF TypeOK
      <4> QED
        BY <3>1, <4>1 DEF Phase
    <3> QED
      BY <3>2
  <2>5. CASE current_step' = 0
    BY <1>1, <2>2, <2>3, <2>5, TickAdvances
  <2>6. CASE current_step' = BarSteps /\ ghost_bar_counter # 3
    BY <1>1, <2>2, <2>3, <2>6, TickAdvances, StepsOfTwoBars
  <2>7. CASE current_step' # BarSteps /\ current_step' # 0
    BY <1>1, <2>2, <2>7, TickAdvances
  <2> QED
    BY <2>4, <2>5, <2>6, <2>7
<1>2. CASE StartWithDrums
  BY <1>2 DEF StartWithDrums, TypeOK, IntervalBar
<1>3. CASE Aside
  BY <1>3 DEF Aside, RenewedByCount, Phase
<1> QED
  BY <1>1, <1>2, <1>3, WhilePlaying

\* In phase, ghost notes are renewed before four bars were played on the last.
THEOREM GhostsRenewedInPhase == Spec => []RenewedInPhase
<1>1. Init => RenewedByCount
  BY DEF Init, RenewedByCount
<1>2. TypeOK /\ RenewedByCount => RenewedInPhase
  BY DEF TypeOK, RenewedByCount, RenewedInPhase, IntervalBar
<1> QED
  BY <1>1, <1>2, RenewedByCountKept, LooperTypeOK, PTL DEF Spec

LEMMA FillEndsIntervalKept ==
  ASSUME TypeOK, FillEndsInterval, [Next]_vars
  PROVE  FillEndsInterval'
<1> SUFFICES ASSUME state' = "PLAYING", fill', looped'
             PROVE  ghost_bar_counter' = IntervalBar - 2 + (current_step' \div BarSteps)
  BY DEF FillEndsInterval
<1>1. CASE TickPlaying
  <2>1. current_step \in Steps /\ ghost_bar_counter \in {0, 1, 2, 3}
    BY DEF TypeOK, IntervalBar
  <2>2. CASE current_step' = 0
    BY <1>1, <2>2, TickAdvances, StepsOfTwoBars DEF IntervalBar
  <2>3. CASE current_step' # 0
    <3>1. fill /\ looped /\ current_step' = current_step + 1
      BY <1>1, <2>3, TickAdvances
    <3>2. ghost_bar_counter = 2 + (current_step \div BarSteps)
      BY <1>1, <3>1 DEF FillEndsInterval, TickPlaying, IntervalBar
    <3>3. current_step' \in Steps
      BY <1>1, TickAdvances
    <3>4. CASE current_step' = BarSteps
      <4>1. current_step < BarSteps
        BY <3>1, <3>4, <2>1, StepsOfTwoBars
      <4>2. ghost_bar_counter = 2
        BY <2>1, <3>2, <4>1, StepsOfTwoBars
      <4>3. ghost_bar_counter' = 3
        BY <1>1, <3>4, <4>2, TickAdvances
      <4>4. current_step' \div BarSteps = 1
        BY <3>3, <3>4, StepsOfTwoBars
      <4> QED
        BY <4>3, <4>4 DEF IntervalBar
    <3>5. CASE current_step' # BarSteps
      <4>1. ghost_bar_counter' = ghost_bar_counter
        BY <1>1, <2>3, <3>5, TickAdvances
      <4>2. current_step' \div BarSteps = current_step \div BarSteps
        BY <2>1, <3>1, <3>3, <3>5, StepsOfTwoBars
      <4> QED
        BY <3>2, <4>1, <4>2 DEF IntervalBar
    <3> QED
      BY <3>4, <3>5
  <2> QED
    BY <2>2, <2>3
<1>2. CASE StartWithDrums
  BY <1>2 DEF StartWithDrums
<1>3. CASE Aside
  BY <1>3 DEF Aside, FillEndsInterval
<1> QED
  BY <1>1, <1>2, <1>3, WhilePlaying

\* From the second loop on, a fill is in the last two bars of the interval.
THEOREM FillsEndIntervals == Spec => []FillEndsInterval
<1>1. Init => FillEndsInterval
  BY DEF Init, FillEndsInterval
<1> QED
  BY <1>1, FillEndsIntervalKept, LooperTypeOK, PTL DEF Spec

-----------------------------------------------------------------------------
(* Recording.                                                              *)

\* A recording is kept over everything but switching the drums off.
THEOREM RecordingIsKept == Spec => RecordingKept
<1>1. ASSUME TypeOK, [Next]_vars, content = Own, style_group = -1, enable_midi_drums'
      PROVE  content' = Own
  <2>1. CASE Tick
    BY <1>1, <2>1 DEF Tick, TickWaiting, TickPlaying, TickRecordingOrTapTempo, CopiesStyle
  <2>2. CASE StartStop
    BY <1>1, <2>2 DEF StartStop, StartWithDrums, StopWithDrums, StartStopOtherDevice, looperVars
  <2>3. ASSUME NEW fretted \in BOOLEAN, StrumPress(fretted) PROVE content' = Own
    BY <1>1, <2>3 DEF StrumPress, looperVars
  <2>4. CASE StrumRelease
    BY <1>1, <2>4 DEF StrumRelease
  <2>5. CASE Record \/ TapTempoMode
    <3>1. ~(style_group > -1)
      BY <1>1
    <3> QED
      BY <1>1, <2>5, <3>1 DEF Record, TapTempoMode, ClearSelectedStyle
  <2>6. CASE SelectSection \/ SelectGroup
    BY <1>1, <2>6 DEF SelectSection, SelectGroup, looperVars
  <2>7. CASE SwitchDrums
    <3>1. ~enable_midi_drums
      BY <1>1, <2>7, Zenon DEF SwitchDrums
    <3> QED
      BY <1>1, <2>7, <3>1 DEF SwitchDrums
  <2>8. CASE ResetPreferences
    BY <1>1, <2>8 DEF ResetPreferences, looperVars
  <2>9. CASE ChangeTempo
    BY <1>1, <2>9 DEF ChangeTempo, looperVars
  <2>10. CASE UNCHANGED vars
    BY <1>1, <2>10 DEF vars, looperVars
  <2> QED
    BY <1>1, <2>1, <2>2, <2>3, <2>4, <2>5, <2>6, <2>7, <2>8, <2>9, <2>10 DEF Next, Handler
<1>2. TypeOK /\ [Next]_vars =>
        [content = Own /\ style_group = -1 => content' = Own \/ ~enable_midi_drums']_vars
  BY <1>1
<1> QED
  BY <1>2, LooperTypeOK, PTL DEF Spec, RecordingKept

-----------------------------------------------------------------------------
(* Quantization, at one tempo.  Up to a loop after the press the sum the   *)
(* code reduces lies between 0 and two loops: C's remainder is the         *)
(* mathematical one, and the cast to a byte changes nothing.               *)

\* The press counted from the loop's beginning, a loop on.
PressStep ==
  (IF current_step = 0 THEN TotalSteps - 1 ELSE current_step - 1)
    + (IF late THEN 1 ELSE 0) - since + TotalSteps

Quantized == QuantizeStep((IF late THEN 1 ELSE 0) - since)

QuantizedPress ==
  /\ PressStep \in 0 .. 2 * TotalSteps
  /\ Quantized = IF PressStep < TotalSteps THEN PressStep
                    ELSE IF PressStep < 2 * TotalSteps THEN PressStep - TotalSteps ELSE 0

LEMMA PressQuantized == TypeOK /\ since \in 0 .. TotalSteps => QuantizedPress
<1> SUFFICES ASSUME TypeOK, since \in 0 .. TotalSteps PROVE QuantizedPress
  OBVIOUS
<1> DEFINE previous == IF current_step = 0 THEN TotalSteps - 1 ELSE current_step - 1
           half == IF late THEN 1 ELSE 0
           a == previous + half - since + TotalSteps
           b == current_step + TotalSteps - 1
           small(n) == IF n < TotalSteps THEN n
                       ELSE IF n < 2 * TotalSteps THEN n - TotalSteps ELSE 0
<1>1. /\ TotalSteps \in Nat \ {0} /\ TotalSteps < 200
      /\ current_step \in 0 .. TotalSteps - 1 /\ since \in 0 .. TotalSteps
      /\ half \in 0 .. 1
  <2>1. current_step \in Steps
    BY DEF TypeOK
  <2> QED
    BY <2>1, StepsOfTwoBars DEF Steps
<1>2. \A n \in 0 .. 2 * TotalSteps : n % TotalSteps = small(n)
  BY <1>1, SmallMod
<1>3. b \in 0 .. 2 * TotalSteps
  BY <1>1
<1>4. small(b) = previous
  BY <1>1
<1>5. b % TotalSteps = previous
  <2> HIDE DEF b, previous, small
  <2> QED
    BY <1>2, <1>3, <1>4
<1>6. a \in 0 .. 2 * TotalSteps
  BY <1>1
<1>7. CRemainder(a, TotalSteps) = small(a)
  <2> HIDE DEF a, small
  <2> QED
    BY <1>2, <1>6, <1>1 DEF CRemainder
<1>8. small(a) \in 0 .. 255
  <2> HIDE DEF a
  <2> QED
    BY <1>1, <1>6
<1>9. AsByte(small(a)) = small(a)
  <2> HIDE DEF small
  <2> QED
    BY <1>8 DEF AsByte
<1>10. Quantized = AsByte(CRemainder(previous + (half - since) + TotalSteps, TotalSteps))
  <2> HIDE DEF previous
  <2> QED
    BY <1>5 DEF Quantized, QuantizeStep
<1>11. previous + (half - since) + TotalSteps = a
  BY <1>1
<1>12. Quantized = small(a)
  <2> HIDE DEF a, small, previous, half
  <2> QED
    BY <1>7, <1>9, <1>10, <1>11
<1> QED
  BY <1>6, <1>12 DEF QuantizedPress, PressStep

\* What HitRecordedWhereHeard comes to: a press that is heard has a distance.
HeardKnown ==
  heard # None => since # None /\ (since < TotalSteps => Quantized = heard)

LEMMA HeardKnownKept ==
  ASSUME TypeOK, TypeOK', HeardKnown, [Next]_vars
  PROVE  HeardKnown'
<1> SUFFICES ASSUME heard' # None
             PROVE  since' # None /\ (since' < TotalSteps => Quantized' = heard')
  BY DEF HeardKnown, TotalSteps, Bars, None
<1>1. /\ TotalSteps \in Nat \ {0} /\ TotalSteps = BarSteps + BarSteps
      /\ current_step \in 0 .. TotalSteps - 1 /\ current_step' \in 0 .. TotalSteps - 1
      /\ since \in 0 .. LongAgo + TotalSteps - 1 \cup {None}
      /\ since' \in 0 .. LongAgo + TotalSteps - 1 \cup {None}
      /\ LongAgo = 2 * TotalSteps
  BY StepsOfTwoBars DEF TypeOK, Steps, LongAgo, Distances, TotalSteps, Bars, None
<1>2. (TypeOK /\ since \in 0 .. TotalSteps => QuantizedPress)'
  BY PressQuantized, PTL
<1>3. ASSUME since' # None, since' < TotalSteps PROVE QuantizedPress'
  <2>1. since' \in 0 .. TotalSteps
    BY <1>1, <1>3
  <2> QED
    BY <1>2, <2>1 DEF TotalSteps, Bars
<1>4. ASSUME UNCHANGED <<current_step, since, late, heard>>
      PROVE  since' # None /\ (since' < TotalSteps => Quantized' = heard')
  BY <1>4 DEF HeardKnown, Quantized, QuantizeStep, CRemainder, AsByte
<1>5. ASSUME TicksOn, heard' = heard, current_step' = AdvanceFrom(current_step)
      PROVE  since' # None /\ (since' < TotalSteps => Quantized' = heard')
  <2>1. since # None
    BY <1>5 DEF HeardKnown
  <2>2. since' # None
    BY <1>1, <1>5, <2>1 DEF TicksOn, None
  <2> SUFFICES ASSUME since' < TotalSteps PROVE Quantized' = heard'
    BY <2>2
  <2>3. since' = since + 1 /\ late' = late /\ since \in 0 .. TotalSteps
    BY <1>1, <1>5, <2>1 DEF TicksOn
  <2>4. heard = Quantized
    BY <1>1, <1>5, <2>1, <2>3 DEF HeardKnown
  <2>5. QuantizedPress
    BY <2>3, PressQuantized
  <2>6. current_step' = IF current_step = TotalSteps - 1 THEN 0 ELSE current_step + 1
    BY <1>5, StepsOfTwoBars DEF TypeOK
  <2>7. PressStep' \in {PressStep, PressStep - TotalSteps}
    BY <1>1, <2>3, <2>6 DEF PressStep
  <2> QED
    BY <1>1, <1>3, <1>5, <2>2, <2>4, <2>5, <2>7 DEF QuantizedPress
<1>6. CASE Tick
  BY <1>5, <1>6 DEF Tick, TickWaiting, TickPlaying, TickRecordingOrTapTempo
<1>7. CASE StartStop
  BY <1>4, <1>7 DEF StartStop, StartWithDrums, StopWithDrums, StartStopOtherDevice, looperVars
<1>8. ASSUME NEW fretted \in BOOLEAN, StrumPress(fretted)
      PROVE  since' # None /\ (since' < TotalSteps => Quantized' = heard')
  <2>1. CASE UNCHANGED <<since, late, heard>>
    BY <1>4, <1>8, <2>1 DEF StrumPress, looperVars
  <2>2. CASE ~UNCHANGED <<since, late, heard>>
    <3>1. since' = 0 /\ current_step' = current_step /\ since' # None
      BY <1>8, <2>2 DEF StrumPress, Retimed, looperVars, None
    <3>2. PICK half \in BOOLEAN :
            /\ late' = half
            /\ heard' = (current_step + TotalSteps - 1 + (IF half THEN 1 ELSE 0)) % TotalSteps
      BY <1>8, <2>2 DEF StrumPress, Retimed
    <3> DEFINE n == current_step + TotalSteps - 1 + (IF half THEN 1 ELSE 0)
    <3>3. n \in 0 .. 2 * TotalSteps
      BY <1>1
    <3>4. n % TotalSteps = IF n < TotalSteps THEN n
                           ELSE IF n < 2 * TotalSteps THEN n - TotalSteps ELSE 0
      <4> HIDE DEF n
      <4> QED
        BY <1>1, <3>3, SmallMod
    <3>5. PressStep' = IF current_step = 0 THEN n + TotalSteps ELSE n
      BY <1>1, <3>1, <3>2 DEF PressStep
    <3>6. Quantized' = n % TotalSteps
      <4> HIDE DEF n
      <4>1. QuantizedPress'
        BY <1>1, <1>3, <3>1
      <4> QED
        BY <1>1, <4>1, <3>3, <3>4, <3>5 DEF QuantizedPress
    <3> QED
      BY <3>1, <3>2, <3>6
  <2> QED
    BY <2>1, <2>2
<1>9. CASE StrumRelease
  BY <1>4, <1>9 DEF StrumRelease, Retimed
<1>10. CASE Record \/ TapTempoMode
  BY <1>4, <1>10 DEF Record, TapTempoMode, pressVars
<1>11. CASE SelectSection \/ SelectGroup
  BY <1>4, <1>11 DEF SelectSection, SelectGroup, looperVars, pressVars
<1>12. CASE SwitchDrums \/ ResetPreferences
  BY <1>4, <1>12 DEF SwitchDrums, ResetPreferences, looperVars, pressVars
<1>13. CASE ChangeTempo
  BY <1>13 DEF ChangeTempo, Retimed
<1>14. CASE UNCHANGED vars
  BY <1>4, <1>14 DEF vars, looperVars, pressVars
<1> QED
  BY <1>6, <1>7, <1>8, <1>9, <1>10, <1>11, <1>12, <1>13, <1>14 DEF Next, Handler

\* A hit released within a loop of its press is recorded at the step nearest
\* to the press, whatever ticks and handlers came in between, as long as none
\* of them changed the tempo.
THEOREM HitsRecordedWhereHeard == Spec => []HitRecordedWhereHeard
<1>1. Init => HeardKnown
  BY DEF Init, HeardKnown
<1>2. HeardKnown => HitRecordedWhereHeard
  BY DEF HeardKnown, HitRecordedWhereHeard, RelativeSteps, Quantized
<1> QED
  BY <1>1, <1>2, HeardKnownKept, LooperTypeOK, PTL DEF Spec

\* At one tempo, up to one loop after the press the quantized step is a step of
\* the pattern, for every length of the bar: the one loop the code adds before
\* it takes the remainder covers just that.  looper_quantize shows a later
\* release.
THEOREM QuantizedWithinLoop == Spec => [](since \in 0 .. TotalSteps => QuantizedInLoop)
<1>1. TypeOK => (since \in 0 .. TotalSteps => QuantizedInLoop)
  <2> SUFFICES ASSUME TypeOK, since \in 0 .. TotalSteps PROVE Quantized \in Steps
    BY DEF QuantizedInLoop, RelativeSteps, Quantized
  <2>1. QuantizedPress /\ TotalSteps \in Nat \ {0}
    BY PressQuantized, StepsOfTwoBars
  <2> QED
    BY <2>1 DEF QuantizedPress, Steps
<1> QED
  BY <1>1, LooperTypeOK, PTL
=============================================================================
