------------------------------- MODULE Looper -------------------------------
(***************************************************************************)
(* looper.c with ghost_note_maintenance_step and the handlers of           *)
(* pico_bluetooth.c that drive it: the step sequencer, recording, and the  *)
(* cycle of ghost notes and fills.                                         *)
(*                                                                         *)
(* The step timer and the Bluetooth handlers are callbacks of one          *)
(* async_context, which runs them one at a time: each is one action.  The  *)
(* tempo changes at any time (core 1 may change it too, and only writes    *)
(* it).  Time is counted in steps of the tempo; once the tempo changed     *)
(* after a press, its distance in steps is left open.  Of the patterns the *)
(* model keeps where their contents come from; recording_step_count, which *)
(* nothing reads, and the track numbers are left out.                      *)
(***************************************************************************)
EXTENDS Integers

CONSTANTS
  BarSteps,   \* steps of a bar (16)
  Groups,     \* style groups selected, of those in drum_styles
  Sections    \* style sections the guitar offers (0 .. 7)

ASSUME LooperAssumption ==
  /\ BarSteps \in Nat \ {0, 1}
  /\ BarSteps < 100
  /\ Groups \subseteq 0 .. 4 /\ 0 \in Groups
  /\ Sections \subseteq 0 .. 7 /\ 0 \in Sections

Bars         == 2
TotalSteps   == BarSteps * Bars
Steps        == 0 .. TotalSteps - 1
IntervalBar  == 4     \* fill.interval_bar
TableStyles  == 5

VARIABLES
  enable_midi_drums, style_started, style_group, style_section,
  state,              \* looper_status.state
  current_step,       \* the step the next tick plays
  ghost_bar_counter,
  content,            \* what the pattern memory holds
  fill,               \* fill_pattern holds a fill
  held,               \* the strum bar is pressed
  since,              \* ticks since button_press_start_us; None once the tempo
                      \* changed between the tick before the press and now
  late,               \* that press came in the second half of its step
  stretched,          \* the tempo changed since the last tick
  \* history
  heard,              \* the step nearest to that press; None once the sequence
                      \* jumped or the tempo changed
  bar_group,          \* style_group when the bar being played began
  unrenewed,          \* bars played since ghost notes were last created
  looped              \* the sequence came round since playing began

None == -2

looperVars == <<state, current_step, ghost_bar_counter, content, fill, unrenewed, looped>>
styleVars  == <<enable_midi_drums, style_started, style_group, style_section>>
pressVars  == <<held, since, late, stretched, heard>>
vars == <<looperVars, styleVars, pressVars, bar_group>>

Empty == <<"empty">>
Own == <<"own">>
Style(g, s) == <<"style", g, s>>
Contents == {Empty, Own} \cup {Style(g, s) : g \in Groups, s \in 0 .. TableStyles - 1}

\* A press this long ago, or longer, is taken modulo the loop.
LongAgo == 2 * TotalSteps
Distances == 0 .. LongAgo + TotalSteps - 1 \cup {None}

Init ==
  /\ enable_midi_drums = FALSE
  /\ style_started = FALSE
  /\ style_group = 0
  /\ style_section = 0
  /\ state = "WAITING"
  /\ current_step = 0
  /\ ghost_bar_counter = 0
  /\ content = Empty
  /\ fill = FALSE
  /\ held = FALSE
  /\ since = LongAgo
  /\ late = FALSE
  /\ stretched = FALSE
  /\ heard = None
  /\ bar_group = None
  /\ unrenewed = 0
  /\ looped = FALSE

-----------------------------------------------------------------------------
(* The tick: looper_handle_tick.                                           *)

IsBarStart(s) == s % BarSteps = 0

AdvanceUnbounded(s) == s + 1
\* Every branch ends with looper_advance_step.
AdvanceFrom(s) == (s + 1) % TotalSteps

\* ghost_note_maintenance_step, run with the new step s and the state st:
\* the bar counter, and when it creates ghost notes and fills.  Whether a fill
\* has any notes is left to chance; no hits, no fill.  pending_fill_request is
\* left out, as only the external clock's handlers would set it.
NextBarTooSoon == (ghost_bar_counter + 1) % (IntervalBar - 1)
NextBar == (ghost_bar_counter + 1) % IntervalBar
CreatesGhostsLate(s, counter) == counter = IntervalBar - 1 /\ s = 0
CreatesGhosts(s, counter) == counter = 0 /\ s = 0
NeverClears(s) == FALSE
ClearsFills(s) == s = 0
CreatesFill(s, counter) == counter = IntervalBar - 2 /\ s = 0
GhostMaintenance(s, st) ==
  LET counter == IF IsBarStart(s) THEN NextBar ELSE ghost_bar_counter IN
  /\ ghost_bar_counter' = counter
  /\ fill' \in IF st = "PLAYING" /\ CreatesFill(s, counter) /\ content' # Empty
               THEN BOOLEAN ELSE {fill /\ ~ClearsFills(s)}
  /\ looped' = (looped \/ s = 0)
  /\ unrenewed' = IF st # "PLAYING" \/ CreatesGhosts(s, counter) THEN 0
                  ELSE IF IsBarStart(s) /\ unrenewed <= IntervalBar THEN unrenewed + 1
                  ELSE unrenewed

\* A tick later the press lies one step further back.  The tick re-arms the
\* timer with the step period of the moment.
TicksOn ==
  /\ since' = IF since = None THEN None
              ELSE IF since = LongAgo + TotalSteps - 1 THEN LongAgo ELSE since + 1
  /\ stretched' = FALSE
  /\ UNCHANGED <<held, late>>

\* Without drums the state is forced to WAITING and the steps go round; with
\* drums the looper waits at step 0, which the same tick advances to 1.
TickWaiting ==
  LET s == AdvanceFrom(IF enable_midi_drums THEN 0 ELSE current_step) IN
  /\ ~enable_midi_drums \/ state = "WAITING"
  /\ state' = "WAITING"
  /\ current_step' = s
  /\ GhostMaintenance(s, "WAITING")
  /\ heard' = IF enable_midi_drums THEN None ELSE heard
  /\ TicksOn
  /\ UNCHANGED <<styleVars, content, bar_group>>

CopiesAtLoopStart == current_step = 0 /\ style_group > -1
CopiesStyle == IsBarStart(current_step) /\ style_group > -1

\* A bar begins with a copy of the selected style, if one is selected.
TickPlaying ==
  LET s == AdvanceFrom(current_step) IN
  /\ enable_midi_drums /\ state = "PLAYING"
  /\ content' = IF CopiesStyle
                THEN Style(style_group, style_section % TableStyles)
                ELSE content
  /\ bar_group' = IF IsBarStart(current_step) THEN style_group ELSE bar_group
  /\ current_step' = s
  /\ GhostMaintenance(s, state)
  /\ TicksOn
  /\ UNCHANGED <<styleVars, state, heard>>

\* Recording and tapping the tempo only play; the steps go round.
TickRecordingOrTapTempo ==
  LET s == AdvanceFrom(current_step) IN
  /\ enable_midi_drums /\ state \in {"RECORDING", "TAP_TEMPO"}
  /\ current_step' = s
  /\ GhostMaintenance(s, state)
  /\ TicksOn
  /\ UNCHANGED <<styleVars, state, content, heard, bar_group>>

Tick == TickWaiting \/ TickPlaying \/ TickRecordingOrTapTempo

-----------------------------------------------------------------------------
(* The handlers of the guitar's controls.                                  *)

StartKeepsStep ==
  /\ enable_midi_drums
  /\ state \in {"WAITING", "RECORDING", "TAP_TEMPO"}
  /\ style_section' = 0
  /\ current_step' = current_step
  /\ state' = "PLAYING"
  /\ heard' = None
  /\ bar_group' = None
  /\ unrenewed' = 0
  /\ looped' = FALSE
  /\ UNCHANGED <<ghost_bar_counter, content, fill>>
\* The start button.  Without drums it drives some other device, and starting
\* a sampler selects section 0.  style_started toggles in either case.
StartWithDrums ==
  /\ enable_midi_drums
  /\ state \in {"WAITING", "RECORDING", "TAP_TEMPO"}
  /\ style_section' = 0
  /\ current_step' = 0
  /\ state' = "PLAYING"
  /\ heard' = None
  /\ bar_group' = None
  /\ unrenewed' = 0
  /\ looped' = FALSE
  /\ UNCHANGED <<ghost_bar_counter, content, fill>>

StopWithDrums ==
  /\ enable_midi_drums
  /\ state = "PLAYING"
  /\ state' = "WAITING"
  /\ UNCHANGED <<style_section, current_step, heard, bar_group, ghost_bar_counter,
                 content, fill, unrenewed, looped>>

StartStopOtherDevice ==
  /\ ~enable_midi_drums
  /\ style_section' \in {style_section} \cup (IF style_started THEN {} ELSE {0})
  /\ UNCHANGED <<looperVars, heard, bar_group>>

StartStop ==
  /\ StartWithDrums \/ StopWithDrums \/ StartStopOtherDevice
  /\ style_started' = ~style_started
  /\ UNCHANGED <<enable_midi_drums, style_group, held, since, late, stretched>>

\* The press's distance in steps is lost.
Retimed ==
  /\ since' = None
  /\ late' = FALSE
  /\ heard' = None

\* Strumming with no fret pressed, while recording, hits a drum: CLICK_BEGIN
\* notes the time.  With frets pressed it plays a chord and notes nothing.
StrumPress(fretted) ==
  /\ ~held
  /\ held' = TRUE
  /\ IF ~enable_midi_drums \/ state # "RECORDING" \/ fretted
     THEN UNCHANGED <<since, late, heard>>
     ELSE IF stretched THEN Retimed
     ELSE /\ since' = 0
          /\ \E half \in BOOLEAN :
               /\ late' = half
               /\ heard' = (current_step + TotalSteps - 1 + (IF half THEN 1 ELSE 0)) % TotalSteps
  /\ UNCHANGED <<looperVars, styleVars, bar_group, stretched>>

\* The remainder of C, which has the sign of the dividend, cast to uint8_t.
AsByte(n) == n % 256
CRemainder(a, b) == IF a >= 0 THEN a % b ELSE -((-a) % b)

\* The time from the last tick to the press over the step period of now,
\* rounded.  At one tempo that is the steps gone by; if the tempo changed in
\* between it is any number (beyond these the remainders repeat).
RelativeSteps ==
  IF since = None THEN -(LongAgo + TotalSteps) .. TotalSteps
  ELSE {(IF late THEN 1 ELSE 0) - since}

QuantizeFromNext(relative_steps) ==
  AsByte(CRemainder(current_step + relative_steps + TotalSteps, TotalSteps))
\* looper_quantize_step: the step of the press, counted back from the step
\* played last.  The bias of one loop covers one loop.
QuantizeStep(relative_steps) ==
  LET previous_step == (current_step + TotalSteps - 1) % TotalSteps
  IN AsByte(CRemainder(previous_step + relative_steps + TotalSteps, TotalSteps))

\* Releasing the strum bar is a CLICK_RELEASE, fretted or not.  While the
\* tempo is tapped it goes to the tap tempo, which may set another one.  An
\* index past the pattern writes into the memory behind it.
StrumRelease ==
  /\ held
  /\ held' = FALSE
  /\ \E relative_steps \in RelativeSteps :
       content' = IF state = "RECORDING" /\ QuantizeStep(relative_steps) \in Steps
                  THEN Own ELSE content
  /\ \/ UNCHANGED <<since, late, stretched, heard>>
     \/ state = "TAP_TEMPO" /\ Retimed /\ stretched' = TRUE
  /\ UNCHANGED <<state, current_step, ghost_bar_counter, fill, unrenewed, looped,
                 styleVars, bar_group>>

ClearAlways == Empty
ClearSelectedStyle == IF style_group > -1 THEN Empty ELSE content

\* Joystick down with blue: record, on empty tracks if a style is selected.
Record ==
  /\ enable_midi_drums /\ ~style_started
  /\ state' = "RECORDING"
  /\ content' = ClearSelectedStyle
  /\ fill' = (fill /\ style_group = -1)
  /\ style_group' = -1
  /\ current_step' = 0
  /\ heard' = None
  /\ unrenewed' = 0
  /\ UNCHANGED <<ghost_bar_counter, looped, enable_midi_drums, style_started,
                 style_section, held, since, late, stretched, bar_group>>

\* Joystick down with orange: tap the tempo.
TapTempoMode ==
  /\ enable_midi_drums /\ ~style_started
  /\ state' = "TAP_TEMPO"
  /\ unrenewed' = 0
  /\ UNCHANGED <<current_step, ghost_bar_counter, content, fill, looped, styleVars,
                 pressVars, bar_group>>

\* Joystick up with frets, and the keyboard's tempo knob: set_tempo.  The step
\* under way keeps its length, the timer being armed.
ChangeTempo ==
  /\ Retimed
  /\ stretched' = TRUE
  /\ UNCHANGED <<looperVars, styleVars, held, bar_group>>

\* The style button, and the menu button.
SelectSection ==
  /\ style_section' \in Sections
  /\ UNCHANGED <<looperVars, enable_midi_drums, style_started, style_group, pressVars, bar_group>>
SelectGroup ==
  /\ style_group' \in Groups
  /\ UNCHANGED <<looperVars, enable_midi_drums, style_started, style_section, pressVars, bar_group>>

\* config_guitar(3) switches the drums, and clears the tracks when it
\* switches them off; config_guitar(18) resets every device.
SwitchDrums ==
  /\ enable_midi_drums' = ~enable_midi_drums
  /\ content' = IF enable_midi_drums THEN Empty ELSE content
  /\ fill' = (fill /\ ~enable_midi_drums)
  /\ UNCHANGED <<state, current_step, ghost_bar_counter, unrenewed, looped,
                 style_started, style_group, style_section, pressVars, bar_group>>
ResetPreferences ==
  /\ enable_midi_drums' = FALSE
  /\ UNCHANGED <<looperVars, style_started, style_group, style_section, pressVars, bar_group>>

Handler ==
  \/ StartStop
  \/ \E fretted \in BOOLEAN : StrumPress(fretted)
  \/ StrumRelease
  \/ Record
  \/ TapTempoMode
  \/ ChangeTempo
  \/ SelectSection
  \/ SelectGroup
  \/ SwitchDrums
  \/ ResetPreferences

Next == Tick \/ Handler

Spec == Init /\ [][Next]_vars

-----------------------------------------------------------------------------
(* Properties.                                                             *)

TypeOK ==
  /\ enable_midi_drums \in BOOLEAN
  /\ style_started \in BOOLEAN
  /\ style_group \in Groups \cup {-1}
  /\ style_section \in Sections
  /\ state \in {"WAITING", "PLAYING", "RECORDING", "TAP_TEMPO"}
  /\ current_step \in Steps
  /\ ghost_bar_counter \in 0 .. IntervalBar - 1
  /\ content \in Contents
  /\ fill \in BOOLEAN
  /\ held \in BOOLEAN
  /\ since \in Distances
  /\ late \in BOOLEAN
  /\ stretched \in BOOLEAN
  /\ heard \in Steps \cup {None}
  /\ bar_group \in Groups \cup {None, -1}
  /\ unrenewed \in 0 .. IntervalBar + 1
  /\ looped \in BOOLEAN

\* Whatever was played, recorded or switched before, playing never reaches the
\* middle of a bar without having played that bar's beginning.
PlaysFromBarStart ==
  state = "PLAYING" /\ ~IsBarStart(current_step) => bar_group # None

\* A bar is played to its end with the style group it began with, whatever the
\* musician selects or records meanwhile (or silent, if the drums were switched
\* off and on again).
PlaysWhatBarOpened ==
  state = "PLAYING" /\ bar_group >= 0 /\ ~IsBarStart(current_step) =>
    \E s \in 0 .. TableStyles - 1 : content \in {Style(bar_group, s), Empty}

\* A recording without a style group is kept over every start, stop, further
\* recording and tempo change; only switching the drums off clears it.
RecordingKept ==
  [][content = Own /\ style_group = -1 => content' = Own \/ ~enable_midi_drums']_vars

\* A drum hit released within a loop of its press is recorded at the step
\* nearest to the press, unless the sequence jumped or the tempo changed in
\* between: looper_quantize_step divides the time gone by by the present step
\* period, so that a tempo set after the press moves the hit.
HitRecordedWhereHeard ==
  heard # None /\ since < TotalSteps =>
    \A relative_steps \in RelativeSteps : QuantizeStep(relative_steps) = heard

\* The bar counter against the bar of the loop.  Ghost notes are created, and
\* fills generated, only where the first bar has an even count.
Phase == (ghost_bar_counter + current_step \div BarSteps) % 2

\* Playing never shifts the bar counter against the loop.
PhaseKept == [][state = "PLAYING" /\ state' = "PLAYING" => Phase' = Phase]_vars

\* In phase, ghost notes are renewed within the interval, wherever in its
\* cycle the counter was when playing began.
RenewedInPhase == state = "PLAYING" /\ Phase = 0 => unrenewed < IntervalBar

\* Fills are cleared at the loop's first step only, and a stop, a recording or
\* a start keeps them.  Yet from the second loop on a fill is heard in the third
\* and fourth bar of the interval and nowhere else: what an earlier playing
\* left behind lasts to the end of the first loop.
FillEndsInterval ==
  state = "PLAYING" /\ fill /\ looped =>
    ghost_bar_counter = IntervalBar - 2 + current_step \div BarSteps

\* wiki/5.4-ghost-note-generation.md: ghost notes are regenerated every
\* interval_bar bars.
GhostsRenewed == unrenewed < IntervalBar

\* wiki/7-user-interface.md: the quantized step is 0 to 31 (at one tempo).
QuantizedInLoop ==
  state = "RECORDING" /\ held /\ since # None =>
    \A relative_steps \in RelativeSteps : QuantizeStep(relative_steps) \in Steps
=============================================================================
