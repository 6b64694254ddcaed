# Orinayo-pico: specification, model checking and proofs

Orinayo-pico is firmware for a Raspberry Pi Pico 2 W. It turns a Bluetooth
guitar controller and a MIDI keyboard into a performance instrument: it strums
chords on synthesizers, sequences drums, and drives devices that play loops.
This directory holds TLA+ modules translated from its C code, the TLC
configurations that check them on small instances, and theorems about them that
TLAPS checks for every value of the constants. `PROJECT.json` maps every
definition to the lines it stands for.

    tlc -config SchedulerBluetooth.cfg MCNoteScheduler.tla
    tlapm NoteSchedulerProofs.tla

## 1. The system

### Components

| component | state | operations | interacts with | must hold |
|---|---|---|---|---|
| note scheduler (`note_scheduler.c`) | slots with one-shot workers, `pending_notes`, a critical section | schedule a note, worker fires, main loop dispatches | called by looper, auto-strum and gamepad handler; workers belong to the async_context of core 0 | no note lost before its time, played twice or out of order; every note settles; no worker called without `do_work` |
| looper (`looper.c`) | transport state, step, 14 tracks, quantization times | step tick, record, quantize, copy a style | re-arms its own timer; the gamepad handler writes its state; calls ghost notes and the scheduler | playing opens on a bar; a bar keeps its style; hits land where they were heard |
| ghost notes (`ghost_note.c`) | bar counter, ghost and fill parameters and notes | maintenance at each step, three generators | called from the looper's tick | ghost notes and fills are renewed every four bars |
| tap tempo (`tap_tempo.c`) | run of time stamps, tempo | one event handler | button events in, tempo to the looper | no tempo over a pause; tempo in 40 to 240 |
| gamepad handler (`pico_bluetooth.c`) | buttons, their latches, `finished_processing` | one call, one edge | called by the Bluetooth callbacks of a guitar and of a Liberlive (`uni_bt_le.c`) and by the MIDI parser | not re-entered; no press taken twice; every button taken for what it is in the end |
| strum and auto-strum (`pico_bluetooth.c`) | memories of the notes started, pattern, mode flags | strum down, release, tick of the auto-strum, selectors | gamepad handler, looper tick | every note started can be stopped |
| sampler loops (`pico_bluetooth.c`) | the loop last started per track, mute flags, start and end requests | chord, fill, break, mute, start, stop, end | gamepad handler, MIDI input, the device | what plays is what can be stopped; the end silences |
| MIDI input (`main.c`) | running status, data count, held notes, detected chord | one byte | USB host on core 1, UART on core 0; calls the gamepad handler | held notes are the keys that are down; a chord is made of them |
| operating modes (`config_guitar`) | about twenty `enable_` flags | toggle one, save, reset, detect a sampler | read by all of the above; set by callbacks and by core 1 | what is saved are values the flags had |
| preferences (`storage.c`) | one flash sector | store, load | main loop, then a watchdog reboot | what is restored is what was saved; only power lost while the flash is written harms it |
| USB host and device callbacks, MIDI output, display, BLE MIDI, async timer | device indices, flags | mount, unmount, forward, format | | |
| `seqlock.h`, `ring_buffer_lib` | | | no caller in this build | |

Bluepad32, BTstack, TinyUSB, the Pico SDK and `pico_pio_usb` are libraries.
Where their callbacks matter they are modelled from how the code uses them and
marked external in the map.

### Who runs when

Four contexts touch the state:

- the **async_context** of core 0 runs, one at a time, the looper's timer, the
  scheduler's workers and the Bluetooth controller's callbacks. What a callback
  does is one action, unless somebody else can get between its steps;
- the **main loop** of core 0 dispatches pending notes, reads the UART and stores
  preferences; the async_context interrupts it anywhere but in a critical section;
- **core 1** runs the USB host. MIDI bytes received there are parsed, while a sampler is
  enabled, and may call the gamepad handler, and so the scheduler, in parallel with core 0. A chord
  detected triggers loops directly, past `finished_processing`;
- the **devices** (synthesizer, samplers, keyboard) keep a state of their own,
  which the firmware only infers from what it sent or received.

### What is hard here

- Core 1 and the async_context share code that was written for one of them: the
  scheduler's slots, the parser's registers, the latch `finished_processing`.
- Preferences are read one at a time while callbacks change them, and written in
  place, so that an interrupted save leaves neither the old nor the new ones.
- The firmware remembers what it started in a single variable per track or array.
  Each path that overwrites the variable without stopping first leaves sound that
  nothing can stop.
- Several cycles run side by side (step, bar counter, style pattern, strum pattern)
  and handlers restart some of them and not the others.
- The code leaves its handlers by early return after the first edge found; flags
  left set by one path are found by another much later.

The `hazards` of `PROJECT.json` list these at their lines, with the properties
that cover each, or why none does yet.

## 2. The modules

Names are the code's own where TLA+ allows it. Each module states in its header
what it abstracts. Operators with names such as `FreeUnchecked` or `LastOf`
are plausible defects. No specification uses them; each stands before the
definition it would replace, to show that a property notices.

**`NoteScheduler`** has a program counter per caller (`Callers`: the async_context,
the main loop, core 1), because `note_scheduler_schedule_note` scans
(`FindSlot`), claims (`ClaimSlot`) and links (`LinkWorker`) in steps that another
core can interleave. `WorkerFires` and `DispatchEntry` are atomic: the critical
section protects them. `CanInterrupt` and `CanRun` say which context can proceed
while which other one stands. `TickFires` and `CallbackReturns` are the looper's
timer, whose worker is unlinked while it runs. `queued`, `played`, `dropped` and
`refused` are history.

**`NoteDelivery`** is the scheduler's promise without slots or workers: a bounded
set of waiting notes, each of which ripens into a queue, from which notes are
performed in order. `NoteScheduler` instantiates it as `Delivery` with
waiting := notes in slots, ready := notes queued and not played, which `PendingRun` shows
to be the valid pending entries in index order, performed := played. `Delivery!Safety` is
what may happen to a note, `Delivery!Spec` adds that it does happen.

**`Looper`** composes `looper.c`, the bar counter of `ghost_note.c` and the
handlers of `pico_bluetooth.c` that write the looper's state: `Tick` has a
disjunct per state of `looper_process_state`, and each button is an action
(`StartStop`, `StrumPress`, `StrumRelease`, `Record`, `TapTempoMode`, `ChangeTempo`,
`SelectSection`, `SelectGroup`, `SwitchDrums`, `ResetPreferences`). Time is
counted in steps of the tempo: `since` is the age of a press. A tempo set after the press, or between
the last tick and the press (`stretched`), makes it `None`, as the code divides milliseconds
by the step period of the release; `RelativeSteps` is then any number. Of a pattern the model keeps where its contents come from
(`Empty`, `Own`, `Style(g, s)`), not the hits, and of the fill whether there is one
(`fill`): `GhostMaintenance` may create one in the creation bar, the loop's first step
clears it (`ClearsFills`), and so do recording and switching the drums, which clear
the tracks. `pending_fill_request` is left out: nothing sets it. `looped`, `unrenewed`
and `heard` are history.

**`TapTempo`** is `taptempo_handle_event` with a clock: a disjunct per outcome
(`Exit`, `OpenRun`, `Timeout`, `Tap`, `Ignore`) and `calc_bpm` in
integers, with its rounding, its clamp and the zero divisor. `Near` compares tempi as beats
times microseconds, so that the reference needs no division.

**`SamplerLoops`** holds both sides: `old`, what the firmware remembers per track,
and `playing`, what the device plays. WAV Trigger Pro starts and stops by separate
messages; MPC Sample and SP-404 toggle a pad each time its note arrives. The guitar's callbacks
and the keyboard's messages come from two contexts that nothing keeps apart: each `Begins`, and then
`Handles`, `HandlesNothing` or, if the other one had its effect in between, `Overlaps`. The steps
of two overlapping handlings are not taken apart: `overlapped` is set and nothing is claimed any more.

**`Strum`** holds the memories (`old_midinotes`, `mute_midinotes`, `chord_notes`,
`voice_note`) and `sounding`, what the synthesizer sounds. `Report` is one
Bluetooth report on the strum bar, `Tick` one tick of the auto-strum.

**`MidiInput`** is `process_midi_byte` a byte at a time (`RealTimeByte`,
`SystemCommonByte`, `StatusByte`, `FirstDataByte`, `SecondDataByte`,
`OtherDataByte`), the held notes and the calls of chord detection. The keyboard is the
environment: it may or may not omit a status it has sent before, sends a note off
in either of the two ways, and can be unplugged in the middle of a message. `tuh_midi_rx_cb` parses
a byte only if one of four flags is set (`sampler_enabled`), which `ConfigGuitar` changes at any
time, within a message too. `message` is the whole of the message on the wire; `astray` says that a byte was
dropped and no status byte parsed since, `missed` which keys' last change was not taken in or was
misread: history, all three. A keyboard on the UART passes no gate: it is one with `sampler_enabled` all along.

**`ChordDetection`** is `chord_detect` on a set of notes, and the code its result is kept in.
`Chords` states by sets what the nested loops compute. Their order is left out but for the bass,
and `DetectionUnique` proves that it decides nothing else.

**`ChordKeyboard`** is the promise to whoever plays: messages, not bytes. One is under way at most;
heard, it changes the held keys and perhaps the chord, or the key counts as missed. Only while nobody is
`listening`, and from then to the next message that says what it is (`Recover`), may it be
misheard (`Mishear`), for a message about at most one other note. `MidiInput` instantiates it as
`Keyboard`, with listening := `sampler_enabled`.

**`Preferences`** holds the flags of the operating modes in RAM, the flash page and the main
loop, which saves a step at a time: `StoreBegins`, `CopyField` for each field in any order
(the compiler may reorder the reads), `BluetoothDown`, `Erase`, `Program`, `Reboot`.
Bluetooth callbacks (`Bluetooth`: the branches of `config_guitar`, `DeviceReady`,
`Disconnected`) come between any two steps while the chip is up; core 1 recognises samplers
(`NameReceived`), but not while the flash it runs from is written. A byte is the set of
those bits that tell its values apart, so that an erase sets bits, a program clears them, and
power lost in either (`CutInErase`, `CutInProgram`) leaves any mixture of the two, with the
magic word or without (`Torn`). `PowerCycle` is power lost at any other time.

**`PreferenceStore`** is the promise: a save takes its time, commits at one moment,
for each preference, a value it had meanwhile; connecting restores what is
stored; only a restart within a save harms it. The refinement mapping takes the erase for the
commit: while `Program` is outstanding the page on the stack counts as stored.

**`GamepadHandler`** has a `phase` per context (`called`, `tested`, `inside`, `handling`,
`leaving`) for `gamepad_bluetooth_handle_data`, which reads, clears and sets
`finished_processing` in separate steps. `CanRun` says that a callback runs to its end before
the main loop goes on. `ControllerData` writes the buttons of a guitar, whose pad reports 2, 4
and 8 (`Held`); `Paddle` and `PaddleNeutral` are a Liberlive, `Pad` and `ControlButton` a MIDI
keyboard, both of which write 1 and wipe latches. `Scan` takes the first button in `Order` that
differs from its latch, `Handle` latches and handles it. `fresh` is history: the presses
written, as pairs of button and value, which `Handle` spends. What a button does
is in the modules of what it acts on.

`MC*` modules give constants to TLC.

## 3. The runs

| run | question | bounds |
|---|---|---|
| `scheduler_bluetooth` | With the async_context as the only caller: shape, no NULL worker, tick and slots not lost, notes accounted for, once, in a run of entries, played in order; accepted notes settle; the scheduler implements `NoteDelivery` | 2 slots, 5 notes |
| `scheduler_usb_race` (violation) | With core 1 calling too, a worker is called with `do_work` NULL | 2 slots |
| `tap_tempo` | Range, pacing of runs, no slow tempo, the tempo tapped is the tempo kept | 6 events, 5 pauses |
| `looper` | Transport, style changes, recording, quantization, phase, fills | 2 bars of 2 steps, 2 groups, 2 sections |
| `looper_ghosts` (violation) | Ghost notes cease after a stop in the second bar | as `looper` |
| `looper_quantize` (violation) | The quantized step leaves the pattern | as `looper` |
| `sampler` | Memory and device agree; the end silences | 3 devices, 2 contexts, 2 chords, 2 sections |
| `strum` | What sounds can be stopped | 2 chords |
| `midi_input` | Held notes are the keys, their count is right, chords are played; the parser behind its gate implements `ChordKeyboard` | 3 keys, 2 of them missed |
| `preferences` | What is programmed was held; the storage implements `PreferenceStore`; every request ends in a restart | a sampler that is a style, one that is not, a flag that is not stored |
| `gamepad` | The handler is not re-entered, takes no press twice, and settles | guitar, Liberlive and UART; a fret and two buttons |
| `gamepad_strum` (violation) | A pad played while the paddle is held strums again | Liberlive and UART; two buttons |

**Why the bounds are enough.** Two slots suffice for the scheduler to be full, to
reuse a slot while another waits, and to have pending entries before and behind
the dispatch loop; four or five notes go round both arrays more than twice. Two
steps are the shortest bar with a first and a later step, two bars the code's
own loop, and four bars, the interval, are two loops. `LongAgo`, two loops, bounds
the age of a press, which is taken modulo the loop beyond it. Pauses lie on
both sides of the timeout and of the rounding of `calc_bpm`; six events are an
opening click, a run of four taps and one more. Two sections differ in the parity
that chord loops and breaks depend on. Two chords are one to replace and one
to replace it; they are symmetric in `Strum`. Three keys form an A minor over C,
and the velocity of a note is the number of one of them, for which an astray parser may take it. A key is missed
when it was on its way at the wrong moment; two such keys together with one that is heard make a chord, and
`FewMissed` leaves the third aside, and notes that no key has.
The flags of `preferences` are one of each kind that the code treats alike; the guitar's
program is a field of two bits, so that a torn page can hold a value nobody chose. The buttons of
`gamepad` are a fret, which is copied, one that MIDI, Liberlive and guitar all write, the last
with another value, and one that only the last two do; the handler tells buttons apart by
their order alone.

**Constraints.** `WhileCalm` (`sampler`) and `BeforeSlip` (`strum`) cut a behaviour where
the history flags `restarted`, `overlapped` or `slipped` come up: the checked properties claim nothing
beyond. What those flags stand for is described below. `FewMissed` (`midi_input`) is a bound, and the
theorems need none.

**Deadlock** is checked but for `scheduler_usb_race`, where all notes may have been issued, and
the tick lost, so that the system really stops, and `tap_tempo`, where the bound on
events stops it. Elsewhere the tick or the next input always remains.

**Fairness.** In `scheduler_bluetooth` a callback returns, a caller goes on, a
dispatch in progress goes on: weak fairness, as each belongs to a processor that
is never taken away for good. An armed worker fires, the timer fires, the main loop
comes round: strong fairness, as each is enabled again and again and the async_context
serves what is due in order of time. In `preferences` the main loop goes on (weak: nothing
disables it), power may fail and callbacks may come at any time. In `gamepad` callbacks and core 1
go on (weak), the main loop does between callbacks (strong), and a connected guitar keeps
reporting (weak), which Bluetooth controllers do whether or not a button
changes. `Settles` is conditional: from some moment on there are only reports and handler steps,
and the guitar stays connected. Nothing is assumed of the musician otherwise.

### What the violations show

1. **NULL worker** (`note_scheduler.c:74`): the wiki calls the scheduler thread-safe,
   but finding and claiming a slot is outside the critical section.
2. **Ghost notes cease** (`ghost_note.c:325`): stopping in the second bar leaves the
   bar counter odd while the step is reset, and the creation bar never meets step 0.
3. **Quantization** (`looper.c:241`): more than a loop after the press the C remainder
   is negative and becomes an index of 225 to 255 into 32 steps. Up to one loop, at one tempo, it
   is a step, as `QuantizedWithinLoop` proves.
4. **A second strum** (`bluepad32/bt/uni_bt_le.c:1136`): `ll_have_fired` guards the call of the
   handler and not the buttons. A further notification with the paddle still held presses the strum
   and wipes its latch; when a handler called for a MIDI pad then looks, it finds the strum. It takes
   the pad: without one a motion strums once, as `OneStrumWithoutPads` proves.

### Divergences met on the way, without a run of their own

- When no pending entry is free, `note_worker_enqueue_pending` drops the note
  (`note_scheduler.c:53`) where wiki/5-musical-processing.md:296 has it moved to the
  queue. `NoteScheduler` records it in `dropped`.
- `style_started` toggles (`pico_bluetooth.c:1201`) whatever the looper did;
  switching drums between two presses leaves the two opposed, against
  wiki/5.1-main-application-loop.md:128.
- Starting before the requested end is played overwrites the memory of loops that go on
  (`pico_bluetooth.c:1073`). `restarted` in `SamplerLoops` marks it.
- A chord detected on the keyboard calls `trigger_loop` (`main.c:699`), and a note plays the ending
  (`main.c:818`), on core 1 or in the main loop and past `finished_processing`. A callback's chord,
  fill or mute between the stop, the start and the assignment to `*_old_*` leaves two loops playing of
  which one is remembered. `overlapped` in `SamplerLoops` marks it.
- The step of a hit is the time since the press over the step period at the release
  (`looper.c:238`). A tempo set while the strum bar is held, by the joystick, the tap tempo or a
  keyboard's knob, moves the hit, and can move it out of the pattern within one loop.
- Bytes of a USB keyboard are parsed while one of four flags is set (`main.c:1123`), tested for each
  byte. A key released while none is stays held and enters later chords; a message cut by the
  gate is completed with bytes of another, so that a velocity can become a key, up to the next status byte.
- With `enable_auto_hold`, a strum over a held strum leaves the first one sounding
  (`pico_bluetooth.c:1906`), which the comment at `pico_bluetooth.c:890` means to avoid; so does a
  style changed between the auto-strum's note on and its note off. `slipped` in `Strum` marks both.
- wiki/4-bluetooth-input-system.md:549 says `finished_processing` prevents re-entrant processing.
  On core 0 it does, as `HandlerNotReentered` proves; with a USB keyboard on core 1 two contexts pass
  the test together: with `"usb"` in `Contexts`, TLC finds `OneInside` and `NoPressTwice` violated.
- A call that finds the handler busy is discarded (`pico_bluetooth.c:517`), and so is the press,
  unless the button is still down at a later call; a guitar's report overwrites what a MIDI pad has
  written (`main.c:774`) before the handler reads it.
- A guitar holds `dpad_down` with 8, MIDI writes 1: the press is handled again when the next report
  writes 8.
- README.md:18 promises "Pattern persistence"; the calls that would store and load patterns are
  commented out. wiki/4.4-operational-modes.md:20 has preferences loaded at startup; they are
  loaded at every connection of a controller, over what was changed since.
- wiki/5.4-ghost-note-generation.md:471 has fills cleared at the start of every bar; the code clears
  them at the loop's first step, when it is played. A fill outlives a stop and sounds to the
  end of the first loop of the next start. `pending_fill_request` is never set.
- wiki/5.4-ghost-note-generation.md:292 has a boundary note set only where the adjacent step has
  no ghost note; `add_boundary_notes` (`ghost_note.c:192`, `:199`) tests the user note's own step,
  and so overwrites Euclidean ghost notes beside it. Which steps get ghost notes is data that
  `Looper` leaves open.
- MIDI bytes are forwarded to the UART one at a time (`main.c:1105`) between the firmware's own
  messages; a keyboard that uses running status is read under the status sent in between.
- `style_group` runs to 20 in the menus, but `drum_styles` has five entries.
- `rand_sample / 100` (`ghost_note.c:246`) is always 0; the hits counted
  in `pattern_density` (`ghost_note.c:289`) wrap at 256.
- `60 + (cc_value / 127 * 80)` (`main.c`, tempo knob) is 60 or 140 and nothing else.
- Key releases are ignored while the style is stopped (`main.c:763`) and unplugging keeps
  the held notes: keys count as held that nobody presses. On an iRig three such keys
  turn the start button into the fill button. `missed` in `MidiInput` marks them, and those changed while
  the gate was closed or the parser astray.
- wiki/4.4-operational-modes.md calls modes mutually exclusive; `config_guitar` toggles
  the flags independently.
- The comment at `tap_tempo.c:93` counts a tap fewer than the musician makes: the
  first click opens a run and is no tap.

## 4. The proofs

The theorems are in eight modules, each of which extends its component's module.
All rest on the named assumptions about constants alone (finite or natural
parameters, membership in the code's ranges) and on the library's facts about finite sets
and sequences. Some add an assumption on who runs, as they say, and need it: `SoleCallerSafe`,
`NotesAccountedFor` and `SchedulerKeepsPromise` have `Callers = {Async}`, without which
`scheduler_usb_race` refutes the first; `HandlerNotReentered` and `PressesHandledOnce` have core 0
only, and `OneStrumWithoutPads` no MIDI keyboard.

| theorem | says | inductive invariant |
|---|---|---|
| `SchedulerTypeOK` | `[]TypeOK` | `TypeOK` |
| `PendingNotesInARun`, `NotesPlayedInOrder` | the array is a queue; any callers, any number of slots | `OrderInv` |
| `SoleCallerSafe` | no NULL worker, tick and slots kept, for a single caller | `SlotInv` |
| `NotesPerformedOnce`, `NotesPlayedOnce` | no note queued or played twice; any callers | `OnceInv` |
| `NotesAccountedFor` | no note overwritten or forgotten, for a single caller | `LedgerInv` |
| `SchedulerKeepsPromise` | the scheduler implements `Delivery!Safety`, for a single caller | `OrderInv`, `LedgerInv` |
| `TapTempoTypeOK`, `RunsArePaced` | range of the tempo; no run over a pause | `TypeOK /\ RunIsPaced` |
| `NoSlowTempo` | a tempo under 60 needs taps too close to measure | the same, for an action property |
| `TempoIsNear`, `TempoMeasured` | the tempo kept is that of the taps, within one beat | the same |
| `LooperTypeOK` | `[]TypeOK`: the step stays in the pattern | `TypeOK` |
| `BarsPlayedFromStart`, `BarsKeepTheirStyle` | playing opens on a bar; a bar keeps its style | the property with `TypeOK` |
| `PhaseIsKept`, `RecordingIsKept` | what a step may never do | `TypeOK` |
| `GhostsRenewedInPhase` | ghost notes renewed every interval, in phase | `RenewedByCount` |
| `FillsEndIntervals` | from the second loop on, fills end the interval | the property with `TypeOK` |
| `HitsRecordedWhereHeard` | at one tempo, hits land where they were heard | `HeardKnown` |
| `QuantizedWithinLoop` | at one tempo, up to a loop after the press the quantized step is one | `TypeOK` |
| `SamplerTypeOK`, `LoopsAreKnown`, `EndingSilences` | memory and device agree, as long as no style is started over playing loops and no handlings overlap | `IInv`, with `EffectInv` |
| `StrumTypeOK`, `NothingHangs` | what sounds can be stopped | `DueInv` |
| `HeldNotesCounted` | `held_note_count` is the size of the mask | finiteness and the count |
| `KeyboardHeard` | held notes are the keys that are down, or missed | `IInv`, with `WireInv` |
| `MidiInputTypeOK` | `[]TypeOK`: what is decoded is a chord | `IInv`, with `Typed` |
| `DetectionUnique` | at most one shape fits any set of notes | none, it is about `Chords` |
| `ChordsArePlayed` | chords are made of keys that are down or missed | `IInv` |
| `ParserIsTransparent` | `MidiInput` implements `ChordKeyboard` | `IInv` |
| `PreferencesTypeOK`, `SnapshotsAreHeld` | what is programmed was held | `SaveInv` |
| `StorageImplementsStore` | `Preferences` implements `PreferenceStore` | `SaveInv` |
| `GamepadTypeOK` | `[]TypeOK`, core 1 included | `TypeOK` |
| `HandlerNotReentered` | on core 0 nobody enters twice | `LatchInv` |
| `PressesHandledOnce` | on core 0 no press is handled twice | `WrittenInv`, `HandlingInv` |
| `OneStrumWithoutPads` | without MIDI a motion of the paddle strums once | `StrumInv` |

**Order.** `pending_notes` is an array that workers fill at the first free entry and
the main loop empties from the front, so order is not evident. It is inductive only with
`PendingRun`: the entries in use are one contiguous run, which starts where the
dispatch loop stands, so that the first free entry is the end of the queue.
**Sole caller.** `SlotInv` adds what the caller may rely on between its steps: a slot
found is still free when it is claimed, and still taken when it is linked.
With core 1 this is what fails in `scheduler_usb_race`.
**Once.** `OnceInv` says what makes each note unique: slots and queue hold issued notes only, two
calls under way carry different notes, and theirs are in neither before they are claimed (`Unclaimed`). It
survives two contexts claiming the same slot, where a note is overwritten and none is doubled;
`NotesPlayedOnce` carries it to what is played, which `OrderInv` says is the head of the queue.
**Ledger.** `LedgerInv` joins the two: with one caller a claimed slot was free, and so nothing
is overwritten.
**Delivery.** Claiming a slot is `Accept`, a worker `Ripen`, the dispatch loop `Perform`, and
every other step a stutter. `OrderInv` gives the length of the ready notes and their head,
`LedgerInv` that a claimed note is new and that a freed slot held the only copy.
**Looper.** `WhilePlaying` reduces each invariant to three cases: a step that ends in
PLAYING is a tick that was playing, a start, or one that touches none of its variables.
`RenewedByCount` bounds the bars since the last renewal by the bar counter; the lemma `PressQuantized`
says that up to a loop after a press neither C's remainder nor the byte cast changes anything; `HeardKnown`
adds that a press whose place is known has its distance in steps, that is, at one tempo.
**Strum.** `DueInv` names the two places a sounding note can be: in `old_midinotes`, or
in what the style's row started last (`due`); while the auto-strum rests only the first.
**Preferences.** `SaveInv` says that during a save each preference's present value is among those
held; so whatever is copied was held, whenever it is copied.
**Gamepad.** `LatchInv`: a callback in the handler means that the main loop is not, because the
callback tested `finished_processing` and runs to its end. `WrittenInv` says that a pressed button that
differs from its latch has its press in `fresh`, `HandlingInv` that it still does between `Scan` and
`Handle`. `StrumInv` says that nothing was struck in a motion before the handling it called for ends,
and that a handling called for when the paddle comes back finds no button pressed.
**Tap tempo.** `RunIsPaced` bounds each interval by the timeout; `RunSpan` sums them, and
`BpmAtLeast60` carries the sum through the division. For `TempoIsNear` the division is
replaced by the inequalities that define it, and the rounding to milliseconds by the half millisecond it
may cost (`RoundedToMillis`); the tempo is below the number of milliseconds (`BeatsBelowMillis`),
which is why the two errors together stay within a beat.
**Sampler.** `ReplaceKeeps` and `StopKeeps` say that replacing and stopping a loop keep
memory and device together, on both kinds of device; every handler is made of these two. `EffectInv` is what
any handler of either context keeps as long as none is disturbed (`EffectsKeep`); the rest only moves the contexts.
**Keyboard.** `HearsKeyboard` speaks of the moments between messages only.
`WireInv` says what holds in the middle of one: each rest of a message that may be on
the wire comes with the status, count and first data byte the parser must hold unless it is
astray, and all keys but the one the message is about agree. What a byte does to an astray parser is missed,
whatever it is (`AstrayAgrees`), and the next status byte restores the registers (`StatusTaken`).
**Chords.** `DetectionUnique` goes through the pitch classes, of which there are twelve: no two triads have
the same tones, no two sevenths either, and the lowest notes of two pitch classes differ.
`ChordsArePlayed` needs that a chord's tones and bass are among the notes (`ChordAmongNotes`), that
the code can be taken apart again (`CodeDecodes`), and `WireInv` for which keys these are.
**Parser.** What the keyboard puts on the wire is `Press`, `Release` or `Other`; the last byte of a message
is `Hear`, and every byte before it a stutter, or `Recover` where it is the status byte that sets an astray parser
right. A byte dropped or taken by an astray parser is `Mishear`: `ByteDoes` bounds what any byte can do, and
lemma `Mishears` shows it to be one of the abstract outcomes. `WireInv` says which message is under way,
`CountInv` that the iRig's button tells three held keys from fewer.

**Model-checked only.** Liveness (`AcceptedNoteSettles`, `Settles`, `SaveRestarts`) and
`ImplementsDelivery`, which includes fairness: the prover does not reason about `ENABLED`.

## 5. What is not modelled

- The MPX looper and the Nanobox Tangerine as devices (`SamplerLoops` has three of five), and
  switching devices while loops play. `Preferences` has their flags.
- The generators of `ghost_note.c`: their results are data that the looper's
  control does not depend on. The bar counter that times them is modelled.
- The external clock functions of `looper.c` and the pattern functions of
  `storage.c`, which nothing calls, and the button events from HOLD_RELEASE on, which
  are never generated.
- What the gamepad handler does for transpose, volumes and menus of arrangers: messages and
  settings on which nothing else depends. Its other buttons are actions of the modules they act on;
  those modules take a button's handling as one step and leave who called to `GamepadHandler`.
- A second keyboard on the UART, or the second interface of a Launchkey, whose bytes share the parser with
  those of the first, and the forwarding of bytes to the synthesizer.
- What two overlapping handlings leave the loops of a sampler in: that they overlapped is recorded, and
  the properties claim nothing from there on.
- Scanning for, discovering and pairing with controllers, which BTstack and Bluepad32 do.
- MIDI message layouts, descriptors, the display, logging.
- Vendored code. It is nearly all of the repository: TinyUSB with its board support, Bluepad32, and
  the BLE-MIDI and PIO-USB libraries. The map covers about a third of the project's own sources in
  the top-level directory and hardly anything else.

## 6. Plan

What is left, in order:

1. `MidiInput` with two keyboards and with forwarding to the synthesizer, whose own parser
   must stay aligned over muting.
2. `GhostNote`: the Euclidean generator as a recursive function against a reference, and
   the counters at their width.
3. The composition of `GamepadHandler` with `Strum` and `Looper`, so that what a discarded or
   delayed edge does to the notes is checked end to end.
4. `SamplerLoops` with all five devices and with switching them.
