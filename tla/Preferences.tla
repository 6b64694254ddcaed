----------------------------- MODULE Preferences -----------------------------
(***************************************************************************)
(* The operating modes and where they are kept: config_guitar and          *)
(* on_device_ready of pico_bluetooth.c, the USB host's name_received_cb    *)
(* and the end of the main loop in main.c, and storage.c.                  *)
(*                                                                         *)
(* The main loop of core 0 saves one step at a time.  Callbacks of the     *)
(* async_context interrupt it while the Bluetooth chip is up, and core 1   *)
(* recognises samplers meanwhile, but not while the flash it runs from is  *)
(* being written: what it does then is undefined, and a restart follows.   *)
(*                                                                         *)
(* A byte is the set of its bits that are one, of those that tell its      *)
(* values apart: the guitar programs 25 and 26 differ in bits 0 and 1; bit *)
(* 0 of a flag stands for all of them, since any one makes it true.        *)
(* Erasing sets bits, programming clears them.  The MIDI messages that the *)
(* config_ functions send are left out.  LoadShifted, LoadCrossed,         *)
(* EraseSkipped and RebootFed are defects that the properties detect.      *)
(***************************************************************************)
EXTENDS Naturals

CONSTANT Flags   \* the enable_ flags of the instruments at hand

Styles   == {"seqtrak", "nanobox_tangerine", "arranger_mode", "ample_guitar",
             "midi_drums", "modx"}
Samplers == {"synth", "sp404mk2", "mpc_sample", "mpx_looper", "wav_trigger_pro"}
Unsaved  == {"wav_trigger_pro", "mpx_drums"}
Detected == {"wav_trigger_pro", "mpx_looper", "mpc_sample", "nanobox_tangerine"}

ASSUME PreferencesAssumption == Flags \subseteq Styles \cup Samplers \cup {"mpx_drums"}

Pc      == "guitar_pc_code"
Fields  == (Flags \ Unsaved) \cup {Pc}   \* preferences[0] to preferences[10]
Byte    == SUBSET {0, 1}
Erased(f) == IF f = Pc THEN {0, 1} ELSE {0}
Off     == {}
On      == {0}
Acoustic == {0}
Electric == {1}
Default == [f \in Flags \cup {Pc} |-> IF f = Pc THEN Electric ELSE Off]

VARIABLES
  prefs,                \* the flags and guitar_pc_code in RAM
  enable_style_play,
  preferences_changed,
  connected,            \* a guitar is connected
  main,                 \* where the main loop is
  storage,              \* the page on the stack of storage_store_preferences
  copied,               \* the fields copied to it
  magic, page,          \* the flash: whether it begins with GHST, and the fields
  held                  \* history: what each field has held since the save began

ram   == <<prefs, enable_style_play, preferences_changed, connected>>
stack == <<storage, copied>>
flash == <<magic, page>>
vars  == <<ram, main, stack, flash, held>>

Is(f)   == f \in Flags /\ prefs[f] # Off
Not(f)  == IF prefs[f] = Off THEN On ELSE Off
Saving  == main \in {"copying", "erasing", "programming"}
NotHeld == [f \in Fields |-> {}]
Blank   == [f \in Fields |-> Erased(f)]

Init ==
  /\ prefs = Default /\ enable_style_play = FALSE
  /\ preferences_changed = FALSE /\ connected = FALSE
  /\ main = "polling"
  /\ storage = Blank /\ copied = {}
  /\ magic = FALSE /\ page = Blank
  /\ held = NotHeld

\* The preferences become new, noted for the save under way.
Becomes(new) ==
  /\ prefs' = new
  /\ held' = [f \in Fields |-> IF Saving THEN held[f] \cup {new[f]} ELSE {}]

-----------------------------------------------------------------------------
(* Bluetooth callbacks *)

BluetoothUp == main \in {"polling", "copying"}

Press(new, style, changed) ==
  /\ connected /\ BluetoothUp
  /\ Becomes(new)
  /\ enable_style_play' = style
  /\ preferences_changed' = changed
  /\ UNCHANGED <<connected, main, stack, flash>>

\* Modes 1, 2, 3, 5, 14 and 19: style play goes with the flag.
ToggleStyle(f) ==
  Press([prefs EXCEPT ![f] = Not(f)], ~Is(f), preferences_changed)

\* Modes 4, 10, 11, 12 and 13: style play goes against the flag.
ToggleSampler(f) ==
  Press([prefs EXCEPT ![f] = Not(f)], Is(f), preferences_changed)

FxBlocked == Is("nanobox_tangerine") \/ Is("wav_trigger_pro")

\* Mode 6.
ToggleGuitar ==
  /\ ~FxBlocked
  /\ Press([prefs EXCEPT ![Pc] = IF @ = Electric THEN Acoustic ELSE Electric],
           TRUE, preferences_changed)

\* Modes 7, 8 and 9.
GuitarFx == ~FxBlocked /\ Press(prefs, TRUE, preferences_changed)

\* Mode 18.
ResetPreferences == Press(Default, enable_style_play, TRUE)

\* Mode 17.
SavePreferences == Press(prefs, enable_style_play, TRUE)

\* The config button without a fret.
ToggleMpxDrums ==
  /\ Is("mpx_looper") /\ "mpx_drums" \in Flags
  /\ Press([prefs EXCEPT !["mpx_drums"] = Not("mpx_drums")],
           enable_style_play, preferences_changed)

\* Yellow and orange under but6.
ToggleChords ==
  /\ \A f \in Samplers : ~Is(f)
  /\ Press(prefs, ~enable_style_play, preferences_changed)

LoadShifted ==
  [f \in Flags \cup {Pc} |-> IF magic /\ f \in Fields THEN page[Pc] ELSE prefs[f]]
LoadCrossed ==
  [f \in Flags \cup {Pc} |-> IF ~(magic /\ f \in Fields) THEN prefs[f]
                           ELSE IF f = "mpx_looper" THEN page["nanobox_tangerine"]
                           ELSE page[f]]

\* storage_load_preferences: the flags the page does not hold stay as they are.
Load == [f \in Flags \cup {Pc} |-> IF magic /\ f \in Fields THEN page[f] ELSE prefs[f]]

\* A controller connects and is ready, at startup or again.
DeviceReady ==
  /\ ~connected /\ BluetoothUp
  /\ connected' = TRUE
  /\ Becomes(Load)
  /\ enable_style_play' = (\E f \in Styles \cap Flags : Load[f] # Off)
  /\ UNCHANGED <<preferences_changed, main, stack, flash>>

Disconnected ==
  /\ connected /\ BluetoothUp
  /\ connected' = FALSE
  /\ UNCHANGED <<prefs, enable_style_play, preferences_changed, main, stack, flash, held>>

-----------------------------------------------------------------------------
(* Core 1 *)

\* A sampler, or a keyboard that stands for the WAV Trigger, is plugged in.
NameReceived(f) ==
  /\ f \in Detected
  /\ main \notin {"erasing", "programming"}
  /\ Becomes([prefs EXCEPT ![f] = On])
  /\ UNCHANGED <<enable_style_play, preferences_changed, connected, main, stack, flash>>

-----------------------------------------------------------------------------
(* The main loop of core 0 *)

StoreBegins ==
  /\ main = "polling" /\ preferences_changed
  /\ preferences_changed' = FALSE
  /\ main' = "copying"
  /\ held' = [f \in Fields |-> {prefs[f]}]
  /\ UNCHANGED <<prefs, enable_style_play, connected, stack, flash>>

\* The compiler is free to read the fields in any order.
CopyField(f) ==
  /\ main = "copying" /\ f \notin copied
  /\ storage' = [storage EXCEPT ![f] = prefs[f]]
  /\ copied' = copied \cup {f}
  /\ UNCHANGED <<ram, main, flash, held>>

\* cyw43_arch_deinit
BluetoothDown ==
  /\ main = "copying" /\ copied = Fields
  /\ main' = "erasing"
  /\ UNCHANGED <<ram, stack, flash, held>>

EraseSkipped ==
  /\ main = "erasing"
  /\ main' = "programming"
  /\ UNCHANGED <<ram, stack, flash, held>>

Erase ==
  /\ main = "erasing"
  /\ magic' = FALSE /\ page' = Blank
  /\ main' = "programming"
  /\ UNCHANGED <<ram, stack, held>>

\* flash_range_program, which can but clear bits, and cyw43_arch_init
Program ==
  /\ main = "programming"
  /\ magic' = TRUE
  /\ page' = [f \in Fields |-> page[f] \cap storage[f]]
  /\ main' = "stored" /\ held' = NotHeld
  /\ UNCHANGED <<ram, stack>>

\* The board starts anew with the flash as it is.
Restarts ==
  /\ prefs' = Default /\ enable_style_play' = FALSE
  /\ preferences_changed' = FALSE /\ connected' = FALSE
  /\ main' = "polling"
  /\ storage' = Blank /\ copied' = {}
  /\ held' = NotHeld

RebootFed == main = "stored" /\ BluetoothUp /\ Restarts /\ UNCHANGED flash

\* The watchdog ends the loop that follows the save.
Reboot == main = "stored" /\ Restarts /\ UNCHANGED flash

-----------------------------------------------------------------------------
(* Power *)

\* Power lost while the flash is idle.
PowerCycle ==
  /\ main \notin {"erasing", "programming"}
  /\ Restarts
  /\ UNCHANGED flash

Between(low, high) == {b \in Byte : low \subseteq b /\ b \subseteq high}

\* Without the magic word nothing reads the fields, and a save erases them.
Torn(pages) ==
  \/ magic' = TRUE /\ page' \in pages
  \/ magic' = FALSE /\ page' = Blank

\* Power lost while bits are being set: some are.
CutInErase ==
  /\ main = "erasing"
  /\ Torn({p \in [Fields -> Byte] :
             \A f \in Fields : p[f] \in Between(page[f], Erased(f))})
  /\ Restarts

\* Power lost while bits are being cleared: some are.
CutInProgram ==
  /\ main = "programming"
  /\ Torn({p \in [Fields -> Byte] :
             \A f \in Fields : p[f] \in Between(page[f] \cap storage[f], page[f])})
  /\ Restarts

-----------------------------------------------------------------------------
Bluetooth ==
  \/ \E f \in Flags \cap Styles : ToggleStyle(f)
  \/ \E f \in Flags \cap Samplers : ToggleSampler(f)
  \/ ToggleGuitar \/ GuitarFx \/ ToggleMpxDrums \/ ToggleChords
  \/ ResetPreferences \/ SavePreferences
  \/ DeviceReady \/ Disconnected

Core1 == \E f \in Flags : NameReceived(f)

MainLoop ==
  \/ StoreBegins
  \/ \E f \in Fields : CopyField(f)
  \/ BluetoothDown \/ Erase \/ Program \/ Reboot

Power == PowerCycle \/ CutInErase \/ CutInProgram

Next == Bluetooth \/ Core1 \/ MainLoop \/ Power

\* The main loop polls for ever; musicians, samplers and power do as they like.
Spec == Init /\ [][Next]_vars /\ WF_vars(MainLoop)

-----------------------------------------------------------------------------
(* Properties *)

\* Every variable keeps its type; no byte in RAM has bits its field never sets.
TypeOK ==
  /\ prefs \in [Flags \cup {Pc} -> Byte]
  /\ \A f \in Fields : prefs[f] \subseteq Erased(f)
  /\ enable_style_play \in BOOLEAN /\ preferences_changed \in BOOLEAN
  /\ connected \in BOOLEAN
  /\ main \in {"polling", "copying", "erasing", "programming", "stored"}
  /\ storage \in [Fields -> Byte] /\ copied \subseteq Fields
  /\ magic \in BOOLEAN
  /\ page \in [Fields -> Byte]
  /\ \A f \in Fields : page[f] \subseteq Erased(f)
  /\ held \in [Fields -> SUBSET Byte]

\* When the flash is programmed it is blank, and the page on the stack, which
\* handlers and core 1 ran between the reads of, has of every preference a value
\* that it held since the save began (storage.c:75-100).
SnapshotHeld ==
  /\ main \in {"erasing", "programming"} => copied = Fields
  /\ main = "programming" => page = Blank
  /\ Saving => \A f \in copied : storage[f] \in held[f] /\ storage[f] \subseteq Erased(f)

\* The erase is where the new preferences take the place of the old.
Store == INSTANCE PreferenceStore WITH
  Fields <- Fields,
  Values <- Byte,
  Default <- [f \in Fields |-> Default[f]],
  choice <- [f \in Fields |-> prefs[f]],
  store  <- IF main = "programming" THEN {storage}
            ELSE IF magic THEN {page} ELSE {},
  saving <- Saving,
  connected <- connected,
  held   <- held

\* storage.c implements PreferenceStore: what the flash holds after a save is
\* one value of each preference that it had while the save went on, a controller
\* that connects restores that, and power lost at any other time leaves it.
ImplementsStore == Store!Spec

\* A request to save is followed by a restart, which resumes polling without
\* one, even if it comes while an earlier one is being served.
SaveRestarts == preferences_changed ~> (main = "polling" /\ ~preferences_changed)

=============================================================================
