-------------------------- MODULE PreferencesProofs --------------------------
(***************************************************************************)
(* Proofs about Preferences, for every set of flags: the snapshot of a     *)
(* save, and that storage.c implements PreferenceStore.  The invariant     *)
(* notes that a field's present value is among those it has held since the *)
(* save began, which is why copying it keeps SnapshotHeld.                 *)
(***************************************************************************)
EXTENDS Preferences, TLAPS

PresentHeld == Saving => \A f \in Fields : prefs[f] \in held[f]

HeldOutsideSaves == ~Saving => held = NotHeld

SaveInv == TypeOK /\ SnapshotHeld /\ PresentHeld /\ HeldOutsideSaves
            /\ (main = "polling" => copied = {})

LEMMA BytesType ==
  /\ Default \in [Flags \cup {Pc} -> Byte]
  /\ Blank \in [Fields -> Byte]
  /\ NotHeld \in [Fields -> SUBSET Byte]
  /\ Fields \subseteq Flags \cup {Pc}
  /\ \A f \in Fields : Default[f] \subseteq Erased(f) /\ Blank[f] = Erased(f)
BY DEF Default, Blank, NotHeld, Fields, Byte, Erased, On, Off, Electric, Pc

\* Bluetooth callbacks and core 1 change the preferences and note it.
LEMMA BecomesKeeps ==
  ASSUME SaveInv, NEW new \in [Flags \cup {Pc} -> Byte],
         \A f \in Fields : new[f] \subseteq Erased(f),
         Becomes(new), UNCHANGED <<main, stack, flash>>,
         enable_style_play' \in BOOLEAN, preferences_changed' \in BOOLEAN,
         connected' \in BOOLEAN
  PROVE  SaveInv'
<1>1. Fields \subseteq Flags \cup {Pc}
  BY BytesType
<1>2. held' \in [Fields -> SUBSET Byte]
  BY <1>1 DEF Becomes, SaveInv, TypeOK
<1>3. TypeOK'
  BY <1>2 DEF SaveInv, TypeOK, Becomes, stack, flash
<1>4. SnapshotHeld'
  BY DEF SaveInv, SnapshotHeld, TypeOK, Becomes, Saving, stack, flash
<1>5. PresentHeld' /\ HeldOutsideSaves'
  BY DEF SaveInv, PresentHeld, HeldOutsideSaves, NotHeld, Becomes, Saving
<1> QED
  BY <1>3, <1>4, <1>5 DEF SaveInv, stack

LEMMA PressKeeps ==
  ASSUME SaveInv, NEW new \in [Flags \cup {Pc} -> Byte],
         \A f \in Fields : new[f] \subseteq Erased(f),
         NEW style \in BOOLEAN, NEW changed \in BOOLEAN, Press(new, style, changed)
  PROVE  SaveInv'
BY BecomesKeeps DEF Press, SaveInv, TypeOK

\* A toggled flag keeps the shape of the preferences.
LEMMA ToggleShape ==
  ASSUME TypeOK, NEW f \in Flags \cup {Pc}, NEW b \in Byte, f \in Fields => b \subseteq Erased(f)
  PROVE  /\ [prefs EXCEPT ![f] = b] \in [Flags \cup {Pc} -> Byte]
         /\ \A g \in Fields : [prefs EXCEPT ![f] = b][g] \subseteq Erased(g)
BY BytesType DEF TypeOK

LEMMA FlagBytes ==
  /\ On \in Byte /\ Off \in Byte /\ Acoustic \in Byte /\ Electric \in Byte
  /\ \A f \in Fields : On \subseteq Erased(f) /\ Off \subseteq Erased(f)
  /\ Acoustic \subseteq Erased(Pc) /\ Electric \subseteq Erased(Pc)
BY DEF On, Off, Acoustic, Electric, Byte, Erased, Fields, Pc

LEMMA BluetoothKeeps == SaveInv /\ Bluetooth => SaveInv'
<1> SUFFICES ASSUME SaveInv, Bluetooth PROVE SaveInv'
  OBVIOUS
<1>0. TypeOK
  BY DEF SaveInv
<1>1. ASSUME NEW f \in Flags, \/ ToggleStyle(f) \/ ToggleSampler(f) PROVE SaveInv'
  <2>1. Not(f) \in Byte /\ (f \in Fields => Not(f) \subseteq Erased(f))
    BY FlagBytes DEF Not
  <2>2. /\ [prefs EXCEPT ![f] = Not(f)] \in [Flags \cup {Pc} -> Byte]
        /\ \A g \in Fields : [prefs EXCEPT ![f] = Not(f)][g] \subseteq Erased(g)
    BY <1>0, <2>1, ToggleShape
  <2>3. Is(f) \in BOOLEAN /\ preferences_changed \in BOOLEAN
    BY <1>0 DEF Is, TypeOK
  <2> QED
    BY <1>1, <2>2, <2>3, PressKeeps DEF ToggleStyle, ToggleSampler
<1>2. CASE ToggleGuitar
  <2> DEFINE guitar == IF prefs[Pc] = Electric THEN Acoustic ELSE Electric
  <2>1. guitar \in Byte /\ guitar \subseteq Erased(Pc)
    BY FlagBytes
  <2>2. /\ [prefs EXCEPT ![Pc] = guitar] \in [Flags \cup {Pc} -> Byte]
        /\ \A g \in Fields : [prefs EXCEPT ![Pc] = guitar][g] \subseteq Erased(g)
    BY <1>0, <2>1, ToggleShape
  <2>3. Press([prefs EXCEPT ![Pc] = guitar], TRUE, preferences_changed)
    BY <1>2, <1>0 DEF ToggleGuitar, TypeOK
  <2> QED
    BY <1>0, <2>2, <2>3, PressKeeps DEF TypeOK
<1>3. CASE GuitarFx \/ SavePreferences \/ ToggleChords
  BY <1>0, <1>3, PressKeeps DEF GuitarFx, SavePreferences, ToggleChords, TypeOK
<1>4. CASE ResetPreferences
  BY <1>0, <1>4, BytesType, PressKeeps DEF ResetPreferences, TypeOK
<1>5. CASE ToggleMpxDrums
  <2> DEFINE drums == Not("mpx_drums")
  <2>1. drums \in Byte /\ ("mpx_drums" \in Fields => drums \subseteq Erased("mpx_drums"))
    BY FlagBytes DEF Not
  <2>2. /\ [prefs EXCEPT !["mpx_drums"] = drums] \in [Flags \cup {Pc} -> Byte]
        /\ \A g \in Fields : [prefs EXCEPT !["mpx_drums"] = drums][g] \subseteq Erased(g)
    BY <1>0, <1>5, <2>1, ToggleShape DEF ToggleMpxDrums
  <2> QED
    BY <1>0, <1>5, <2>2, PressKeeps DEF ToggleMpxDrums, TypeOK
<1>6. CASE DeviceReady
  <2>1. Load \in [Flags \cup {Pc} -> Byte] /\ \A f \in Fields : Load[f] \subseteq Erased(f)
    BY <1>0, BytesType DEF Load, TypeOK
  <2> QED
    BY <1>0, <1>6, <2>1, BecomesKeeps DEF DeviceReady, TypeOK
<1>7. CASE Disconnected
  BY <1>7 DEF Disconnected, SaveInv, TypeOK, SnapshotHeld, PresentHeld, HeldOutsideSaves,
              Saving, stack, flash
<1> QED
  BY <1>1, <1>2, <1>3, <1>4, <1>5, <1>6, <1>7 DEF Bluetooth

LEMMA Core1Keeps == SaveInv /\ Core1 => SaveInv'
<1> SUFFICES ASSUME SaveInv, NEW f \in Flags, NameReceived(f) PROVE SaveInv'
  BY DEF Core1
<1>1. TypeOK
  BY DEF SaveInv
<1>2. /\ [prefs EXCEPT ![f] = On] \in [Flags \cup {Pc} -> Byte]
      /\ \A g \in Fields : [prefs EXCEPT ![f] = On][g] \subseteq Erased(g)
  BY <1>1, FlagBytes, ToggleShape
<1> QED
  BY <1>1, <1>2, BecomesKeeps DEF NameReceived, TypeOK

LEMMA RestartsKeeps ==
  ASSUME SaveInv, Restarts, magic' \in BOOLEAN, page' \in [Fields -> Byte],
         \A f \in Fields : page'[f] \subseteq Erased(f)
  PROVE  SaveInv'
BY BytesType
   DEF SaveInv, TypeOK, SnapshotHeld, PresentHeld, HeldOutsideSaves, Saving, Restarts

LEMMA MainLoopKeeps == SaveInv /\ MainLoop => SaveInv'
<1> SUFFICES ASSUME SaveInv, MainLoop PROVE SaveInv'
  OBVIOUS
<1> USE DEF SaveInv, SnapshotHeld, PresentHeld, HeldOutsideSaves, Saving
<1>0. TypeOK
  OBVIOUS
<1>1. CASE StoreBegins
  <2>1. held' = [f \in Fields |-> {prefs[f]}] /\ held' \in [Fields -> SUBSET Byte]
    BY <1>0, <1>1, BytesType DEF StoreBegins, TypeOK
  <2> QED
    BY <1>0, <1>1, <2>1 DEF StoreBegins, TypeOK, stack, flash
<1>2. ASSUME NEW f \in Fields, CopyField(f) PROVE SaveInv'
  <2>1. prefs[f] \in Byte /\ prefs[f] \in held[f] /\ prefs[f] \subseteq Erased(f)
    BY <1>0, <1>2, BytesType DEF CopyField, TypeOK
  <2>2. TypeOK'
    BY <1>0, <1>2, <2>1 DEF CopyField, TypeOK, ram, flash
  <2> QED
    BY <1>0, <1>2, <2>1, <2>2 DEF CopyField, TypeOK, ram, flash
<1>3. CASE BluetoothDown
  BY <1>0, <1>3 DEF BluetoothDown, TypeOK, ram, stack, flash
<1>4. CASE Erase
  BY <1>0, <1>4, BytesType DEF Erase, TypeOK, ram, stack
<1>5. CASE Program
  <2>1. page' \in [Fields -> Byte] /\ \A f \in Fields : page'[f] \subseteq Erased(f)
    BY <1>0, <1>5 DEF Program, TypeOK, Byte
  <2> QED
    BY <1>0, <1>5, <2>1, BytesType DEF Program, TypeOK, ram, stack
<1>6. CASE Reboot
  BY <1>0, <1>6, RestartsKeeps DEF Reboot, flash, TypeOK
<1> QED
  BY <1>1, <1>2, <1>3, <1>4, <1>5, <1>6 DEF MainLoop

LEMMA PowerKeeps == SaveInv /\ Power => SaveInv'
<1> SUFFICES ASSUME SaveInv, Power PROVE SaveInv'
  OBVIOUS
<1>0. TypeOK
  BY DEF SaveInv
<1>1. CASE PowerCycle
  BY <1>0, <1>1, RestartsKeeps DEF PowerCycle, flash, TypeOK
<1>2. CASE CutInErase
  <2>1. magic' \in BOOLEAN /\ page' \in [Fields -> Byte]
        /\ \A f \in Fields : page'[f] \subseteq Erased(f)
    BY <1>2, BytesType DEF CutInErase, Torn, Between
  <2> QED
    BY <1>2, <2>1, RestartsKeeps DEF CutInErase
<1>3. CASE CutInProgram
  <2>1. magic' \in BOOLEAN /\ page' \in [Fields -> Byte]
        /\ \A f \in Fields : page'[f] \subseteq Erased(f)
    BY <1>0, <1>3, BytesType DEF CutInProgram, Torn, Between, TypeOK
  <2> QED
    BY <1>3, <2>1, RestartsKeeps DEF CutInProgram
<1> QED
  BY <1>1, <1>2, <1>3 DEF Power

LEMMA SaveInvariant == Spec => []SaveInv
<1>1. Init => SaveInv
  BY BytesType DEF Init, SaveInv, TypeOK, SnapshotHeld, PresentHeld, HeldOutsideSaves, Saving
<1>2. SaveInv /\ [Next]_vars => SaveInv'
  <2>1. SaveInv /\ UNCHANGED vars => SaveInv'
    BY DEF vars, ram, stack, flash, SaveInv, TypeOK, SnapshotHeld, PresentHeld,
           HeldOutsideSaves, Saving
  <2> QED
    BY <2>1, BluetoothKeeps, Core1Keeps, MainLoopKeeps, PowerKeeps DEF Next
<1> QED
  BY <1>1, <1>2, PTL DEF Spec

\* Whatever comes between the reads of a save, and wherever the power fails,
\* the flags, the page and the main loop keep their shape (Preferences.TypeOK).
THEOREM PreferencesTypeOK == Spec => []TypeOK
<1>1. SaveInv => TypeOK
  BY DEF SaveInv
<1> QED
  BY <1>1, SaveInvariant, PTL

\* The snapshot of a save has of every preference a value it held since the save
\* began, though callbacks and core 1 ran between the reads, and it is programmed
\* into blank flash (storage.c:54-103).
THEOREM SnapshotsAreHeld == Spec => []SnapshotHeld
<1>1. SaveInv => SnapshotHeld
  BY DEF SaveInv
<1> QED
  BY <1>1, SaveInvariant, PTL

-----------------------------------------------------------------------------
(* The refinement.  The stored preferences are the page, from the erase on  *)
(* the snapshot that is being programmed.                                   *)

stored == IF main = "programming" THEN {storage} ELSE IF magic THEN {page} ELSE {}
choice == [f \in Fields |-> prefs[f]]

\* A press or a detection is a choice, noted as PreferenceStore notes it.
LEMMA BecomesNoted ==
  ASSUME NEW new, Becomes(new), UNCHANGED <<main, stack, flash>>
  PROVE  Store!Noted
<1>1. held' = [f \in Fields |-> IF Saving THEN held[f] \cup {choice'[f]} ELSE {}]
  BY DEF choice, Becomes
<1>2. UNCHANGED <<stored, Saving>>
  BY DEF stored, Saving, stack, flash
<1> QED
  BY <1>1, <1>2 DEF Store!Noted, choice, stored

LEMMA BecomesChooses ==
  ASSUME SaveInv, NEW new \in [Flags \cup {Pc} -> Byte], Becomes(new),
         UNCHANGED <<main, stack, flash, connected>>
  PROVE  Store!Choose
<1>1. choice' \in [Fields -> Byte]
  BY BytesType DEF choice, Becomes
<1>2. Store!Noted
  BY BecomesNoted
<1> QED
  BY <1>1, <1>2 DEF Store!Choose, choice

\* A controller that connects restores what is stored, if anything is.
LEMMA ReadyConnects == ASSUME SaveInv, DeviceReady PROVE Store!Connect
<1>1. Store!Noted
  BY BecomesNoted DEF DeviceReady
<1>2. prefs' = Load /\ main \in {"polling", "copying"}
  BY DEF DeviceReady, Becomes, BluetoothUp
<1>3. CASE magic
  <2>1. choice' = page /\ stored = {page}
    BY <1>2, <1>3, BytesType DEF choice, stored, Load, SaveInv, TypeOK
  <2> QED
    BY <1>1, <2>1 DEF Store!Connect, DeviceReady, choice, stored
<1>4. CASE ~magic
  <2>1. choice' = choice /\ stored = {}
    BY <1>2, <1>4, BytesType DEF choice, stored, Load, SaveInv, TypeOK
  <2> QED
    BY <1>1, <2>1 DEF Store!Connect, DeviceReady, choice, stored
<1> QED
  BY <1>3, <1>4

LEMMA BluetoothRefines == SaveInv /\ Bluetooth => [Store!Next]_(Store!vars)
<1> SUFFICES ASSUME SaveInv, Bluetooth PROVE [Store!Next]_(Store!vars)
  OBVIOUS
<1>0. TypeOK
  BY DEF SaveInv
<1>1. ASSUME NEW new \in [Flags \cup {Pc} -> Byte], NEW style, NEW changed,
             Press(new, style, changed)
      PROVE  Store!Next
  BY <1>1, BecomesChooses DEF Press, Store!Next
<1>2. ASSUME NEW f \in Flags, \/ ToggleStyle(f) \/ ToggleSampler(f) PROVE Store!Next
  <2>1. [prefs EXCEPT ![f] = Not(f)] \in [Flags \cup {Pc} -> Byte]
    BY <1>0, FlagBytes DEF Not, TypeOK
  <2> QED
    BY <1>1, <1>2, <2>1 DEF ToggleStyle, ToggleSampler
<1>3. CASE ToggleGuitar
  <2>1. [prefs EXCEPT ![Pc] = IF @ = Electric THEN Acoustic ELSE Electric]
          \in [Flags \cup {Pc} -> Byte]
    BY <1>0, FlagBytes DEF TypeOK
  <2> QED
    BY <1>1, <1>3, <2>1 DEF ToggleGuitar
<1>4. CASE GuitarFx \/ SavePreferences \/ ToggleChords
  BY <1>0, <1>1, <1>4 DEF GuitarFx, SavePreferences, ToggleChords, TypeOK
<1>5. CASE ResetPreferences
  BY <1>1, <1>5, BytesType DEF ResetPreferences
<1>6. CASE ToggleMpxDrums
  <2>1. [prefs EXCEPT !["mpx_drums"] = Not("mpx_drums")] \in [Flags \cup {Pc} -> Byte]
    BY <1>0, FlagBytes DEF Not, TypeOK
  <2> QED
    BY <1>1, <1>6, <2>1 DEF ToggleMpxDrums
<1>7. CASE DeviceReady
  BY <1>7, ReadyConnects DEF Store!Next
<1>8. CASE Disconnected
  <2>1. UNCHANGED <<choice, stored, Saving, held>>
    BY <1>8 DEF Disconnected, choice, stored, Saving, stack, flash
  <2> QED
    BY <1>8, <2>1 DEF Disconnected, Store!Disconnect, Store!Next, choice, stored
<1> QED
  BY <1>2, <1>3, <1>4, <1>5, <1>6, <1>7, <1>8 DEF Bluetooth

LEMMA Core1Refines == SaveInv /\ Core1 => Store!Next
<1> SUFFICES ASSUME SaveInv, NEW f \in Flags, NameReceived(f) PROVE Store!Next
  BY DEF Core1
<1>1. [prefs EXCEPT ![f] = On] \in [Flags \cup {Pc} -> Byte]
  BY FlagBytes DEF SaveInv, TypeOK
<1> QED
  BY <1>1, BecomesChooses DEF NameReceived, Store!Next

\* A restart takes the choice back to its default and ends a save.
LEMMA RestartsRefine ==
  ASSUME Restarts,
         \/ stored' = stored
         \/ Saving /\ stored' = {}
         \/ Saving /\ \E torn \in [Fields -> Byte] : stored' = {torn}
  PROVE  Store!Next
<1>1. /\ choice' = [f \in Fields |-> Default[f]] /\ Saving' = FALSE /\ held' = NotHeld
      /\ connected' = FALSE
  BY BytesType DEF Restarts, choice, Saving
<1>2. Store!Restart
  BY <1>1 DEF Store!Restart, Store!NotHeld, NotHeld, choice, stored
<1> QED
  BY <1>2 DEF Store!Next

LEMMA MainLoopRefines == SaveInv /\ MainLoop => [Store!Next]_(Store!vars)
<1> SUFFICES ASSUME SaveInv, MainLoop PROVE [Store!Next]_(Store!vars)
  OBVIOUS
<1>0. TypeOK
  BY DEF SaveInv
<1>1. CASE StoreBegins
  <2>1. ~Saving /\ Saving' /\ UNCHANGED <<choice, stored, connected>>
    BY <1>1 DEF StoreBegins, Saving, choice, stored, stack, flash
  <2>2. held' = [f \in Fields |-> {choice[f]}]
    BY <1>1 DEF StoreBegins, choice
  <2>3. Store!BeginSave
    BY <2>1, <2>2 DEF Store!BeginSave, choice, stored
  <2> QED
    BY <2>3 DEF Store!Next
<1>2. CASE (\E f \in Fields : CopyField(f)) \/ BluetoothDown
  <2>1. UNCHANGED <<choice, stored, connected, Saving, held>>
    BY <1>2 DEF CopyField, BluetoothDown, choice, stored, Saving, ram, stack, flash
  <2> QED
    BY <2>1 DEF Store!vars, choice, stored
<1>3. CASE Erase
  <2>1. Saving /\ UNCHANGED <<choice, connected, Saving, held>> /\ stored' = {storage}
    BY <1>3 DEF Erase, Saving, choice, stored, ram, stack
  <2>2. storage \in [Fields -> Byte] /\ \A f \in Fields : storage[f] \in held[f]
    BY <1>3 DEF Erase, SaveInv, TypeOK, SnapshotHeld, Saving
  <2>3. Store!Commit
    BY <2>1, <2>2 DEF Store!Commit, choice, stored
  <2> QED
    BY <2>3 DEF Store!Next
<1>4. CASE Program
  <2>1. page' = storage
    <3>1. \A f \in Fields : page[f] \cap storage[f] = storage[f]
      BY <1>4, BytesType DEF Program, SaveInv, SnapshotHeld, Saving
    <3> QED
      BY <1>0, <1>4, <3>1 DEF Program, TypeOK
  <2>2. Saving /\ held' = NotHeld /\ UNCHANGED <<choice, connected>> /\ stored' = stored
    BY <1>4, <2>1 DEF Program, Saving, choice, stored, ram, stack
  <2>3. Saving' = FALSE
    BY <1>4 DEF Program, Saving
  <2>4. Store!EndSave
    BY <2>2, <2>3 DEF Store!EndSave, Store!NotHeld, NotHeld, choice, stored
  <2> QED
    BY <2>4 DEF Store!Next
<1>5. CASE Reboot
  <2>1. stored' = stored
    BY <1>5 DEF Reboot, Restarts, stored, flash
  <2> QED
    BY <1>5, <2>1, RestartsRefine DEF Reboot
<1> QED
  BY <1>1, <1>2, <1>3, <1>4, <1>5 DEF MainLoop

LEMMA PowerRefines == SaveInv /\ Power => Store!Next
<1> SUFFICES ASSUME SaveInv, Power PROVE Store!Next
  OBVIOUS
<1>1. CASE PowerCycle
  <2>1. stored' = stored
    BY <1>1 DEF PowerCycle, Restarts, stored, flash
  <2> QED
    BY <1>1, <2>1, RestartsRefine DEF PowerCycle
<1>2. ASSUME Saving, Restarts, NEW pages \in SUBSET [Fields -> Byte], Torn(pages)
      PROVE  Store!Next
  <2>1. stored' = {} \/ (page' \in [Fields -> Byte] /\ stored' = {page'})
    BY <1>2 DEF Restarts, Torn, stored
  <2> QED
    BY <1>2, <2>1, RestartsRefine
<1>3. CASE CutInErase
  BY <1>2, <1>3 DEF CutInErase, Saving
<1>4. CASE CutInProgram
  BY <1>2, <1>4 DEF CutInProgram, Saving
<1> QED
  BY <1>1, <1>3, <1>4 DEF Power

\* storage.c implements PreferenceStore for every set of flags, with callbacks
\* and core 1 between its reads and power failing anywhere: what the flash holds
\* after a save are values the preferences had while it went on, a connecting
\* controller restores them, and only a power loss while it is written harms them.
THEOREM StorageImplementsStore == Spec => ImplementsStore
<1>1. Init => Store!Init
  BY BytesType DEF Init, Store!Init, Store!NotHeld, NotHeld, Saving
<1>2. SaveInv /\ [Next]_vars => [Store!Next]_(Store!vars)
  <2>1. SaveInv /\ UNCHANGED vars => UNCHANGED Store!vars
    BY DEF vars, ram, stack, flash, Store!vars, Saving
  <2> QED
    BY <2>1, BluetoothRefines, Core1Refines, MainLoopRefines, PowerRefines DEF Next
<1> QED
  BY <1>1, <1>2, SaveInvariant, PTL DEF Spec, ImplementsStore, Store!Spec

=============================================================================
