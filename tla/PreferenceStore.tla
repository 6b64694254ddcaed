--------------------------- MODULE PreferenceStore ---------------------------
(***************************************************************************)
(* What the preferences promise: a save, which takes its time, stores for  *)
(* every preference a value it had while the save went on; what is stored  *)
(* is what a controller that connects restores; and power lost outside a   *)
(* save leaves it alone.                                                   *)
(***************************************************************************)
CONSTANTS
  Fields,    \* the preferences
  Values,    \* what a preference may hold
  Default    \* what they hold before anything is restored

VARIABLES
  choice,   \* the preferences in force
  store,    \* the preferences stored: the set of them, which is empty at first
  connected,
  saving,
  held      \* what each preference has held since the save began

vars == <<choice, store, connected, saving, held>>

NotHeld == [f \in Fields |-> {}]

Init ==
  /\ choice = Default
  /\ store = {}
  /\ connected = FALSE
  /\ saving = FALSE
  /\ held = NotHeld

\* A save under way may or may not see what the preferences become.
Noted ==
  /\ held' = [f \in Fields |-> IF saving THEN held[f] \cup {choice'[f]} ELSE {}]
  /\ UNCHANGED <<store, saving>>

Choose == choice' \in [Fields -> Values] /\ Noted /\ UNCHANGED connected

Connect ==
  /\ ~connected /\ connected' = TRUE
  /\ choice' \in store \/ (store = {} /\ choice' = choice)
  /\ Noted

Disconnect ==
  /\ connected /\ connected' = FALSE
  /\ UNCHANGED <<choice, store, saving, held>>

BeginSave ==
  /\ ~saving
  /\ saving' = TRUE
  /\ held' = [f \in Fields |-> {choice[f]}]
  /\ UNCHANGED <<choice, store, connected>>

Commit ==
  /\ saving
  /\ UNCHANGED <<choice, connected, saving, held>>
  /\ \E new \in [Fields -> Values] :
       /\ \A f \in Fields : new[f] \in held[f]
       /\ store' = {new}

EndSave ==
  /\ saving
  /\ saving' = FALSE
  /\ held' = NotHeld
  /\ UNCHANGED <<choice, store, connected>>

\* The board starts anew: power lost in a save may cost all or some of it.
Restart ==
  /\ choice' = Default
  /\ connected' = FALSE
  /\ saving' = FALSE
  /\ held' = NotHeld
  /\ \/ store' = store
     \/ saving /\ store' = {}
     \/ saving /\ \E torn \in [Fields -> Values] : store' = {torn}

Next == Choose \/ Connect \/ Disconnect \/ BeginSave \/ Commit \/ EndSave \/ Restart

Spec == Init /\ [][Next]_vars

=============================================================================
