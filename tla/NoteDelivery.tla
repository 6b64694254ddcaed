---------------------------- MODULE NoteDelivery ----------------------------
(***************************************************************************)
(* What the note scheduler promises to the looper, without slots, workers  *)
(* or scans: an accepted note waits, becomes ready when its time comes     *)
(* unless Capacity notes are ready already, and ready notes are performed  *)
(* first in, first out.                                                    *)
(***************************************************************************)
EXTENDS Integers, Sequences, SequencesExt

CONSTANTS
  Notes,     \* the notes the looper may schedule
  Capacity   \* ready notes the scheduler can hold

VARIABLES
  waiting,   \* accepted notes whose time has not come
  ready,     \* notes whose time has come, oldest first
  performed  \* notes performed so far

deliveryVars == <<waiting, ready, performed>>

Init ==
  /\ waiting = {}
  /\ ready = <<>>
  /\ performed = <<>>

Accept(n) ==
  /\ n \notin waiting \cup ToSet(ready) \cup ToSet(performed)
  /\ waiting' = waiting \cup {n}
  /\ UNCHANGED <<ready, performed>>

Ripen(n) ==
  /\ n \in waiting
  /\ waiting' = waiting \ {n}
  /\ ready' = IF Len(ready) < Capacity THEN Append(ready, n) ELSE ready
  /\ UNCHANGED performed

Perform ==
  /\ ready # <<>>
  /\ performed' = Append(performed, Head(ready))
  /\ ready' = Tail(ready)
  /\ UNCHANGED waiting

Next == (\E n \in Notes : Accept(n) \/ Ripen(n)) \/ Perform

\* What may happen to a note.
Safety == Init /\ [][Next]_deliveryVars

\* Nothing is promised about when the looper schedules.
Spec ==
  /\ Safety
  /\ \A n \in Notes : WF_deliveryVars(Ripen(n))
  /\ WF_deliveryVars(Perform)
=============================================================================
