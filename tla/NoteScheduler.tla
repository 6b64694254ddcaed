--------------------------- MODULE NoteScheduler ---------------------------
(***************************************************************************)
(* note_scheduler.c: 24 slots hold notes that wait for their time, 24      *)
(* pending entries hold notes whose time has come, and the main loop plays *)
(* the pending entries.                                                    *)
(*                                                                         *)
(* Execution contexts.  Callbacks of the async_context (the looper's tick, *)
(* Bluetooth reports, the workers of the slots) run in an interrupt of     *)
(* core 0, one at a time, holding the context's lock: context Async.  They *)
(* interrupt the main loop of core 0 (context Main) but not its critical   *)
(* sections, which mask interrupts.  Core 1 (USB host) is any other member *)
(* of Callers and runs at any time.  Only the pending entries are under    *)
(* the critical section: note_scheduler_schedule_note looks for a free     *)
(* slot, writes it and links its worker in three unprotected steps.        *)
(*                                                                         *)
(* A note is its serial number, 1..issued; 0 is "none": a slot whose       *)
(* worker.do_work is NULL, a pending entry that is not valid.  Times are   *)
(* abstracted: a linked worker may fire at any moment.                     *)
(***************************************************************************)
EXTENDS Integers, Sequences, FiniteSets

CONSTANTS
  MAX_SCHEDULED_NOTES,  \* number of slots, and of pending entries (24)
  MaxNotes,             \* bound: calls of note_scheduler_schedule_note
  Callers,              \* contexts that schedule notes
  Async,                \* the async_context on core 0
  Main,                 \* the main loop on core 0
  Tick                  \* the at-time worker of looper_handle_tick

Slots == 1 .. MAX_SCHEDULED_NOTES

ASSUME SchedulerAssumption ==
  /\ MAX_SCHEDULED_NOTES \in Nat \ {0}
  /\ MaxNotes \in Nat
  /\ Async \in Callers
  /\ Async # Main
  /\ Tick \notin Slots

VARIABLES
  slot,      \* scheduled_slots: the note of each slot, 0 while it is free
  armed,     \* workers linked in the async_context
  callback,  \* the callback the async_context is running
  pc,        \* where each caller is in note_scheduler_schedule_note
  arg,       \* the note each caller is scheduling
  found,     \* the free slot each caller has found
  issued,    \* notes handed to note_scheduler_schedule_note so far
  pending,   \* pending_notes: the note of each entry, 0 if not valid
  dispatch,  \* index of the dispatch loop, 0 outside its critical section
  queued,    \* history: notes in the order they became pending
  played,    \* history: notes in the order they were played
  refused,   \* history: notes for which the call returned false
  dropped    \* history: notes whose worker found no free pending entry

callVars    == <<pc, arg, found, issued>>
pendingVars == <<pending, dispatch, queued, played, dropped>>
vars == <<slot, armed, callback, callVars, refused, pendingVars>>

\* Entries of an array that hold no note, and where a scan for one stops.
FreeUnchecked(f) == Slots
Free(f) == {i \in Slots : f[i] = 0}
LastOf(S) == CHOOSE i \in S : \A j \in S : j <= i
First(S) == CHOOSE i \in S : \A j \in S : i <= j

\* async_context_add_at_time_worker: a worker already linked stays linked.
LinkedNot(w) == armed
Linked(w) == armed \cup {w}

\* A caller runs unless its context is not running or is interrupted.
CanRun(c) ==
  /\ c = Async => callback # "none"
  /\ c = Main  => callback = "none" /\ dispatch = 0

\* The interrupt of the async_context can be taken.
CanInterrupt == callback = "none" /\ dispatch = 0

Init ==
  /\ slot     = [i \in Slots |-> 0]
  /\ armed    = {Tick}
  /\ callback = "none"
  /\ pc       = [c \in Callers |-> "idle"]
  /\ arg      = [c \in Callers |-> 0]
  /\ found    = [c \in Callers |-> 0]
  /\ issued   = 0
  /\ pending  = [i \in Slots |-> 0]
  /\ dispatch = 0
  /\ queued   = <<>>
  /\ played   = <<>>
  /\ refused  = {}
  /\ dropped  = {}

-----------------------------------------------------------------------------
(* The async_context.                                                      *)

\* looper_handle_tick starts; the context has unlinked its worker.
TickFires ==
  /\ CanInterrupt
  /\ Tick \in armed
  /\ armed' = armed \ {Tick}
  /\ callback' = "tick"
  /\ UNCHANGED <<slot, callVars, refused, pendingVars>>

\* A Bluetooth report enters the gamepad handler.
InputArrives ==
  /\ CanInterrupt
  /\ callback' = "input"
  /\ UNCHANGED <<slot, armed, callVars, refused, pendingVars>>

\* The callback returns; looper_handle_tick links its worker again.
CallbackReturns ==
  /\ callback # "none"
  /\ pc[Async] = "idle"
  /\ armed' = IF callback = "tick" THEN Linked(Tick) ELSE armed
  /\ callback' = "none"
  /\ UNCHANGED <<slot, callVars, refused, pendingVars>>

WorkerKeepsSlot(i) ==
  /\ CanInterrupt /\ i \in armed /\ Free(pending) # {}
  /\ armed' = armed \ {i}
  /\ pending' = [pending EXCEPT ![First(Free(pending))] = slot[i]]
  /\ queued' = Append(queued, slot[i])
  /\ UNCHANGED <<slot, dropped, callback, callVars, refused, dispatch, played>>

\* note_worker_enqueue_pending, all of it inside the critical section: the
\* first free pending entry takes the note; with none free the note is gone.
\* The slot is free again in both cases.
WorkerFires(i) ==
  /\ CanInterrupt
  /\ i \in armed
  /\ slot[i] # 0
  /\ armed' = armed \ {i}
  /\ slot' = [slot EXCEPT ![i] = 0]
  /\ \/ /\ Free(pending) # {}
        /\ pending' = [pending EXCEPT ![First(Free(pending))] = slot[i]]
        /\ queued' = Append(queued, slot[i])
        /\ UNCHANGED dropped
     \/ /\ Free(pending) = {}
        /\ dropped' = dropped \cup {slot[i]}
        /\ UNCHANGED <<pending, queued>>
  /\ UNCHANGED <<callback, callVars, refused, dispatch, played>>

-----------------------------------------------------------------------------
(* note_scheduler_schedule_note, called by context c.                      *)

Call(c) ==
  /\ CanRun(c)
  /\ pc[c] = "idle"
  /\ issued < MaxNotes
  /\ issued' = issued + 1
  /\ arg' = [arg EXCEPT ![c] = issued + 1]
  /\ pc' = [pc EXCEPT ![c] = "find"]
  /\ UNCHANGED <<slot, armed, callback, found, refused, pendingVars>>

\* The scan reads do_work of each slot and stops at the first that is NULL.
FindSlot(c) ==
  /\ CanRun(c)
  /\ pc[c] = "find"
  /\ \/ /\ Free(slot) # {}
        /\ found' = [found EXCEPT ![c] = First(Free(slot))]
        /\ pc' = [pc EXCEPT ![c] = "claim"]
        /\ UNCHANGED <<arg, refused>>
     \/ /\ Free(slot) = {}
        /\ refused' = refused \cup {arg[c]}
        /\ arg' = [arg EXCEPT ![c] = 0]
        /\ pc' = [pc EXCEPT ![c] = "idle"]
        /\ UNCHANGED found
  /\ UNCHANGED <<slot, armed, callback, issued, pendingVars>>

ClaimWithoutWorker(c) ==
  /\ CanRun(c) /\ pc[c] = "claim"
  /\ pc' = [pc EXCEPT ![c] = "link"]
  /\ UNCHANGED <<slot, armed, callback, arg, found, issued, refused,
                 pendingVars>>

\* The struct assignment also clears the worker's link.  If another caller
\* has linked this worker meanwhile, the list now ends here: the workers that
\* were behind it, any of the others, are no longer linked.
ClaimSlot(c) ==
  /\ CanRun(c)
  /\ pc[c] = "claim"
  /\ slot' = [slot EXCEPT ![found[c]] = arg[c]]
  /\ \/ found[c] \notin armed /\ UNCHANGED armed
     \/ /\ found[c] \in armed
        /\ \E behind \in SUBSET (armed \ {found[c]}) : armed' = armed \ behind
  /\ pc' = [pc EXCEPT ![c] = "link"]
  /\ UNCHANGED <<callback, arg, found, issued, refused, pendingVars>>

\* async_context_add_at_time_worker_at takes the context's lock; a worker
\* that is already linked is left where it is.
LinkWorker(c) ==
  /\ CanRun(c)
  /\ c # Async => callback = "none"
  /\ pc[c] = "link"
  /\ armed' = Linked(found[c])
  /\ pc' = [pc EXCEPT ![c] = "idle"]
  /\ arg' = [arg EXCEPT ![c] = 0]
  /\ found' = [found EXCEPT ![c] = 0]
  /\ UNCHANGED <<slot, callback, issued, refused, pendingVars>>

-----------------------------------------------------------------------------
(* note_scheduler_dispatch_pending, called by the main loop.               *)

DispatchBegins ==
  /\ CanInterrupt
  /\ Main \in Callers => pc[Main] = "idle"
  /\ dispatch' = 1
  /\ UNCHANGED <<slot, armed, callback, callVars, refused,
                 pending, queued, played, dropped>>

NextEntryUnbounded(i) == i + 1
NextEntry(i) == IF i = MAX_SCHEDULED_NOTES THEN 0 ELSE i + 1

\* One turn of the loop; the critical section ends with the last one.
DispatchEntry ==
  /\ dispatch # 0
  /\ \/ /\ pending[dispatch] # 0
        /\ played' = Append(played, pending[dispatch])
        /\ pending' = [pending EXCEPT ![dispatch] = 0]
     \/ /\ pending[dispatch] = 0
        /\ UNCHANGED <<played, pending>>
  /\ dispatch' = NextEntry(dispatch)
  /\ UNCHANGED <<slot, armed, callback, callVars, refused, queued, dropped>>

-----------------------------------------------------------------------------

ScheduleStep(c) == Call(c) \/ FindSlot(c) \/ ClaimSlot(c) \/ LinkWorker(c)

Next ==
  \/ TickFires
  \/ InputArrives
  \/ CallbackReturns
  \/ \E i \in Slots : WorkerFires(i)
  \/ \E c \in Callers : ScheduleStep(c)
  \/ DispatchBegins
  \/ DispatchEntry

Spec == Init /\ [][Next]_vars

\* A pending interrupt is taken as soon as interrupts are unmasked, and the
\* tick is armed at least 1 ms ahead (looper.c:433), so that the main loop
\* runs between callbacks: strong fairness for both.
Fairness ==
  /\ \A i \in Slots : SF_vars(WorkerFires(i))
  /\ SF_vars(TickFires)
  /\ WF_vars(CallbackReturns)
  /\ \A c \in Callers : WF_vars(FindSlot(c) \/ ClaimSlot(c) \/ LinkWorker(c))
  /\ SF_vars(DispatchBegins)
  /\ WF_vars(DispatchEntry)

FairSpec == Spec /\ Fairness

-----------------------------------------------------------------------------
(* Properties.                                                             *)

NoteOrNone == 0 .. MaxNotes

\* The shape of the scheduler's state.  A caller has a note in hand exactly
\* while it is in note_scheduler_schedule_note, and a slot once it found one.
TypeOK ==
  /\ slot \in [Slots -> NoteOrNone]
  /\ armed \subseteq Slots \cup {Tick}
  /\ callback \in {"none", "tick", "input"}
  /\ pc \in [Callers -> {"idle", "find", "claim", "link"}]
  /\ arg \in [Callers -> NoteOrNone]
  /\ found \in [Callers -> {0} \cup Slots]
  /\ \A c \in Callers : arg[c] = 0 <=> pc[c] = "idle"
  /\ \A c \in Callers : found[c] = 0 <=> pc[c] \in {"idle", "find"}
  /\ issued \in NoteOrNone
  /\ pending \in [Slots -> NoteOrNone]
  /\ dispatch \in {0} \cup Slots
  /\ queued \in Seq(1 .. MaxNotes)
  /\ played \in Seq(1 .. MaxNotes)
  /\ refused \subseteq 1 .. MaxNotes
  /\ dropped \subseteq 1 .. MaxNotes

\* The async_context never calls a NULL do_work: every slot whose worker is
\* linked holds a note (note_scheduler.c:61 sets NULL when a worker fires).
ArmedWorkersCallable == \A i \in armed \ {Tick} : slot[i] # 0

\* The looper's own timer is never lost: its worker is linked unless
\* looper_handle_tick is running.
TickNeverLost == Tick \in armed \/ callback = "tick"

\* No slot is taken for good: the worker of a taken slot is linked, or the
\* caller that took it is about to link it.
NoSlotLeaked ==
  \A i \in Slots : slot[i] # 0 =>
    i \in armed \/ \E c \in Callers : pc[c] = "link" /\ found[c] = i

\* Where note n is now.
Held(n)    == \E c \in Callers : arg[c] = n /\ pc[c] \in {"find", "claim"}
Waiting(n) == \E i \in Slots : slot[i] = n
Queued(n)  == \E k \in DOMAIN queued : queued[k] = n

\* No accepted note is overwritten or forgotten before its time: every note
\* handed to the scheduler is still with its caller, refused, waiting in a
\* slot, or has left the slot as pending or dropped.
NoteAccounted ==
  \A n \in 1 .. issued :
    Held(n) \/ n \in refused \/ Waiting(n) \/ Queued(n) \/ n \in dropped

\* No note is performed twice, whether from two slots or from two entries.
NoNoteTwice ==
  /\ \A i, j \in Slots : slot[i] = slot[j] /\ slot[i] # 0 => i = j
  /\ \A i, j \in DOMAIN queued : queued[i] = queued[j] => i = j
  /\ \A i \in Slots : slot[i] # 0 => ~Queued(slot[i])

\* The notes that became pending and are not played yet occupy a contiguous
\* run of entries, in the order in which they became pending, that starts
\* where the dispatch loop stands.
RunStart == IF dispatch = 0 THEN 1 ELSE dispatch
RunLength == Len(queued) - Len(played)
PendingRun ==
  /\ RunLength \in 0 .. MAX_SCHEDULED_NOTES - RunStart + 1
  /\ \A i \in Slots :
       pending[i] = IF i >= RunStart /\ i < RunStart + RunLength
                    THEN queued[Len(played) + i - RunStart + 1]
                    ELSE 0

\* Notes are played in exactly the order in which their workers fired, though
\* pending_notes is an array scanned by index and not a queue.
PlayedInOrder ==
  /\ Len(played) <= Len(queued)
  /\ \A k \in 1 .. Len(played) : played[k] = queued[k]

\* Every accepted note is eventually played or dropped: none waits for ever.
AcceptedNoteSettles ==
  \A n \in 1 .. MaxNotes :
    Waiting(n) ~> (n \in dropped \/ \E k \in DOMAIN played : played[k] = n)

-----------------------------------------------------------------------------
(* The scheduler as an implementation of NoteDelivery.                     *)

WaitingNotes == {slot[i] : i \in Slots} \ {0}

\* The notes that became pending and are not played; PendingRun says that
\* they are the valid entries in index order.
ReadyNotes == SubSeq(queued, Len(played) + 1, Len(queued))

Delivery == INSTANCE NoteDelivery WITH
  Notes     <- 1 .. MaxNotes,
  Capacity  <- MAX_SCHEDULED_NOTES,
  waiting   <- WaitingNotes,
  ready     <- ReadyNotes,
  performed <- played

\* The scheduler keeps the promise: as long as only the async_context
\* schedules notes, slots, scans and workers behave like NoteDelivery, and
\* every waiting note ripens and every ready note is performed.
ImplementsDelivery == Delivery!Spec
=============================================================================
