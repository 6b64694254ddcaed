------------------------ MODULE NoteSchedulerProofs ------------------------
(***************************************************************************)
(* Theorems about NoteScheduler, for every number of slots.                *)
(***************************************************************************)
EXTENDS NoteScheduler, SequenceTheorems, WellFoundedInduction, TLAPS

\* First returns the least element of a nonempty set of slot numbers: the
\* entry at which a scan from index 0 stops.
LEMMA FirstIsLeast ==
  ASSUME NEW S, S \subseteq Slots, S # {}
  PROVE  First(S) \in S /\ \A j \in S : First(S) <= j
<1>1. Slots \subseteq Nat
  BY SchedulerAssumption DEF Slots
<1>2. PICK m \in S : \A j \in S : <<j, m>> \notin OpToRel(<, Nat)
  BY <1>1, NatLessThanWellFounded, WFMin, Zenon
<1>3. \A j \in S : ~(j < m)
  BY <1>1, <1>2, Zenon DEF OpToRel
<1>4. \A j \in S : m <= j
  BY <1>1, <1>3
<1> QED
  BY <1>4 DEF First

-----------------------------------------------------------------------------
(* Type correctness.                                                       *)

\* The scheduler's state keeps its shape: slot numbers, indices and note
\* numbers stay in range whoever calls it.
THEOREM SchedulerTypeOK == Spec => []TypeOK
<1>1. Init => TypeOK
  BY SchedulerAssumption DEF Init, TypeOK, NoteOrNone, Slots
<1>2. TypeOK /\ [Next]_vars => TypeOK'
  <2> SUFFICES ASSUME TypeOK, [Next]_vars
               PROVE  TypeOK'
    OBVIOUS
  <2> USE DEF TypeOK
  <2>1. CASE TickFires
    BY <2>1 DEF TickFires, callVars, pendingVars
  <2>2. CASE InputArrives
    BY <2>2 DEF InputArrives, callVars, pendingVars
  <2>3. CASE CallbackReturns
    BY <2>3 DEF CallbackReturns, Linked, callVars, pendingVars
  <2>4. ASSUME NEW i \in Slots, WorkerFires(i)
        PROVE  TypeOK'
    <3>1. slot[i] \in 1 .. MaxNotes
      BY <2>4, SchedulerAssumption DEF WorkerFires, NoteOrNone
    <3>2. slot' \in [Slots -> NoteOrNone]
      BY <2>4, SchedulerAssumption DEF WorkerFires, NoteOrNone
    <3>3. pending' \in [Slots -> NoteOrNone]
      BY <2>4, <3>1 DEF WorkerFires, NoteOrNone
    <3>4. Append(queued, slot[i]) \in Seq(1 .. MaxNotes)
      BY <3>1, AppendProperties
    <3>5. queued' \in Seq(1 .. MaxNotes)
      BY <2>4, <3>4 DEF WorkerFires
    <3>6. dropped' \subseteq 1 .. MaxNotes
      BY <2>4, <3>1 DEF WorkerFires
    <3> QED
      BY <2>4, <3>2, <3>3, <3>5, <3>6 DEF WorkerFires, callVars
  <2>5. ASSUME NEW c \in Callers, ScheduleStep(c)
        PROVE  TypeOK'
    <3>1. CASE Call(c)
      <4>1. issued + 1 \in NoteOrNone /\ issued + 1 # 0
        BY <3>1, SchedulerAssumption DEF Call, NoteOrNone
      <4>2. /\ arg' \in [Callers -> NoteOrNone]
            /\ pc' \in [Callers -> {"idle", "find", "claim", "link"}]
            /\ issued' \in NoteOrNone
        BY <3>1, <4>1 DEF Call
      <4>3. \A d \in Callers : arg'[d] = 0 <=> pc'[d] = "idle"
        BY <3>1, <4>1 DEF Call
      <4>4. \A d \in Callers : found'[d] = 0 <=> pc'[d] \in {"idle", "find"}
        BY <3>1 DEF Call
      <4> QED
        BY <3>1, <4>2, <4>3, <4>4 DEF Call, pendingVars
    <3>2. CASE FindSlot(c)
      <4>1. CASE Free(slot) # {}
        <5>1. First(Free(slot)) \in Slots
          BY <4>1, FirstIsLeast DEF Free
        <5>2. First(Free(slot)) # 0
          BY <5>1 DEF Slots
        <5>3. /\ found' \in [Callers -> {0} \cup Slots]
              /\ pc' \in [Callers -> {"idle", "find", "claim", "link"}]
          BY <3>2, <4>1, <5>1 DEF FindSlot
        <5>4. \A d \in Callers : arg'[d] = 0 <=> pc'[d] = "idle"
          BY <3>2, <4>1 DEF FindSlot
        <5>5. \A d \in Callers : found'[d] = 0 <=> pc'[d] \in {"idle", "find"}
          BY <3>2, <4>1, <5>2 DEF FindSlot
        <5> QED
          BY <3>2, <4>1, <5>3, <5>4, <5>5 DEF FindSlot, pendingVars
      <4>2. CASE Free(slot) = {}
        <5>1. arg[c] \in 1 .. MaxNotes
          BY <3>2, SchedulerAssumption DEF FindSlot, NoteOrNone
        <5>2. /\ refused' \subseteq 1 .. MaxNotes
              /\ pc' \in [Callers -> {"idle", "find", "claim", "link"}]
              /\ arg' \in [Callers -> NoteOrNone]
          <6>1. refused' \subseteq 1 .. MaxNotes
            BY <3>2, <4>2, <5>1 DEF FindSlot
          <6>2. pc' \in [Callers -> {"idle", "find", "claim", "link"}]
            BY <3>2, <4>2 DEF FindSlot
          <6>3. 0 \in NoteOrNone
            BY SchedulerAssumption DEF NoteOrNone
          <6>4. arg' \in [Callers -> NoteOrNone]
            BY <3>2, <4>2, <6>3 DEF FindSlot
          <6> QED
            BY <6>1, <6>2, <6>4
        <5>3. \A d \in Callers : arg'[d] = 0 <=> pc'[d] = "idle"
          BY <3>2, <4>2 DEF FindSlot
        <5>4. \A d \in Callers : found'[d] = 0 <=> pc'[d] \in {"idle", "find"}
          BY <3>2, <4>2 DEF FindSlot
        <5> QED
          BY <3>2, <4>2, <5>2, <5>3, <5>4 DEF FindSlot, pendingVars
      <4> QED
        BY <4>1, <4>2
    <3>3. CASE ClaimSlot(c)
      <4>1. slot' \in [Slots -> NoteOrNone]
        BY <3>3 DEF ClaimSlot
      <4>2. armed' \subseteq Slots \cup {Tick}
        BY <3>3 DEF ClaimSlot
      <4> QED
        BY <3>3, <4>1, <4>2 DEF ClaimSlot, pendingVars
    <3>4. CASE LinkWorker(c)
      <4>1. found[c] \in Slots
        BY <3>4 DEF LinkWorker, Linked
      <4>2. /\ armed' \subseteq Slots \cup {Tick}
            /\ pc' \in [Callers -> {"idle", "find", "claim", "link"}]
            /\ arg' \in [Callers -> NoteOrNone]
            /\ found' \in [Callers -> {0} \cup Slots]
        BY <3>4, <4>1, SchedulerAssumption DEF LinkWorker, Linked, NoteOrNone
      <4>3. \A d \in Callers : arg'[d] = 0 <=> pc'[d] = "idle"
        BY <3>4 DEF LinkWorker, Linked
      <4>4. \A d \in Callers : found'[d] = 0 <=> pc'[d] \in {"idle", "find"}
        BY <3>4 DEF LinkWorker, Linked
      <4> QED
        BY <3>4, <4>2, <4>3, <4>4 DEF LinkWorker, Linked, pendingVars
    <3> QED
      BY <2>5, <3>1, <3>2, <3>3, <3>4 DEF ScheduleStep
  <2>6. CASE DispatchBegins
    BY <2>6, SchedulerAssumption DEF DispatchBegins, callVars, Slots
  <2>7. CASE DispatchEntry
    <3>1. dispatch \in Slots
      BY <2>7 DEF DispatchEntry, NextEntry
    <3>2. dispatch' \in {0} \cup Slots
      BY <2>7, <3>1, SchedulerAssumption DEF DispatchEntry, NextEntry, Slots
    <3>3. pending' \in [Slots -> NoteOrNone]
      BY <2>7, <3>1, SchedulerAssumption DEF DispatchEntry, NextEntry, NoteOrNone
    <3>4. ASSUME pending[dispatch] # 0
          PROVE  Append(played, pending[dispatch]) \in Seq(1 .. MaxNotes)
      <4>1. pending[dispatch] \in 1 .. MaxNotes
        BY <3>1, <3>4, SchedulerAssumption DEF NoteOrNone
      <4> QED
        BY <4>1, AppendProperties
    <3>5. played' \in Seq(1 .. MaxNotes)
      BY <2>7, <3>4 DEF DispatchEntry, NextEntry
    <3> QED
      BY <2>7, <3>2, <3>3, <3>5 DEF DispatchEntry, NextEntry, callVars
  <2>8. CASE UNCHANGED vars
    BY <2>8 DEF vars, callVars, pendingVars
  <2> QED
    BY <2>1, <2>2, <2>3, <2>4, <2>5, <2>6, <2>7, <2>8 DEF Next
<1> QED
  BY <1>1, <1>2, PTL DEF Spec

-----------------------------------------------------------------------------
(* Order of play.  That the notes are played in the order in which their   *)
(* workers fired is not inductive: it rests on where the pending notes sit *)
(* in the array, which PendingRun says.                                    *)

OrderInv == TypeOK /\ PendingRun /\ PlayedInOrder

\* The worker's scan for a free pending entry ends right behind the run.
LEMMA FirstFreeBehindRun ==
  ASSUME TypeOK, PendingRun, dispatch = 0, Free(pending) # {}
  PROVE  /\ RunLength < MAX_SCHEDULED_NOTES
         /\ First(Free(pending)) = RunLength + 1
<1>1. \A i \in Slots : i <= RunLength => pending[i] # 0
  <2> SUFFICES ASSUME NEW i \in Slots, i <= RunLength
               PROVE  pending[i] # 0
    OBVIOUS
  <2>1. /\ Len(played) \in Nat /\ Len(queued) \in Nat
        /\ Len(played) + i \in 1 .. Len(queued)
    BY SchedulerAssumption, LenProperties
    DEF TypeOK, RunLength, Slots, PendingRun
  <2>2. pending[i] = queued[Len(played) + i]
    BY <2>1, SchedulerAssumption DEF PendingRun, RunStart, RunLength, Slots
  <2>3. queued[Len(played) + i] \in 1 .. MaxNotes
    BY <2>1, ElementOfSeq DEF TypeOK
  <2> QED
    BY <2>2, <2>3
<1>2. \A i \in Slots : i > RunLength => pending[i] = 0
  BY SchedulerAssumption, LenProperties
  DEF PendingRun, RunStart, RunLength, Slots, TypeOK
<1>3. RunLength \in 0 .. MAX_SCHEDULED_NOTES
  BY SchedulerAssumption DEF PendingRun, RunStart
<1>4. PICK k \in Slots : pending[k] = 0
  BY DEF Free
<1>5. k > RunLength /\ k <= MAX_SCHEDULED_NOTES
  BY <1>1, <1>3, <1>4, SchedulerAssumption DEF Slots
<1>6. RunLength < MAX_SCHEDULED_NOTES
  BY <1>3, <1>5, SchedulerAssumption DEF Slots
<1>7. RunLength + 1 \in Free(pending)
  BY <1>2, <1>3, <1>6, SchedulerAssumption DEF Free, Slots
<1>8. \A j \in Free(pending) : RunLength + 1 <= j
  BY <1>1, <1>3, SchedulerAssumption DEF Free, Slots
<1>9. First(Free(pending)) \in Free(pending)
      /\ \A j \in Free(pending) : First(Free(pending)) <= j
  BY FirstIsLeast DEF Free
<1> QED
  BY <1>3, <1>6, <1>7, <1>8, <1>9, SchedulerAssumption DEF Free, Slots

LEMMA OrderIsKept == Spec => []OrderInv
<1>1. Init => OrderInv
  <2> SUFFICES ASSUME Init PROVE PendingRun /\ PlayedInOrder /\ TypeOK
    BY DEF OrderInv
  <2>1. TypeOK
    BY SchedulerAssumption DEF Init, TypeOK, NoteOrNone, Slots
  <2>2. Len(queued) = 0 /\ Len(played) = 0
    BY DEF Init
  <2>3. RunLength = 0 /\ RunStart = 1
    BY <2>2 DEF Init, RunLength, RunStart
  <2>4. PendingRun
    BY <2>3, SchedulerAssumption DEF PendingRun, Init, Slots
  <2>5. PlayedInOrder
    BY <2>2 DEF PlayedInOrder
  <2> QED
    BY <2>1, <2>4, <2>5
<1>2. OrderInv /\ TypeOK' /\ [Next]_vars => OrderInv'
  <2> SUFFICES ASSUME OrderInv, TypeOK', [Next]_vars
               PROVE  PendingRun' /\ PlayedInOrder'
    BY DEF OrderInv
  <2> USE DEF OrderInv
  <2>1. CASE UNCHANGED pendingVars
    BY <2>1 DEF pendingVars, PendingRun, PlayedInOrder, RunLength, RunStart
  <2>2. ASSUME NEW i \in Slots, WorkerFires(i)
        PROVE  PendingRun' /\ PlayedInOrder'
    <3> DEFINE n == slot[i]
    <3>1. dispatch = 0 /\ dispatch' = 0 /\ played' = played
      BY <2>2 DEF WorkerFires, CanInterrupt
    <3>2. CASE Free(pending) = {}
      BY <2>2, <3>1, <3>2
      DEF WorkerFires, PendingRun, PlayedInOrder, RunLength, RunStart
    <3>3. CASE Free(pending) # {}
      <4>1. /\ pending' = [pending EXCEPT ![RunLength + 1] = n]
            /\ queued' = Append(queued, n)
            /\ RunLength < MAX_SCHEDULED_NOTES
        BY <2>2, <3>1, <3>3, FirstFreeBehindRun DEF WorkerFires
      <4>2. n \in 1 .. MaxNotes
        BY <2>2, SchedulerAssumption DEF WorkerFires, TypeOK, NoteOrNone
      <4>3. /\ Len(queued') = Len(queued) + 1
            /\ \A k \in 1 .. Len(queued) : queued'[k] = queued[k]
            /\ queued'[Len(queued) + 1] = n
        BY <4>1, <4>2, AppendProperties DEF TypeOK
      <4>4. Len(queued) \in Nat /\ Len(played) \in Nat
        BY LenProperties DEF TypeOK
      <4>5. RunLength' = RunLength + 1 /\ RunStart = 1 /\ RunStart' = 1
        BY <3>1, <4>3, <4>4 DEF RunLength, RunStart
      <4>6. RunLength \in Nat
        BY <4>5, SchedulerAssumption DEF PendingRun
      <4>7. PendingRun'
        <5>1. RunLength' \in 0 .. MAX_SCHEDULED_NOTES - RunStart' + 1
          BY <4>1, <4>5, <4>6, SchedulerAssumption
        <5>2. ASSUME NEW j \in Slots
              PROVE  pending'[j] = IF j >= 1 /\ j < 1 + RunLength'
                                   THEN queued'[Len(played) + j - 1 + 1]
                                   ELSE 0
          <6>1. pending[j] = IF j >= 1 /\ j < 1 + RunLength
                             THEN queued[Len(played) + j - 1 + 1]
                             ELSE 0
            BY <4>5 DEF PendingRun
          <6>2. CASE j = RunLength + 1
            <7>1. pending'[j] = n
              BY <4>1, <6>2 DEF TypeOK
            <7>2. Len(played) + j - 1 + 1 = Len(queued) + 1
              BY <4>4, <6>2 DEF RunLength
            <7> QED
              BY <4>3, <4>5, <4>6, <6>2, <7>1, <7>2
          <6>3. CASE j <= RunLength
            <7>1. pending'[j] = pending[j]
              BY <4>1, <4>6, <6>3, SchedulerAssumption DEF TypeOK, Slots
            <7>2. Len(played) + j - 1 + 1 \in 1 .. Len(queued)
              BY <4>4, <6>3, SchedulerAssumption DEF RunLength, Slots
            <7> QED
              BY <4>3, <4>5, <4>6, <6>1, <6>3, <7>1, <7>2, SchedulerAssumption
              DEF Slots
          <6>4. CASE j > RunLength + 1
            <7>1. pending'[j] = pending[j]
              BY <4>1, <4>6, <6>4, SchedulerAssumption DEF TypeOK, Slots
            <7> QED
              BY <4>5, <4>6, <6>1, <6>4, <7>1, SchedulerAssumption DEF Slots
          <6> QED
            BY <4>6, <6>2, <6>3, <6>4, SchedulerAssumption DEF Slots
        <5> QED
          BY <3>1, <4>5, <5>1, <5>2 DEF PendingRun
      <4>8. PlayedInOrder'
        BY <3>1, <4>3, <4>4 DEF PlayedInOrder
      <4> QED
        BY <4>7, <4>8
    <3> QED
      BY <3>2, <3>3
  <2>3. CASE DispatchBegins
    BY <2>3, SchedulerAssumption
    DEF DispatchBegins, CanInterrupt, PendingRun, PlayedInOrder, RunLength,
        RunStart
  <2>4. CASE DispatchEntry
    <3>1. /\ dispatch \in Slots /\ RunStart = dispatch
          /\ dispatch \in Nat /\ dispatch >= 1 /\ dispatch <= MAX_SCHEDULED_NOTES
      BY <2>4, SchedulerAssumption DEF DispatchEntry, NextEntry, TypeOK, RunStart, Slots
    <3>2. Len(queued) \in Nat /\ Len(played) \in Nat /\ queued' = queued
      BY <2>4, LenProperties DEF TypeOK, DispatchEntry, NextEntry
    <3>3. RunStart' = IF dispatch = MAX_SCHEDULED_NOTES THEN 1 ELSE dispatch + 1
      BY <2>4, <3>1, SchedulerAssumption DEF DispatchEntry, NextEntry, RunStart
    <3>4. pending[dispatch] = IF RunLength > 0 THEN queued[Len(played) + 1] ELSE 0
      BY <3>1, <3>2 DEF PendingRun, RunLength
    <3>5. CASE RunLength = 0
      <4>1. \A j \in Slots : pending[j] = 0
        BY <3>1, <3>5, SchedulerAssumption DEF PendingRun, Slots
      <4>2. UNCHANGED <<pending, played>>
        BY <2>4, <3>1, <4>1 DEF DispatchEntry, NextEntry
      <4>3. RunLength' = 0
        BY <3>2, <3>5, <4>2 DEF RunLength
      <4>4. PendingRun'
        BY <3>1, <3>3, <4>1, <4>2, <4>3, SchedulerAssumption
        DEF PendingRun, Slots
      <4> QED
        BY <3>2, <4>2, <4>4 DEF PlayedInOrder
    <3>6. CASE RunLength > 0
      <4>1. Len(played) + 1 \in 1 .. Len(queued)
        BY <3>2, <3>6 DEF RunLength
      <4>2. queued[Len(played) + 1] \in 1 .. MaxNotes
        BY <4>1, ElementOfSeq DEF TypeOK
      <4>3. pending[dispatch] = queued[Len(played) + 1] /\ pending[dispatch] # 0
        BY <3>4, <3>6, <4>2
      <4>4. /\ played' = Append(played, queued[Len(played) + 1])
            /\ pending' = [pending EXCEPT ![dispatch] = 0]
        BY <2>4, <4>3 DEF DispatchEntry, NextEntry
      <4>5. /\ Len(played') = Len(played) + 1
            /\ \A k \in 1 .. Len(played) : played'[k] = played[k]
            /\ played'[Len(played) + 1] = queued[Len(played) + 1]
        BY <4>2, <4>4, AppendProperties DEF TypeOK
      <4>6. PlayedInOrder'
        BY <3>2, <4>1, <4>5 DEF PlayedInOrder
      <4>7. RunLength' = RunLength - 1
        BY <3>2, <4>5 DEF RunLength
      <4>8. RunLength \in 1 .. MAX_SCHEDULED_NOTES - dispatch + 1
        BY <3>1, <3>6, SchedulerAssumption DEF PendingRun
      <4>9. PendingRun'
        <5>1. RunLength' \in 0 .. MAX_SCHEDULED_NOTES - RunStart' + 1
          BY <3>1, <3>3, <4>7, <4>8, SchedulerAssumption
        <5>2. ASSUME NEW j \in Slots
              PROVE  pending'[j] = IF j >= RunStart' /\ j < RunStart' + RunLength'
                                   THEN queued'[Len(played') + j - RunStart' + 1]
                                   ELSE 0
          <6>1. pending[j] = IF j >= dispatch /\ j < dispatch + RunLength
                             THEN queued[Len(played) + j - dispatch + 1]
                             ELSE 0
            BY <3>1 DEF PendingRun
          <6>2. pending'[j] = IF j = dispatch THEN 0 ELSE pending[j]
            BY <4>4 DEF TypeOK
          <6>3. CASE dispatch = MAX_SCHEDULED_NOTES
            BY <3>1, <3>3, <4>7, <4>8, <6>1, <6>2, <6>3, SchedulerAssumption
            DEF Slots
          <6>4. CASE dispatch # MAX_SCHEDULED_NOTES
            <7>1. RunStart' = dispatch + 1
              BY <3>3, <6>4
            <7>2. Len(played') + j - RunStart' + 1 = Len(played) + j - dispatch + 1
              BY <3>1, <3>2, <4>5, <7>1, SchedulerAssumption DEF Slots
            <7> QED
              BY <3>1, <3>2, <4>7, <4>8, <6>1, <6>2, <7>1, <7>2,
                 SchedulerAssumption DEF Slots
          <6> QED
            BY <6>3, <6>4
        <5> QED
          BY <5>1, <5>2 DEF PendingRun
      <4> QED
        BY <4>6, <4>9
    <3>7. RunLength \in Nat
      BY <3>1, SchedulerAssumption DEF PendingRun
    <3> QED
      BY <3>5, <3>6, <3>7
  <2>5. UNCHANGED pendingVars \/ (\E i \in Slots : WorkerFires(i))
          \/ DispatchBegins \/ DispatchEntry
    BY DEF Next, vars, TickFires, InputArrives, CallbackReturns, ScheduleStep,
           Call, FindSlot, ClaimSlot, LinkWorker
  <2> QED
    BY <2>1, <2>2, <2>3, <2>4, <2>5
<1>3. Spec => []TypeOK
  BY SchedulerTypeOK
<1> QED
  BY <1>1, <1>2, <1>3, PTL DEF Spec

\* The pending notes are one run of entries, in the order in which their workers
\* fired, that starts where the dispatch loop stands: filling the first free
\* entry never puts a note before an older one.
THEOREM PendingNotesInARun == Spec => []PendingRun
<1>1. OrderInv => PendingRun
  BY DEF OrderInv
<1> QED
  BY <1>1, OrderIsKept, PTL

\* Notes are played in exactly the order in which their workers fired, for
\* every number of slots and whichever contexts schedule notes.
THEOREM NotesPlayedInOrder == Spec => []PlayedInOrder
<1>1. OrderInv => PlayedInOrder
  BY DEF OrderInv
<1> QED
  BY <1>1, OrderIsKept, PTL

-----------------------------------------------------------------------------
(* Each note once, whoever calls.  What a slot or the queue holds was       *)
(* issued, no two calls are about the same note, and the note a call is     *)
(* about is in no slot and not in the queue until it is claimed.  Callers   *)
(* that race for a slot lose a note; none of them makes it two.             *)

Unclaimed(c) == pc[c] \in {"find", "claim"}

OnceInv ==
  /\ TypeOK
  /\ NoNoteTwice
  /\ \A i \in Slots : slot[i] <= issued
  /\ \A k \in DOMAIN queued : queued[k] \in 1 .. issued
  /\ \A c \in Callers : arg[c] <= issued
  /\ \A c, d \in Callers : arg[c] = arg[d] /\ arg[c] # 0 => c = d
  /\ \A c \in Callers : Unclaimed(c) => ~Waiting(arg[c]) /\ ~Queued(arg[c])

LEMMA OnceAtFirst == ASSUME Init PROVE OnceInv
<1> USE SchedulerAssumption
<1>1. TypeOK
  BY DEF Init, TypeOK, NoteOrNone, Slots
<1>2. issued = 0 /\ slot = [i \in Slots |-> 0] /\ queued = <<>> /\ arg = [c \in Callers |-> 0]
      /\ pc = [c \in Callers |-> "idle"]
  BY DEF Init
<1>3. DOMAIN queued = {}
  BY <1>2
<1>4. NoNoteTwice
  BY <1>2, <1>3 DEF NoNoteTwice
<1> QED
  BY <1>1, <1>2, <1>3, <1>4 DEF OnceInv, Unclaimed

\* A worker moves its slot's note to the queue, or drops it.
LEMMA FiringMovesNote ==
  ASSUME OnceInv, NEW i \in Slots, WorkerFires(i)
  PROVE  /\ slot[i] \in 1 .. issued
         /\ \A k, m \in DOMAIN queued' : queued'[k] = queued'[m] => k = m
         /\ \A m : Queued(m)' => Queued(m) \/ m = slot[i]
         /\ \A m : Queued(m) => Queued(m)'
         /\ slot[i] \in dropped' \/ \E k \in DOMAIN queued' : queued'[k] = slot[i]
         /\ \A k \in DOMAIN queued' : queued'[k] \in 1 .. issued
<1> DEFINE n == slot[i]
<1>1. n \in 1 .. issued
  BY SchedulerAssumption DEF WorkerFires, OnceInv, TypeOK, NoteOrNone
<1>2. \/ queued' = Append(queued, n) /\ dropped' = dropped
      \/ queued' = queued /\ dropped' = dropped \cup {n}
  BY DEF WorkerFires
<1>3. /\ queued \in Seq(Int)
      /\ \A k, m \in DOMAIN queued : queued[k] = queued[m] => k = m
      /\ \A k \in DOMAIN queued : queued[k] \in 1 .. issued /\ queued[k] # n
  BY <1>1 DEF TypeOK, OnceInv, NoNoteTwice, Queued
<1>4. CASE queued' = queued /\ dropped' = dropped \cup {n}
  BY <1>1, <1>3, <1>4 DEF Queued
<1>5. CASE queued' = Append(queued, n) /\ dropped' = dropped
  <2> HIDE DEF n
  <2>1. DOMAIN queued' = 1 .. Len(queued) + 1 /\ DOMAIN queued = 1 .. Len(queued)
        /\ Len(queued) \in Nat
    BY <1>1, <1>3, <1>5
  <2>2. queued'[Len(queued) + 1] = n
        /\ \A k \in DOMAIN queued : queued'[k] = queued[k]
    BY <1>1, <1>3, <1>5
  <2>3. \A k \in DOMAIN queued' : k \in DOMAIN queued \/ k = Len(queued) + 1
    BY <2>1
  <2>4. \A k, m \in DOMAIN queued' : queued'[k] = queued'[m] => k = m
    BY <1>3, <2>1, <2>2, <2>3
  <2>5. \A m : Queued(m)' => Queued(m) \/ m = n
    BY <2>2, <2>3 DEF Queued
  <2>6. \A m : Queued(m) => Queued(m)'
    BY <2>1, <2>2 DEF Queued
  <2>7. \E k \in DOMAIN queued' : queued'[k] = n
    BY <2>1, <2>2
  <2>8. \A k \in DOMAIN queued' : queued'[k] \in 1 .. issued
    BY <1>1, <1>3, <2>2, <2>3
  <2> QED
    BY <1>1, <2>4, <2>5, <2>6, <2>7, <2>8 DEF n
<1> QED
  BY <1>2, <1>4, <1>5

LEMMA OnceIsKept == Spec => []OnceInv
<1> USE SchedulerAssumption
<1>1. Init => OnceInv
  BY OnceAtFirst
<1>2. OnceInv /\ TypeOK' /\ [Next]_vars => OnceInv'
  <2> SUFFICES ASSUME OnceInv, TypeOK', [Next]_vars
               PROVE  OnceInv'
    OBVIOUS
  <2>0. TypeOK /\ issued \in Nat
    BY DEF OnceInv, TypeOK, NoteOrNone
  <2>1. CASE UNCHANGED <<slot, pc, arg, issued, queued>>
    BY <2>1 DEF OnceInv, NoNoteTwice, Unclaimed, Waiting, Queued
  <2>2. ASSUME NEW i \in Slots, WorkerFires(i)
        PROVE  OnceInv'
    <3> DEFINE n == slot[i]
    <3>1. /\ slot' = [slot EXCEPT ![i] = 0] /\ slot \in [Slots -> NoteOrNone]
          /\ UNCHANGED <<pc, arg, issued>>
      BY <2>0, <2>2 DEF WorkerFires, callVars, TypeOK
    <3>2. \A j \in Slots : slot'[j] # 0 => slot'[j] = slot[j] /\ slot[j] # n
      <4>1. \A j \in Slots : slot'[j] # 0 => slot'[j] = slot[j] /\ j # i
        BY <3>1
      <4>2. n # 0
        BY <2>2 DEF WorkerFires
      <4> QED
        BY <4>1, <4>2 DEF OnceInv, NoNoteTwice
    <3>3. NoNoteTwice'
      <4>1. \A j, k \in Slots : slot'[j] = slot'[k] /\ slot'[j] # 0 => j = k
        BY <3>2 DEF OnceInv, NoNoteTwice
      <4>2. \A j \in Slots : slot'[j] # 0 => ~Queued(slot[j])'
        BY <2>2, <3>1, <3>2, FiringMovesNote DEF OnceInv, NoNoteTwice, Queued
      <4> QED
        BY <2>2, <4>1, <4>2, FiringMovesNote DEF NoNoteTwice, Queued
    <3>4. \A j \in Slots : slot'[j] <= issued'
      BY <2>0, <3>1 DEF OnceInv
    <3>5. ASSUME NEW c \in Callers, Unclaimed(c)'
          PROVE  ~Waiting(arg[c])' /\ ~Queued(arg[c])'
      <4>1. Unclaimed(c) /\ arg'[c] = arg[c] /\ arg[c] # 0
        BY <2>0, <3>1, <3>5 DEF Unclaimed, TypeOK
      <4>2. ~Waiting(arg[c]) /\ ~Queued(arg[c])
        BY <4>1 DEF OnceInv
      <4>3. arg[c] # n
        BY <4>2 DEF Waiting
      <4> HIDE DEF n
      <4>4. ~Queued(arg[c])'
        BY <2>2, <3>1, <4>2, <4>3, FiringMovesNote DEF Queued, n
      <4>5. ~Waiting(arg[c])'
        BY <3>1, <3>2, <4>1, <4>2 DEF Waiting
      <4> QED
        BY <4>4, <4>5
    <3> QED
      BY <2>2, <3>1, <3>3, <3>4, <3>5, FiringMovesNote DEF OnceInv
  <2>3. ASSUME NEW c \in Callers, Call(c)
        PROVE  OnceInv'
    <3>1. /\ issued' = issued + 1 /\ arg' = [arg EXCEPT ![c] = issued + 1]
          /\ pc' = [pc EXCEPT ![c] = "find"]
          /\ UNCHANGED <<slot, queued>>
          /\ arg \in [Callers -> NoteOrNone] /\ slot \in [Slots -> NoteOrNone]
      BY <2>0, <2>3 DEF Call, TypeOK, pendingVars
    <3>2. ~Waiting(issued + 1) /\ ~Queued(issued + 1)
      <4>1. \A i \in Slots : slot[i] <= issued
        BY DEF OnceInv
      <4>2. \A k \in DOMAIN queued : queued[k] \in 1 .. issued
        BY DEF OnceInv
      <4>3. ~Waiting(issued + 1)
        BY <2>0, <3>1, <4>1 DEF Waiting, NoteOrNone
      <4> QED
        BY <2>0, <4>2, <4>3 DEF Queued
    <3>3. NoNoteTwice'
      BY <3>1 DEF OnceInv, NoNoteTwice, Queued
    <3>4. (\A i \in Slots : slot'[i] <= issued')
          /\ \A k \in DOMAIN queued' : queued'[k] \in 1 .. issued'
      BY <2>0, <3>1 DEF OnceInv, NoteOrNone
    <3>5. /\ \A d \in Callers : arg'[d] <= issued'
          /\ \A d, e \in Callers : arg'[d] = arg'[e] /\ arg'[d] # 0 => d = e
      <4>1. \A d \in Callers : arg[d] \in 0 .. issued
        BY <2>0, <3>1 DEF OnceInv, NoteOrNone
      <4> QED
        BY <2>0, <3>1, <4>1 DEF OnceInv
    <3>6. ASSUME NEW d \in Callers, Unclaimed(d)'
          PROVE  ~Waiting(arg[d])' /\ ~Queued(arg[d])'
      <4>1. CASE d = c
        BY <3>1, <3>2, <4>1 DEF Waiting, Queued
      <4>2. CASE d # c
        BY <2>0, <3>1, <3>6, <4>2 DEF OnceInv, Unclaimed, Waiting, Queued, TypeOK
      <4> QED
        BY <4>1, <4>2
    <3> QED
      BY <3>3, <3>4, <3>5, <3>6 DEF OnceInv
  <2>4. ASSUME NEW c \in Callers, FindSlot(c) \/ LinkWorker(c)
        PROVE  OnceInv'
    <3>1. /\ UNCHANGED <<slot, queued, issued>>
          /\ \A d \in Callers : d # c => arg'[d] = arg[d] /\ pc'[d] = pc[d]
          /\ \/ arg' = arg /\ Unclaimed(c)
             \/ arg'[c] = 0 /\ pc'[c] = "idle"
      BY <2>0, <2>4 DEF FindSlot, LinkWorker, TypeOK, pendingVars, Unclaimed
    <3>2. NoNoteTwice'
      BY <3>1 DEF OnceInv, NoNoteTwice, Queued
    <3>3. /\ \A d \in Callers : arg'[d] <= issued'
          /\ \A d, e \in Callers : arg'[d] = arg'[e] /\ arg'[d] # 0 => d = e
      BY <2>0, <3>1 DEF OnceInv
    <3>4. ASSUME NEW d \in Callers, Unclaimed(d)'
          PROVE  ~Waiting(arg[d])' /\ ~Queued(arg[d])'
      <4>1. Unclaimed(d) /\ arg'[d] = arg[d]
        BY <3>1, <3>4 DEF Unclaimed
      <4> QED
        BY <3>1, <4>1 DEF OnceInv, Waiting, Queued
    <3> QED
      BY <3>1, <3>2, <3>3, <3>4 DEF OnceInv
  <2>5. ASSUME NEW c \in Callers, ClaimSlot(c)
        PROVE  OnceInv'
    <3> DEFINE i == found[c]
               n == arg[c]
    <3>1. /\ slot' = [slot EXCEPT ![i] = n] /\ i \in Slots
          /\ pc[c] = "claim" /\ pc' = [pc EXCEPT ![c] = "link"]
          /\ UNCHANGED <<queued, issued, arg>>
          /\ slot \in [Slots -> NoteOrNone] /\ pc \in [Callers -> {"idle", "find", "claim", "link"}]
      BY <2>0, <2>5 DEF ClaimSlot, TypeOK, pendingVars
    <3>2. ~Waiting(n) /\ ~Queued(n) /\ n # 0 /\ n <= issued
      BY <2>0, <3>1 DEF OnceInv, Unclaimed, TypeOK
    <3>3. NoNoteTwice'
      BY <3>1, <3>2 DEF OnceInv, NoNoteTwice, Waiting, Queued
    <3>4. ASSUME NEW d \in Callers, Unclaimed(d)'
          PROVE  ~Waiting(arg[d])' /\ ~Queued(arg[d])'
      <4>1. d # c /\ Unclaimed(d)
        BY <3>1, <3>4 DEF Unclaimed
      <4>2. arg[d] # n
        BY <3>2, <4>1 DEF OnceInv
      <4>3. ~Waiting(arg[d]) /\ ~Queued(arg[d])
        BY <4>1 DEF OnceInv
      <4> QED
        BY <3>1, <4>2, <4>3 DEF Waiting, Queued
    <3>5. \A j \in Slots : slot'[j] <= issued'
      BY <3>1, <3>2 DEF OnceInv
    <3> QED
      BY <3>1, <3>3, <3>4, <3>5 DEF OnceInv
  <2> QED
    BY <2>1, <2>2, <2>3, <2>4, <2>5
    DEF Next, ScheduleStep, TickFires, InputArrives, CallbackReturns, DispatchBegins,
        DispatchEntry, vars, callVars, pendingVars
<1>3. Spec => []TypeOK
  BY SchedulerTypeOK
<1> QED
  BY <1>1, <1>2, <1>3, PTL DEF Spec

\* Whichever contexts schedule notes, and even where two of them take the same slot, no
\* note sits in two slots, is queued twice, or is queued while it still waits
\* in a slot.
THEOREM NotesPerformedOnce == Spec => []NoNoteTwice
<1>1. OnceInv => NoNoteTwice
  BY DEF OnceInv
<1> QED
  BY <1>1, OnceIsKept, PTL

\* From the call to the synthesizer: whichever contexts schedule notes, no note is
\* played a second time, and none is played that is still in a slot.
THEOREM NotesPlayedOnce ==
  Spec => [](/\ \A i, j \in DOMAIN played : played[i] = played[j] => i = j
             /\ \A i \in DOMAIN played : ~Waiting(played[i]))
<1>1. ASSUME OnceInv, OrderInv
      PROVE  /\ \A i, j \in DOMAIN played : played[i] = played[j] => i = j
             /\ \A i \in DOMAIN played : ~Waiting(played[i])
  <2>1. played \in Seq(1 .. MaxNotes) /\ queued \in Seq(1 .. MaxNotes)
    BY <1>1 DEF OrderInv, TypeOK
  <2>2. /\ DOMAIN played = 1 .. Len(played) /\ DOMAIN queued = 1 .. Len(queued)
        /\ Len(played) \in Nat /\ Len(queued) \in Nat
    BY <2>1, LenProperties
  <2>3. \A i \in DOMAIN played :
          i \in DOMAIN queued /\ played[i] = queued[i] /\ played[i] # 0
    <3> SUFFICES ASSUME NEW i \in 1 .. Len(played)
                 PROVE  i \in 1 .. Len(queued) /\ played[i] = queued[i] /\ played[i] # 0
      BY <2>2
    <3>1. played[i] \in 1 .. MaxNotes
      BY <2>1, <2>2, ElementOfSeq
    <3>2. Len(played) <= Len(queued) /\ played[i] = queued[i]
      BY <1>1 DEF OrderInv, PlayedInOrder
    <3> QED
      BY <2>2, <3>1, <3>2
  <2>4. \A i \in DOMAIN played : Queued(played[i])
    BY <2>3 DEF Queued
  <2> QED
    BY <1>1, <2>3, <2>4 DEF OnceInv, NoNoteTwice, Waiting
<1> QED
  BY <1>1, OnceIsKept, OrderIsKept, PTL

-----------------------------------------------------------------------------
(* One caller.  While the async_context is the only caller (a Bluetooth     *)
(* controller and no USB or serial MIDI input), the unprotected scan, claim *)
(* and link are safe: no worker fires inside a callback, so the slot that   *)
(* was found free is still free when it is claimed.                         *)

SlotInv ==
  /\ TypeOK
  /\ ArmedWorkersCallable
  /\ TickNeverLost
  /\ NoSlotLeaked
  /\ pc[Async] # "idle" => callback # "none"
  /\ pc[Async] = "claim" => slot[found[Async]] = 0
  /\ pc[Async] = "link" => slot[found[Async]] # 0

LEMMA SlotInvAtFirst == Init => SlotInv
BY SchedulerAssumption
DEF Init, SlotInv, TypeOK, ArmedWorkersCallable, TickNeverLost, NoSlotLeaked,
    NoteOrNone, Slots

LEMMA SlotInvIsKept ==
  ASSUME Callers = {Async}
  PROVE  Spec => []SlotInv
<1>1. Init => SlotInv
  BY SlotInvAtFirst
<1>2. SlotInv /\ TypeOK' /\ [Next]_vars => SlotInv'
  <2> SUFFICES ASSUME SlotInv, TypeOK', [Next]_vars
               PROVE  SlotInv'
    OBVIOUS
  <2> USE SchedulerAssumption
      DEF SlotInv, TypeOK, ArmedWorkersCallable, TickNeverLost, NoSlotLeaked
  <2>1. CASE TickFires
    BY <2>1 DEF TickFires, CanInterrupt, callVars
  <2>2. CASE InputArrives
    BY <2>2 DEF InputArrives, CanInterrupt, callVars
  <2>3. CASE CallbackReturns
    BY <2>3 DEF CallbackReturns, Linked, callVars
  <2>4. ASSUME NEW i \in Slots, WorkerFires(i)
        PROVE  SlotInv'
    <3>1. pc[Async] = "idle" /\ callback = "none"
      BY <2>4 DEF WorkerFires, CanInterrupt
    <3>2. /\ armed' = armed \ {i} /\ slot' = [slot EXCEPT ![i] = 0]
          /\ UNCHANGED <<callback, pc, found>>
      BY <2>4 DEF WorkerFires, callVars
    <3>3. Tick \in armed' \/ callback' = "tick"
      BY <3>2 DEF Slots
    <3> QED
      BY <3>1, <3>2, <3>3
  <2>5. CASE Call(Async)
    BY <2>5 DEF Call, CanRun
  <2>6. CASE FindSlot(Async)
    <3>1. CASE Free(slot) # {}
      <4>1. First(Free(slot)) \in Slots /\ slot[First(Free(slot))] = 0
        BY <3>1, FirstIsLeast DEF Free
      <4> QED
        BY <2>6, <3>1, <4>1 DEF FindSlot, CanRun
    <3>2. CASE Free(slot) = {}
      BY <2>6, <3>2 DEF FindSlot, CanRun
    <3> QED
      BY <3>1, <3>2
  <2>7. CASE ClaimSlot(Async)
    <3> DEFINE i == found[Async]
    <3>1. i \in Slots /\ i # Tick /\ slot[i] = 0
      BY <2>7 DEF ClaimSlot
    <3>2. i \notin armed
      BY <3>1
    <3>3. /\ slot' = [slot EXCEPT ![i] = arg[Async]]
          /\ pc' = [pc EXCEPT ![Async] = "link"]
          /\ arg[Async] # 0
          /\ UNCHANGED <<armed, callback, found>>
      BY <2>7, <3>2 DEF ClaimSlot
    <3>4. pc'[Async] = "link" /\ found'[Async] = i /\ callback # "none"
      BY <2>7, <3>3 DEF ClaimSlot
    <3> QED
      BY <3>1, <3>2, <3>3, <3>4
  <2>8. CASE LinkWorker(Async)
    <3>1. /\ armed' = armed \cup {found[Async]} /\ slot' = slot
          /\ pc' = [pc EXCEPT ![Async] = "idle"] /\ callback' = callback
          /\ found[Async] \in Slots
      BY <2>8 DEF LinkWorker, Linked
    <3>2. slot[found[Async]] # 0
      BY <2>8 DEF LinkWorker, Linked
    <3> QED
      BY <3>1, <3>2
  <2>9. CASE DispatchBegins
    BY <2>9 DEF DispatchBegins, callVars
  <2>10. CASE DispatchEntry
    BY <2>10 DEF DispatchEntry, NextEntry, callVars
  <2>11. CASE UNCHANGED vars
    BY <2>11 DEF vars, callVars
  <2> QED
    BY <2>1, <2>2, <2>3, <2>4, <2>5, <2>6, <2>7, <2>8, <2>9, <2>10, <2>11
    DEF Next, ScheduleStep
<1>3. Spec => []TypeOK
  BY SchedulerTypeOK
<1> QED
  BY <1>1, <1>2, <1>3, PTL DEF Spec

\* With one caller no worker is called through a NULL pointer, the tick is
\* never lost and no slot is taken for good, for every number of slots.
THEOREM SoleCallerSafe ==
  ASSUME Callers = {Async}
  PROVE  Spec => [](ArmedWorkersCallable /\ TickNeverLost /\ NoSlotLeaked)
<1>1. SlotInv => ArmedWorkersCallable /\ TickNeverLost /\ NoSlotLeaked
  BY DEF SlotInv
<1>2. Spec => []SlotInv
  BY SlotInvIsKept
<1> QED
  BY <1>1, <1>2, PTL

-----------------------------------------------------------------------------
(* No note lost, while the async_context is the only caller.               *)

LedgerInv == SlotInv /\ OnceInv /\ NoteAccounted

LEMMA LedgerIsKept ==
  ASSUME Callers = {Async}
  PROVE  Spec => []LedgerInv
<1> USE SchedulerAssumption
<1>1. Init => NoteAccounted
  BY DEF Init, NoteAccounted
<1>2. NoteAccounted /\ SlotInv /\ OnceInv /\ [Next]_vars => NoteAccounted'
  <2> SUFFICES ASSUME NoteAccounted, SlotInv, OnceInv, [Next]_vars
               PROVE  NoteAccounted'
    OBVIOUS
  <2>0. TypeOK /\ issued \in Nat
    BY DEF SlotInv, TypeOK, NoteOrNone
  <2>1. CASE UNCHANGED <<slot, pc, arg, issued, queued, refused, dropped>>
    BY <2>1 DEF NoteAccounted, Held, Waiting, Queued
  <2>2. ASSUME NEW i \in Slots, WorkerFires(i)
        PROVE  NoteAccounted'
    <3> DEFINE n == slot[i]
    <3>1. /\ slot' = [slot EXCEPT ![i] = 0] /\ slot \in [Slots -> NoteOrNone]
          /\ UNCHANGED <<pc, arg, issued, refused>>
          /\ dropped \subseteq dropped'
      BY <2>0, <2>2 DEF WorkerFires, callVars, TypeOK
    <3>2. \A m : Waiting(m) => Waiting(m)' \/ m = n
      BY <3>1 DEF Waiting
    <3>3. \A m : Held(m) => Held(m)'
      BY <3>1 DEF Held
    <3>4. /\ \A m : Queued(m) => Queued(m)'
          /\ n \in dropped' \/ \E k \in DOMAIN queued' : queued'[k] = n
      BY <2>2, FiringMovesNote
    <3> HIDE DEF n
    <3> SUFFICES ASSUME NEW m \in 1 .. issued
                 PROVE  (Held(m) \/ m \in refused \/ Waiting(m) \/ Queued(m) \/ m \in dropped)'
      BY <3>1 DEF NoteAccounted
    <3>5. CASE m = n
      BY <3>4, <3>5 DEF Queued
    <3>6. CASE m # n
      <4>1. Held(m) \/ m \in refused \/ Waiting(m) \/ Queued(m) \/ m \in dropped
        BY DEF NoteAccounted
      <4> QED
        BY <3>1, <3>2, <3>3, <3>4, <3>6, <4>1
    <3> QED
      BY <3>5, <3>6
  <2>3. CASE Call(Async)
    <3>1. /\ issued' = issued + 1 /\ arg'[Async] = issued + 1
          /\ pc'[Async] = "find" /\ pc[Async] = "idle"
          /\ UNCHANGED <<slot, queued, refused, dropped>>
      BY <2>0, <2>3 DEF Call, TypeOK, pendingVars
    <3>2. Held(issued)'
      BY <3>1 DEF Held
    <3>3. \A m : ~Held(m)
      BY <3>1 DEF Held
    <3> SUFFICES ASSUME NEW m \in 1 .. issued'
                 PROVE  (Held(m) \/ m \in refused \/ Waiting(m) \/ Queued(m) \/ m \in dropped)'
      BY DEF NoteAccounted
    <3>4. CASE m = issued'
      BY <3>2, <3>4
    <3>5. CASE m \in 1 .. issued
      BY <3>1, <3>3, <3>5 DEF NoteAccounted, Waiting, Queued
    <3> QED
      BY <2>0, <3>1, <3>4, <3>5
  <2>4. CASE FindSlot(Async)
    <3>1. /\ UNCHANGED <<slot, queued, dropped, issued>>
          /\ pc[Async] = "find"
          /\ \/ arg' = arg /\ refused' = refused /\ pc'[Async] = "claim"
             \/ refused' = refused \cup {arg[Async]}
      BY <2>0, <2>4 DEF FindSlot, TypeOK, pendingVars
    <3>2. \A m : Held(m) => Held(m)' \/ m \in refused'
      BY <3>1 DEF Held
    <3> QED
      BY <3>1, <3>2 DEF NoteAccounted, Waiting, Queued
  <2>5. CASE ClaimSlot(Async)
    <3> DEFINE i == found[Async]
               n == arg[Async]
    <3>1. /\ slot' = [slot EXCEPT ![i] = n] /\ slot[i] = 0 /\ i \in Slots
          /\ UNCHANGED <<queued, refused, dropped, issued>>
          /\ slot \in [Slots -> NoteOrNone]
      BY <2>0, <2>5 DEF ClaimSlot, TypeOK, SlotInv, NoteOrNone, pendingVars
    <3>2. \A m \in 1 .. issued : Waiting(m) => Waiting(m)'
      BY <3>1 DEF Waiting
    <3>3. \A m : Held(m) => Waiting(m)'
      BY <3>1 DEF Held, Waiting
    <3> QED
      BY <3>1, <3>2, <3>3 DEF NoteAccounted, Queued
  <2>6. CASE LinkWorker(Async)
    <3>1. pc[Async] = "link" /\ UNCHANGED <<slot, queued, refused, dropped, issued>>
      BY <2>0, <2>6 DEF LinkWorker, TypeOK, pendingVars
    <3>2. \A m : ~Held(m)
      BY <3>1 DEF Held
    <3> QED
      BY <3>1, <3>2 DEF NoteAccounted, Waiting, Queued
  <2> QED
    BY <2>1, <2>2, <2>3, <2>4, <2>5, <2>6
    DEF Next, ScheduleStep, TickFires, InputArrives, CallbackReturns, DispatchBegins,
        DispatchEntry, vars, callVars, pendingVars
<1>3. Spec => []SlotInv /\ []OnceInv
  BY SlotInvIsKept, OnceIsKept
<1> QED
  BY <1>1, <1>2, <1>3, PTL DEF Spec, LedgerInv

\* With one caller every note handed to the scheduler is with the caller,
\* refused, in a slot, pending or dropped: none is overwritten or forgotten.
THEOREM NotesAccountedFor ==
  ASSUME Callers = {Async}
  PROVE  Spec => []NoteAccounted
<1>1. LedgerInv => NoteAccounted
  BY DEF LedgerInv
<1>2. Spec => []LedgerInv
  BY LedgerIsKept
<1> QED
  BY <1>1, <1>2, PTL

-----------------------------------------------------------------------------
(* The scheduler implements NoteDelivery: claiming a slot accepts a note,   *)
(* its worker ripens it, the dispatch loop performs it, and all other steps *)
(* are invisible.                                                           *)

LEMMA RestOf ==
  ASSUME NEW S, NEW s \in Seq(S), NEW m \in 0 .. Len(s)
  PROVE  /\ SubSeq(s, m + 1, Len(s)) \in Seq(S)
         /\ Len(SubSeq(s, m + 1, Len(s))) = Len(s) - m
         /\ \A i \in 1 .. Len(s) - m : SubSeq(s, m + 1, Len(s))[i] = s[m + i]
<1>1. Len(s) \in Nat /\ \A i \in m + 1 .. Len(s) : s[i] \in S
  BY LenProperties, ElementOfSeq
<1>2. /\ SubSeq(s, m + 1, Len(s)) \in Seq(S)
      /\ Len(SubSeq(s, m + 1, Len(s))) = IF m + 1 <= Len(s) THEN Len(s) - (m + 1) + 1 ELSE 0
      /\ \A i \in 1 .. Len(s) - (m + 1) + 1 :
           SubSeq(s, m + 1, Len(s))[i] = s[m + 1 + i - 1]
  BY <1>1, SubSeqProperties
<1>3. Len(s) - (m + 1) + 1 = Len(s) - m /\ \A i \in Int : m + 1 + i - 1 = m + i
  BY <1>1
<1>4. Len(SubSeq(s, m + 1, Len(s))) = Len(s) - m
  BY <1>1, <1>2
<1>5. \A i \in 1 .. Len(s) - m : SubSeq(s, m + 1, Len(s))[i] = s[m + i]
  BY <1>1, <1>2, <1>3
<1> QED
  BY <1>2, <1>4, <1>5

LEMMA RestGrows ==
  ASSUME NEW S, NEW s \in Seq(S), NEW m \in 0 .. Len(s), NEW e \in S
  PROVE  SubSeq(Append(s, e), m + 1, Len(s) + 1) = Append(SubSeq(s, m + 1, Len(s)), e)
<1> DEFINE r == SubSeq(s, m + 1, Len(s))
           t == Append(s, e)
           u == SubSeq(t, m + 1, Len(t))
<1>1. t \in Seq(S) /\ Len(t) = Len(s) + 1 /\ Len(s) \in Nat
      /\ (\A i \in 1 .. Len(s) : t[i] = s[i]) /\ t[Len(s) + 1] = e
  BY AppendProperties, LenProperties
<1>2. r \in Seq(S) /\ Len(r) = Len(s) - m /\ \A i \in 1 .. Len(s) - m : r[i] = s[m + i]
  BY RestOf
<1>3. u \in Seq(S) /\ Len(u) = Len(t) - m /\ \A i \in 1 .. Len(t) - m : u[i] = t[m + i]
  <2> HIDE DEF t
  <2>1. m \in 0 .. Len(t)
    BY <1>1
  <2> QED
    BY <1>1, <2>1, RestOf
<1> HIDE DEF r, t, u
<1>4. /\ Append(r, e) \in Seq(S) /\ Len(Append(r, e)) = Len(r) + 1
      /\ (\A i \in 1 .. Len(r) : Append(r, e)[i] = r[i]) /\ Append(r, e)[Len(r) + 1] = e
  BY <1>2, AppendProperties
<1>5. Len(u) = Len(Append(r, e))
  BY <1>1, <1>2, <1>3, <1>4
<1>6. \A i \in 1 .. Len(u) : u[i] = Append(r, e)[i]
  <2> SUFFICES ASSUME NEW i \in 1 .. Len(u)
               PROVE  u[i] = Append(r, e)[i]
    OBVIOUS
  <2>1. u[i] = t[m + i] /\ Len(u) = Len(s) + 1 - m
    BY <1>1, <1>3
  <2>2. CASE i = Len(s) + 1 - m
    BY <1>1, <1>2, <1>4, <2>1, <2>2
  <2>3. CASE i \in 1 .. Len(s) - m
    <3>1. m + i \in 1 .. Len(s)
      BY <1>1, <2>3
    <3>2. u[i] = s[m + i] /\ r[i] = s[m + i] /\ Append(r, e)[i] = r[i]
      BY <1>1, <1>2, <1>4, <2>1, <2>3, <3>1
    <3> QED
      BY <3>2
  <2>4. i = Len(s) + 1 - m \/ i \in 1 .. Len(s) - m
    <3>1. Len(s) \in Nat /\ i \in 1 .. Len(s) + 1 - m
      BY <1>1, <2>1
    <3> QED
      BY ONLY <3>1, m \in 0 .. Len(s)
  <2> QED
    BY <2>2, <2>3, <2>4
<1>7. u = Append(r, e)
  BY <1>3, <1>4, <1>5, <1>6, SeqEqual
<1> QED
  BY <1>1, <1>7 DEF r, t, u

LEMMA RestShrinks ==
  ASSUME NEW S, NEW s \in Seq(S), NEW m \in 0 .. Len(s), m < Len(s)
  PROVE  /\ SubSeq(s, m + 1, Len(s)) # <<>>
         /\ Head(SubSeq(s, m + 1, Len(s))) = s[m + 1]
         /\ Tail(SubSeq(s, m + 1, Len(s))) = SubSeq(s, m + 2, Len(s))
<1> DEFINE r == SubSeq(s, m + 1, Len(s))
           u == SubSeq(s, (m + 1) + 1, Len(s))
<1>1. Len(s) \in Nat /\ m + 1 \in 0 .. Len(s)
  BY LenProperties
<1>2. r \in Seq(S) /\ Len(r) = Len(s) - m /\ \A i \in 1 .. Len(s) - m : r[i] = s[m + i]
  BY RestOf
<1>3. u \in Seq(S) /\ Len(u) = Len(s) - (m + 1)
      /\ \A i \in 1 .. Len(s) - (m + 1) : u[i] = s[(m + 1) + i]
  BY <1>1, RestOf
<1> HIDE DEF r, u
<1>4. r # <<>>
  BY <1>1, <1>2
<1>5. /\ Tail(r) \in Seq(S) /\ Len(Tail(r)) = Len(r) - 1
      /\ \A i \in 1 .. Len(Tail(r)) : Tail(r)[i] = r[i + 1]
  BY <1>2, <1>4, HeadTailProperties
<1>6. \A i \in 1 .. Len(Tail(r)) : Tail(r)[i] = u[i]
  <2> SUFFICES ASSUME NEW i \in 1 .. Len(Tail(r))
               PROVE  Tail(r)[i] = u[i]
    OBVIOUS
  <2>1. i \in 1 .. Len(s) - (m + 1) /\ i + 1 \in 1 .. Len(s) - m
    BY <1>1, <1>2, <1>5
  <2>2. m + (i + 1) = (m + 1) + i
    BY <2>1
  <2>3. Tail(r)[i] = r[i + 1] /\ r[i + 1] = s[m + (i + 1)] /\ u[i] = s[(m + 1) + i]
    BY <1>2, <1>3, <1>5, <2>1
  <2> QED
    BY <2>2, <2>3
<1>7. Tail(r) = u
  BY <1>1, <1>2, <1>3, <1>5, <1>6, SeqEqual
<1>8. Head(r) = s[m + 1]
  BY <1>1, <1>2, <1>4
<1>9. (m + 1) + 1 = m + 2
  OBVIOUS
<1> QED
  BY <1>4, <1>7, <1>8, <1>9 DEF r, u

LEMMA DeliveryInit == ASSUME Init PROVE Delivery!Init
<1>1. slot = [i \in Slots |-> 0] /\ queued = <<>> /\ played = <<>>
  BY DEF Init
<1>2. WaitingNotes = {}
  BY <1>1 DEF WaitingNotes
<1>3. queued \in Seq(Nat) /\ Len(queued) = 0 /\ Len(played) = 0
  BY <1>1
<1>4. ReadyNotes = <<>>
  BY <1>3, SubSeqEmpty DEF ReadyNotes
<1> QED
  BY <1>1, <1>2, <1>4 DEF Delivery!Init

\* The ready notes are as many as the run is long.
LEMMA ReadyLength ==
  ASSUME TypeOK, PendingRun
  PROVE  /\ Len(played) \in 0 .. Len(queued)
         /\ Len(ReadyNotes) = RunLength
<1>1. Len(played) \in 0 .. Len(queued)
  BY SchedulerAssumption, LenProperties DEF TypeOK, PendingRun, RunLength, RunStart
<1> QED
  BY <1>1, RestOf DEF TypeOK, ReadyNotes, RunLength

LEMMA FiringRipens ==
  ASSUME OrderInv, LedgerInv, NEW i \in Slots, WorkerFires(i)
  PROVE  Delivery!Next
<1> DEFINE n == slot[i]
<1>1. /\ n \in 1 .. MaxNotes /\ n \in WaitingNotes /\ played' = played /\ dispatch = 0
      /\ slot' = [slot EXCEPT ![i] = 0] /\ slot \in [Slots -> NoteOrNone]
  BY SchedulerAssumption DEF WorkerFires, CanInterrupt, OrderInv, TypeOK, NoteOrNone, WaitingNotes
<1>2. WaitingNotes' = WaitingNotes \ {n}
  <2>1. \A j \in Slots : slot[j] = n => j = i
    BY <1>1 DEF LedgerInv, OnceInv, NoNoteTwice
  <2> QED
    BY <1>1, <2>1 DEF WaitingNotes
<1>3. TypeOK /\ PendingRun /\ queued \in Seq(1 .. MaxNotes) /\ Len(played) \in 0 .. Len(queued)
      /\ Len(ReadyNotes) = RunLength
  BY ReadyLength DEF OrderInv, TypeOK
<1> HIDE DEF n
<1>4. CASE queued' = Append(queued, n) /\ Free(pending) # {}
  <2>1. RunLength < MAX_SCHEDULED_NOTES
    BY <1>1, <1>3, <1>4, FirstFreeBehindRun
  <2>2. Len(queued') = Len(queued) + 1
    BY <1>1, <1>3, <1>4
  <2>3. ReadyNotes' = Append(ReadyNotes, n)
    BY <1>1, <1>3, <1>4, <2>2, RestGrows DEF ReadyNotes
  <2> QED
    BY <1>1, <1>2, <1>3, <2>1, <2>3 DEF Delivery!Next, Delivery!Ripen
<1>5. CASE queued' = queued /\ Free(pending) = {}
  <2>1. MAX_SCHEDULED_NOTES \in Slots
    BY SchedulerAssumption DEF Slots
  <2>2. pending[MAX_SCHEDULED_NOTES] # 0
    BY <1>5, <2>1 DEF Free
  <2>3. ~(Len(ReadyNotes) < MAX_SCHEDULED_NOTES)
    BY <1>1, <1>3, <2>1, <2>2, SchedulerAssumption DEF PendingRun, RunStart
  <2>4. ReadyNotes' = ReadyNotes
    BY <1>1, <1>5 DEF ReadyNotes
  <2> QED
    BY <1>1, <1>2, <2>3, <2>4 DEF Delivery!Next, Delivery!Ripen
<1> QED
  BY <1>4, <1>5 DEF WorkerFires, n

LEMMA ClaimingAccepts ==
  ASSUME Callers = {Async}, OrderInv, LedgerInv, ClaimSlot(Async)
  PROVE  Delivery!Next
<1> DEFINE n == arg[Async]
           i == found[Async]
<1>1. /\ slot' = [slot EXCEPT ![i] = n] /\ slot[i] = 0 /\ i \in Slots /\ pc[Async] = "claim"
      /\ n \in 1 .. MaxNotes /\ slot \in [Slots -> NoteOrNone]
      /\ UNCHANGED <<queued, played>>
  BY SchedulerAssumption
  DEF ClaimSlot, OrderInv, TypeOK, LedgerInv, SlotInv, NoteOrNone, pendingVars
<1>2. ~Waiting(n) /\ ~Queued(n)
  BY <1>1 DEF LedgerInv, OnceInv, Unclaimed
<1>3. WaitingNotes' = WaitingNotes \cup {n}
  BY <1>1 DEF WaitingNotes
<1>4. ReadyNotes' = ReadyNotes
  BY <1>1 DEF ReadyNotes
<1>5. n \notin WaitingNotes
  BY <1>2 DEF WaitingNotes, Waiting
<1>6. queued \in Seq(1 .. MaxNotes) /\ Len(played) \in 0 .. Len(queued)
      /\ played \in Seq(1 .. MaxNotes)
  BY ReadyLength DEF OrderInv, TypeOK
<1> HIDE DEF n
<1>7. n \notin Delivery!ToSet(ReadyNotes)
  <2>1. /\ DOMAIN ReadyNotes = 1 .. Len(queued) - Len(played)
        /\ \A k \in 1 .. Len(queued) - Len(played) : ReadyNotes[k] = queued[Len(played) + k]
    BY <1>6, RestOf DEF ReadyNotes
  <2>2. \A k \in 1 .. Len(queued) - Len(played) : Len(played) + k \in DOMAIN queued
    BY <1>6
  <2> QED
    BY <1>2, <2>1, <2>2 DEF Delivery!ToSet, Queued
<1>8. n \notin Delivery!ToSet(played)
  BY <1>2, <1>6 DEF Delivery!ToSet, OrderInv, PlayedInOrder, Queued
<1> QED
  BY <1>1, <1>3, <1>4, <1>5, <1>7, <1>8 DEF Delivery!Next, Delivery!Accept

LEMMA DispatchingPerforms ==
  ASSUME OrderInv, DispatchEntry
  PROVE  \/ Delivery!Next
         \/ UNCHANGED <<WaitingNotes, ReadyNotes, played>>
<1>1. UNCHANGED <<slot, queued>> /\ dispatch \in Slots /\ WaitingNotes' = WaitingNotes
  BY DEF DispatchEntry, OrderInv, TypeOK, WaitingNotes
<1>2. CASE pending[dispatch] = 0
  BY <1>1, <1>2 DEF DispatchEntry, ReadyNotes
<1>3. CASE pending[dispatch] # 0
  <2>1. /\ played' = Append(played, pending[dispatch])
        /\ Len(played) \in 0 .. Len(queued) /\ RunLength = Len(queued) - Len(played)
        /\ queued \in Seq(1 .. MaxNotes) /\ played \in Seq(1 .. MaxNotes)
        /\ pending \in [Slots -> NoteOrNone]
    BY <1>3, ReadyLength DEF DispatchEntry, OrderInv, TypeOK, RunLength
  <2>2. RunStart = dispatch
    BY <1>1, SchedulerAssumption DEF RunStart, Slots
  <2>3. dispatch < RunStart + RunLength
        /\ pending[dispatch] = queued[Len(played) + dispatch - RunStart + 1]
    BY <1>1, <1>3 DEF OrderInv, PendingRun
  <2>4. Len(played) < Len(queued) /\ pending[dispatch] = queued[Len(played) + 1]
    BY <1>1, <2>1, <2>2, <2>3, SchedulerAssumption DEF Slots
  <2>5. Len(played') = Len(played) + 1 /\ Len(played) + 1 + 1 = Len(played) + 2
    BY <1>1, <1>3, <2>1 DEF NoteOrNone, Slots
  <2>6. /\ ReadyNotes # <<>>
        /\ Head(ReadyNotes) = queued[Len(played) + 1]
        /\ Tail(ReadyNotes) = SubSeq(queued, Len(played) + 2, Len(queued))
    BY <2>1, <2>4, RestShrinks DEF ReadyNotes
  <2>7. ReadyNotes' = Tail(ReadyNotes)
    BY <1>1, <2>5, <2>6 DEF ReadyNotes
  <2> QED
    BY <1>1, <2>1, <2>4, <2>6, <2>7 DEF Delivery!Next, Delivery!Perform
<1> QED
  BY <1>2, <1>3

\* With one caller the scheduler implements NoteDelivery, for every number of
\* slots: a note is accepted once, ripens once unless MAX_SCHEDULED_NOTES notes
\* are ready, and ready notes are performed first in, first out.
THEOREM SchedulerKeepsPromise ==
  ASSUME Callers = {Async}
  PROVE  Spec => Delivery!Safety
<1>1. Init => Delivery!Init
  BY DeliveryInit
<1>2. OrderInv /\ LedgerInv /\ [Next]_vars => [Delivery!Next]_(Delivery!deliveryVars)
  <2> SUFFICES ASSUME OrderInv, LedgerInv, [Next]_vars
               PROVE  Delivery!Next \/ UNCHANGED <<WaitingNotes, ReadyNotes, played>>
    BY DEF Delivery!deliveryVars
  <2>1. CASE UNCHANGED <<slot, queued, played>>
    BY <2>1 DEF WaitingNotes, ReadyNotes
  <2>2. ASSUME NEW i \in Slots, WorkerFires(i)
        PROVE  Delivery!Next
    BY <2>2, FiringRipens
  <2>3. CASE ClaimSlot(Async)
    BY <2>3, ClaimingAccepts
  <2>4. CASE DispatchEntry
    BY <2>4, DispatchingPerforms
  <2> QED
    BY <2>1, <2>2, <2>3, <2>4
    DEF Next, ScheduleStep, TickFires, InputArrives, CallbackReturns, DispatchBegins,
        Call, FindSlot, LinkWorker, vars, pendingVars
<1>3. Spec => []OrderInv /\ []LedgerInv
  BY OrderIsKept, LedgerIsKept
<1> QED
  BY <1>1, <1>2, <1>3, PTL DEF Spec, Delivery!Safety
=============================================================================
