SPECIFICATION FairSpec
CONSTANTS
  MAX_SCHEDULED_NOTES = 2
  MaxNotes = 5
  Async = Async
  Main = Main
  Tick = Tick
  Core1 = Core1
  Callers = {Async}
INVARIANTS TypeOK PlayedInOrder ArmedWorkersCallable TickNeverLost NoSlotLeaked NoteAccounted NoNoteTwice PendingRun
PROPERTIES AcceptedNoteSettles ImplementsDelivery
