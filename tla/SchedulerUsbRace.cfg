SPECIFICATION Spec
CONSTANTS
  MAX_SCHEDULED_NOTES = 2
  MaxNotes = 4
  Async = Async
  Main = Main
  Tick = Tick
  Core1 = Core1
  Callers = {Async, Core1}
INVARIANT ArmedWorkersCallable
CHECK_DEADLOCK FALSE
