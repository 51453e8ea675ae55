SPECIFICATION Spec
CONSTANTS
  o1 = o1
  o2 = o2
  Keys = {o1, o2}
  MaxChanges = 4
  MaxBreaks = 2
INVARIANTS TypeOK QueueExact PanicOnlyIfCaught
PROPERTIES Delivered
CHECK_DEADLOCK FALSE
