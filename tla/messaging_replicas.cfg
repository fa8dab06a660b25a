SPECIFICATION Spec
CONSTANTS
  Producers = {s1}
  Consumers = {c1, c2}
  Events = {e1, e2}
  NoEvent = NoEvent
  MaxPending = 1
  Faults = {}
CHECK_DEADLOCK FALSE
INVARIANTS StoredOnce
