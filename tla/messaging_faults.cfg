SPECIFICATION FairSpec
CONSTANTS
  Producers = {s1, s2}
  Consumers = {c1}
  Events = {e1, e2}
  NoEvent = NoEvent
  MaxPending = 1
  Faults = {"network", "database", "stop"}
INVARIANTS TypeOK PipelineInOrder RefusedIsNotStored ReceivedAreStored
PROPERTIES DeliversInOrder AcceptedIsAccountedFor
