SPECIFICATION CallsSpec
CONSTANTS
  Calls = {r1, r2}
  Messages = {m1}
  MessageCalls = {r2}
\* The process comes to an end.
CHECK_DEADLOCK FALSE
INVARIANTS CallsTypeOK CallsAnswered LastExportComplete NoCallLostToShutdown
PROPERTIES ExcessIsUnderWay EndsWhenDone CallersEnd ImplementsProcess
