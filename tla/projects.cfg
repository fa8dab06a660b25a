SPECIFICATION Spec
CONSTANTS
  p1 = p1
  p2 = p2
  r1 = r1
  r2 = r2
  Procs = {p1, p2}
  Replicas = {r1, r2}
  Home <- OneReplica
  Names = {n1, n2}
  MaxId = 2
  MaxVersion = 3
  MaxCrashes = 1
  Faults = {"failed", "lost"}
INVARIANTS TypeOK AnswersOwnOrLater ServingHasSchema
PROPERTIES NoResurrection AllServe
