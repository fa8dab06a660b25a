SPECIFICATION FairSpec
CONSTANT Requests = {r1, r2}
\* The process comes to an end.
CHECK_DEADLOCK FALSE
INVARIANTS CleanExitAnswersAll
PROPERTIES NoneAcceptedLate EndsWhenDone
