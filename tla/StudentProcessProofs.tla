------------------------ MODULE StudentProcessProofs ------------------------
(***************************************************************************)
(* Theorems about StudentProcess for any set of requests.                  *)
(***************************************************************************)
EXTENDS StudentProcess, TLAPS

\* The process types stay what they are, whoever moves.
THEOREM TypeCorrect == Spec => []TypeOK
<1>1. Init => TypeOK
  BY DEF Init, TypeOK
<1>2. TypeOK /\ [Next]_vars => TypeOK'
  <2> SUFFICES ASSUME TypeOK, [Next]_vars PROVE TypeOK'
    OBVIOUS
  <2> USE DEF TypeOK
  <2>1. ASSUME NEW how \in {"ok", "fatal", "panic", "killed"}, Exit(how)
        PROVE  /\ exit' \in {"none", "ok", "fatal", "panic", "killed"}
               /\ reqs' \in [Requests -> {"unsent", "running", "answered", "cut"}]
    BY <2>1 DEF Exit, Running
  <2>2. CASE Main
    <3>1. CASE New \/ BeginShutdown
      BY <2>1, <3>1 DEF New, BeginShutdown
    <3>2. CASE GiveUp \/ Return
      BY <2>1, <3>2 DEF GiveUp, Return
    <3>3. CASE Notify \/ ReceiveSignal \/ Drained \/ Flush
      BY <3>3 DEF Notify, ReceiveSignal, Drained, Flush
    <3> QED BY <2>2, <3>1, <3>2, <3>3 DEF Main
  <2>3. CASE Run
    <3>1. CASE Fatal
      BY <2>1, <3>1 DEF Fatal
    <3>2. CASE AssignServer \/ Listen \/ StopServing
      BY <3>2 DEF AssignServer, Listen, StopServing
    <3> QED BY <2>3, <3>1, <3>2 DEF Run
  <2>4. CASE Signal \/ Expire
    <3>1. CASE Signal
      <4>1. /\ exit' \in {"none", "ok", "fatal", "panic", "killed"}
            /\ reqs' \in [Requests -> {"unsent", "running", "answered", "cut"}]
        BY <2>1, <3>1 DEF Signal
      <4>2. quit' \in BOOLEAN /\ asked' \in BOOLEAN /\ UNCHANGED <<main, run, server, late>>
        BY <3>1 DEF Signal
      <4> QED BY <4>1, <4>2
    <3>2. CASE Expire
      BY <3>2 DEF Expire
    <3> QED BY <2>4, <3>1, <3>2
  <2>5. ASSUME NEW r \in Requests, Accept(r) \/ Answer(r)
        PROVE  TypeOK'
    BY <2>5 DEF Accept, Answer
  <2>6. CASE UNCHANGED vars
    BY <2>6 DEF vars
  <2> QED BY <2>2, <2>3, <2>4, <2>5, <2>6 DEF Next, Outside
<1> QED BY <1>1, <1>2, PTL DEF Spec

-----------------------------------------------------------------------------
(* What main knows once it has drained the server *)

\* Only the end of the process cuts a handler off; the server exists only once Run
\* has assigned it; from the moment Shutdown has begun nothing is accepted any more,
\* and what main does after Shutdown has returned nil finds no handler running.
Drains ==
  /\ Alive => \A r \in Requests : reqs[r] # "cut"
  /\ main = "new" => run = "off"
  /\ run \in {"off", "build"} => server = "nil"
  /\ main \in {"drain", "flush", "return"} => server = "closing"
  /\ (Alive /\ main \in {"flush", "return"}) => Running = {}
  /\ CleanExitAnswersAll

\* Every step keeps Drains: Shutdown returns nil only when no handler runs, and by then
\* nothing is accepted any more.
LEMMA DrainsInductive ==
  ASSUME TypeOK, Drains, [Next]_vars
  PROVE  Drains'
<1> USE DEF Drains, CleanExitAnswersAll, Alive, Running, TypeOK
<1>1. CASE New
  BY <1>1 DEF New, Exit
<1>2. CASE Notify \/ ReceiveSignal
  BY <1>2 DEF Notify, ReceiveSignal
<1>3. CASE BeginShutdown
  BY <1>3 DEF BeginShutdown, Exit
<1>4. CASE Drained \/ Flush
  BY <1>4 DEF Drained, Flush
<1>5. CASE GiveUp \/ Fatal
  BY <1>5 DEF GiveUp, Fatal, Exit
<1>6. CASE Return
  BY <1>6 DEF Return, Exit
<1>7. CASE AssignServer
  BY <1>7 DEF AssignServer
<1>8. CASE Listen \/ StopServing
  BY <1>8 DEF Listen, StopServing
<1>9. CASE Signal
  BY <1>9 DEF Signal, Exit
<1>10. CASE Expire
  BY <1>10 DEF Expire
<1>11. ASSUME NEW r \in Requests, Accept(r)
       PROVE  Drains'
  BY <1>11 DEF Accept
<1>12. ASSUME NEW r \in Requests, Answer(r)
       PROVE  Drains'
  BY <1>12 DEF Answer
<1>13. CASE UNCHANGED vars
  BY <1>13 DEF vars
<1> QED BY <1>1, <1>2, <1>3, <1>4, <1>5, <1>6, <1>7, <1>8, <1>9, <1>10, <1>11, <1>12, <1>13
        DEF Next, Main, Run, Outside

\* main says "Server exited gracefully" only when every request that was accepted has
\* been answered, although the goroutine of Run races it to the end of the process.
THEOREM CleanExit == Spec => []CleanExitAnswersAll
<1>1. Init => Drains
  BY DEF Init, Drains, CleanExitAnswersAll, Alive, Running
<1>2. TypeOK /\ Drains /\ [Next]_vars => Drains'
  BY DrainsInductive
<1>3. Drains => CleanExitAnswersAll
  BY DEF Drains
<1> QED BY <1>1, <1>2, <1>3, TypeCorrect, PTL DEF Spec

\* A server that was told to shut down accepts nothing any more, wherever the
\* goroutine of Run was when main told it.
THEOREM AcceptsNothingLate == Spec => NoneAcceptedLate
<1>1. Init => Drains
  BY DEF Init, Drains, CleanExitAnswersAll, Alive, Running
<1>2. TypeOK /\ Drains /\ [Next]_vars => Drains'
  BY DrainsInductive
<1>3. ASSUME TypeOK, Drains, [Next]_vars,
             NEW r \in Requests, reqs[r] = "unsent", reqs'[r] = "running"
      PROVE  main \notin {"drain", "flush", "return"}
  <2>1. ASSUME NEW how, Exit(how)
        PROVE  reqs'[r] # "running"
    BY <1>3, <2>1 DEF Exit, Running
  <2>2. ASSUME NEW q \in Requests, Accept(q)
        PROVE  server = "serving"
    BY <2>2 DEF Accept
  <2>3. ASSUME NEW q \in Requests, Answer(q)
        PROVE  FALSE
    BY <1>3, <2>3 DEF Answer, TypeOK
  <2>4. CASE reqs' = reqs
    BY <1>3, <2>4
  <2>5. CASE Main
    BY <1>3, <2>1, <2>4, <2>5
    DEF Main, New, Notify, ReceiveSignal, BeginShutdown, Drained, GiveUp, Flush, Return
  <2>6. CASE Run
    BY <1>3, <2>1, <2>4, <2>6 DEF Run, AssignServer, Listen, StopServing, Fatal
  <2>7. CASE Signal \/ Expire
    BY <1>3, <2>1, <2>4, <2>7 DEF Signal, Expire
  <2>8. CASE UNCHANGED vars
    BY <2>4, <2>8 DEF vars
  <2> QED BY <1>3, <2>2, <2>3, <2>5, <2>6, <2>7, <2>8 DEF Next, Outside, Drains
<1>4. TypeOK /\ Drains /\ [Next]_vars =>
        [\A r \in Requests : reqs[r] = "unsent" /\ reqs'[r] = "running" =>
           main \notin {"drain", "flush", "return"}]_vars
  BY <1>3
<1> QED BY <1>1, <1>2, <1>4, TypeCorrect, PTL DEF Spec, NoneAcceptedLate

=============================================================================
