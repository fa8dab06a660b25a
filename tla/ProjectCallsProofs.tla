------------------------- MODULE ProjectCallsProofs -------------------------
(***************************************************************************)
(* Theorems about ProjectProcess and about the calls that ProjectCalls     *)
(* adds to it, for any finite set of calls and any set of messages.        *)
(***************************************************************************)
EXTENDS ProjectCalls, FiniteSetTheorems, TLAPS

-----------------------------------------------------------------------------
(* The process *)

\* Whatever ends the process, and whenever: main, Run and the gRPC server are at a point
\* of their code, and each call and message has exactly one outcome.
THEOREM ProcessTypeCorrect == Spec => []TypeOK
<1>1. Init => TypeOK
  BY DEF Init, TypeOK
<1>2. TypeOK /\ [Next]_vars => TypeOK'
  <2> SUFFICES ASSUME TypeOK, [Next]_vars PROVE TypeOK'
    OBVIOUS
  <2> USE DEF TypeOK
  <2>1. ASSUME NEW how \in {"ok", "fatal", "panic", "killed"}, Exit(how)
        PROVE  /\ exit' \in {"none", "ok", "fatal", "panic", "killed"}
               /\ work' \in [Calls \cup Messages ->
                               {"unsent", "queued", "running", "done", "dropped", "cut"}]
    BY <2>1 DEF Exit, Running
  <2>2. CASE New
    BY <2>1, <2>2 DEF New
  <2>3. CASE Return \/ Fatal
    BY <2>1, <2>3 DEF Return, Fatal
  <2>4. CASE Notify \/ ReceiveSignal \/ Stopped \/ Close \/ Flush
    BY <2>4 DEF Notify, ReceiveSignal, Stopped, Close, Flush
  <2>5. CASE StartConsumer \/ Serve \/ StopServing \/ Subscribe
    BY <2>5 DEF StartConsumer, Serve, StopServing, Subscribe
  <2>6. ASSUME NEW w \in Calls \cup Messages, Call(w) \/ Arrive(w) \/ CallBack(w) \/ Finish(w)
        PROVE  TypeOK'
    BY <2>6 DEF Call, Arrive, CallBack, Finish
  <2>7. CASE Signal
    <3>1. /\ exit' \in {"none", "ok", "fatal", "panic", "killed"}
          /\ work' \in [Calls \cup Messages ->
                          {"unsent", "queued", "running", "done", "dropped", "cut"}]
      BY <2>1, <2>7 DEF Signal
    <3>2. quit' \in BOOLEAN /\ asked' \in BOOLEAN /\ UNCHANGED <<main, run, consumer, grpc, nats>>
      BY <2>7 DEF Signal
    <3> QED BY <3>1, <3>2
  <2>8. CASE UNCHANGED vars
    BY <2>8 DEF vars
  <2> QED BY <2>2, <2>3, <2>4, <2>5, <2>6, <2>7, <2>8 DEF Next, Main, Run
<1> QED BY <1>1, <1>2, PTL DEF Spec

\* Until Run serves no call has come; once GracefulStop has begun no call comes, and
\* once it has returned none runs.  Only a signal before Notify cuts a call off, and
\* main is not yet where it could shut down then.
Orderly ==
  /\ main = "new" => run = "off"
  /\ run \in {"off", "begin", "listen", "failed"} =>
       grpc # "serving" /\ \A w \in Calls : work[w] = "unsent"
  /\ main \in {"stop", "close", "flush", "return"} => grpc = "stopping"
  /\ \A w \in Calls : work[w] \in {"unsent", "running", "done", "cut"}
  /\ main \in {"close", "flush", "return"} => \A w \in Calls : work[w] \in {"unsent", "done"}
  /\ Alive => \A w \in Calls : work[w] # "cut"
  /\ CallsAnswered

\* Every step of the process keeps Orderly: a call that was let in is finished before
\* GracefulStop returns, and only the end of the process cuts it off.
LEMMA OrderlyInductive ==
  ASSUME TypeOK, Orderly, ProjectProcessAssumption, [Next]_vars
  PROVE  Orderly'
<1> USE DEF Orderly, CallsAnswered, Alive, TypeOK, ProjectProcessAssumption
<1>1. CASE New
  <2>1. \A w \in Calls : work[w] = "unsent"
    BY <1>1 DEF New
  <2> QED BY <1>1, <2>1 DEF New, Exit, Running
<1>2. CASE Notify \/ ReceiveSignal
  BY <1>2 DEF Notify, ReceiveSignal
<1>3. CASE Stopped \/ Flush
  BY <1>3 DEF Stopped, Flush, Running
<1>4. CASE Close
  BY <1>4 DEF Close
<1>5. CASE Return
  BY <1>5 DEF Return, Exit, Running
<1>6. CASE Fatal
  BY <1>6 DEF Fatal, Exit, Running
<1>7. CASE Signal
  BY <1>7 DEF Signal, Exit, Running
<1>8. CASE StartConsumer \/ Serve \/ StopServing \/ Subscribe
  BY <1>8 DEF StartConsumer, Serve, StopServing, Subscribe, Running
<1>9. ASSUME NEW w \in Calls, Call(w)
      PROVE  Orderly'
  BY <1>9 DEF Call
<1>10. ASSUME NEW w \in Calls, Finish(w)
       PROVE  Orderly'
  BY <1>10 DEF Finish, Running
<1>11. ASSUME NEW w \in Messages, Arrive(w) \/ CallBack(w) \/ Finish(w)
       PROVE  Orderly'
  <2>1. \A c \in Calls : work'[c] = work[c]
    BY <1>11 DEF Arrive, CallBack, Finish
  <2> QED BY <1>11, <2>1 DEF Arrive, CallBack, Finish
<1>12. CASE UNCHANGED vars
  BY <1>12 DEF vars
<1> QED BY <1>1, <1>2, <1>3, <1>4, <1>5, <1>6, <1>7, <1>8, <1>9, <1>10, <1>11, <1>12
        DEF Next, Main, Run

\* Orderly holds in every reachable state of the process.
LEMMA AlwaysOrderly ==
  ASSUME ProjectProcessAssumption
  PROVE  Spec => []Orderly
<1>1. Init => Orderly
  BY DEF Init, Orderly, Alive, CallsAnswered
<1>2. TypeOK /\ Orderly /\ [Next]_vars => Orderly'
  BY OrderlyInductive
<1> QED BY <1>1, <1>2, ProcessTypeCorrect, PTL DEF Spec

-----------------------------------------------------------------------------
(* ProjectCalls implements ProjectProcess *)

\* A step of a caller, a handler or the reader is invisible to the process, except that a call
\* begins to run when it reaches its handler and is done when the handler leaves.
LEMMA CallsStepIsAProcessStep ==
  ASSUME [CallsNext]_allVars
  PROVE  [Next]_vars
<1>1. ASSUME NEW w \in Calls, Request(w) \/ Limit(w) \/ Disconnect(w) \/ Wait(w)
      PROVE  UNCHANGED vars
  BY <1>1 DEF Request, Limit, Disconnect, Wait, Receive, GiveUp, Refuse, Lose
<1>2. ASSUME NEW w \in Calls, GetAllProjects(w) \/ GetMessagesByEmail(w)
      PROVE  UNCHANGED vars
  BY <1>2 DEF GetAllProjects, GetMessagesByEmail, Statement
<1>3. ASSUME NEW w \in Calls, Handle(w)
      PROVE  UNCHANGED vars \/ Finish(w)
  BY <1>3 DEF Handle, StartRequest, CutShort, RecordTotal, RecordError, EndRequest
<1>4. ASSUME NEW w \in Calls, Reach(w)
      PROVE  Call(w)
  BY <1>4 DEF Reach
<1>5. CollectTotal \/ CollectErrors => UNCHANGED vars
  BY DEF CollectTotal, CollectErrors
<1> QED BY <1>1, <1>2, <1>3, <1>4, <1>5 DEF CallsNext, Next, Process, allVars

\* Whatever callers and handlers do, the process behaves as ProjectProcess says; the
\* fairness that ImplementsProcess adds is left to the runs.
THEOREM CallsImplementProcess == CallsSpec => Spec
<1>1. CallsInit => Init
  BY DEF CallsInit
<1> QED BY <1>1, CallsStepIsAProcessStep, PTL DEF CallsSpec, Spec

\* A call is cut off only by a signal that comes before Notify.
THEOREM AnsweredUnlessKilled == CallsSpec => []CallsAnswered
<1>1. Orderly => CallsAnswered
  BY DEF Orderly
<1> QED BY <1>1, AlwaysOrderly, ProjectProcessAssumption, CallsImplementProcess, PTL

-----------------------------------------------------------------------------
(* Counting calls *)

\* The handlers that have raised active, total and errors: they are past the line where
\* the counter goes up, and not past the one where active goes down.
Active == {w \in Calls : handler[w] \in {"reading", "read", "counted", "recorded"}}
Counted == {w \in Calls : handler[w] \in {"counted", "recorded", "left"}}
Failed == {w \in Calls : handler[w] \in {"recorded", "left"} /\ status[w] = "error"}

\* Counting a set of calls.
LEMMA Count ==
  ASSUME ProjectCallsAssumption, NEW S \in SUBSET Calls
  PROVE  /\ Cardinality(S) \in 0..Cardinality(Calls)
         /\ \A w \in Calls \ S : Cardinality(S \cup {w}) = Cardinality(S) + 1
         /\ \A w \in S : Cardinality(S \ {w}) = Cardinality(S) - 1
<1>1. IsFiniteSet(S) /\ Cardinality(S) <= Cardinality(Calls) /\ Cardinality(S) \in Nat
      /\ Cardinality(Calls) \in Nat
  BY FS_Subset, FS_CardinalityType DEF ProjectCallsAssumption
<1>2. \A w \in Calls \ S : Cardinality(S \cup {w}) = Cardinality(S) + 1
  BY <1>1, FS_AddElement
<1>3. \A w \in S : Cardinality(S \ {w}) = Cardinality(S) - 1
  BY <1>1, FS_RemoveElement
<1> QED BY <1>1, <1>2, <1>3

-----------------------------------------------------------------------------
(* The calls *)

\* The types of the variables that ProjectCalls adds, the counters excepted.
CallsTyped ==
  /\ client \in BOOLEAN
  /\ caller \in [Calls -> Callers] /\ over \subseteq Calls
  /\ handler \in [Calls -> Places] /\ status \in [Calls -> {"none", "ok", "error"}]
  /\ seen \in -1..Cardinality(Calls)

\* A call runs exactly while its handler is on its way, and the handler knows how its
\* statement has ended from then on; each counter counts the handlers that have passed
\* the line where it is changed; and a caller that has been given an error has met the
\* end of its context, an error of the handler, or the end of the process.
Accounted ==
  /\ \A w \in Calls :
       /\ handler[w] = "none" <=> work[w] = "unsent"
       /\ handler[w] = "left" <=> work[w] = "done"
       /\ handler[w] \in {"none", "arrived", "reading"} <=> status[w] = "none"
       /\ caller[w] = "failed" => w \in over \/ status[w] = "error" \/ work[w] = "cut"
  /\ active = Cardinality(Active)
  /\ total = Cardinality(Counted)
  /\ errors = Cardinality(Failed)

\* The inductive invariant.
CallsInv == TypeOK /\ Orderly /\ CallsTyped /\ Accounted

\* Steps in which no handler moves.
LEMMA NoHandlerMoves ==
  ASSUME CallsInv, UNCHANGED <<handler, status, counters, seen>>,
         \A w \in Calls : /\ work'[w] = "unsent" <=> work[w] = "unsent"
                          /\ work'[w] = "done" <=> work[w] = "done"
                          /\ caller'[w] = "failed" =>
                               w \in over' \/ status[w] = "error" \/ work'[w] = "cut",
         client' \in BOOLEAN, caller' \in [Calls -> Callers], over' \subseteq Calls
  PROVE  CallsTyped' /\ Accounted'
BY DEF CallsInv, CallsTyped, Accounted, counters, Active, Counted, Failed

\* The process changes a call only by cutting it off.
LEMMA ProcessSteps ==
  ASSUME CallsInv, ProjectProcessAssumption, UNCHANGED callVars,
         \/ Main \/ Run \/ Subscribe \/ Signal \/ UNCHANGED vars
         \/ \E w \in Messages : Arrive(w) \/ CallBack(w) \/ Finish(w)
  PROVE  CallsTyped' /\ Accounted'
<1> USE DEF CallsInv, TypeOK
<1>1. \A w \in Calls : work'[w] = work[w] \/ (work[w] = "running" /\ work'[w] = "cut")
  <2>1. ASSUME NEW how, Exit(how)
        PROVE  \A w \in Calls : work'[w] = work[w] \/ (work[w] = "running" /\ work'[w] = "cut")
    BY <2>1 DEF Exit, Running
  <2>2. CASE Main
    <3>1. CASE New
      BY <2>1, <3>1 DEF New
    <3>2. CASE Close
      BY <3>2 DEF Close, Orderly
    <3>3. CASE Return
      BY <2>1, <3>3 DEF Return
    <3>4. CASE Notify \/ ReceiveSignal \/ Stopped \/ Flush
      BY <3>4 DEF Notify, ReceiveSignal, Stopped, Flush
    <3> QED BY <2>2, <3>1, <3>2, <3>3, <3>4 DEF Main
  <2>3. CASE Run \/ Subscribe \/ Signal \/ UNCHANGED vars
    BY <2>1, <2>3 DEF Run, StartConsumer, Serve, StopServing, Fatal, Subscribe, Signal, vars
  <2>4. ASSUME NEW w \in Messages, Arrive(w) \/ CallBack(w) \/ Finish(w)
        PROVE  \A c \in Calls : work'[c] = work[c]
    BY <2>4 DEF Arrive, CallBack, Finish, ProjectProcessAssumption
  <2> QED BY <2>2, <2>3, <2>4
<1>2. \A w \in Calls : caller[w] = "failed" => w \in over \/ status[w] = "error" \/ work[w] = "cut"
  BY DEF Accounted
<1> QED BY <1>1, <1>2, NoHandlerMoves DEF callVars, CallsTyped

\* A caller is told of a failure only for one of the three reasons.
LEMMA CallerSteps ==
  ASSUME CallsInv, NEW w \in Calls, Request(w) \/ Limit(w) \/ Disconnect(w) \/ Wait(w)
  PROVE  CallsTyped' /\ Accounted'
<1> USE DEF CallsInv
<1>1. UNCHANGED <<handler, status, counters, client, seen>> /\ work' = work /\ over \subseteq over'
  BY DEF Request, Limit, Disconnect, Wait, Receive, GiveUp, Refuse, Lose, vars, counters
<1>2. caller' \in [Calls -> Callers] /\ over' \subseteq Calls
  BY DEF Request, Limit, Disconnect, Wait, Receive, GiveUp, Refuse, Lose, CallerGets, CallsTyped, Callers
<1>3. ASSUME NEW c \in Calls, caller'[c] = "failed"
      PROVE  c \in over' \/ status[c] = "error" \/ work[c] = "cut"
  <2>1. CASE caller[c] = "failed"
    BY <1>1, <2>1 DEF Accounted
  <2>2. CASE caller[c] # "failed"
    <3>1. c = w /\ (Receive(w) \/ GiveUp(w) \/ Lose(w))
      BY <1>3, <2>2 DEF Request, Limit, Disconnect, Wait, Receive, GiveUp, Refuse, Lose, CallerGets,
                        CallsTyped
    <3>2. CASE Receive(w)
      <4>1. status[w] # "ok" /\ work[w] = "done"
        BY <1>3, <3>1, <3>2 DEF Receive, CallerGets, CallsTyped
      <4> QED BY <3>1, <4>1 DEF Accounted, CallsTyped
    <3>3. CASE GiveUp(w) \/ Lose(w)
      BY <1>1, <3>1, <3>3 DEF GiveUp, Lose
    <3> QED BY <3>1, <3>2, <3>3
  <2> QED BY <2>1, <2>2
<1> QED BY <1>1, <1>2, <1>3, NoHandlerMoves DEF CallsTyped

\* One handler goes on by one place; of the sets that are counted, each keeps its
\* members or wins or loses this one.
LEMMA HandlerMoves ==
  ASSUME CallsInv, ProjectCallsAssumption, NEW w \in Calls, NEW place \in Places, Go(w, place),
         NEW how \in {"none", "ok", "error"}, status' = [status EXCEPT ![w] = how],
         UNCHANGED <<client, caller, over, seen>>,
         status[w] = "none" \/ how = status[w],
         place \in {"none", "arrived", "reading"} <=> how = "none",
         work'[w] = "unsent" <=> place = "none",
         work'[w] = "done" <=> place = "left",
         work[w] # "cut", \A c \in Calls \ {w} : work'[c] = work[c],
         active' = Cardinality(Active'),
         total' = Cardinality(Counted'),
         errors' = Cardinality(Failed')
  PROVE  CallsTyped' /\ Accounted'
<1> USE DEF CallsInv
<1>1. CallsTyped'
  BY DEF CallsTyped, Go
<1>2. \A c \in Calls : /\ handler'[c] = IF c = w THEN place ELSE handler[c]
                       /\ status'[c] = IF c = w THEN how ELSE status[c]
  BY DEF CallsTyped, Go
<1> QED BY <1>1, <1>2 DEF Accounted, CallsTyped

\* Each step of a handler moves it past at most one line that changes a counter, and
\* changes that counter.
LEMMA HandlerSteps ==
  ASSUME CallsInv, ProjectCallsAssumption, NEW w \in Calls,
         Reach(w) \/ GetAllProjects(w) \/ GetMessagesByEmail(w) \/ Handle(w)
  PROVE  CallsTyped' /\ Accounted'
<1> USE DEF CallsInv
<1>1. CASE Reach(w)
  <2>1. Go(w, "arrived") /\ UNCHANGED <<client, caller, over, status, counters, seen>>
    BY <1>1 DEF Reach
  <2>2. work[w] = "unsent" /\ work' = [work EXCEPT ![w] = "running"]
    BY <1>1 DEF Reach, Call
  <2>3. handler[w] = "none" /\ status[w] = "none"
    BY <2>2 DEF Accounted
  <2>4. Active' = Active /\ Counted' = Counted /\ Failed' = Failed
    BY <2>1, <2>3 DEF Go, CallsTyped, Active, Counted, Failed
  <2>5. work'[w] = "running" /\ \A c \in Calls \ {w} : work'[c] = work[c]
    BY <2>2 DEF TypeOK
  <2>6. status' = [status EXCEPT ![w] = "none"]
    BY <2>1, <2>3 DEF CallsTyped
  <2> QED BY <2>1, <2>2, <2>3, <2>4, <2>5, <2>6, HandlerMoves DEF Accounted, counters, Places
<1>2. CASE StartRequest(w)
  <2>1. /\ handler[w] = "arrived" /\ Alive /\ active' = active + 1 /\ Go(w, "reading")
        /\ UNCHANGED <<vars, client, caller, over, status, total, errors, seen>>
    BY <1>2 DEF StartRequest, At
  <2>2. status[w] = "none" /\ work[w] \notin {"unsent", "done", "cut"}
    BY <2>1 DEF Accounted, Orderly
  <2>3. Active' = Active \cup {w} /\ w \notin Active /\ Counted' = Counted /\ Failed' = Failed
    BY <2>1 DEF Go, CallsTyped, Active, Counted, Failed
  <2>4. Cardinality(Active') = Cardinality(Active) + 1
    BY <2>3, Count DEF Active
  <2>5. status' = [status EXCEPT ![w] = "none"]
    BY <2>1, <2>2 DEF CallsTyped
  <2> QED BY <2>1, <2>2, <2>3, <2>4, <2>5, HandlerMoves DEF Accounted, Places, vars
<1>3. CASE Statement(w) \/ CutShort(w)
  <2>1. /\ handler[w] = "reading" /\ Alive /\ Go(w, "read")
        /\ UNCHANGED <<vars, client, caller, over, counters, seen>>
    BY <1>3 DEF Statement, CutShort, At
  <2>2. PICK how \in {"ok", "error"} : status' = [status EXCEPT ![w] = how]
    BY <1>3 DEF Statement, CutShort, End
  <2>3. status[w] = "none" /\ work[w] \notin {"unsent", "done", "cut"}
    BY <2>1 DEF Accounted, Orderly
  <2>4. Active' = Active /\ Counted' = Counted /\ Failed' = Failed
    BY <2>1, <2>2 DEF Go, CallsTyped, Active, Counted, Failed
  <2> QED BY <2>1, <2>2, <2>3, <2>4, HandlerMoves DEF Accounted, counters, Places, vars
<1>4. CASE RecordTotal(w)
  <2>1. /\ handler[w] = "read" /\ Alive /\ total' = total + 1 /\ Go(w, "counted")
        /\ UNCHANGED <<vars, client, caller, over, status, active, errors, seen>>
    BY <1>4 DEF RecordTotal, At
  <2>2. status[w] # "none" /\ work[w] \notin {"unsent", "done", "cut"}
    BY <2>1 DEF Accounted, Orderly
  <2>3. Active' = Active /\ Counted' = Counted \cup {w} /\ w \notin Counted /\ Failed' = Failed
    BY <2>1 DEF Go, CallsTyped, Active, Counted, Failed
  <2>4. Cardinality(Counted') = Cardinality(Counted) + 1
    BY <2>3, Count DEF Counted
  <2>5. status' = [status EXCEPT ![w] = status[w]] /\ status[w] \in {"none", "ok", "error"}
    BY <2>1 DEF CallsTyped
  <2> QED BY <2>1, <2>2, <2>3, <2>4, <2>5, HandlerMoves DEF Accounted, Places, vars
<1>5. CASE RecordError(w)
  <2>1. /\ handler[w] = "counted" /\ Alive /\ Go(w, "recorded")
        /\ errors' = IF status[w] = "ok" THEN errors ELSE errors + 1
        /\ UNCHANGED <<vars, client, caller, over, status, active, total, seen>>
    BY <1>5 DEF RecordError, At
  <2>2. status[w] \in {"ok", "error"} /\ work[w] \notin {"unsent", "done", "cut"}
    BY <2>1 DEF Accounted, Orderly, CallsTyped
  <2>3. Active' = Active /\ Counted' = Counted /\ w \notin Failed
        /\ Failed' = IF status[w] = "ok" THEN Failed ELSE Failed \cup {w}
    BY <2>1, <2>2 DEF Go, CallsTyped, Active, Counted, Failed
  <2>4. errors' = Cardinality(Failed')
    <3>1. w \notin Failed => Cardinality(Failed \cup {w}) = Cardinality(Failed) + 1
      BY Count DEF Failed
    <3> QED BY <2>1, <2>3, <3>1 DEF Accounted
  <2>5. status' = [status EXCEPT ![w] = status[w]]
    BY <2>1 DEF CallsTyped
  <2> QED BY <2>1, <2>2, <2>3, <2>4, <2>5, HandlerMoves DEF Accounted, Places, vars
<1>6. CASE EndRequest(w)
  <2>1. /\ handler[w] = "recorded" /\ Alive /\ active' = active - 1 /\ Go(w, "left")
        /\ work' = [work EXCEPT ![w] = "done"]
        /\ UNCHANGED <<client, caller, over, status, total, errors, seen>>
    BY <1>6 DEF EndRequest, At, Finish
  <2>2. status[w] # "none" /\ work[w] \notin {"unsent", "done", "cut"}
    BY <2>1 DEF Accounted, Orderly
  <2>3. Active' = Active \ {w} /\ w \in Active /\ Counted' = Counted /\ Failed' = Failed
    BY <2>1 DEF Go, CallsTyped, Active, Counted, Failed
  <2>4. Cardinality(Active') = Cardinality(Active) - 1
    BY <2>3, Count DEF Active
  <2>5. status' = [status EXCEPT ![w] = status[w]] /\ status[w] \in {"none", "ok", "error"}
    BY <2>1 DEF CallsTyped
  <2>6. work'[w] = "done" /\ \A c \in Calls \ {w} : work'[c] = work[c]
    BY <2>1 DEF TypeOK
  <2> QED BY <2>1, <2>2, <2>3, <2>4, <2>5, <2>6, HandlerMoves DEF Accounted, Places
<1> QED BY <1>1, <1>2, <1>3, <1>4, <1>5, <1>6 DEF GetAllProjects, GetMessagesByEmail, Handle

\* An export under way remembers a total that is in range, and changes nothing else.
LEMMA ReaderSteps ==
  ASSUME CallsInv, ProjectCallsAssumption, CollectTotal \/ CollectErrors
  PROVE  CallsTyped' /\ Accounted'
<1>1. UNCHANGED <<vars, client, caller, over, handler, status, counters>>
  BY DEF CollectTotal, CollectErrors
<1>2. total \in 0..Cardinality(Calls) /\ Cardinality(Calls) \in Nat
  BY Count, FS_CardinalityType DEF CallsInv, Accounted, Counted, ProjectCallsAssumption
<1>3. seen' \in -1..Cardinality(Calls)
  BY <1>2 DEF CollectTotal, CollectErrors
<1>4. CallsTyped'
  BY <1>1, <1>3 DEF CallsInv, CallsTyped
<1> QED BY <1>1, <1>4 DEF CallsInv, Accounted, vars, counters, Active, Counted, Failed

-----------------------------------------------------------------------------
(* Results *)

\* The invariant holds in every reachable state.
LEMMA CallsAccounted ==
  ASSUME ProjectProcessAssumption, ProjectCallsAssumption
  PROVE  CallsSpec => []CallsInv
<1>1. CallsInit => CallsTyped /\ Accounted
  <2> SUFFICES ASSUME CallsInit PROVE CallsTyped /\ Accounted
    OBVIOUS
  <2>1. Active = {} /\ Counted = {} /\ Failed = {}
    BY DEF CallsInit, Active, Counted, Failed
  <2>2. Cardinality(Calls) \in Nat
    BY ProjectCallsAssumption, FS_CardinalityType DEF ProjectCallsAssumption
  <2> QED BY <2>1, <2>2, FS_EmptySet DEF CallsInit, Init, CallsTyped, Accounted, Callers, Places
<1>2. CallsInv /\ [CallsNext]_allVars => (CallsTyped /\ Accounted)'
  <2> SUFFICES ASSUME CallsInv, [CallsNext]_allVars PROVE (CallsTyped /\ Accounted)'
    OBVIOUS
  <2>1. ASSUME NEW w \in Calls, Request(w) \/ Limit(w) \/ Disconnect(w) \/ Wait(w)
        PROVE  (CallsTyped /\ Accounted)'
    BY <2>1, CallerSteps
  <2>2. ASSUME NEW w \in Calls,
               Reach(w) \/ GetAllProjects(w) \/ GetMessagesByEmail(w) \/ Handle(w)
        PROVE  (CallsTyped /\ Accounted)'
    BY <2>2, HandlerSteps
  <2>3. CollectTotal \/ CollectErrors => (CallsTyped /\ Accounted)'
    BY ReaderSteps
  <2> QED BY <2>1, <2>2, <2>3, ProcessSteps DEF CallsNext, Process, allVars
<1>3. CallsSpec => [](TypeOK /\ Orderly)
  BY CallsImplementProcess, ProcessTypeCorrect, AlwaysOrderly, PTL
<1>4. TypeOK /\ Orderly /\ CallsTyped /\ Accounted <=> CallsInv
  BY DEF CallsInv
<1> QED BY <1>1, <1>2, <1>3, <1>4, PTL DEF CallsSpec

\* Types, and no counter ever leaves the range that the number of calls gives it.
THEOREM CallsTypeCorrect == CallsSpec => []CallsTypeOK
<1>1. ProjectCallsAssumption /\ CallsInv => CallsTypeOK
  BY Count DEF CallsInv, CallsTypeOK, CallsTyped, Accounted, Active, Counted, Failed
<1> QED BY <1>1, CallsAccounted, ProjectProcessAssumption, ProjectCallsAssumption, PTL

\* An export that shows more errors than requests has been overtaken by a call between
\* its two readings: with every handler between any two of its lines, at most the calls
\* that total counts are errors.
THEOREM ExcessOnlyUnderWay == CallsSpec => ExcessIsUnderWay
<1>1. ASSUME ProjectCallsAssumption, CallsInv
      PROVE  errors <= total /\ errors \in Nat /\ total \in Nat /\ seen \in Int
  <2>1. Failed \subseteq Counted /\ Counted \subseteq Calls
    BY DEF Failed, Counted
  <2>2. IsFiniteSet(Counted)
    BY <1>1, <2>1, FS_Subset DEF ProjectCallsAssumption
  <2>3. Cardinality(Failed) <= Cardinality(Counted)
    BY <2>1, <2>2, FS_Subset
  <2>4. Cardinality(Failed) \in Nat /\ Cardinality(Counted) \in Nat
    BY <2>1, <2>2, FS_Subset, FS_CardinalityType
  <2> QED BY <1>1, <2>3, <2>4 DEF CallsInv, Accounted, CallsTyped
<1>2. ProjectCallsAssumption /\ CallsInv => [CollectErrors /\ errors > seen => total > seen]_seen
  BY <1>1
<1> QED BY <1>2, CallsAccounted, ProjectProcessAssumption, ProjectCallsAssumption, PTL DEF ExcessIsUnderWay

\* When telemetry is flushed no call runs any more, and the counters say of each call
\* what became of it.
THEOREM ExportComplete == CallsSpec => []LastExportComplete
<1>1. ASSUME CallsInv, main \in {"flush", "return"}
      PROVE  /\ active = 0
             /\ total = Cardinality({w \in Calls : work[w] = "done"})
             /\ errors = Cardinality({w \in Calls : work[w] = "done" /\ status[w] = "error"})
  <2>1. \A w \in Calls : \/ handler[w] = "none" /\ work[w] = "unsent"
                         \/ handler[w] = "left" /\ work[w] = "done"
    BY <1>1 DEF CallsInv, Orderly, Accounted
  <2>2. /\ Active = {}
        /\ Counted = {w \in Calls : work[w] = "done"}
        /\ Failed = {w \in Calls : work[w] = "done" /\ status[w] = "error"}
    BY <2>1 DEF Active, Counted, Failed
  <2> QED BY <1>1, <2>2, FS_EmptySet DEF CallsInv, Accounted
<1>2. CallsInv => LastExportComplete
  BY <1>1 DEF LastExportComplete
<1> QED BY <1>2, CallsAccounted, ProjectProcessAssumption, ProjectCallsAssumption, PTL

\* A shutdown takes no caller's answer away.
THEOREM AnswersSurviveShutdown == CallsSpec => []NoCallLostToShutdown
<1>1. CallsInv => NoCallLostToShutdown
  BY DEF CallsInv, Accounted, Orderly, CallsAnswered, NoCallLostToShutdown
<1> QED BY <1>1, CallsAccounted, ProjectProcessAssumption, ProjectCallsAssumption, PTL

=============================================================================
