---------------------------- MODULE ProjectCalls ----------------------------
(***************************************************************************)
(* The calls that the student service makes of the project service: GET    *)
(* /projects, GET /messages and the health check, through GrpcClient with  *)
(* its limits of 5 and 2 seconds, to the handlers behind the interceptor   *)
(* of GrpcMetrics, in a project service that starts, stops and fails as in *)
(* ProjectProcess.                                                         *)
(*                                                                         *)
(* grpc-go is modelled from how it is used.  A call without a server is    *)
(* refused; the end of a call's context at the client is also the end of   *)
(* its context at the server, noticed by each in its own time; a statement *)
(* ends once its context has.  So is the periodic reader of OpenTelemetry: *)
(* an export collects the instruments one after another, in the order in   *)
(* which NewGrpcMetrics creates them.                                      *)
(*                                                                         *)
(* A definition marked "mutant" is a plausible bug of the definition that  *)
(* follows it.  Nothing refers to it; PROJECT.json says which property     *)
(* catches it.                                                             *)
(***************************************************************************)
EXTENDS Integers, FiniteSets, ProjectProcess

CONSTANT MessageCalls  \* the calls of GetMessagesByEmail; the others are of GetAllProjects

ASSUME ProjectCallsAssumption == MessageCalls \subseteq Calls /\ IsFiniteSet(Calls)

VARIABLES
  client,   \* does the student service have a GrpcClient?
  caller,   \* where the caller of each call is, and what it has got
  over,     \* calls whose context has ended
  handler,  \* where the handler of each call is, inside the interceptor
  status,   \* how the handler has ended
  active,   \* grpc.server.active_requests
  total,    \* grpc.server.requests_total
  errors,   \* grpc.server.errors_total
  seen      \* the total that the export under way has collected, -1 without one

counters == <<active, total, errors>>
callVars == <<client, caller, over, handler, status, counters, seen>>
allVars == <<vars, callVars>>

CallsInit ==
  /\ Init
  /\ client \in BOOLEAN
  /\ caller = [w \in Calls |-> "idle"] /\ over = {}
  /\ handler = [w \in Calls |-> "none"] /\ status = [w \in Calls |-> "none"]
  /\ active = 0 /\ total = 0 /\ errors = 0 /\ seen = -1

-----------------------------------------------------------------------------
(* Student service *)

CallerGets(w, got) == caller' = [caller EXCEPT ![w] = got]

\* The two handlers; without an email, or without a client, they answer at once.
Request(w) ==
  /\ caller[w] = "idle"
  /\ \/ client /\ CallerGets(w, "waiting")
     \/ (w \in MessageCalls \/ ~client) /\ CallerGets(w, "rejected")
  /\ UNCHANGED <<vars, client, over, handler, status, counters, seen>>

LimitOfMessages(w) ==                                                    \* mutant
  /\ caller[w] = "waiting" /\ w \in MessageCalls
  /\ over' = over \cup {w}
  /\ UNCHANGED <<vars, client, caller, handler, status, counters, seen>>
\* context.WithTimeout: the 5 or 2 seconds are over.
Limit(w) ==
  /\ caller[w] = "waiting"
  /\ over' = over \cup {w}
  /\ UNCHANGED <<vars, client, caller, handler, status, counters, seen>>

\* The browser leaves, or the student service ends.
Disconnect(w) ==
  /\ caller[w] = "waiting"
  /\ over' = over \cup {w}
  /\ UNCHANGED <<vars, client, caller, handler, status, counters, seen>>

\* The stub's Invoke returns: with an answer, however late; because the context
\* has ended; because there is no server; because the server has gone.
Receive(w) ==
  /\ caller[w] = "waiting" /\ work[w] = "done"
  /\ CallerGets(w, IF status[w] = "ok" THEN "answered" ELSE "failed")
  /\ UNCHANGED <<vars, client, over, handler, status, counters, seen>>

GiveUp(w) ==
  /\ caller[w] = "waiting" /\ w \in over
  /\ CallerGets(w, "failed")
  /\ UNCHANGED <<vars, client, over, handler, status, counters, seen>>

Refuse(w) ==
  /\ caller[w] = "waiting" /\ work[w] = "unsent"
  /\ ~Alive \/ grpc # "serving"
  /\ CallerGets(w, "refused")
  /\ UNCHANGED <<vars, client, over, handler, status, counters, seen>>

Lose(w) ==
  /\ caller[w] = "waiting" /\ work[w] = "cut"
  /\ CallerGets(w, "failed")
  /\ UNCHANGED <<vars, client, over, handler, status, counters, seen>>

-----------------------------------------------------------------------------
(* Project service: the steps of a handler inside the interceptor *)

At(w, place) == Alive /\ handler[w] = place
Go(w, place) == handler' = [handler EXCEPT ![w] = place]
End(w, how) == status' = [status EXCEPT ![w] = how]

\* The generated handler hands the call to the interceptor; a call that was
\* given up may still arrive.
Reach(w) ==
  /\ caller[w] \in {"waiting", "failed"}
  /\ Call(w)
  /\ Go(w, "arrived")
  /\ UNCHANGED <<client, caller, over, status, counters, seen>>

StartRequest(w) ==
  /\ At(w, "arrived")
  /\ active' = active + 1
  /\ Go(w, "reading")
  /\ UNCHANGED <<vars, client, caller, over, status, total, errors, seen>>

\* The two handlers run one statement each, which may fail.
Statement(w) ==
  /\ At(w, "reading")
  /\ \E how \in {"ok", "error"} : End(w, how)
  /\ Go(w, "read")
  /\ UNCHANGED <<vars, client, caller, over, counters, seen>>

GetAllProjects(w) == w \notin MessageCalls /\ Statement(w)
GetMessagesByEmail(w) == w \in MessageCalls /\ Statement(w)

CutShortMessages(w) ==                                                   \* mutant
  /\ At(w, "reading") /\ w \in over \cap MessageCalls
  /\ End(w, "error") /\ Go(w, "read")
  /\ UNCHANGED <<vars, client, caller, over, counters, seen>>
\* The statement ends with its context.
CutShort(w) ==
  /\ At(w, "reading") /\ w \in over
  /\ End(w, "error") /\ Go(w, "read")
  /\ UNCHANGED <<vars, client, caller, over, counters, seen>>

RecordTotalOfSuccess(w) ==                                               \* mutant
  /\ At(w, "read")
  /\ total' = IF status[w] = "ok" THEN total + 1 ELSE total
  /\ Go(w, "counted")
  /\ UNCHANGED <<vars, client, caller, over, status, active, errors, seen>>
\* RecordRequest: the counter of requests first, then that of errors.
RecordTotal(w) ==
  /\ At(w, "read")
  /\ total' = total + 1
  /\ Go(w, "counted")
  /\ UNCHANGED <<vars, client, caller, over, status, active, errors, seen>>

RecordError(w) ==
  /\ At(w, "counted")
  /\ errors' = IF status[w] = "ok" THEN errors ELSE errors + 1
  /\ Go(w, "recorded")
  /\ UNCHANGED <<vars, client, caller, over, status, active, total, seen>>

EndRequestTwice(w) ==                                                    \* mutant
  /\ At(w, "recorded")
  /\ active' = active - 2
  /\ Go(w, "left") /\ Finish(w)
  /\ UNCHANGED <<client, caller, over, status, total, errors, seen>>
EndRequestOfSuccess(w) ==                                                \* mutant
  /\ At(w, "recorded")
  /\ active' = IF status[w] = "ok" THEN active - 1 ELSE active
  /\ Go(w, "left") /\ Finish(w)
  /\ UNCHANGED <<client, caller, over, status, total, errors, seen>>
\* The deferred end of the interceptor, and the answer.
EndRequest(w) ==
  /\ At(w, "recorded")
  /\ active' = active - 1
  /\ Go(w, "left") /\ Finish(w)
  /\ UNCHANGED <<client, caller, over, status, total, errors, seen>>

Handle(w) == StartRequest(w) \/ CutShort(w) \/ RecordTotal(w) \/ RecordError(w) \/ EndRequest(w)

-----------------------------------------------------------------------------
(* The periodic reader: it never waits for a handler, nor a handler for it. *)

CollectTotal ==
  /\ Alive /\ main # "new" /\ seen = -1
  /\ seen' = total
  /\ UNCHANGED <<vars, client, caller, over, handler, status, counters>>

\* The export shows seen requests and errors errors.
CollectErrors ==
  /\ Alive /\ seen # -1
  /\ seen' = -1
  /\ UNCHANGED <<vars, client, caller, over, handler, status, counters>>

-----------------------------------------------------------------------------
(* The rest of the project service goes on as before. *)

Process(step) == step /\ UNCHANGED callVars

Wait(w) == Receive(w) \/ GiveUp(w) \/ Refuse(w) \/ Lose(w)

CallsNext ==
  \/ Process(Main) \/ Process(Run) \/ Process(Subscribe) \/ Process(Signal)
  \/ CollectTotal \/ CollectErrors
  \/ \E w \in Messages : Process(Arrive(w)) \/ Process(CallBack(w)) \/ Process(Finish(w))
  \/ \E w \in Calls : \/ Request(w) \/ Limit(w) \/ Disconnect(w) \/ Wait(w)
                      \/ Reach(w) \/ GetAllProjects(w) \/ GetMessagesByEmail(w) \/ Handle(w)

\* Beyond the goroutines of the process: limits pass, callers and handlers go on.
\* A statement whose context has not ended may take as long as it likes.
CallsSpec ==
  /\ CallsInit /\ [][CallsNext]_allVars
  /\ WF_allVars(Process(Main)) /\ WF_allVars(Process(Run)) /\ WF_allVars(Process(Subscribe))
  /\ \A w \in Calls : WF_allVars(Limit(w)) /\ WF_allVars(Wait(w)) /\ WF_allVars(Handle(w))

-----------------------------------------------------------------------------
(* Properties *)

Callers == {"idle", "rejected", "waiting", "answered", "failed", "refused"}
Places == {"none", "arrived", "reading", "read", "counted", "recorded", "left"}

CallsTypeOK ==
  /\ TypeOK
  /\ client \in BOOLEAN
  /\ caller \in [Calls -> Callers] /\ over \subseteq Calls
  /\ handler \in [Calls -> Places] /\ status \in [Calls -> {"none", "ok", "error"}]
  /\ active \in 0..Cardinality(Calls)
  /\ total \in 0..Cardinality(Calls) /\ errors \in 0..Cardinality(Calls)
  /\ seen \in -1..Cardinality(Calls)

\* The dashboard divides errors_total by requests_total.  An export may show more
\* errors than requests, because calls go on between its two readings; but it does so
\* only if a call was counted in between, so that the next export shows that call too.
ExcessIsUnderWay == [][CollectErrors /\ errors > seen => total > seen]_seen

\* The last export, which Shutdown makes after the calls have ended, is complete:
\* every answered call is counted, the failed ones as errors, and no call seems to
\* be active still.
LastExportComplete ==
  main \in {"flush", "return"} =>
    /\ active = 0
    /\ total = Cardinality({w \in Calls : work[w] = "done"})
    /\ errors = Cardinality({w \in Calls : work[w] = "done" /\ status[w] = "error"})

\* A caller whose call has reached its handler gets an error because reading failed
\* or because the context of the call ended, but never because the project service
\* shuts down: only a signal that comes before Notify takes the answer away.
NoCallLostToShutdown ==
  \A w \in Calls :
    caller[w] = "failed" /\ work[w] # "unsent" =>
      w \in over \/ status[w] = "error" \/ exit = "killed"

\* Every caller gets an answer, whether the project service answers, hangs, is
\* not there, stops or dies.
CallersEnd == \A w \in Calls : caller[w] = "waiting" ~> caller[w] # "waiting"

\* The limits of the student service are what makes the calls of ProjectProcess
\* end: with them its whole specification, fairness included, is implemented.
ImplementsProcess == FairSpec

=============================================================================
