--------------------------- MODULE ProjectProcess ---------------------------
(***************************************************************************)
(* One process of the project service from start to exit: the goroutine of *)
(* main, the goroutine that serves (App.Run), the one that Run starts for  *)
(* the NATS consumer, the handlers of gRPC calls and the callback of the   *)
(* subscription, and what a signal does to them.                           *)
(*                                                                         *)
(* grpc-go and nats.go are modelled from how they are used: GracefulStop   *)
(* ends Serve without an error and waits for the running calls, with no    *)
(* limit; Serve after GracefulStop fails; closing the connection drops     *)
(* what waits for the callback and leaves a running callback alone.  A     *)
(* listener that works once is taken to work on.                           *)
(*                                                                         *)
(* A definition marked "mutant" is a plausible bug of the definition that  *)
(* follows it.  Nothing refers to it; PROJECT.json says which property     *)
(* catches it.                                                             *)
(***************************************************************************)
CONSTANTS Calls, Messages

ASSUME ProjectProcessAssumption == Calls \cap Messages = {}

VARIABLES
  main,      \* where main is: in New, before Notify, waiting on quit, in Shutdown
             \* (stopping gRPC, closing NATS, flushing) or about to return
  run,       \* where the goroutine of Run is
  consumer,  \* where the goroutine of the consumer is
  grpc,      \* the gRPC server
  nats,      \* the NATS connection
  quit,      \* does the channel of signals hold one?
  asked,     \* has a signal come?
  work,      \* the state of each call and of each message
  exit       \* how the process ended

vars == <<main, run, consumer, grpc, nats, quit, asked, work, exit>>

Init ==
  /\ main = "new" /\ run = "off" /\ consumer = "off"
  /\ grpc = "new" /\ nats = "open"
  /\ quit = FALSE /\ asked = FALSE
  /\ work = [w \in Calls \cup Messages |-> "unsent"] /\ exit = "none"

Alive == exit = "none"
Running == {w \in Calls \cup Messages : work[w] = "running"}

\* The process ends, and with it whatever runs.
Exit(how) ==
  /\ exit' = how
  /\ work' = [w \in Calls \cup Messages |-> IF w \in Running THEN "cut" ELSE work[w]]

-----------------------------------------------------------------------------
(* main *)

\* New ends the process when the configuration, the database, the migrations or
\* NATS fail, and panics without telemetry, whose metrics it dereferences.
New ==
  /\ Alive /\ main = "new"
  /\ \/ \E how \in {"fatal", "panic"} : Exit(how) /\ UNCHANGED <<main, run>>
     \/ main' = "started" /\ run' = "begin" /\ UNCHANGED <<exit, work>>
  /\ UNCHANGED <<consumer, grpc, nats, quit, asked>>

Notify ==
  /\ Alive /\ main = "started"
  /\ main' = "wait"
  /\ UNCHANGED <<run, consumer, grpc, nats, quit, asked, work, exit>>

\* Shutdown begins with GracefulStop, which takes no context.
ReceiveSignal ==
  /\ Alive /\ main = "wait" /\ quit
  /\ main' = "stop" /\ quit' = FALSE /\ grpc' = "stopping"
  /\ UNCHANGED <<run, consumer, nats, asked, work, exit>>

StoppedAtOnce ==                                                         \* mutant
  /\ Alive /\ main = "stop"
  /\ main' = "close"
  /\ UNCHANGED <<run, consumer, grpc, nats, quit, asked, work, exit>>
Stopped ==
  /\ Alive /\ main = "stop" /\ Running \cap Calls = {}
  /\ main' = "close"
  /\ UNCHANGED <<run, consumer, grpc, nats, quit, asked, work, exit>>

CloseAfterStart ==                                                       \* mutant
  /\ Alive /\ main = "close" /\ consumer \in {"off", "failed"}
  /\ main' = "flush" /\ nats' = "closed"
  /\ work' = [w \in Calls \cup Messages |-> IF work[w] = "queued" THEN "dropped" ELSE work[w]]
  /\ UNCHANGED <<run, consumer, grpc, quit, asked, exit>>
\* Consumer.Close.  Whether it sees c.sub and unsubscribes, or misses it, the
\* connection it closes next ends the subscription.
Close ==
  /\ Alive /\ main = "close"
  /\ main' = "flush" /\ nats' = "closed"
  /\ work' = [w \in Calls \cup Messages |-> IF work[w] = "queued" THEN "dropped" ELSE work[w]]
  /\ UNCHANGED <<run, consumer, grpc, quit, asked, exit>>

\* The shutdown of telemetry; its error is only logged.
Flush ==
  /\ Alive /\ main = "flush"
  /\ main' = "return"
  /\ UNCHANGED <<run, consumer, grpc, nats, quit, asked, work, exit>>

Return ==
  /\ Alive /\ main = "return"
  /\ Exit("ok")
  /\ UNCHANGED <<main, run, consumer, grpc, nats, quit, asked>>

-----------------------------------------------------------------------------
(* The goroutine of Run *)

StartConsumer ==
  /\ Alive /\ run = "begin"
  /\ run' = "listen" /\ consumer' = "subscribe"
  /\ UNCHANGED <<main, grpc, nats, quit, asked, work, exit>>

\* The port is taken, or the server was stopped before it could serve: an error.
Serve ==
  /\ Alive /\ run = "listen"
  /\ \/ grpc = "new" /\ run' = "serve" /\ grpc' = "serving"
     \/ run' = "failed" /\ grpc' = grpc
  /\ UNCHANGED <<main, consumer, nats, quit, asked, work, exit>>

\* Serve returns nil after GracefulStop, once the calls have ended.
StopServing ==
  /\ Alive /\ run = "serve" /\ grpc = "stopping" /\ Running \cap Calls = {}
  /\ run' = "returned"
  /\ UNCHANGED <<main, consumer, grpc, nats, quit, asked, work, exit>>

Fatal ==
  /\ Alive /\ run = "failed"
  /\ Exit("fatal")
  /\ UNCHANGED <<main, run, consumer, grpc, nats, quit, asked>>

(* The goroutine of the consumer *)

\* Consumer.Start; after it has subscribed it waits for a context that never ends.
Subscribe ==
  /\ Alive /\ consumer = "subscribe"
  /\ consumer' = IF nats = "open" THEN "subscribed" ELSE "failed"
  /\ UNCHANGED <<main, run, grpc, nats, quit, asked, work, exit>>

-----------------------------------------------------------------------------
(* The outside *)

Signal ==
  /\ Alive
  /\ asked' = TRUE
  /\ \/ main \in {"new", "started"} /\ Exit("killed") /\ quit' = quit
     \/ main \notin {"new", "started"} /\ quit' = TRUE /\ UNCHANGED <<exit, work>>
  /\ UNCHANGED <<main, run, consumer, grpc, nats>>

Call(w) ==
  /\ Alive /\ grpc = "serving" /\ work[w] = "unsent"
  /\ work' = [work EXCEPT ![w] = "running"]
  /\ UNCHANGED <<main, run, consumer, grpc, nats, quit, asked, exit>>

\* A message arrives for the subscription.
Arrive(w) ==
  /\ Alive /\ nats = "open" /\ consumer = "subscribed" /\ work[w] = "unsent"
  /\ work' = [work EXCEPT ![w] = "queued"]
  /\ UNCHANGED <<main, run, consumer, grpc, nats, quit, asked, exit>>

\* One callback at a time.
CallBack(w) ==
  /\ Alive /\ nats = "open" /\ work[w] = "queued" /\ Running \cap Messages = {}
  /\ work' = [work EXCEPT ![w] = "running"]
  /\ UNCHANGED <<main, run, consumer, grpc, nats, quit, asked, exit>>

\* A call has answered, a callback has returned.
Finish(w) ==
  /\ Alive /\ w \in Running
  /\ work' = [work EXCEPT ![w] = "done"]
  /\ UNCHANGED <<main, run, consumer, grpc, nats, quit, asked, exit>>

-----------------------------------------------------------------------------
Main == New \/ Notify \/ ReceiveSignal \/ Stopped \/ Close \/ Flush \/ Return
Run == StartConsumer \/ Serve \/ StopServing \/ Fatal

Next ==
  \/ Main \/ Run \/ Subscribe \/ Signal
  \/ \E w \in Calls : Call(w) \/ Finish(w)
  \/ \E w \in Messages : Arrive(w) \/ CallBack(w) \/ Finish(w)

Spec == Init /\ [][Next]_vars

\* The goroutines are scheduled, and calls end: the student service gives each
\* of its calls 2 or 5 seconds, which gRPC passes on and the statements of the
\* handler obey.  ProjectCalls shows that they do.
\* Callbacks have no such limit.
FairSpec == /\ Spec
            /\ WF_vars(Main) /\ WF_vars(Run) /\ WF_vars(Subscribe)
            /\ \A w \in Calls : WF_vars(Finish(w))

-----------------------------------------------------------------------------
(* Properties *)

TypeOK ==
  /\ main \in {"new", "started", "wait", "stop", "close", "flush", "return"}
  /\ run \in {"off", "begin", "listen", "serve", "failed", "returned"}
  /\ consumer \in {"off", "subscribe", "subscribed", "failed"}
  /\ grpc \in {"new", "serving", "stopping"} /\ nats \in {"open", "closed"}
  /\ quit \in BOOLEAN /\ asked \in BOOLEAN
  /\ work \in [Calls \cup Messages ->
                 {"unsent", "queued", "running", "done", "dropped", "cut"}]
  /\ exit \in {"none", "ok", "fatal", "panic", "killed"}

\* Calls are cut off only by a signal that comes before Notify: neither the
\* shutdown nor a failing start ends the process while a call runs.
CallsAnswered == \A w \in Calls : work[w] = "cut" => exit = "killed"

\* A signal ends the process although GracefulStop ignores the ten seconds, the
\* consumer's goroutine never returns and callbacks may hang; and a process that
\* cannot serve does not linger.
EndsWhenDone == (asked \/ run = "failed") ~> ~Alive

=============================================================================
