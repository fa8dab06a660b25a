--------------------------- MODULE StudentProcess ---------------------------
(***************************************************************************)
(* One process of the student service from start to exit: the goroutine of *)
(* main, the goroutine that serves (App.Run), the handlers of requests,    *)
(* and what a signal, ten seconds of patience and log.Fatal do to them.    *)
(*                                                                         *)
(* net/http is modelled from how it is used: Server.Shutdown makes         *)
(* ListenAndServe return at once and then waits, as long as its context    *)
(* lives, for the handlers that run.  main reads App.server without        *)
(* synchronisation with Run, so it may or may not see the assignment; a    *)
(* read that misses it is a read before it.  A listener that works once is *)
(* taken to work on.                                                       *)
(*                                                                         *)
(* A definition marked "mutant" is a plausible bug of the definition that  *)
(* follows it.  Nothing refers to it; PROJECT.json says which property     *)
(* catches it.                                                             *)
(***************************************************************************)
CONSTANT Requests

VARIABLES
  main,     \* where main is: in New, before Notify, waiting on quit, in Shutdown
            \* (entering, draining, flushing) or about to return
  run,      \* where the goroutine of Run is
  server,   \* App.server: nil, assigned, serving, or told to shut down
  quit,     \* does the channel of signals hold one?
  asked,    \* has a signal come?
  late,     \* has the context of Shutdown expired?
  reqs,     \* the state of each request
  exit      \* how the process ended

vars == <<main, run, server, quit, asked, late, reqs, exit>>

Init ==
  /\ main = "new" /\ run = "off" /\ server = "nil"
  /\ quit = FALSE /\ asked = FALSE /\ late = FALSE
  /\ reqs = [r \in Requests |-> "unsent"] /\ exit = "none"

Alive == exit = "none"
Running == {r \in Requests : reqs[r] = "running"}

\* The process ends, and with it the handlers that have not answered.
Exit(how) ==
  /\ exit' = how
  /\ reqs' = [r \in Requests |-> IF r \in Running THEN "cut" ELSE reqs[r]]

-----------------------------------------------------------------------------
(* main *)

\* New, which ends the process when the configuration, the database or the
\* migrations fail; then the goroutines are started.
New ==
  /\ Alive /\ main = "new"
  /\ \/ Exit("fatal") /\ UNCHANGED <<main, run>>
     \/ main' = "started" /\ run' = "build" /\ UNCHANGED <<exit, reqs>>
  /\ UNCHANGED <<server, quit, asked, late>>

Notify ==
  /\ Alive /\ main = "started"
  /\ main' = "wait"
  /\ UNCHANGED <<run, server, quit, asked, late, reqs, exit>>

ReceiveSignal ==
  /\ Alive /\ main = "wait" /\ quit
  /\ main' = "shutdown" /\ quit' = FALSE
  /\ UNCHANGED <<run, server, asked, late, reqs, exit>>

BeginShutdownIfAssigned ==                                               \* mutant
  /\ Alive /\ main = "shutdown"
  /\ main' = "drain" /\ server' = IF server = "nil" THEN "nil" ELSE "closing"
  /\ UNCHANGED <<run, quit, asked, late, reqs, exit>>
\* server.Shutdown begins; Run may not have assigned the server yet.
BeginShutdown ==
  /\ Alive /\ main = "shutdown"
  /\ \/ server = "nil" /\ Exit("panic") /\ UNCHANGED <<main, server>>
     \/ server # "nil" /\ main' = "drain" /\ server' = "closing" /\ UNCHANGED <<exit, reqs>>
  /\ UNCHANGED <<run, quit, asked, late>>

DrainedAtOnce ==                                                         \* mutant
  /\ Alive /\ main = "drain"
  /\ main' = "flush"
  /\ UNCHANGED <<run, server, quit, asked, late, reqs, exit>>
\* server.Shutdown returns nil when no handler runs any more ...
Drained ==
  /\ Alive /\ main = "drain" /\ Running = {}
  /\ main' = "flush"
  /\ UNCHANGED <<run, server, quit, asked, late, reqs, exit>>

\* ... and an error when its context has expired, which main answers with
\* log.Fatal.
GiveUp ==
  /\ Alive /\ main = "drain" /\ late
  /\ Exit("fatal")
  /\ UNCHANGED <<main, run, server, quit, asked, late>>

\* The shutdown of telemetry; its error is only logged.
Flush ==
  /\ Alive /\ main = "flush"
  /\ main' = "return"
  /\ UNCHANGED <<run, server, quit, asked, late, reqs, exit>>

Return ==
  /\ Alive /\ main = "return"
  /\ Exit("ok")
  /\ UNCHANGED <<main, run, server, quit, asked, late>>

-----------------------------------------------------------------------------
(* The goroutine of Run *)

AssignServer ==
  /\ Alive /\ run = "build"
  /\ run' = "listen" /\ server' = "new"
  /\ UNCHANGED <<main, quit, asked, late, reqs, exit>>

\* ListenAndServe serves, or returns at once: the port is taken, or Shutdown was
\* called before.
Listen ==
  /\ Alive /\ run = "listen"
  /\ \/ server = "new" /\ run' = "serve" /\ server' = "serving"
     \/ run' = "returned" /\ server' = server
  /\ UNCHANGED <<main, quit, asked, late, reqs, exit>>

StopServing ==
  /\ Alive /\ run = "serve" /\ server = "closing"
  /\ run' = "returned"
  /\ UNCHANGED <<main, server, quit, asked, late, reqs, exit>>

FatalAfterShutdown ==                                                    \* mutant
  /\ Alive /\ run = "returned" /\ server = "closing"
  /\ Exit("fatal")
  /\ UNCHANGED <<main, run, server, quit, asked, late>>
\* Whatever ListenAndServe returns is an error, ErrServerClosed included, and
\* ends the process.
Fatal ==
  /\ Alive /\ run = "returned"
  /\ Exit("fatal")
  /\ UNCHANGED <<main, run, server, quit, asked, late>>

-----------------------------------------------------------------------------
(* The outside *)

\* SIGTERM or SIGINT: before Notify it kills the process; later it is put into
\* the channel, which holds one.
Signal ==
  /\ Alive
  /\ asked' = TRUE
  /\ \/ main \in {"new", "started"} /\ Exit("killed") /\ quit' = quit
     \/ main \notin {"new", "started"} /\ quit' = TRUE /\ UNCHANGED <<exit, reqs>>
  /\ UNCHANGED <<main, run, server, late>>

\* Ten seconds after main created the context.
Expire ==
  /\ Alive /\ main \in {"shutdown", "drain", "flush"} /\ ~late
  /\ late' = TRUE
  /\ UNCHANGED <<main, run, server, quit, asked, reqs, exit>>

Accept(r) ==
  /\ Alive /\ server = "serving" /\ run = "serve" /\ reqs[r] = "unsent"
  /\ reqs' = [reqs EXCEPT ![r] = "running"]
  /\ UNCHANGED <<main, run, server, quit, asked, late, exit>>

Answer(r) ==
  /\ Alive /\ r \in Running
  /\ reqs' = [reqs EXCEPT ![r] = "answered"]
  /\ UNCHANGED <<main, run, server, quit, asked, late, exit>>

-----------------------------------------------------------------------------
Main == \/ New \/ Notify \/ ReceiveSignal \/ BeginShutdown
        \/ Drained \/ GiveUp \/ Flush \/ Return
Run == AssignServer \/ Listen \/ StopServing \/ Fatal
Outside == Signal \/ Expire \/ \E r \in Requests : Accept(r) \/ Answer(r)

Next == Main \/ Run \/ Outside

Spec == Init /\ [][Next]_vars

\* Both goroutines are scheduled and the timer fires.  A handler may never end:
\* the server's WriteTimeout does not stop it.
FairSpec == Spec /\ WF_vars(Main) /\ WF_vars(Run) /\ WF_vars(Expire)

-----------------------------------------------------------------------------
(* Properties *)

TypeOK ==
  /\ main \in {"new", "started", "wait", "shutdown", "drain", "flush", "return"}
  /\ run \in {"off", "build", "listen", "serve", "returned"}
  /\ server \in {"nil", "new", "serving", "closing"}
  /\ quit \in BOOLEAN /\ asked \in BOOLEAN /\ late \in BOOLEAN
  /\ reqs \in [Requests -> {"unsent", "running", "answered", "cut"}]
  /\ exit \in {"none", "ok", "fatal", "panic", "killed"}

\* Exit status 0 and "Server exited gracefully" are never seen when a handler was
\* cut off, whichever goroutine was faster.
CleanExitAnswersAll == exit = "ok" => \A r \in Requests : reqs[r] # "cut"

\* From the moment Shutdown has begun no request is accepted, although Run, in its
\* own goroutine, may assign the server and start to listen at any time before,
\* between and after the steps of main: what main has drained stays drained.
NoneAcceptedLate ==
  [][\A r \in Requests : reqs[r] = "unsent" /\ reqs'[r] = "running" =>
       main \notin {"drain", "flush", "return"}]_vars

\* A signal ends the process, whatever the handlers do and wherever main and Run
\* were when it came; and a process that cannot serve does not linger.
EndsWhenDone == (asked \/ run = "returned") ~> ~Alive

\* A graceful shutdown: a process that was serving when the signal was received
\* cuts off a handler only after the ten seconds that main gives them.
GracefulShutdown == (main = "drain" /\ ~late) => \A r \in Requests : reqs[r] # "cut"

=============================================================================
