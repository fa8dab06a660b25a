-------------------------- MODULE DependencyHealth --------------------------
(***************************************************************************)
(* The health checks of one process: a goroutine that asks one dependency  *)
(* after the other and a gauge that shows what it heard last.  The student *)
(* service checks the three dependencies of Order, the project service the *)
(* first two; a dependency whose client could not be made is skipped.      *)
(*                                                                         *)
(* The check of NATS sends nothing: it asks nats.go for the state of its   *)
(* connection, which lags behind the server and is closed for good when    *)
(* the attempts to reconnect are used up.                                  *)
(*                                                                         *)
(* A process without telemetry has no gauge and runs no checks.  The gauge *)
(* is read by the exporter without synchronisation; it is a single word    *)
(* per dependency, so a read returns the old or the new value.             *)
(*                                                                         *)
(* A definition marked "mutant" is a plausible bug of the definition that  *)
(* follows it.  Nothing refers to it; PROJECT.json says which property     *)
(* catches it.                                                             *)
(***************************************************************************)
EXTENDS Naturals, Sequences

VARIABLES
  clients,    \* the dependencies that have a client in this process
  up,         \* can the dependency be reached?
  link,       \* the state of the NATS connection
  available,  \* DependencyStatus.Available
  next,       \* the index in Order of the next check; 0 while waiting for the ticker
  heard       \* the result of a check, before it is recorded

vars == <<clients, up, link, available, next, heard>>

Order == <<"postgres", "nats", "project-service">>
Deps == {Order[i] : i \in DOMAIN Order}

\* Without Postgres neither service starts.  Registered as unavailable; the first
\* round starts immediately.
Init ==
  /\ clients \in SUBSET Deps /\ "postgres" \in clients
  /\ link = IF "nats" \in clients THEN "connected" ELSE "none"
  /\ up \in [Deps -> BOOLEAN]
  /\ available = [d \in Deps |-> FALSE]
  /\ next = 1 /\ heard = "nothing"

-----------------------------------------------------------------------------
NextAfterLast == next + 1                                                \* mutant
Following == IF next = Len(Order) THEN 0 ELSE next + 1

Tick ==
  /\ next = 0
  /\ next' = 1 /\ UNCHANGED <<clients, up, link, available, heard>>

Skip ==
  /\ next > 0 /\ Order[next] \notin clients
  /\ next' = Following /\ UNCHANGED <<clients, up, link, available, heard>>

\* A ping and a call of two seconds reach the dependency; IsConnected does not.
Responds(d) == IF d = "nats" THEN link = "connected" ELSE up[d]

Check ==
  /\ next > 0 /\ Order[next] \in clients /\ heard = "nothing"
  /\ heard' = IF Responds(Order[next]) THEN "ok" ELSE "error"
  /\ UNCHANGED <<clients, up, link, available, next>>

RecordSuccessOnly ==                                                     \* mutant
  /\ heard # "nothing"
  /\ available' = IF heard = "ok" THEN [available EXCEPT ![Order[next]] = TRUE] ELSE available
  /\ next' = Following /\ heard' = "nothing" /\ UNCHANGED <<clients, up, link>>
RecordDependencyCheck ==
  /\ heard # "nothing"
  /\ available' = [available EXCEPT ![Order[next]] = (heard = "ok")]
  /\ next' = Following /\ heard' = "nothing" /\ UNCHANGED <<clients, up, link>>

\* The dependency breaks or comes back.
Change(d) ==
  /\ up' = [up EXCEPT ![d] = ~@]
  /\ UNCHANGED <<clients, link, available, next, heard>>

\* nats.go notices that the server is away, finds it again, or has tried too often.
Link(from, to) ==
  /\ link = from /\ link' = to
  /\ UNCHANGED <<clients, up, available, next, heard>>
Break == ~up["nats"] /\ Link("connected", "reconnecting")
Reconnect == up["nats"] /\ Link("reconnecting", "connected")
GiveUp == Link("reconnecting", "closed")

Checker == Tick \/ Skip \/ Check \/ RecordDependencyCheck
Environment == Break \/ Reconnect \/ GiveUp \/ \E d \in Deps : Change(d)
Next == Checker \/ Environment

\* The goroutine runs and every check ends; PooledHealth shows that the ping does.
\* nats.go pings the server and tries again every two seconds.
Spec == Init /\ [][Next]_vars /\ WF_vars(Checker) /\ WF_vars(Break) /\ WF_vars(Reconnect)

-----------------------------------------------------------------------------
TypeOK ==
  /\ clients \subseteq Deps /\ up \in [Deps -> BOOLEAN] /\ available \in [Deps -> BOOLEAN]
  /\ link \in {"none", "connected", "reconnecting", "closed"}
  /\ next \in 0..Len(Order) /\ heard \in {"nothing", "ok", "error"}

\* The gauge finds out, whatever the other dependencies do: a dependency that stays
\* down is in the end shown so for good; one that stays up is in the end shown so, NATS
\* only unless the connection has been given up, which shows it as down for good; and
\* one without a client is never shown as up.
Converges ==
  \A d \in Deps :
    /\ d \in clients =>
         /\ <>[]~up[d] => <>[]~available[d]
         /\ <>[]up[d] => <>[]available[d] \/ (d = "nats" /\ <>(link = "closed"))
         /\ d = "nats" /\ <>(link = "closed") => <>[]~available[d]
    /\ d \notin clients => []~available[d]

=============================================================================
