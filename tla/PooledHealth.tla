---------------------------- MODULE PooledHealth ----------------------------
(***************************************************************************)
(* DependencyHealth with the pool its ping has to pass: PingContext gets a *)
(* context without a deadline, so that it waits for a connection as long   *)
(* as the handlers keep them, and the checker with it.                     *)
(***************************************************************************)
EXTENDS DependencyHealth, ConnectionPool

CONSTANT Pinger  \* the goroutine of the checks, as a user of the pool

ASSUME PooledHealthAssumption == Pinger \in Users

pooledVars == <<vars, poolVars>>

PooledInit == Init /\ PoolInit

Handlers == Users \ {Pinger}
AtPostgres == next > 0 /\ Order[next] = "postgres"

-----------------------------------------------------------------------------
Ping == /\ AtPostgres /\ heard = "nothing" /\ "postgres" \in clients
        /\ Query(Pinger) /\ UNCHANGED vars
Pong == AtPostgres /\ Check /\ End(Pinger)

\* The rest of the round does not touch the pool.
Elsewhere ==
  /\ Tick \/ Skip \/ RecordDependencyCheck \/ (~AtPostgres /\ Check)
  /\ UNCHANGED poolVars

Handler(u) == Query(u) \/ End(u) \/ Leave(u)

PooledNext ==
  \/ Ping \/ Pong \/ Elsewhere
  \/ \E u \in Handlers : Handler(u) /\ UNCHANGED vars
  \/ CloseIdle /\ UNCHANGED vars
  \/ Environment /\ UNCHANGED poolVars

EndOf(u) == IF u = Pinger THEN Pong ELSE End(u) /\ UNCHANGED vars
Served(v) == v \in waiting /\ (\E u \in Users : EndOf(u)) /\ v \notin waiting'

\* Statements end, within the read timeout of the driver if not before; and who
\* waits is not passed over for ever, since the choice is random.
PooledSpec ==
  /\ PooledInit /\ [][PooledNext]_pooledVars
  /\ WF_pooledVars(Ping) /\ WF_pooledVars(Elsewhere)
  /\ WF_pooledVars(Break /\ UNCHANGED poolVars) /\ WF_pooledVars(Reconnect /\ UNCHANGED poolVars)
  /\ \A u \in Users : WF_pooledVars(EndOf(u)) /\ SF_pooledVars(Served(u))

=============================================================================
