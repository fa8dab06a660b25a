--------------------------- MODULE ConnectionPool ---------------------------
(***************************************************************************)
(* The pool of database connections of one process: database/sql as        *)
(* NewWithDSN and configurePool set it up, the statements of the           *)
(* repositories that share it, and the gauges that RegisterDB exports.     *)
(*                                                                         *)
(* database/sql is modelled from how it is used.  A statement takes an     *)
(* idle connection, or opens one while the limit allows it, or waits; the  *)
(* connection of a statement that ends, or the right to open another in    *)
(* its place, goes to one of those that wait, chosen at random.  To open a *)
(* connection is part of the statement it is opened for.                   *)
(*                                                                         *)
(* A definition marked "mutant" is a plausible bug of the definition that  *)
(* follows it.  Nothing refers to it; PROJECT.json says which property     *)
(* catches it.                                                             *)
(***************************************************************************)
EXTENDS Integers, FiniteSets

CONSTANTS
  Users,    \* goroutines that run statements
  MaxOpen, MaxIdle

ASSUME PoolAssumption ==
  /\ IsFiniteSet(Users)
  /\ MaxOpen \in Nat \ {0}  \* 0 would mean no limit; configurePool turns it into 25
  /\ MaxIdle \in 1..MaxOpen

VARIABLES
  held,     \* connections that each goroutine holds
  waiting,  \* goroutines that wait for one
  idle      \* connections that nobody holds

poolVars == <<held, waiting, idle>>

\* The ping of NewWithDSN has left a connection behind.
PoolInit == held = [u \in Users |-> 0] /\ waiting = {} /\ idle = 1

\* A connection in use, as the n-th one of the goroutine that holds it.
Connections == {c \in Users \X (1..MaxOpen) : c[2] <= held[c[1]]}
InUse == Cardinality(Connections)
Room == InUse + idle < MaxOpen

-----------------------------------------------------------------------------
TakeOrWait(u) ==
  IF idle > 0 \/ Room
    THEN /\ held' = [held EXCEPT ![u] = @ + 1]
         /\ idle' = IF idle > 0 THEN idle - 1 ELSE idle
         /\ waiting' = waiting
    ELSE /\ waiting' = waiting \cup {u}
         /\ UNCHANGED <<held, idle>>

QueryInQuery(u) ==                                                       \* mutant
  /\ u \notin waiting /\ held[u] < 2
  /\ TakeOrWait(u)
\* Assumed of every repository of the two services, as they are written: none uses a
\* transaction, or a query while it reads the rows of another, so that who asks for a
\* connection holds none.
Query(u) ==
  /\ u \notin waiting /\ held[u] = 0
  /\ TakeOrWait(u)

\* A statement ends.  Its connection is kept, or closed when it is broken or too
\* old, or one too many.
Release(u) ==
  /\ u \notin waiting /\ held[u] > 0 /\ waiting = {}
  /\ held' = [held EXCEPT ![u] = @ - 1] /\ waiting' = waiting
  /\ \/ idle' = idle
     \/ idle < MaxIdle /\ idle' = idle + 1

HandOver(u, v) ==
  /\ u \notin waiting /\ held[u] > 0 /\ v \in waiting
  /\ held' = [held EXCEPT ![u] = @ - 1, ![v] = @ + 1]
  /\ waiting' = waiting \ {v} /\ idle' = idle

End(u) == Release(u) \/ \E v \in Users : HandOver(u, v)

\* The context of a statement that waits ends.
Leave(u) ==
  /\ u \in waiting
  /\ waiting' = waiting \ {u} /\ UNCHANGED <<held, idle>>

\* A connection has been idle, or open, for too long.
CloseIdle ==
  /\ idle > 0
  /\ idle' = idle - 1 /\ UNCHANGED <<held, waiting>>

-----------------------------------------------------------------------------
StatsSwapped == [open |-> InUse + idle, idle |-> InUse, inUse |-> idle, maxOpen |-> MaxOpen] \* mutant
\* What the callback of RegisterDB observes.
Stats == [open |-> InUse + idle, idle |-> idle, inUse |-> InUse, maxOpen |-> MaxOpen]

PoolTypeOK ==
  /\ held \in [Users -> 0..1] /\ waiting \subseteq Users /\ idle \in 0..MaxIdle
  /\ Stats.open <= MaxOpen

\* The alerts on the pool watch in_use / max_open: whenever a statement waits,
\* they show the pool as exhausted, and no connection that could be used is idle.
WaitsAreVisible == waiting # {} => Stats.inUse = Stats.maxOpen

\* "Idle connections (should be > 0, if 0 = saturated)"
NoIdleIsSaturated == Stats.idle = 0 => Stats.inUse = Stats.maxOpen

\* Every statement gets a connection, or its context ends.
StatementsRun == \A u \in Users : u \in waiting ~> u \notin waiting

=============================================================================
