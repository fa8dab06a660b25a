------------------------- MODULE PooledHealthProofs -------------------------
(***************************************************************************)
(* Theorems about PooledHealth, and with it about ConnectionPool and       *)
(* DependencyHealth, for any finite set of goroutines and any limits.      *)
(***************************************************************************)
EXTENDS PooledHealth, FiniteSetTheorems, TLAPS

-----------------------------------------------------------------------------
(* Counting connections *)

\* A goroutine holds one connection at most.
Held == held \in [Users -> 0..1]

\* The connections in use are counted by a number.
LEMMA ConnectionsFinite ==
  ASSUME PoolAssumption
  PROVE  IsFiniteSet(Connections) /\ InUse \in Nat
<1>1. IsFiniteSet(1..MaxOpen)
  BY FS_Interval DEF PoolAssumption
<1>2. IsFiniteSet(Users \X (1..MaxOpen))
  BY <1>1, FS_Product DEF PoolAssumption
<1>3. IsFiniteSet(Connections)
  BY <1>2, FS_Subset DEF Connections
<1> QED BY <1>3, FS_CardinalityType DEF InUse

\* A goroutine without a connection takes one, ...
LEMMA Taken ==
  ASSUME PoolAssumption, Held, NEW u \in Users, held[u] = 0,
         held' = [held EXCEPT ![u] = @ + 1]
  PROVE  Held' /\ InUse' = InUse + 1
<1>1. Held'
  BY DEF Held
<1>2. <<u, 1>> \notin Connections
  BY DEF Connections
<1>3. Connections' = Connections \cup {<<u, 1>>}
  BY DEF Connections, Held, PoolAssumption
<1> QED BY <1>1, <1>2, <1>3, ConnectionsFinite, FS_AddElement DEF InUse

\* ... gives it back, ...
LEMMA Returned ==
  ASSUME PoolAssumption, Held, NEW u \in Users, held[u] = 1,
         held' = [held EXCEPT ![u] = @ - 1]
  PROVE  Held' /\ InUse' = InUse - 1
<1>1. Held'
  BY DEF Held
<1>2. <<u, 1>> \in Connections
  BY DEF Connections, PoolAssumption
<1>3. Connections' = Connections \ {<<u, 1>>}
  BY DEF Connections, Held, PoolAssumption
<1> QED BY <1>1, <1>2, <1>3, ConnectionsFinite, FS_RemoveElement DEF InUse

\* ... or hands it to one that has none.
LEMMA HandedOver ==
  ASSUME PoolAssumption, Held, NEW u \in Users, NEW v \in Users, held[u] = 1, held[v] = 0,
         held' = [held EXCEPT ![u] = @ - 1, ![v] = @ + 1]
  PROVE  Held' /\ InUse' = InUse
<1>1. /\ u # v /\ DOMAIN held' = Users
      /\ \A w \in Users : held'[w] = IF w = u THEN 0 ELSE IF w = v THEN 1 ELSE held[w]
  BY DEF Held
<1>2. <<u, 1>> \in Connections /\ <<v, 1>> \notin Connections
  BY DEF Connections, PoolAssumption
<1>3. Connections' = (Connections \ {<<u, 1>>}) \cup {<<v, 1>>}
  BY <1>1 DEF Connections, Held, PoolAssumption
<1>4. /\ IsFiniteSet(Connections \ {<<u, 1>>})
      /\ Cardinality(Connections \ {<<u, 1>>}) = InUse - 1
  BY <1>2, ConnectionsFinite, FS_RemoveElement DEF InUse
<1>5. Cardinality(Connections') = (InUse - 1) + 1
  <2> DEFINE others == Connections \ {<<u, 1>>}
  <2>1. IsFiniteSet(others) /\ Cardinality(others) = InUse - 1 /\ <<v, 1>> \notin others
    BY <1>2, <1>4
  <2>2. Connections' = others \cup {<<v, 1>>}
    BY <1>3
  <2> HIDE DEF others
  <2>3. Cardinality(others \cup {<<v, 1>>}) = Cardinality(others) + 1
    BY <2>1, FS_AddElement
  <2> QED BY <2>1, <2>2, <2>3
<1>6. Held'
  BY <1>1 DEF Held
<1> QED BY <1>5, <1>6, ConnectionsFinite DEF InUse

-----------------------------------------------------------------------------
(* The pool *)

\* Who waits holds nothing, so that whoever holds a connection gets to its end; and
\* somebody waits only while all connections there may be are in use.
PoolInv ==
  /\ Held /\ waiting \subseteq Users /\ idle \in 0..MaxIdle
  /\ InUse + idle <= MaxOpen
  /\ \A u \in waiting : held[u] = 0
  /\ waiting # {} => idle = 0 /\ InUse = MaxOpen

\* The steps of the pool, as ConnectionPool has them.
PoolStep ==
  \/ \E u \in Users : Query(u) \/ End(u) \/ Leave(u)
  \/ CloseIdle
  \/ UNCHANGED poolVars

\* The pool starts with no connection in use.
LEMMA PoolInvInitially ==
  ASSUME PoolInit, PoolAssumption
  PROVE  PoolInv
<1>1. Connections = {}
  BY DEF PoolInit, Connections
<1>2. InUse = 0
  BY <1>1, FS_EmptySet DEF InUse
<1> QED BY <1>2 DEF PoolInit, PoolInv, Held, PoolAssumption

\* Every step of the pool keeps within its limits, and hands a connection that comes
\* back to a goroutine that waits.
LEMMA PoolInvInductive ==
  ASSUME PoolInv, PoolAssumption, PoolStep
  PROVE  PoolInv'
<1> USE DEF PoolInv
<1>1. MaxOpen \in Nat \ {0} /\ MaxIdle \in 1..MaxOpen /\ InUse \in Nat
  BY ConnectionsFinite DEF PoolAssumption
<1>2. ASSUME NEW u \in Users, Query(u)
      PROVE  PoolInv'
  <2>1. CASE (idle > 0 \/ Room) /\ TakeOrWait(u)
    <3>1. /\ held' = [held EXCEPT ![u] = @ + 1] /\ waiting' = waiting
          /\ idle' = IF idle > 0 THEN idle - 1 ELSE idle
      BY <2>1 DEF TakeOrWait
    <3>2. Held' /\ InUse' = InUse + 1
      BY <1>2, <3>1, Taken DEF Query
    <3>3. waiting = {}
      BY <1>1, <2>1 DEF Room
    <3>4. idle' \in 0..MaxIdle /\ InUse' + idle' <= MaxOpen
      BY <1>1, <2>1, <3>1, <3>2 DEF Room
    <3> QED BY <3>1, <3>2, <3>3, <3>4
  <2>2. CASE ~(idle > 0 \/ Room) /\ TakeOrWait(u)
    BY <1>1, <1>2, <2>2 DEF TakeOrWait, Room, Query, Held, InUse, Connections
  <2> QED BY <1>2, <2>1, <2>2 DEF Query
<1>3. ASSUME NEW u \in Users, Release(u)
      PROVE  PoolInv'
  <2>1. held[u] = 1
    BY <1>3 DEF Release, Held
  <2>2. Held' /\ InUse' = InUse - 1
    BY <1>3, <2>1, Returned DEF Release
  <2> QED BY <1>1, <1>3, <2>2 DEF Release
<1>4. ASSUME NEW u \in Users, NEW v \in Users, HandOver(u, v)
      PROVE  PoolInv'
  <2>1. held[u] = 1 /\ held[v] = 0 /\ v \in waiting
    BY <1>4 DEF HandOver, Held
  <2>2. Held' /\ InUse' = InUse
    BY <1>4, <2>1, HandedOver DEF HandOver
  <2>3. \A w \in waiting' : held'[w] = 0
    BY <1>4, <2>1 DEF HandOver, Held
  <2> QED BY <1>1, <1>4, <2>1, <2>2, <2>3 DEF HandOver
<1>5. ASSUME NEW u \in Users, Leave(u)
      PROVE  PoolInv'
  BY <1>1, <1>5 DEF Leave, Held, InUse, Connections
<1>6. CASE CloseIdle
  BY <1>1, <1>6 DEF CloseIdle, Held, InUse, Connections
<1>7. CASE UNCHANGED poolVars
  BY <1>7 DEF poolVars, Held, InUse, Connections
<1> QED BY <1>2, <1>3, <1>4, <1>5, <1>6, <1>7 DEF PoolStep, End

-----------------------------------------------------------------------------
(* The checks *)

\* A result waits to be recorded only for a dependency that is checked, and the gauge
\* has nothing to say of the others.
ChecksInv ==
  /\ TypeOK
  /\ heard # "nothing" => next \in DOMAIN Order /\ Order[next] \in clients
  /\ \A d \in Deps \ clients : ~available[d]

\* The order in which the checker goes through the dependencies, spelled out.
LEMMA OrderFacts ==
  /\ Len(Order) = 3 /\ DOMAIN Order = 1..3
  /\ \A i \in 1..3 : Order[i] \in Deps
BY DEF Order, Deps

\* Every step of the checker and of its surroundings keeps ChecksInv.
LEMMA ChecksInvInductive ==
  ASSUME ChecksInv, Checker \/ Environment \/ UNCHANGED vars
  PROVE  ChecksInv'
<1> USE OrderFacts DEF ChecksInv, TypeOK
<1>1. CASE Tick
  BY <1>1 DEF Tick
<1>2. CASE Skip
  BY <1>2 DEF Skip, Following
<1>3. CASE Check
  BY <1>3 DEF Check
<1>4. CASE RecordDependencyCheck
  BY <1>4 DEF RecordDependencyCheck, Following
<1>5. ASSUME NEW d \in Deps, Change(d)
      PROVE  ChecksInv'
  BY <1>5 DEF Change
<1>6. CASE Break \/ Reconnect \/ GiveUp
  BY <1>6 DEF Break, Reconnect, GiveUp, Link
<1>7. CASE UNCHANGED vars
  BY <1>7 DEF vars
<1> QED BY <1>1, <1>2, <1>3, <1>4, <1>5, <1>6, <1>7 DEF Checker, Environment

-----------------------------------------------------------------------------
(* Results *)

\* Seen from one of the two modules a step of PooledHealth is one of its own steps.
LEMMA EveryStepIsAPoolStep ==
  ASSUME [PooledNext]_pooledVars, PooledHealthAssumption
  PROVE  /\ PoolStep
         /\ Checker \/ Environment \/ UNCHANGED vars
<1>1. ASSUME NEW u \in Handlers, Handler(u)
      PROVE  PoolStep
  BY <1>1 DEF Handlers, Handler, PoolStep
<1> QED BY <1>1 DEF PooledNext, PooledHealthAssumption, Ping, Pong, Elsewhere, PoolStep, Checker,
                    pooledVars

\* Both invariants hold in every reachable state.
LEMMA Invariants ==
  ASSUME PoolAssumption, PooledHealthAssumption
  PROVE  PooledSpec => [](PoolInv /\ ChecksInv)
<1>1. PooledInit => PoolInv /\ ChecksInv
  BY PoolInvInitially, OrderFacts DEF PooledInit, Init, ChecksInv, TypeOK
<1>2. PoolInv /\ ChecksInv /\ [PooledNext]_pooledVars => (PoolInv /\ ChecksInv)'
  BY EveryStepIsAPoolStep, PoolInvInductive, ChecksInvInductive
<1> QED BY <1>1, <1>2, PTL DEF PooledSpec

\* The checker stays within its list, and the gauge holds Booleans.
THEOREM TypeCorrect == PooledSpec => []TypeOK
<1>1. ChecksInv => TypeOK
  BY DEF ChecksInv
<1> QED BY <1>1, Invariants, PoolAssumption, PooledHealthAssumption, PTL

\* The pool never opens more connections than configurePool allows, keeps no more of
\* them idle, and no goroutine ever holds two.
THEOREM PoolTypeCorrect == PooledSpec => []PoolTypeOK
<1>1. PoolAssumption /\ PoolInv => PoolTypeOK
  BY ConnectionsFinite DEF PoolInv, PoolTypeOK, Stats, Held, PoolAssumption
<1> QED BY <1>1, Invariants, PoolAssumption, PooledHealthAssumption, PTL

\* No statement, the ping of the health check included, waits while the exported
\* gauges show a connection that is free or may be opened.
THEOREM WaitsVisible == PooledSpec => []WaitsAreVisible
<1>1. PoolInv => WaitsAreVisible
  BY DEF PoolInv, WaitsAreVisible, Stats
<1> QED BY <1>1, Invariants, PoolAssumption, PooledHealthAssumption, PTL

\* A dependency without a client is never shown as available: the safety half of
\* Converges.
THEOREM UncheckedStaysDown == PooledSpec => [](\A d \in Deps \ clients : ~available[d])
<1>1. ChecksInv => \A d \in Deps \ clients : ~available[d]
  BY DEF ChecksInv
<1> QED BY <1>1, Invariants, PoolAssumption, PooledHealthAssumption, PTL

=============================================================================
