----------------------- MODULE StudentAuthRefinement -----------------------
(***************************************************************************)
(* StudentAuth implements TokenLifecycle: each step of a handler is, for   *)
(* the refresh tokens, either Issue, or Retire (of no token at all, when   *)
(* the step leaves them alone).                                            *)
(***************************************************************************)
EXTENDS StudentAuthProofs

\* The mapping.
PhaseOf == [t \in Tokens |-> Phase(t)]

\* Rows carry generated tokens, which are not on their way to the table any more.
LEMMA AcceptedIsStored ==
  ASSUME TokenInv
  PROVE  /\ Accepted \subseteq used /\ Accepted \cap Unstored = {}
         /\ Known \cap Unstored = {}
<1>1. \A row \in tokens : row.token \in used /\ \A p \in InStore : req[p].new # row.token
  BY DEF TokenInv, Generated, NewIsFresh
<1>2. \A t \in Unstored : t \notin used \/ \E p \in InStore : t = req[p].new
  BY DEF Unstored, InStore
<1>3. Known \subseteq used /\ \A p \in InStore : req[p].new \notin Known
  BY DEF TokenInv, Generated, NewIsFresh
<1> QED BY <1>1, <1>2, <1>3 DEF Accepted

\* A step after which no token is accepted or on its way that was not so before.
LEMMA RetireStep ==
  ASSUME TokenInv, Accepted' \subseteq Accepted, Unstored' \subseteq Unstored,
         NEW paid \in SUBSET (Tokens \cup {NoToken}), spent' = spent \cup paid,
         \A t \in paid : t \notin Accepted' /\ t \notin Unstored'
  PROVE  Lifecycle!Next
<1> DEFINE ended == {t \in Tokens : Phase(t)' # Phase(t)}
           settled == paid \cap Tokens
<1>1. ended \in SUBSET Tokens /\ settled \in SUBSET Tokens
  OBVIOUS
<1>2. \A t \in Tokens : Phase(t)' = Phase(t) \/ (Phase(t)' = "dead" /\ Phase(t) # "dead")
  BY AcceptedIsStored DEF Phase
<1>3. \A t \in settled : Phase(t)' = "dead"
  BY DEF Phase
<1>4. ended \cap Lifecycle!In("dead") = {}
  BY <1>2 DEF Lifecycle!In
<1>5. settled \subseteq ended \cup Lifecycle!In("dead")
  BY <1>2, <1>3 DEF Lifecycle!In
<1>6. PhaseOf' = [t \in Tokens |-> IF t \in ended THEN "dead" ELSE PhaseOf[t]]
  BY <1>2 DEF PhaseOf
<1>7. (spent \cap Tokens)' = (spent \cap Tokens) \cup settled
  OBVIOUS
<1>8. Lifecycle!Retire(ended, settled)
  BY <1>4, <1>5, <1>6, <1>7 DEF Lifecycle!Retire, PhaseOf
<1> QED BY <1>1, <1>8 DEF Lifecycle!Next

\* A step of one slot that stores nothing.
LEMMA SlotRetire ==
  ASSUME TokenInv, NEW p \in Procs, NEW r,
         req' = [req EXCEPT ![p] = r], r.pc # "store",
         tokens' \subseteq tokens, now' = now, used \subseteq used', spent' = spent
  PROVE  Lifecycle!Next
<1>1. \A q \in Procs : req'[q] = req[q] \/ (q = p /\ req'[q] = r)
  BY DEF TokenInv, TypeOK
<1>2. Unstored' \subseteq Unstored
  BY <1>1 DEF Unstored
<1>3. Accepted' \subseteq Accepted
  BY DEF Accepted
<1> DEFINE none == {}
<1>4. /\ none \in SUBSET (Tokens \cup {NoToken}) /\ spent' = spent \cup none
      /\ \A t \in none : t \notin Accepted' /\ t \notin Unstored'
  OBVIOUS
<1> HIDE DEF none
<1> QED BY <1>2, <1>3, <1>4, RetireStep

\* Before the first registration no token is born.
LEMMA LifecycleInit == Init => Lifecycle!Init
<1> SUFFICES ASSUME Init PROVE Lifecycle!Init
  OBVIOUS
<1>1. Accepted = {} /\ Tokens \subseteq Unstored
  BY DEF Init, Accepted, Unstored
<1>2. PhaseOf = [t \in Tokens |-> "unborn"]
  BY <1>1 DEF PhaseOf, Phase
<1> QED BY <1>2 DEF Init, Lifecycle!Init, PhaseOf

\* Every step of a handler, of a client and of the clock is a step of TokenLifecycle.
LEMMA LifecycleNext ==
  ASSUME TokenInv, [Next]_vars
  PROVE  Lifecycle!Next
<1>0. TypeOK /\ Idle.pc = "idle" /\ Tokens \cap {NoToken} = {}
  BY ConstantsAssumption DEF TokenInv, Idle, ConstantsAssumption
<1>1. ASSUME req' = req, tokens' \subseteq tokens, used' = used, spent' = spent,
             now' \in Nat, now <= now'
      PROVE  Lifecycle!Next
  <2>1. Unstored' \subseteq Unstored
    BY <1>1 DEF Unstored
  <2>2. Accepted' \subseteq Accepted
    BY <1>0, <1>1 DEF Accepted, TypeOK, RefreshToken
  <2> DEFINE none == {}
  <2>3. /\ none \in SUBSET (Tokens \cup {NoToken}) /\ spent' = spent \cup none
        /\ \A t \in none : t \notin Accepted' /\ t \notin Unstored'
    BY <1>1
  <2> HIDE DEF none
  <2> QED BY <2>1, <2>2, <2>3, RetireStep
<1>2. ASSUME req' = req, tokens' \subseteq tokens, used' = used, spent' = spent, now' = now
      PROVE  Lifecycle!Next
  BY <1>0, <1>1, <1>2 DEF TypeOK
<1>3. ASSUME NEW p \in Procs, NEW email \in Emails, NEW pw \in Passwords,
             Register(p, email, pw) \/ Login(p, email, pw)
      PROVE  Lifecycle!Next
  <2> DEFINE reg == [Idle EXCEPT !.pc = "insert", !.op = "register",
                                 !.email = email, !.pw = pw]
             log(s) == [Idle EXCEPT !.pc = "clean", !.op = "login",
                                    !.stud = s.id]
  <2>1. UNCHANGED <<tokens, now, used, spent>>
    BY <1>3 DEF Register, Login, clients
  <2>2. reg.pc = "insert" /\ \A s \in students : log(s).pc = "clean"
    BY DEF Idle
  <2>3. \/ req' = req \/ req' = [req EXCEPT ![p] = reg]
        \/ \E s \in students : req' = [req EXCEPT ![p] = log(s)]
    BY <1>3 DEF GetByEmail, Register, Login, Continue, Answer
  <2> HIDE DEF reg, log
  <2> QED BY <1>2, <2>1, <2>2, <2>3, SlotRetire
<1>4. ASSUME NEW p \in Procs, NEW t \in Known, Refresh(p, t)
      PROVE  Lifecycle!Next
  <2> DEFINE r(row) == [Idle EXCEPT !.pc = "student", !.op = "refresh",
                                    !.stud = row.student, !.tok = t]
  <2>1. UNCHANGED <<tokens, now, used, spent>>
    BY <1>4 DEF Refresh, clients
  <2>2. \A row \in tokens : r(row).pc = "student"
    BY DEF Idle
  <2>3. req' = req \/ \E row \in tokens : req' = [req EXCEPT ![p] = r(row)]
    BY <1>4 DEF Refresh, Continue, Answer, ValidTokens
  <2> HIDE DEF r
  <2> QED BY <1>2, <2>1, <2>2, <2>3, SlotRetire
<1>5. ASSUME NEW p \in Procs, RegisterInsert(p) \/ RefreshStudent(p) \/ Abandon(p)
      PROVE  Lifecycle!Next
  <2> DEFINE ins == [Idle EXCEPT !.pc = "clean", !.op = "register",
                                 !.stud = ReturnedId]
             ref == [req[p] EXCEPT !.pc = "clean"]
  <2>1. UNCHANGED <<tokens, now, used, spent>>
    BY <1>5 DEF RegisterInsert, RefreshStudent, Abandon, clients
  <2>2. ins.pc = "clean" /\ ref.pc = "clean"
    BY <1>0 DEF TypeOK, Request, Slot, Idle
  <2>3. \/ req' = [req EXCEPT ![p] = Idle] \/ req' = [req EXCEPT ![p] = ins]
        \/ req' = [req EXCEPT ![p] = ref]
    BY <1>5 DEF RegisterInsert, RefreshStudent, Abandon, DBWrite, Continue, Respond
  <2> HIDE DEF ins, ref
  <2> QED BY <1>0, <2>1, <2>2, <2>3, SlotRetire
<1>6. ASSUME NEW p \in Procs, CleanTokens(p)
      PROVE  Lifecycle!Next
  <2> DEFINE r(t, e) == [req[p] EXCEPT !.pc = "store", !.new = t, !.exp = e]
  <2>1. tokens' \subseteq tokens /\ used \subseteq used' /\ UNCHANGED <<now, spent>>
    BY <1>6 DEF CleanTokens, DBWrite, CleanRows
  <2>2. CASE req' = [req EXCEPT ![p] = Idle]
    BY <1>0, <2>1, <2>2, SlotRetire
  <2>3. ASSUME NEW t \in Tokens \ used, NEW e, used' = used \cup {t},
               req' = [req EXCEPT ![p] = r(t, e)]
        PROVE  Lifecycle!Next
    <3>1. req'[p].new = t /\ \A q \in Procs \ {p} : req'[q] = req[q]
      BY <1>0, <2>3 DEF TypeOK, Request, Slot
    <3>2. Unstored' \subseteq Unstored
      BY <2>3, <3>1 DEF Unstored
    <3>3. Accepted' \subseteq Accepted
      BY <2>1 DEF Accepted
    <3> DEFINE none == {}
    <3>4. /\ none \in SUBSET (Tokens \cup {NoToken}) /\ spent' = spent \cup none
          /\ \A u \in none : u \notin Accepted' /\ u \notin Unstored'
      BY <2>1
    <3> HIDE DEF none
    <3> QED BY <3>2, <3>3, <3>4, RetireStep
  <2> QED BY <1>6, <2>2, <2>3 DEF CleanTokens, GenerateRefreshToken, DBWrite, Continue, Respond
<1>7. ASSUME NEW p \in Procs, StoreToken(p)
      PROVE  Lifecycle!Next
  <2> DEFINE new == req[p].new
             row0 == [student |-> req[p].stud, token |-> new, expires |-> now + RefreshTTL]
             paid == {req[p].tok} \cap Tokens
  <2>1. /\ p \in InStore /\ req' = [req EXCEPT ![p] = Idle]
        /\ UNCHANGED <<now, used>>
        /\ req'[p] = Idle /\ \A q \in Procs \ {p} : req'[q] = req[q]
    BY <1>0, <1>7 DEF StoreToken, DBWrite, Respond, InStore, TypeOK
  <2>2. /\ new \in Tokens /\ new \in used /\ new \in Unstored /\ new \notin Accepted
        /\ \A q \in InStore \ {p} : req[q].new # new
    BY <1>0, <2>1, AcceptedIsStored DEF TokenInv, NewIsFresh, InStore, TypeOK, Unstored
  <2>3. Unstored' = Unstored \ {new}
    <3>1. \A q \in Procs : req'[q].pc = "store" <=> q \in InStore /\ q # p
      BY <1>0, <2>1 DEF InStore
    <3> QED BY <2>1, <2>2, <3>1 DEF Unstored, InStore
  <2>4. \A t \in paid : t \notin Accepted /\ t \notin Unstored /\ t # new
    <3>1. \A t \in paid : t \in Known /\ \A row \in tokens : row.token # t
      BY <1>0, <2>1 DEF TokenInv, Presented, InStore
    <3> QED BY <2>2, <3>1, AcceptedIsStored DEF Accepted
  <2>5. CASE tokens' = tokens /\ spent' = spent
    BY <1>0, <2>1, <2>5, SlotRetire
  <2>6. ASSUME tokens' = tokens \cup {row0},
               NEW earned \in {paid, {}}, spent' = spent \cup earned
        PROVE  Lifecycle!Next
    <3>1. Accepted' = Accepted \cup (IF now + RefreshTTL > now THEN {new} ELSE {})
      <4>1. row0.token = new /\ row0.expires = now + RefreshTTL
        OBVIOUS
      <4> HIDE DEF row0
      <4> QED BY <2>1, <2>6, <4>1 DEF Accepted
    <3>2. earned \in SUBSET Tokens /\ \A t \in earned : t \notin Accepted' /\ t \notin Unstored'
      <4>1. earned \subseteq paid /\ paid \subseteq Tokens
        BY <2>6
      <4> HIDE DEF paid
      <4> QED BY <2>3, <2>4, <3>1, <4>1
    <3>3. CASE ~(now + RefreshTTL > now)
      BY <2>3, <2>6, <3>1, <3>2, <3>3, RetireStep
    <3>4. CASE now + RefreshTTL > now
      <4>1. Accepted' = Accepted \cup {new}
        BY <3>1, <3>4
      <4>2. PhaseOf' = [PhaseOf EXCEPT ![new] = "live"]
        BY <2>2, <2>3, <4>1 DEF PhaseOf, Phase
      <4>3. new \in Lifecycle!In("unborn")
        BY <2>2 DEF Lifecycle!In, Phase
      <4>4. earned \subseteq Lifecycle!In("dead")
        BY <2>4, <2>6, <3>2 DEF Lifecycle!In, Phase
      <4>5. (spent \cap Tokens)' = (spent \cap Tokens) \cup earned
        BY <2>6, <3>2
      <4>6. Lifecycle!Issue(new, earned)
        BY <4>2, <4>3, <4>4, <4>5 DEF Lifecycle!Issue, PhaseOf
      <4> QED BY <2>2, <3>2, <4>6 DEF Lifecycle!Next
    <3> QED BY <3>3, <3>4
  <2> QED BY <1>7, <2>5, <2>6 DEF StoreToken, DBWrite, InsertToken, Deliver, Withhold
<1>8. ASSUME NEW t \in Known \cup {NoToken}, Logout(t)
      PROVE  Lifecycle!Next
  <2>1. UNCHANGED <<req, now, used>>
    BY <1>8 DEF Logout, DBWrite, Answer, clients
  <2>2. CASE spent' = spent
    <3>1. tokens' \subseteq tokens
      BY <1>8 DEF Logout, DBWrite, DeleteTokenRow
    <3> QED BY <1>2, <2>1, <2>2, <3>1
  <2>3. CASE DeleteTokenRow(t) /\ spent' = spent \cup {t}
    <3>1. Accepted' \subseteq Accepted /\ t \notin Accepted' /\ Unstored' = Unstored
      BY <2>1, <2>3 DEF DeleteTokenRow, Accepted, Unstored
    <3>2. t \notin Unstored /\ t \in Tokens \cup {NoToken}
      <4>1. Unstored \subseteq Tokens
        BY <1>0 DEF Unstored, TypeOK, Request
      <4>2. Known \subseteq Tokens
        BY <1>0 DEF Known, TypeOK, AuthResponse
      <4> QED BY <1>0, <4>1, <4>2, AcceptedIsStored
    <3> DEFINE paid == {t}
    <3>3. /\ paid \in SUBSET (Tokens \cup {NoToken}) /\ spent' = spent \cup paid
          /\ \A u \in paid : u \notin Accepted' /\ u \notin Unstored'
      BY <2>3, <3>1, <3>2
    <3> HIDE DEF paid
    <3> QED BY <3>1, <3>3, RetireStep
  <2> QED BY <1>8, <2>2, <2>3 DEF Logout, DBWrite
<1>9. ASSUME NEW id, NEW email,
             \/ CreateStudent(id, email) \/ UpdateStudent(id, email)
             \/ DeleteStudent(id) \/ Reject \/ UNCHANGED vars
      PROVE  Lifecycle!Next
  <2>1. UNCHANGED <<req, tokens, now, used, spent>>
    BY <1>9 DEF CreateStudent, UpdateStudent, DeleteStudent, Reject, Answer,
                DBWrite, clients, vars
  <2> QED BY <1>2, <2>1
<1>10. CASE Tick
  BY <1>0, <1>1, <1>10 DEF Tick, TypeOK, clients
<1> QED
  BY <1>3, <1>4, <1>5, <1>6, <1>7, <1>8, <1>9, <1>10 DEF Next, Step, Arrive, Handle, Single

\* Every behaviour of the handlers, seen through the mapping, is one that
\* TokenLifecycle allows.
THEOREM ImplementsLifecycle == Spec => TokensLiveOnce
<1>1. TokenInv /\ [Next]_vars => TokenInv'
  BY TokenInvNext
<1>2. TokenInv /\ [Next]_vars => [Lifecycle!Next]_Lifecycle!vars
  BY LifecycleNext
<1> QED
  BY <1>1, <1>2, TokenInvInit, LifecycleInit, PTL DEF Spec, TokensLiveOnce, Lifecycle!Spec

\* What TokenLifecycle promises, an inductive invariant of it with SpentIsDead.
LEMMA LifecyclePromises ==
  Lifecycle!Spec => [](Lifecycle!TypeOK /\ Lifecycle!SpentIsDead) /\ Lifecycle!DeadStaysDead
<1> DEFINE Inv == Lifecycle!TypeOK /\ Lifecycle!SpentIsDead
           Stays == \A t \in Lifecycle!In("dead") : PhaseOf'[t] = "dead"
<1>1. Lifecycle!Init => Inv
  BY DEF Lifecycle!Init, Lifecycle!TypeOK, Lifecycle!SpentIsDead
<1>2. ASSUME Inv, [Lifecycle!Next]_Lifecycle!vars
      PROVE  Inv' /\ Stays
  <2>1. ASSUME NEW t \in Tokens, NEW paid \in SUBSET Tokens, Lifecycle!Issue(t, paid)
        PROVE  Inv' /\ Stays
    BY <1>2, <2>1 DEF Lifecycle!Issue, Lifecycle!TypeOK, Lifecycle!SpentIsDead, Lifecycle!In, PhaseOf
  <2>2. ASSUME NEW ended \in SUBSET Tokens, NEW paid \in SUBSET Tokens,
               Lifecycle!Retire(ended, paid)
        PROVE  Inv' /\ Stays
    BY <1>2, <2>2 DEF Lifecycle!Retire, Lifecycle!TypeOK, Lifecycle!SpentIsDead, Lifecycle!In, PhaseOf
  <2>3. CASE UNCHANGED Lifecycle!vars
    BY <1>2, <2>3 DEF Lifecycle!vars, Lifecycle!TypeOK, Lifecycle!SpentIsDead, Lifecycle!In, PhaseOf
  <2> QED BY <1>2, <2>1, <2>2, <2>3 DEF Lifecycle!Next
<1>3. Inv /\ [Lifecycle!Next]_Lifecycle!vars => [Stays]_Lifecycle!vars
  BY <1>2
<1>4. Lifecycle!Spec => []Inv
  BY <1>1, <1>2, PTL DEF Lifecycle!Spec
<1>5. Lifecycle!Spec => [][Stays]_Lifecycle!vars
  BY <1>1, <1>2, <1>3, PTL DEF Lifecycle!Spec
<1>6. Lifecycle!Spec => Lifecycle!DeadStaysDead
  BY <1>5 DEF Lifecycle!DeadStaysDead, PhaseOf
<1> QED BY <1>4, <1>6

\* No refresh token that was logged out, exchanged, replaced or expired is ever
\* accepted again, and those whose logout or exchange was acknowledged are among
\* them.
THEOREM EndedForGood ==
  Spec => []Lifecycle!SpentIsDead /\ Lifecycle!DeadStaysDead
BY ImplementsLifecycle, LifecyclePromises, PTL DEF TokensLiveOnce

=============================================================================
