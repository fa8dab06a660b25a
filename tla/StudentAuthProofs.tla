------------------------- MODULE StudentAuthProofs -------------------------
(***************************************************************************)
(* Theorems about StudentAuth for every value of its constants: any number *)
(* of requests in flight, accounts and tokens, and any combination of      *)
(* database faults.                                                        *)
(***************************************************************************)
EXTENDS StudentAuth, FiniteSetTheorems, TLAPS

-----------------------------------------------------------------------------
(* Type correctness *)

\* The parts of a slot's record that a handler ever writes.
LEMMA RequestTypes ==
  ASSUME TypeOK, ConstantsAssumption
  PROVE  /\ Idle \in Request
         /\ \A p \in Procs : req[p] \in Request
BY DEF TypeOK, ConstantsAssumption, Idle, Request, Slot

\* Whatever a handler does with a result, it leaves a request in its slot.
LEMMA ResponseTypes ==
  ASSUME TypeOK, ConstantsAssumption, NEW p \in Procs, NEW r \in Request,
         NEW status \in Statuses
  PROVE  /\ Continue(p, r) => req' \in [Procs -> Request] /\ reply' \in Statuses
         /\ Respond(p, status) => req' \in [Procs -> Request] /\ reply' \in Statuses
         /\ Answer(status) => req' \in [Procs -> Request] /\ reply' \in Statuses
BY RequestTypes DEF TypeOK, Continue, Respond, Answer, Statuses

\* What the repository of students leaves in the table.
LEMMA RowTypes ==
  ASSUME TypeOK, ConstantsAssumption, NEW id \in Ids \cup {0}, NEW email \in Emails,
         NEW hash \in Passwords \cup {NoPassword}
  PROVE  /\ InsertRow(id, email, hash) => /\ students' \subseteq Student /\ lastId' \in 0..MaxId
                                          /\ RowId(id) \in Ids
         /\ RefuseRow(id, email) => students' \subseteq Student /\ lastId' \in 0..MaxId
         /\ NoInsert => students' \subseteq Student /\ lastId' \in 0..MaxId
         /\ UpdateRow(id, email, hash) => students' \subseteq Student
         /\ DeleteRow(id) => students' \subseteq Student
<1>1. InsertRow(id, email, hash) => /\ students' \subseteq Student /\ lastId' \in 0..MaxId
                                    /\ RowId(id) \in Ids
  BY DEF TypeOK, ConstantsAssumption, InsertRow, Refused, RowId, TakeId, Student, Ids
<1>2. RefuseRow(id, email) => students' \subseteq Student /\ lastId' \in 0..MaxId
  BY DEF TypeOK, ConstantsAssumption, RefuseRow, TakeId
<1>3. NoInsert => students' \subseteq Student /\ lastId' \in 0..MaxId
  BY DEF TypeOK, NoInsert
<1>4. UpdateRow(id, email, hash) => students' \subseteq Student
  BY DEF TypeOK, UpdateRow, RowExists, Student
<1>5. DeleteRow(id) => students' \subseteq Student
  BY DEF TypeOK, DeleteRow
<1> QED BY <1>1, <1>2, <1>3, <1>4, <1>5

\* TypeOK is inductive.
LEMMA TypeInductive ==
  ASSUME TypeOK, ConstantsAssumption, [Next]_vars
  PROVE  TypeOK'
<1>0. absent' \in [Procs -> SUBSET Ids]
  <2>1. ASSUME Remember
        PROVE  absent' \in [Procs -> SUBSET Ids]
    BY <2>1 DEF TypeOK, Remember, Concerns
  <2>2. CASE UNCHANGED vars
    BY <2>2 DEF TypeOK, vars
  <2> QED BY <2>1, <2>2 DEF Next
<1> USE RequestTypes, <1>0
<1>1. ASSUME NEW p \in Procs, NEW email \in Emails, NEW pw \in Passwords,
             Register(p, email, pw)
      PROVE  TypeOK'
  <2>1. [Idle EXCEPT !.pc = "insert", !.op = "register",
                     !.email = email, !.pw = pw] \in Request
    BY DEF Idle, Request, Slot
  <2> QED BY <1>1, <2>1, ResponseTypes DEF Register, TypeOK, clients, Statuses
<1>2. ASSUME NEW p \in Procs, NEW email \in Emails, NEW pw \in Passwords,
             Login(p, email, pw)
      PROVE  TypeOK'
  <2>1. \A s \in students : [Idle EXCEPT !.pc = "clean", !.op = "login",
                                         !.stud = s.id] \in Request
    <3> TAKE s \in students
    <3>1. s.id \in Ids
      BY DEF TypeOK, Student
    <3> QED BY <3>1 DEF Idle, Request, Slot
  <2> QED BY <1>2, <2>1, ResponseTypes DEF Login, GetByEmail, TypeOK, clients, Statuses
<1>3. ASSUME NEW p \in Procs, NEW t \in Known, Refresh(p, t)
      PROVE  TypeOK'
  <2>1. \A row \in ValidTokens(t) :
          [Idle EXCEPT !.pc = "student", !.op = "refresh",
                       !.stud = row.student, !.tok = t] \in Request
    <3> TAKE row \in ValidTokens(t)
    <3>1. t \in Tokens /\ row.student \in Ids
      BY DEF TypeOK, RefreshToken, AuthResponse, Known, ValidTokens
    <3> QED BY <3>1 DEF Idle, Request, Slot
  <2> QED BY <1>3, <2>1, ResponseTypes DEF Refresh, TypeOK, clients, Statuses
<1>4. ASSUME NEW p \in Procs, RegisterInsert(p)
      PROVE  TypeOK'
  <2> DEFINE r == req[p]
             next == [Idle EXCEPT !.pc = "clean", !.op = "register",
                                  !.stud = ReturnedId]
  <2>1. RowId(0) \in Ids => next \in Request
    BY DEF Idle, Request, Slot, ReturnedId
  <2>2. r.email \in Emails /\ r.pw \in Passwords
    BY <1>4 DEF RegisterInsert, Request
  <2>3. UNCHANGED <<tokens, now, held, used, spent>>
    BY <1>4 DEF RegisterInsert, clients
  <2>4. students' \subseteq Student /\ lastId' \in 0..MaxId
    BY <1>4, <2>2, RowTypes DEF RegisterInsert, DBWrite
  <2>5. InsertRow(0, r.email, r.pw) => RowId(0) \in Ids
    BY DEF InsertRow, Refused
  <2>6. req' \in [Procs -> Request] /\ reply' \in Statuses
    BY <1>4, <2>1, <2>5, ResponseTypes DEF RegisterInsert, DBWrite, Statuses
  <2> QED BY <2>3, <2>4, <2>6 DEF TypeOK
<1>5. ASSUME NEW p \in Procs, RefreshStudent(p)
      PROVE  TypeOK'
  <2>1. [req[p] EXCEPT !.pc = "clean"] \in Request
    BY <1>5 DEF RefreshStudent, Request, Slot
  <2> QED BY <1>5, <2>1, ResponseTypes DEF RefreshStudent, TypeOK, clients, Statuses
<1>6. ASSUME NEW p \in Procs, CleanTokens(p)
      PROVE  TypeOK'
  <2> DEFINE next(t, e) == [req[p] EXCEPT !.pc = "store", !.new = t, !.exp = e]
  <2>1. ASSUME NEW t \in Tokens, NEW e \in GenerateAccessToken PROVE next(t, e) \in Request
    <3>1. e \in Nat
      BY DEF GenerateAccessToken, TypeOK, ConstantsAssumption
    <3>2. req[p] \in Slot /\ req[p].stud \in Ids
      BY <1>6 DEF CleanTokens, Request
    <3>3. next(t, e) \in Slot
      BY <3>1, <3>2 DEF Slot
    <3>4. next(t, e).pc = "store" /\ next(t, e).stud = req[p].stud /\ next(t, e).new = t
      BY <3>2 DEF Slot
    <3> QED BY <3>2, <3>3, <3>4 DEF Request
  <2>2. tokens' \subseteq RefreshToken /\ used' \subseteq Tokens
    BY <1>6 DEF CleanTokens, DBWrite, CleanRows, GenerateRefreshToken, TypeOK
  <2>3. req' \in [Procs -> Request] /\ reply' \in Statuses
    BY <1>6, <2>1, ResponseTypes DEF CleanTokens, GenerateRefreshToken, DBWrite, Statuses
  <2> QED BY <1>6, <2>2, <2>3 DEF CleanTokens, TypeOK
<1>7. ASSUME NEW p \in Procs, StoreToken(p)
      PROVE  TypeOK'
  <2>1. req[p].stud \in Ids /\ req[p].new \in Tokens /\ req[p].exp \in Nat
    BY <1>7 DEF StoreToken, Request, Slot
  <2>2. tokens' \subseteq RefreshToken
    BY <1>7, <2>1 DEF StoreToken, DBWrite, InsertToken, TypeOK, RefreshToken, ConstantsAssumption
  <2>3. held' \subseteq AuthResponse /\ spent' \subseteq Tokens \cup {NoToken}
    BY <1>7, <2>1 DEF StoreToken, DBWrite, Deliver, Withhold, TypeOK, AuthResponse
  <2>4. req' \in [Procs -> Request] /\ reply' \in Statuses
    BY <1>7, ResponseTypes DEF StoreToken, DBWrite, Statuses
  <2> QED BY <1>7, <2>2, <2>3, <2>4 DEF StoreToken, TypeOK
<1>8. ASSUME NEW p \in Procs, Abandon(p)
      PROVE  TypeOK'
  BY <1>8, ResponseTypes DEF Abandon, TypeOK, clients, Statuses
<1>9. ASSUME NEW t \in Known \cup {NoToken}, Logout(t)
      PROVE  TypeOK'
  <2>1. t \in Tokens \cup {NoToken}
    BY DEF Known, TypeOK, AuthResponse
  <2>2. tokens' \subseteq RefreshToken /\ spent' \subseteq Tokens \cup {NoToken}
    BY <1>9, <2>1 DEF Logout, DBWrite, DeleteTokenRow, TypeOK
  <2>3. req' \in [Procs -> Request] /\ reply' \in Statuses
    BY <1>9 DEF Logout, DBWrite, Answer, Statuses, TypeOK
  <2> QED BY <1>9, <2>2, <2>3 DEF Logout, TypeOK
<1>10. ASSUME NEW id \in {0} \cup ClientIds, NEW email \in Emails, CreateStudent(id, email)
       PROVE  TypeOK'
  <2>1. id \in Ids \cup {0} /\ DefaultPassword \in Passwords \cup {NoPassword}
    BY DEF ConstantsAssumption, Ids
  <2>2. students' \subseteq Student /\ lastId' \in 0..MaxId
    BY <1>10, <2>1, RowTypes DEF CreateStudent, DBWrite
  <2>3. req' \in [Procs -> Request] /\ reply' \in Statuses
    BY <1>10 DEF CreateStudent, DBWrite, Answer, Statuses, TypeOK
  <2> QED BY <1>10, <2>2, <2>3 DEF CreateStudent, TypeOK, clients
<1>11. ASSUME NEW id \in 0..MaxId, NEW email \in Emails, UpdateStudent(id, email)
       PROVE  TypeOK'
  <2>1. id \in Ids \cup {0}
    BY DEF ConstantsAssumption, Ids
  <2>2. students' \subseteq Student
    BY <1>11, <2>1, RowTypes DEF UpdateStudent, DBWrite, TypeOK
  <2>3. req' \in [Procs -> Request] /\ reply' \in Statuses
    BY <1>11 DEF UpdateStudent, DBWrite, Answer, Statuses, TypeOK
  <2> QED BY <1>11, <2>2, <2>3 DEF UpdateStudent, TypeOK, clients
<1>12. ASSUME NEW id \in 0..MaxId, DeleteStudent(id)
       PROVE  TypeOK'
  <2>1. students' \subseteq Student
    BY <1>12 DEF DeleteStudent, DBWrite, DeleteRow, TypeOK
  <2>2. req' \in [Procs -> Request] /\ reply' \in Statuses
    BY <1>12 DEF DeleteStudent, DBWrite, Answer, Statuses, TypeOK
  <2> QED BY <1>12, <2>1, <2>2 DEF DeleteStudent, TypeOK, clients
<1>13. CASE Reject
  BY <1>13 DEF Reject, Answer, TypeOK, clients, Statuses
<1>14. CASE Tick
  BY <1>14 DEF Tick, TypeOK, clients, Statuses, ConstantsAssumption
<1>15. CASE UNCHANGED vars
  BY <1>15 DEF vars, TypeOK
<1> QED
  BY <1>1, <1>2, <1>3, <1>4, <1>5, <1>6, <1>7, <1>8, <1>9, <1>10, <1>11, <1>12,
     <1>13, <1>14, <1>15
  DEF Next, Step, Arrive, Handle, Single

\* In every reachable state each variable has its type, and every handler that
\* reached a statement has the values the statement needs.
THEOREM TypeCorrect == Spec => []TypeOK
<1>1. Init => TypeOK
  BY ConstantsAssumption DEF Init, TypeOK, ConstantsAssumption, Statuses, Idle, Request, Slot, Ids
<1>2. TypeOK /\ [Next]_vars => TypeOK'
  BY TypeInductive, ConstantsAssumption
<1> QED BY <1>1, <1>2, PTL DEF Spec

-----------------------------------------------------------------------------
(* Accounts *)

\* Registrations, creations and updates in any interleaving keep ids and emails
\* unique.
THEOREM AccountsUnique == Spec => []UniqueAccounts
<1>1. Init => UniqueAccounts
  BY DEF Init, UniqueAccounts
<1>2. ASSUME UniqueAccounts, [Next]_vars
      PROVE  UniqueAccounts'
  <2>1. ASSUME NEW id, NEW email, NEW hash, InsertRow(id, email, hash)
        PROVE  UniqueAccounts'
    BY <1>2, <2>1 DEF UniqueAccounts, InsertRow, Refused
  <2>2. ASSUME NEW id, NEW email, NEW hash, UpdateRow(id, email, hash)
        PROVE  UniqueAccounts'
    <3>1. ASSUME NEW s1 \in students', NEW s2 \in students',
                 s1.id = s2.id \/ s1.email = s2.email
          PROVE  s1 = s2
      <4> DEFINE new == [id |-> id, email |-> email, hash |-> hash]
      <4>1. \A s \in students' : s = new \/ (s \in students /\ s.id # id /\ s.email # email)
        BY <2>2 DEF UpdateRow, EmailTaken
      <4> QED BY <1>2, <3>1, <4>1 DEF UniqueAccounts
    <3> QED BY <3>1 DEF UniqueAccounts
  <2>3. ASSUME NEW id, DeleteRow(id)
        PROVE  UniqueAccounts'
    BY <1>2, <2>3 DEF UniqueAccounts, DeleteRow
  <2>4. ASSUME students' = students
        PROVE  UniqueAccounts'
    BY <1>2, <2>4 DEF UniqueAccounts
  <2>5. ASSUME NEW p \in Procs, RegisterInsert(p)
        PROVE  UniqueAccounts'
    BY <2>5, <2>1, <2>4 DEF RegisterInsert, DBWrite, NoInsert, RefuseRow
  <2>6. ASSUME NEW id, NEW email, CreateStudent(id, email)
        PROVE  UniqueAccounts'
    BY <2>6, <2>1, <2>4 DEF CreateStudent, DBWrite, NoInsert, RefuseRow
  <2>7. ASSUME NEW id, NEW email, UpdateStudent(id, email)
        PROVE  UniqueAccounts'
    BY <2>7, <2>2, <2>4 DEF UpdateStudent, DBWrite
  <2>8. ASSUME NEW id, DeleteStudent(id)
        PROVE  UniqueAccounts'
    BY <2>8, <2>3, <2>4 DEF DeleteStudent, DBWrite
  <2>9. ASSUME NEW p \in Procs, Arrive(p) \/ RefreshStudent(p) \/ CleanTokens(p)
                                \/ StoreToken(p) \/ Abandon(p)
        PROVE  UniqueAccounts'
    BY <2>9, <2>4 DEF Arrive, Register, Login, Refresh, RefreshStudent, CleanTokens,
                      StoreToken, Abandon
  <2>10. ASSUME NEW t, Logout(t)
         PROVE  UniqueAccounts'
    BY <2>10, <2>4 DEF Logout
  <2>11. CASE Reject \/ Tick \/ UNCHANGED vars
    BY <2>11, <2>4 DEF Reject, Tick, vars
  <2> QED
    BY <1>2, <2>5, <2>6, <2>7, <2>8, <2>9, <2>10, <2>11 DEF Next, Step, Handle, Single
<1> QED BY <1>1, <1>2, PTL DEF Spec

-----------------------------------------------------------------------------
(***************************************************************************)
(* Refresh tokens                                                          *)
(*                                                                         *)
(* That a spent token stays dead is not inductive: it has to be known that *)
(* the token which StoreToken adds was drawn for this request alone, and   *)
(* that by then the exchanged token has lost its row.  The first is a      *)
(* chain from used to Known, the second follows the presented token        *)
(* through the stages of Refresh.                                          *)
(***************************************************************************)

\* The requests that are about to store their token.
InStore == {p \in Procs : req[p].pc = "store"}

\* Clients know, and rows carry, generated tokens only.
Generated == /\ Known \subseteq used
             /\ \A row \in tokens : row.token \in used

\* Two rows never carry the same token for different students.
OwnerUnique == \A r1, r2 \in tokens : r1.token = r2.token => r1.student = r2.student

\* A token on its way to the table is in nobody else's hands.
NewIsFresh ==
  \A p \in InStore : /\ req[p].new \in used \ Known
                     /\ \A row \in tokens : row.token # req[p].new
                     /\ \A q \in InStore : req[q].new = req[p].new => q = p

\* A request exchanges a token some client holds; until cleanTokens its row, if
\* there is one, is the student's, and afterwards there is none.
Presented ==
  \A p \in Procs :
    /\ req[p].tok \in Known \cup {NoToken}
    /\ \A row \in tokens : row.token = req[p].tok =>
         /\ req[p].pc # "store"
         /\ req[p].pc \in {"student", "clean"} => row.student = req[p].stud

\* Only held tokens are spent, and they have no rows.
SpentIsGone == /\ spent \subseteq Known \cup {NoToken}
               /\ \A row \in tokens : row.token \notin spent

\* The inductive invariant.
TokenInv == TypeOK /\ Generated /\ OwnerUnique /\ NewIsFresh /\ Presented /\ SpentIsGone

\* A step of one slot that leaves the tokens alone.
LEMMA QuietStep ==
  ASSUME TokenInv, NEW p \in Procs, NEW r \in Request,
         req' = [req EXCEPT ![p] = r], UNCHANGED <<tokens, clients>>,
         r.pc # "store",
         r.tok \in Known \cup {NoToken},
         r.pc \in {"student", "clean"} =>
           \A row \in tokens : row.token = r.tok => row.student = r.stud,
         TypeOK'
  PROVE  TokenInv'
<1>1. req'[p] = r /\ \A q \in Procs \ {p} : req'[q] = req[q]
  BY DEF TokenInv, TypeOK
<1>2. Known' = Known
  BY DEF Known, clients
<1>3. InStore' \subseteq InStore /\ \A q \in InStore' : req'[q] = req[q]
  BY <1>1 DEF InStore
<1>4. Generated' /\ OwnerUnique' /\ SpentIsGone'
  BY <1>2 DEF TokenInv, Generated, OwnerUnique, SpentIsGone, clients
<1>5. NewIsFresh'
  BY <1>2, <1>3 DEF TokenInv, NewIsFresh, clients
<1>6. Presented'
  BY <1>1, <1>2 DEF TokenInv, Presented
<1> QED BY <1>4, <1>5, <1>6 DEF TokenInv

\* A step that leaves the slots alone and may only remove rows.
LEMMA RemoveRows ==
  ASSUME TokenInv, UNCHANGED <<req, held, used>>, tokens' \subseteq tokens,
         NEW gone \in SUBSET (Known \cup {NoToken}),
         \A row \in tokens' : row.token \notin gone,
         spent' = spent \cup gone,
         TypeOK'
  PROVE  TokenInv'
<1>1. Known' = Known /\ InStore' = InStore
  BY DEF Known, InStore
<1>2. Generated' /\ OwnerUnique' /\ SpentIsGone'
  BY <1>1 DEF TokenInv, Generated, OwnerUnique, SpentIsGone
<1>3. NewIsFresh' /\ Presented'
  BY <1>1 DEF TokenInv, NewIsFresh, Presented
<1> QED BY <1>2, <1>3 DEF TokenInv

\* There are no tokens at first.
LEMMA TokenInvInit == Init => TokenInv
<1> SUFFICES ASSUME Init PROVE TokenInv
  OBVIOUS
<1>1. TypeOK
  BY ConstantsAssumption DEF Init, TypeOK, ConstantsAssumption, Statuses, Idle, Request, Slot, Ids
<1>2. \A p \in Procs : req[p].pc = "idle" /\ req[p].tok = NoToken
  BY DEF Init, Idle
<1> QED
  BY <1>1, <1>2 DEF Init, TokenInv, Generated, OwnerUnique, NewIsFresh, Presented,
                    SpentIsGone, Known, InStore

\* Every step keeps TokenInv.
LEMMA TokenInvNext ==
  ASSUME TokenInv, [Next]_vars
  PROVE  TokenInv'
<1>0. TypeOK /\ TypeOK'
  BY TypeInductive, ConstantsAssumption DEF TokenInv
<1>i. Idle \in Request /\ Idle.pc = "idle" /\ Idle.tok = NoToken
  BY <1>0, RequestTypes, ConstantsAssumption DEF Idle
<1>1. ASSUME UNCHANGED <<req, tokens, clients>>
      PROVE  TokenInv'
  <2> DEFINE none == {}
  <2>1. none \in SUBSET (Known \cup {NoToken}) /\ spent' = spent \cup none
    BY <1>1 DEF clients
  <2>2. /\ UNCHANGED <<req, held, used>>
        /\ tokens' \subseteq tokens /\ \A row \in tokens' : row.token \notin none
    BY <1>1 DEF clients
  <2> HIDE DEF none
  <2> QED BY <1>0, <2>1, <2>2, RemoveRows
<1>2. ASSUME NEW p \in Procs, req' = [req EXCEPT ![p] = Idle], UNCHANGED <<tokens, clients>>
      PROVE  TokenInv'
  BY <1>0, <1>i, <1>2, QuietStep
<1>3. ASSUME NEW p \in Procs, NEW email \in Emails, NEW pw \in Passwords,
             Register(p, email, pw)
      PROVE  TokenInv'
  <2> DEFINE r == [Idle EXCEPT !.pc = "insert", !.op = "register",
                               !.email = email, !.pw = pw]
  <2>1. r \in Request /\ r.pc = "insert" /\ r.tok = NoToken
    BY <1>0, RequestTypes, ConstantsAssumption DEF Idle, Request, Slot
  <2>2. CASE Answer("conflict")
    BY <1>1, <1>3, <2>2 DEF Register, Answer
  <2>3. CASE Continue(p, r)
    BY <1>0, <1>3, <2>1, <2>3, QuietStep DEF Register, Continue
  <2> QED BY <1>3, <2>2, <2>3 DEF Register
<1>4. ASSUME NEW p \in Procs, NEW email \in Emails, NEW pw \in Passwords,
             Login(p, email, pw)
      PROVE  TokenInv'
  <2> DEFINE r(s) == [Idle EXCEPT !.pc = "clean", !.op = "login",
                                  !.stud = s.id]
  <2>1. CASE Answer("unauthorized")
    BY <1>1, <1>4, <2>1 DEF Login, Answer
  <2>2. ASSUME NEW s \in students, Continue(p, r(s))
        PROVE  TokenInv'
    <3>1. r(s) \in Request /\ r(s).pc = "clean" /\ r(s).tok = NoToken
      BY <1>0, RequestTypes, ConstantsAssumption DEF TypeOK, Student, Idle, Request, Slot
    <3>2. \A row \in tokens : row.token # NoToken
      BY <1>0, ConstantsAssumption DEF TypeOK, RefreshToken, ConstantsAssumption
    <3> QED BY <1>0, <1>4, <2>2, <3>1, <3>2, QuietStep DEF Login, Continue
  <2> QED BY <1>4, <2>1, <2>2 DEF Login, GetByEmail
<1>5. ASSUME NEW p \in Procs, NEW t \in Known, Refresh(p, t)
      PROVE  TokenInv'
  <2> DEFINE r(row) == [Idle EXCEPT !.pc = "student", !.op = "refresh",
                                    !.stud = row.student, !.tok = t]
  <2>1. CASE Answer("unauthorized")
    BY <1>1, <1>5, <2>1 DEF Refresh, Answer
  <2>2. ASSUME NEW row \in ValidTokens(t), Continue(p, r(row))
        PROVE  TokenInv'
    <3>1. row \in tokens /\ row.token = t
      BY DEF ValidTokens
    <3>2. /\ r(row) \in Request /\ r(row).pc = "student"
          /\ r(row).tok = t /\ r(row).stud = row.student
      <4>1. row.student \in Ids /\ t \in Tokens
        BY <1>0, <3>1 DEF TypeOK, RefreshToken
      <4>2. Idle \in Request
        BY <1>0, RequestTypes, ConstantsAssumption
      <4> QED BY <4>1, <4>2 DEF Idle, Request, Slot
    <3>3. \A other \in tokens : other.token = t => other.student = row.student
      BY <3>1 DEF TokenInv, OwnerUnique
    <3> QED BY <1>0, <1>5, <2>2, <3>2, <3>3, QuietStep DEF Refresh, Continue
  <2> QED BY <1>5, <2>1, <2>2 DEF Refresh
<1>6. ASSUME NEW p \in Procs, RegisterInsert(p)
      PROVE  TokenInv'
  <2> DEFINE r == [Idle EXCEPT !.pc = "clean", !.op = "register",
                               !.stud = ReturnedId]
  <2>1. r.pc = "clean" /\ r.tok = NoToken
    BY DEF Idle
  <2>2. UNCHANGED <<tokens, clients>>
    BY <1>6 DEF RegisterInsert
  <2>3. CASE Respond(p, "error")
    BY <1>2, <2>2, <2>3 DEF Respond
  <2>4. CASE Continue(p, r)
    <3>1. req' = [req EXCEPT ![p] = r] /\ req'[p] = r
      BY <1>0, <2>4 DEF Continue, TypeOK
    <3>2. r \in Request
      BY <1>0, <3>1 DEF TypeOK
    <3>3. \A row \in tokens : row.token # NoToken
      BY <1>0, ConstantsAssumption DEF TypeOK, RefreshToken, ConstantsAssumption
    <3> HIDE DEF r
    <3> QED BY <1>0, <2>1, <2>2, <3>1, <3>2, <3>3, QuietStep
  <2> QED BY <1>6, <2>3, <2>4 DEF RegisterInsert, DBWrite
<1>7. ASSUME NEW p \in Procs, RefreshStudent(p)
      PROVE  TokenInv'
  <2> DEFINE r == [req[p] EXCEPT !.pc = "clean"]
  <2>1. UNCHANGED <<tokens, clients>> /\ req[p].pc = "student"
    BY <1>7 DEF RefreshStudent
  <2>2. CASE Respond(p, "unauthorized")
    BY <1>2, <2>1, <2>2 DEF Respond
  <2>3. CASE Continue(p, r)
    <3>1. req' = [req EXCEPT ![p] = r] /\ req'[p] = r
      BY <1>0, <2>3 DEF Continue, TypeOK
    <3>2. r \in Request
      BY <1>0, <3>1 DEF TypeOK
    <3>3. r.pc = "clean" /\ r.tok = req[p].tok /\ r.stud = req[p].stud
      BY <1>0 DEF TypeOK, Request, Slot
    <3>4. /\ req[p].tok \in Known \cup {NoToken}
          /\ \A row \in tokens : row.token = req[p].tok => row.student = req[p].stud
      BY <2>1 DEF TokenInv, Presented
    <3> HIDE DEF r
    <3> QED BY <1>0, <2>1, <3>1, <3>2, <3>3, <3>4, QuietStep
  <2> QED BY <1>7, <2>2, <2>3 DEF RefreshStudent
<1>8. ASSUME NEW p \in Procs, CleanTokens(p)
      PROVE  TokenInv'
  <2> DEFINE r(t, e) == [req[p] EXCEPT !.pc = "store", !.new = t, !.exp = e]
  <2>1. /\ req[p].pc = "clean" /\ p \notin InStore
        /\ held' = held /\ spent' = spent /\ Known' = Known
    BY <1>8 DEF CleanTokens, InStore, Known
  <2>2. CASE Respond(p, "error") /\ UNCHANGED <<tokens, used>>
    BY <1>2, <2>1, <2>2 DEF Respond, clients
  <2>3. ASSUME NEW t \in Tokens \ used, used' = used \cup {t},
               tokens' \subseteq tokens,
               req' = [req EXCEPT ![p] = Idle]
        PROVE  TokenInv'
    <3>1. req'[p] = Idle /\ \A q \in Procs \ {p} : req'[q] = req[q]
      BY <1>0, <2>3 DEF TypeOK
    <3>2. InStore' = InStore /\ \A q \in InStore : req'[q] = req[q]
      BY <1>i, <2>1, <3>1 DEF InStore
    <3>3. Generated' /\ OwnerUnique' /\ SpentIsGone' /\ NewIsFresh'
      BY <2>1, <2>3, <3>2 DEF TokenInv, Generated, OwnerUnique, SpentIsGone, NewIsFresh
    <3>4. Presented'
      BY <1>i, <2>1, <2>3, <3>1 DEF TokenInv, Presented
    <3> QED BY <1>0, <3>3, <3>4 DEF TokenInv
  <2>4. ASSUME NEW t \in Tokens \ used, NEW e, used' = used \cup {t},
               CleanRows(req[p].stud),
               req' = [req EXCEPT ![p] = r(t, e)]
        PROVE  TokenInv'
    <3>1. req'[p] = r(t, e) /\ \A q \in Procs \ {p} : req'[q] = req[q]
      BY <1>0, <2>4 DEF TypeOK
    <3>2. req'[p].pc = "store" /\ req'[p].new = t /\ req'[p].tok = req[p].tok
      BY <1>0, <3>1 DEF TypeOK, Request, Slot
    <3> HIDE DEF r
    <3>3. InStore' = InStore \cup {p} /\ \A q \in InStore : req'[q] = req[q]
      BY <2>1, <3>1, <3>2 DEF InStore
    <3>4. tokens' \subseteq tokens /\ \A row \in tokens' : row.student # req[p].stud
      BY <2>4 DEF CleanRows
    <3>5. Generated' /\ OwnerUnique' /\ SpentIsGone'
      BY <2>1, <2>4, <3>4 DEF TokenInv, Generated, OwnerUnique, SpentIsGone
    <3>6. NewIsFresh'
      <4>1. \A q \in InStore : req[q].new \in used /\ req[q].new # t
        BY DEF TokenInv, NewIsFresh
      <4>2. t \notin Known /\ \A row \in tokens : row.token # t
        BY DEF TokenInv, Generated
      <4> QED BY <2>1, <2>4, <3>2, <3>3, <3>4, <4>1, <4>2 DEF TokenInv, NewIsFresh
    <3>7. Presented'
      <4>1. \A row \in tokens' : row.token # req[p].tok
        BY <2>1, <3>4 DEF TokenInv, Presented
      <4> QED BY <2>1, <3>1, <3>2, <3>4, <4>1 DEF TokenInv, Presented
    <3> QED BY <1>0, <3>5, <3>6, <3>7 DEF TokenInv
  <2> QED BY <1>8, <2>2, <2>3, <2>4 
         DEF CleanTokens, GenerateRefreshToken, DBWrite, CleanRows, Continue, Respond
<1>9. ASSUME NEW p \in Procs, StoreToken(p)
      PROVE  TokenInv'
  <2> DEFINE row0 == [student |-> req[p].stud, token |-> req[p].new,
                      expires |-> now + RefreshTTL]
  <2>1. /\ p \in InStore /\ used' = used
        /\ req' = [req EXCEPT ![p] = Idle]
        /\ req'[p] = Idle /\ \A q \in Procs \ {p} : req'[q] = req[q]
    BY <1>0, <1>9 DEF StoreToken, DBWrite, Respond, InStore, TypeOK
  <2>2. InStore' = InStore \ {p} /\ \A q \in InStore' : req'[q] = req[q]
    BY <1>i, <2>1 DEF InStore
  <2>3. /\ req[p].new \in used /\ req[p].new \notin Known /\ req[p].new \in Tokens
        /\ \A row \in tokens : row.token # req[p].new
        /\ \A q \in InStore' : req[q].new # req[p].new
    BY <1>0, <2>1, <2>2 DEF TokenInv, NewIsFresh, TypeOK
  <2>4. /\ req[p].tok \in Known \cup {NoToken}
        /\ \A row \in tokens : row.token # req[p].tok
    BY <2>1 DEF TokenInv, Presented, InStore
  <2>5. CASE tokens' = tokens /\ held' = held /\ spent' = spent
    BY <1>2, <2>1, <2>5 DEF clients
  <2>6. ASSUME tokens' = tokens \cup {row0},
               \/ held' = held /\ spent' = spent
               \/ Deliver(req[p])
        PROVE  TokenInv'
    <3>1. row0.token = req[p].new
      OBVIOUS
    <3> HIDE DEF row0
    <3>2. Known \subseteq Known' /\ Known' \subseteq Known \cup {req[p].new}
      BY <2>6 DEF Known, Deliver
    <3>3. Generated'
      BY <2>1, <2>3, <2>6, <3>1, <3>2 DEF TokenInv, Generated
    <3>4. OwnerUnique'
      BY <2>3, <2>6, <3>1 DEF TokenInv, OwnerUnique
    <3>5. NewIsFresh'
      BY <2>1, <2>2, <2>3, <2>6, <3>1, <3>2 DEF TokenInv, NewIsFresh
    <3>6. Presented'
      <4>1. \A q \in Procs : req[q].tok \in Known \cup {NoToken} /\ req[q].tok # req[p].new
        BY <2>3, ConstantsAssumption DEF TokenInv, Presented, ConstantsAssumption
      <4>2. \A row \in tokens' : row.token # NoToken
        BY <1>0, ConstantsAssumption DEF TypeOK, RefreshToken, ConstantsAssumption
      <4> QED BY <1>i, <2>1, <2>6, <3>1, <3>2, <4>1, <4>2 DEF TokenInv, Presented
    <3>7. SpentIsGone'
      <4>1. spent' \subseteq spent \cup {req[p].tok}
        BY <2>6 DEF Deliver
      <4>2. req[p].new \notin spent /\ req[p].new # req[p].tok
        BY <2>3, <2>4, ConstantsAssumption DEF TokenInv, SpentIsGone, ConstantsAssumption
      <4> QED BY <2>4, <2>6, <3>1, <3>2, <4>1, <4>2 DEF TokenInv, SpentIsGone
    <3> QED BY <1>0, <3>3, <3>4, <3>5, <3>6, <3>7 DEF TokenInv
  <2> QED BY <1>9, <2>5, <2>6 DEF StoreToken, DBWrite, InsertToken, Withhold
<1>10. ASSUME NEW p \in Procs, Abandon(p)
       PROVE  TokenInv'
  BY <1>2, <1>10 DEF Abandon, Respond
<1>11. ASSUME NEW t \in Known \cup {NoToken}, Logout(t)
       PROVE  TokenInv'
  <2>1. UNCHANGED <<req, held, used>>
    BY <1>11 DEF Logout, DBWrite, Answer
  <2>2. CASE tokens' \subseteq tokens /\ spent' = spent
    <3> DEFINE none == {}
    <3>1. none \in SUBSET (Known \cup {NoToken}) /\ spent' = spent \cup none
          /\ \A row \in tokens' : row.token \notin none
      BY <2>2
    <3> HIDE DEF none
    <3> QED BY <1>0, <2>1, <2>2, <3>1, RemoveRows
  <2>3. CASE DeleteTokenRow(t) /\ spent' = spent \cup {t}
    <3>1. tokens' \subseteq tokens /\ \A row \in tokens' : row.token \notin {t}
      BY <2>3 DEF DeleteTokenRow
    <3> QED BY <1>0, <2>1, <2>3, <3>1, RemoveRows
  <2> QED BY <1>11, <2>2, <2>3 DEF Logout, DBWrite, DeleteTokenRow
<1>12. ASSUME NEW id, NEW email,
              \/ CreateStudent(id, email) \/ UpdateStudent(id, email)
              \/ DeleteStudent(id) \/ Reject \/ Tick \/ UNCHANGED vars
       PROVE  TokenInv'
  <2>1. UNCHANGED <<req, tokens, clients>>
    BY <1>12 DEF CreateStudent, UpdateStudent, DeleteStudent, Reject, Tick, Answer,
                 DBWrite, clients, vars
  <2> QED BY <1>1, <2>1
<1> QED
  BY <1>3, <1>4, <1>5, <1>6, <1>7, <1>8, <1>9, <1>10, <1>11, <1>12
  DEF Next, Step, Arrive, Handle, Single

\* A refresh token whose logout or exchange was acknowledged is never accepted
\* again, whatever requests were in flight and whatever the database lost.
THEOREM SpentStayDead == Spec => []SpentTokensStayDead
<1>1. TokenInv /\ [Next]_vars => TokenInv'
  BY TokenInvNext
<1>2. TokenInv => SpentTokensStayDead
  BY ConstantsAssumption DEF TokenInv, SpentTokensStayDead, SpentIsGone, NewIsFresh, InStore,
                             TypeOK, ConstantsAssumption
<1> QED BY <1>1, <1>2, TokenInvInit, PTL DEF Spec

-----------------------------------------------------------------------------
(***************************************************************************)
(* How many sessions                                                       *)
(*                                                                         *)
(* SessionBound is inductive once the rows are known to be finitely many:  *)
(* StoreToken turns one of the requests that are about to store into a     *)
(* row, CleanTokens leaves a student without rows, and no more requests    *)
(* can be about to store than there are slots.                             *)
(***************************************************************************)

\* The inductive invariant, and the two sets that SessionBound counts.
BoundInv == TypeOK /\ IsFiniteSet(tokens) /\ SessionBound

Rows(id) == {row \in tokens : row.student = id}
Storers(id) == {p \in Procs : req[p].pc = "store" /\ req[p].stud = id}

\* All the sets that SessionBound counts are finite.
LEMMA CountsAreNumbers ==
  ASSUME IsFiniteSet(tokens)
  PROVE  /\ Cardinality(Procs) \in Nat
         /\ \A id : /\ IsFiniteSet(Rows(id)) /\ Sessions(id) = Cardinality(Rows(id))
                    /\ IsFiniteSet(Storers(id)) /\ Storing(id) = Cardinality(Storers(id))
                    /\ Sessions(id) \in Nat
                    /\ Storing(id) \in 0..Cardinality(Procs)
<1>1. Cardinality(Procs) \in Nat
  BY FiniteSlots, FS_CardinalityType
<1>2. ASSUME NEW id
      PROVE  /\ IsFiniteSet(Rows(id)) /\ Cardinality(Rows(id)) \in Nat
             /\ IsFiniteSet(Storers(id)) /\ Cardinality(Storers(id)) \in 0..Cardinality(Procs)
  <2>1. IsFiniteSet(Rows(id))
    BY FS_Subset DEF Rows
  <2>2. IsFiniteSet(Storers(id)) /\ Cardinality(Storers(id)) <= Cardinality(Procs)
    BY FiniteSlots, FS_Subset DEF Storers
  <2>3. Cardinality(Rows(id)) \in Nat /\ Cardinality(Storers(id)) \in Nat
    BY <2>1, <2>2, FS_CardinalityType
  <2> QED BY <1>1, <2>1, <2>2, <2>3
<1>3. \A id : Sessions(id) = Cardinality(Rows(id)) /\ Storing(id) = Cardinality(Storers(id))
  BY DEF Sessions, Storing, Rows, Storers
<1> QED BY <1>1, <1>2, <1>3

\* A step that adds neither a row nor a request about to store.
LEMMA FewerSessions ==
  ASSUME BoundInv, TypeOK', tokens' \subseteq tokens,
         \A p \in Procs : req'[p].pc = "store" => req'[p] = req[p]
  PROVE  BoundInv'
<1>1. IsFiniteSet(tokens')
  BY FS_Subset DEF BoundInv
<1>2. ASSUME NEW id \in Ids
      PROVE  /\ Sessions(id)' \in Nat /\ Sessions(id)' <= Sessions(id)
             /\ Storing(id)' \in Nat /\ Storing(id)' <= Storing(id)
  <2>1. IsFiniteSet(Rows(id)) /\ Rows(id)' \subseteq Rows(id)
    BY CountsAreNumbers DEF BoundInv, Rows
  <2>2. IsFiniteSet(Storers(id)) /\ Storers(id)' \subseteq Storers(id)
    BY CountsAreNumbers DEF BoundInv, Storers
  <2>3. /\ Cardinality(Rows(id)') \in Nat /\ Cardinality(Rows(id)') <= Cardinality(Rows(id))
        /\ Cardinality(Storers(id)') \in Nat
        /\ Cardinality(Storers(id)') <= Cardinality(Storers(id))
    BY <2>1, <2>2, FS_Subset, FS_CardinalityType
  <2> QED BY <2>3 DEF Sessions, Storing, Rows, Storers
<1>3. ASSUME NEW id \in Ids
      PROVE  (Sessions(id) + Storing(id) <= Cardinality(Procs))'
  <2>1. Sessions(id) + Storing(id) <= Cardinality(Procs)
    BY DEF BoundInv, SessionBound
  <2>2. Sessions(id) \in Nat /\ Storing(id) \in Nat /\ Cardinality(Procs) \in Nat
    BY CountsAreNumbers DEF BoundInv
  <2> QED BY <1>2, <2>1, <2>2
<1> QED BY <1>1, <1>3 DEF BoundInv, SessionBound

\* CleanTokens of p for student i: p is about to store, and i has no rows left.
LEMMA CleanStep ==
  ASSUME BoundInv, TypeOK', NEW p \in Procs, NEW i \in Ids,
         CleanRows(i),
         \A q \in Procs \ {p} : req'[q] = req[q],
         req'[p].stud = i
  PROVE  BoundInv'
<1>1. IsFiniteSet(tokens')
  BY FS_Subset DEF BoundInv, CleanRows
<1>2. ASSUME NEW id \in Ids
      PROVE  (Sessions(id) + Storing(id) <= Cardinality(Procs))'
  <2>1. /\ Sessions(id) \in Nat /\ Storing(id) \in Nat /\ Cardinality(Procs) \in Nat
        /\ Sessions(id) + Storing(id) <= Cardinality(Procs)
    BY CountsAreNumbers DEF BoundInv, SessionBound
  <2>2. CASE id = i
    <3>1. Rows(id)' = {}
      BY <2>2 DEF CleanRows, Rows
    <3>2. Sessions(id)' = 0
      BY <3>1, FS_EmptySet DEF Sessions, Rows
    <3>3. Storers(id)' \subseteq Procs
      BY DEF Storers
    <3>4. Cardinality(Storers(id)') \in Nat /\ Cardinality(Storers(id)') <= Cardinality(Procs)
      BY <3>3, FiniteSlots, FS_Subset, FS_CardinalityType
    <3> QED BY <3>2, <3>4 DEF Storing, Storers
  <2>3. CASE id # i
    <3>1. Rows(id)' = Rows(id)
      BY <2>3 DEF CleanRows, Rows
    <3>2. Storers(id)' \subseteq Storers(id)
      BY <2>3 DEF Storers
    <3>3. Sessions(id)' = Sessions(id)
      BY <3>1 DEF Sessions, Rows
    <3>4. IsFiniteSet(Storers(id)) /\ Storing(id) = Cardinality(Storers(id))
      BY CountsAreNumbers DEF BoundInv
    <3>5. /\ Cardinality(Storers(id)') \in Nat
          /\ Cardinality(Storers(id)') <= Cardinality(Storers(id))
      BY <3>2, <3>4, FS_Subset, FS_CardinalityType
    <3>6. Storing(id)' \in Nat /\ Storing(id)' <= Storing(id)
      BY <3>4, <3>5 DEF Storing, Storers
    <3> QED BY <2>1, <3>3, <3>6
  <2> QED BY <2>2, <2>3
<1> QED BY <1>1, <1>2 DEF BoundInv, SessionBound

\* The insert of StoreToken: p stops being about to store and leaves a row.
LEMMA StoreStep ==
  ASSUME BoundInv, TypeOK', NEW p \in Procs, req[p].pc = "store",
         InsertToken(req[p].stud, req[p].new),
         req' = [req EXCEPT ![p] = Idle]
  PROVE  BoundInv'
<1> DEFINE i == req[p].stud
           row0 == [student |-> i, token |-> req[p].new, expires |-> now + RefreshTTL]
<1>1. tokens' = tokens \cup {row0} /\ row0.student = i
  BY DEF InsertToken
<1>2. IsFiniteSet(tokens')
  BY <1>1, FS_AddElement DEF BoundInv
<1>3. req'[p].pc # "store" /\ \A q \in Procs \ {p} : req'[q] = req[q]
  BY DEF BoundInv, TypeOK, Idle
<1>4. ASSUME NEW id \in Ids
      PROVE  (Sessions(id) + Storing(id) <= Cardinality(Procs))'
  <2>1. /\ Sessions(id) \in Nat /\ Storing(id) \in Nat /\ Cardinality(Procs) \in Nat
        /\ Sessions(id) + Storing(id) <= Cardinality(Procs)
        /\ IsFiniteSet(Rows(id)) /\ Sessions(id) = Cardinality(Rows(id))
        /\ IsFiniteSet(Storers(id)) /\ Storing(id) = Cardinality(Storers(id))
    BY CountsAreNumbers DEF BoundInv, SessionBound
  <2>2. Sessions(id)' = Cardinality(Rows(id)') /\ Storing(id)' = Cardinality(Storers(id)')
    BY DEF Sessions, Storing, Rows, Storers
  <2>3. Storers(id)' = Storers(id) \ {p}
    BY <1>3 DEF Storers
  <2>4. CASE id = i
    <3>1. Rows(id)' = Rows(id) \cup {row0}
      <4> HIDE DEF row0
      <4> QED BY <1>1, <2>4 DEF Rows
    <3>2. p \in Storers(id)
      BY <2>4 DEF Storers
    <3>3. Cardinality(Storers(id)') = Cardinality(Storers(id)) - 1
      BY <2>1, <2>3, <3>2, FS_RemoveElement
    <3>4. \/ Cardinality(Rows(id)') = Cardinality(Rows(id))
          \/ Cardinality(Rows(id)') = Cardinality(Rows(id)) + 1
      <4> HIDE DEF row0
      <4>1. Cardinality(Rows(id) \cup {row0}) =
              IF row0 \in Rows(id) THEN Cardinality(Rows(id)) ELSE Cardinality(Rows(id)) + 1
        BY <2>1, FS_AddElement
      <4> QED BY <3>1, <4>1
    <3> HIDE DEF i, row0
    <3> QED BY <2>1, <2>2, <3>3, <3>4
  <2>5. CASE id # i
    <3>1. Rows(id)' = Rows(id)
      <4> HIDE DEF row0
      <4> QED BY <1>1, <2>5 DEF Rows
    <3>2. p \notin Storers(id)
      BY <2>5 DEF Storers
    <3>3. Storers(id)' = Storers(id)
      BY <2>3, <3>2
    <3> QED BY <2>1, <2>2, <3>1, <3>3
  <2> QED BY <2>4, <2>5
<1> QED BY <1>2, <1>4 DEF BoundInv, SessionBound

\* BoundInv is inductive.
LEMMA BoundInvNext ==
  ASSUME BoundInv, [Next]_vars
  PROVE  BoundInv'
<1>0. TypeOK /\ TypeOK'
  BY TypeInductive, ConstantsAssumption DEF BoundInv
<1>1. ASSUME NEW p \in Procs, NEW r, req' = [req EXCEPT ![p] = r], r.pc # "store",
             tokens' \subseteq tokens
      PROVE  BoundInv'
  <2>1. req'[p] = r /\ \A q \in Procs \ {p} : req'[q] = req[q]
    BY <1>0, <1>1 DEF TypeOK
  <2> QED BY <1>0, <1>1, <2>1, FewerSessions
<1>2. ASSUME req' = req, tokens' \subseteq tokens
      PROVE  BoundInv'
  BY <1>0, <1>2, FewerSessions
<1>3. Idle.pc = "idle"
  BY DEF Idle
<1>4. ASSUME NEW p \in Procs, NEW email \in Emails, NEW pw \in Passwords,
             Register(p, email, pw) \/ Login(p, email, pw)
      PROVE  BoundInv'
  <2> DEFINE reg == [Idle EXCEPT !.pc = "insert", !.op = "register",
                                 !.email = email, !.pw = pw]
             log(s) == [Idle EXCEPT !.pc = "clean", !.op = "login",
                                    !.stud = s.id]
  <2>1. tokens' = tokens
    BY <1>4 DEF Register, Login
  <2>2. reg.pc = "insert" /\ \A s \in students : log(s).pc = "clean"
    BY DEF Idle
  <2>3. \/ req' = req \/ req' = [req EXCEPT ![p] = reg]
        \/ \E s \in students : req' = [req EXCEPT ![p] = log(s)]
    BY <1>4 DEF GetByEmail, Register, Login, Continue, Answer
  <2> HIDE DEF reg, log
  <2> QED BY <1>1, <1>2, <2>1, <2>2, <2>3
<1>5. ASSUME NEW p \in Procs, NEW t \in Known, Refresh(p, t)
      PROVE  BoundInv'
  <2> DEFINE r(row) == [Idle EXCEPT !.pc = "student", !.op = "refresh",
                                    !.stud = row.student, !.tok = t]
  <2>1. tokens' = tokens
    BY <1>5 DEF Refresh
  <2>2. \A row \in tokens : r(row).pc = "student"
    BY DEF Idle
  <2>3. req' = req \/ \E row \in tokens : req' = [req EXCEPT ![p] = r(row)]
    BY <1>5 DEF Refresh, Continue, Answer, ValidTokens
  <2> HIDE DEF r
  <2> QED BY <1>1, <1>2, <2>1, <2>2, <2>3
<1>6. ASSUME NEW p \in Procs, RegisterInsert(p) \/ RefreshStudent(p) \/ Abandon(p)
      PROVE  BoundInv'
  <2> DEFINE ins == [Idle EXCEPT !.pc = "clean", !.op = "register",
                                 !.stud = ReturnedId]
             ref == [req[p] EXCEPT !.pc = "clean"]
  <2>1. tokens' = tokens
    BY <1>6 DEF RegisterInsert, RefreshStudent, Abandon
  <2>2. ins.pc = "clean" /\ ref.pc = "clean"
    BY <1>0 DEF TypeOK, Request, Slot, Idle
  <2>3. \/ req' = [req EXCEPT ![p] = Idle] \/ req' = [req EXCEPT ![p] = ins]
        \/ req' = [req EXCEPT ![p] = ref]
    BY <1>6 DEF RegisterInsert, RefreshStudent, Abandon, DBWrite, Continue, Respond
  <2> HIDE DEF ins, ref
  <2> QED BY <1>1, <1>3, <2>1, <2>2, <2>3
<1>7. ASSUME NEW p \in Procs, CleanTokens(p)
      PROVE  BoundInv'
  <2> DEFINE r(t, e) == [req[p] EXCEPT !.pc = "store", !.new = t, !.exp = e]
  <2>1. req[p] \in Slot /\ req[p].stud \in Ids
    BY <1>0, <1>7 DEF CleanTokens, TypeOK, Request
  <2>2. CASE req' = [req EXCEPT ![p] = Idle]
    BY <1>1, <1>3, <1>7, <2>2 DEF CleanTokens, DBWrite, CleanRows
  <2>3. ASSUME NEW t, NEW e, CleanRows(req[p].stud), req' = [req EXCEPT ![p] = r(t, e)]
        PROVE  BoundInv'
    <3>1. r(t, e).stud = req[p].stud
      BY <2>1 DEF Slot
    <3>2. req'[p] = r(t, e) /\ \A q \in Procs \ {p} : req'[q] = req[q]
      BY <1>0, <2>3 DEF TypeOK
    <3> HIDE DEF r
    <3> QED BY <1>0, <2>1, <2>3, <3>1, <3>2, CleanStep
  <2> QED BY <1>7, <2>2, <2>3 DEF CleanTokens, DBWrite, Continue, Respond
<1>8. ASSUME NEW p \in Procs, StoreToken(p)
      PROVE  BoundInv'
  <2>1. req[p].pc = "store" /\ req' = [req EXCEPT ![p] = Idle]
    BY <1>8 DEF StoreToken, DBWrite, Respond
  <2>2. InsertToken(req[p].stud, req[p].new) \/ tokens' = tokens
    BY <1>8 DEF StoreToken, DBWrite
  <2> QED BY <1>0, <1>1, <1>3, <2>1, <2>2, StoreStep
<1>9. ASSUME NEW t, Logout(t)
      PROVE  BoundInv'
  <2>1. req' = req /\ tokens' \subseteq tokens
    BY <1>9 DEF Logout, DBWrite, DeleteTokenRow, Answer
  <2> QED BY <1>2, <2>1
<1>10. ASSUME NEW id, NEW email,
              \/ CreateStudent(id, email) \/ UpdateStudent(id, email)
              \/ DeleteStudent(id) \/ Reject \/ Tick \/ UNCHANGED vars
       PROVE  BoundInv'
  <2>1. req' = req /\ tokens' = tokens
    BY <1>10 DEF CreateStudent, UpdateStudent, DeleteStudent, Reject, Tick, Answer,
                 DBWrite, vars
  <2> QED BY <1>2, <2>1
<1> QED
  BY <1>4, <1>5, <1>6, <1>7, <1>8, <1>9, <1>10 DEF Next, Step, Arrive, Handle, Single

\* Although replacing a student's refresh token takes two statements, a student
\* never has more of them than the service handles requests at the same time.
THEOREM SessionsBounded == Spec => []SessionBound
<1>1. Init => BoundInv
  <2> SUFFICES ASSUME Init PROVE BoundInv
    OBVIOUS
  <2>1. TypeOK
    BY ConstantsAssumption
    DEF Init, TypeOK, ConstantsAssumption, Statuses, Idle, Request, Slot, Ids
  <2>2. IsFiniteSet(tokens)
    BY FS_EmptySet DEF Init
  <2>3. \A id : Rows(id) = {} /\ Storers(id) = {}
    BY DEF Init, Rows, Storers, Idle
  <2>4. \A id : Sessions(id) = 0 /\ Storing(id) = 0
    BY <2>3, FS_EmptySet DEF Sessions, Storing, Rows, Storers
  <2> QED BY <2>1, <2>2, <2>4, CountsAreNumbers DEF BoundInv, SessionBound
<1>2. BoundInv /\ [Next]_vars => BoundInv'
  BY BoundInvNext
<1>3. BoundInv => SessionBound
  BY DEF BoundInv
<1> QED BY <1>1, <1>2, <1>3, PTL DEF Spec

-----------------------------------------------------------------------------
(***************************************************************************)
(* Deleted accounts                                                        *)
(*                                                                         *)
(* DeleteStudent leaves refresh tokens behind, and clients may take a free *)
(* id again.  What protects an account that is gone is that each of the    *)
(* three ways to a session passes a statement that finds, or makes, the    *)
(* account; from there on only the slot is consulted.                      *)
(***************************************************************************)

\* What was absent when a request arrived, and still counts as absent, has no row.
AbsentHaveNoRow == \A p \in Procs : \A i \in absent[p] : ~RowExists(i)

\* The inductive invariant.
AccountInv == TypeOK /\ AbsentHaveNoRow /\ NoSessionAfterDelete

\* A handler that goes on to generate tokens has found or made the account in
\* this step, or was about to generate them for the same student before.
LEMMA SessionNeedsAccount ==
  ASSUME TypeOK, TypeOK', [Next]_vars, NEW p \in Procs, req'[p].pc \in {"clean", "store"}
  PROVE  \/ req[p].pc \in {"clean", "store"} /\ req'[p].stud = req[p].stud
         \/ RowExists(req[p].stud)'
<1>0. Idle.pc = "idle"
  BY DEF Idle
<1>1. ASSUME req'[p] = req[p]
      PROVE  req[p].pc \in {"clean", "store"} /\ req'[p].stud = req[p].stud
  BY <1>1
<1>2. ASSUME NEW q \in Procs, NEW r, req' = [req EXCEPT ![q] = r]
      PROVE  req'[p] = req[p] \/ (q = p /\ req'[p] = r)
  BY <1>2 DEF TypeOK
<1>3. ASSUME NEW q \in Procs, NEW email \in Emails, NEW pw \in Passwords,
             Register(q, email, pw)
      PROVE  req'[p] = req[p]
  <2> DEFINE r == [Idle EXCEPT !.pc = "insert", !.op = "register",
                               !.email = email, !.pw = pw]
  <2>1. r.pc = "insert"
    BY DEF Idle
  <2>2. req' = req \/ req' = [req EXCEPT ![q] = r]
    BY <1>3 DEF Register, Answer, Continue
  <2> HIDE DEF r
  <2> QED BY <1>2, <2>1, <2>2
<1>4. ASSUME NEW q \in Procs, NEW email \in Emails, NEW pw \in Passwords,
             Login(q, email, pw)
      PROVE  req'[p] = req[p] \/ RowExists(req[p].stud)'
  <2> DEFINE r(s) == [Idle EXCEPT !.pc = "clean", !.op = "login", !.stud = s.id]
  <2>1. \A s \in students : r(s).stud = s.id
    BY DEF Idle
  <2>2. students' = students
    BY <1>4 DEF Login
  <2>3. req' = req \/ \E s \in students : req' = [req EXCEPT ![q] = r(s)]
    BY <1>4 DEF Login, GetByEmail, Answer, Continue
  <2> HIDE DEF r
  <2> QED BY <1>2, <2>1, <2>2, <2>3 DEF RowExists
<1>5. ASSUME NEW q \in Procs, NEW t \in Known, Refresh(q, t)
      PROVE  req'[p] = req[p]
  <2> DEFINE r(row) == [Idle EXCEPT !.pc = "student", !.op = "refresh",
                                    !.stud = row.student, !.tok = t]
  <2>1. \A row \in tokens : r(row).pc = "student"
    BY DEF Idle
  <2>2. req' = req \/ \E row \in tokens : req' = [req EXCEPT ![q] = r(row)]
    BY <1>5 DEF Refresh, ValidTokens, Answer, Continue
  <2> HIDE DEF r
  <2> QED BY <1>2, <2>1, <2>2
<1>6. ASSUME NEW q \in Procs, RegisterInsert(q)
      PROVE  req'[p] = req[p] \/ RowExists(req[p].stud)'
  <2> DEFINE r == [Idle EXCEPT !.pc = "clean", !.op = "register", !.stud = ReturnedId]
  <2>1. r.stud = RowId(0)
    BY DEF Idle, ReturnedId
  <2>2. \/ req' = [req EXCEPT ![q] = Idle]
        \/ /\ InsertRow(0, req[q].email, req[q].pw)
           /\ req' = [req EXCEPT ![q] = r]
    BY <1>6 DEF RegisterInsert, DBWrite, Respond, Continue
  <2>3. ASSUME InsertRow(0, req[q].email, req[q].pw)
        PROVE  \E s \in students' : s.id = RowId(0)
    <3> DEFINE new == [id |-> RowId(0), email |-> req[q].email, hash |-> req[q].pw]
    <3>1. new \in students' /\ new.id = RowId(0)
      BY <2>3 DEF InsertRow
    <3> HIDE DEF new
    <3> QED BY <3>1
  <2> HIDE DEF r
  <2> QED BY <1>0, <1>2, <2>1, <2>2, <2>3 DEF RowExists
<1>7. ASSUME NEW q \in Procs, RefreshStudent(q)
      PROVE  req'[p] = req[p] \/ RowExists(req[p].stud)'
  <2> DEFINE r == [req[q] EXCEPT !.pc = "clean"]
  <2>1. r.stud = req[q].stud
    BY DEF TypeOK, Request, Slot
  <2>2. students' = students
    BY <1>7 DEF RefreshStudent
  <2>3. \/ req' = [req EXCEPT ![q] = Idle]
        \/ RowExists(req[q].stud) /\ req' = [req EXCEPT ![q] = r]
    BY <1>7 DEF RefreshStudent, Respond, Continue
  <2> HIDE DEF r
  <2> QED BY <1>0, <1>2, <2>1, <2>2, <2>3 DEF RowExists
<1>8. ASSUME NEW q \in Procs, CleanTokens(q)
      PROVE  \/ req'[p] = req[p]
             \/ req[p].pc = "clean" /\ req'[p].stud = req[p].stud
  <2> DEFINE r(t, e) == [req[q] EXCEPT !.pc = "store", !.new = t, !.exp = e]
  <2>1. req[q].pc = "clean" /\ \A t, e : r(t, e).stud = req[q].stud
    BY <1>8 DEF CleanTokens, TypeOK, Request, Slot
  <2>2. req' = [req EXCEPT ![q] = Idle] \/ \E t, e : req' = [req EXCEPT ![q] = r(t, e)]
    BY <1>8 DEF CleanTokens, DBWrite, Respond, Continue
  <2> HIDE DEF r
  <2> QED BY <1>0, <1>2, <2>1, <2>2
<1>9. ASSUME NEW q \in Procs, StoreToken(q) \/ Abandon(q)
      PROVE  req'[p] = req[p]
  <2>1. req' = [req EXCEPT ![q] = Idle]
    BY <1>9 DEF StoreToken, Abandon, DBWrite, Respond
  <2> QED BY <1>0, <1>2, <2>1
<1>10. ASSUME NEW t, Logout(t)
       PROVE  req'[p] = req[p]
  BY <1>10 DEF Logout, DBWrite, Answer
<1>11. ASSUME NEW id, NEW email,
              \/ CreateStudent(id, email) \/ UpdateStudent(id, email)
              \/ DeleteStudent(id) \/ Reject \/ Tick \/ UNCHANGED vars
       PROVE  req'[p] = req[p]
  BY <1>11 DEF CreateStudent, UpdateStudent, DeleteStudent, Reject, Tick, Answer, DBWrite, vars
<1> QED
  BY <1>1, <1>3, <1>4, <1>5, <1>6, <1>7, <1>8, <1>9, <1>10, <1>11
  DEF Next, Step, Arrive, Handle, Single

\* Every step keeps AccountInv, whatever ids clients send.
LEMMA AccountInvNext ==
  ASSUME AccountInv, [Next]_vars
  PROVE  AccountInv'
<1>0. TypeOK /\ TypeOK'
  BY TypeInductive, ConstantsAssumption DEF AccountInv
<1>1. CASE UNCHANGED vars
  BY <1>0, <1>1 DEF AccountInv, AbsentHaveNoRow, NoSessionAfterDelete, RowExists, vars
<1>2. CASE Remember
  <2>1. ASSUME NEW p \in Procs, NEW i \in absent'[p]
        PROVE  /\ ~RowExists(i)'
               /\ req[p].pc # "idle" => i \in absent[p]
    BY <1>2, <2>1 DEF Remember
  <2>2. AbsentHaveNoRow'
    BY <2>1 DEF AbsentHaveNoRow, RowExists
  <2>3. ASSUME NEW p \in Procs, req'[p].pc \in {"clean", "store"},
               req'[p].stud \in absent'[p]
        PROVE  FALSE
    <3>1. ~RowExists(req[p].stud)' /\ (req[p].pc # "idle" => req'[p].stud \in absent[p])
      BY <2>1, <2>3 DEF RowExists
    <3>2. req[p].pc \in {"clean", "store"} /\ req'[p].stud = req[p].stud
      BY <1>0, <2>3, <3>1, SessionNeedsAccount
    <3> QED BY <3>1, <3>2 DEF AccountInv, NoSessionAfterDelete
  <2> QED BY <1>0, <2>2, <2>3 DEF AccountInv, NoSessionAfterDelete
<1> QED BY <1>1, <1>2 DEF Next

\* No request gets tokens for a student whose account was gone when the request
\* arrived and has not been made again, in any interleaving, with any failures,
\* and whatever ids clients put into the body of POST /students.
THEOREM AbsentGetNoSession == Spec => []NoSessionAfterDelete
<1>1. Init => AccountInv
  <2> SUFFICES ASSUME Init PROVE AccountInv
    OBVIOUS
  <2>1. TypeOK
    BY ConstantsAssumption
    DEF Init, TypeOK, ConstantsAssumption, Statuses, Idle, Request, Slot, Ids
  <2>2. \A p \in Procs : req[p].pc = "idle" /\ absent[p] = {}
    BY DEF Init, Idle
  <2> QED BY <2>1, <2>2 DEF AccountInv, AbsentHaveNoRow, NoSessionAfterDelete
<1>2. AccountInv /\ [Next]_vars => AccountInv'
  BY AccountInvNext
<1>3. AccountInv => NoSessionAfterDelete
  BY DEF AccountInv
<1> QED BY <1>1, <1>2, <1>3, PTL DEF Spec

=============================================================================
