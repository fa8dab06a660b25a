---------------------------- MODULE StudentAuth ----------------------------
(***************************************************************************)
(* Accounts and sessions of the student service: the handlers of           *)
(* internal/auth and internal/student over the tables students and         *)
(* refresh_tokens.                                                         *)
(*                                                                         *)
(* Every handler runs in a goroutine of some replica and talks to one      *)
(* Postgres database, one statement at a time and without a transaction.   *)
(* An action is one statement together with the local code before it (back *)
(* to the previous statement, or to the arrival of the request) and the    *)
(* branch the handler takes on its result, the response included.          *)
(* Handlers of one statement (create, update, delete, logout) are single   *)
(* actions; register, login and refresh keep their progress in a slot of   *)
(* req between their statements.                                           *)
(*                                                                         *)
(* A bcrypt hash is represented by the password it was made from, and an   *)
(* access token by the time it expires.                                    *)
(*                                                                         *)
(* A definition marked "mutant" is a plausible bug of the definition that  *)
(* follows it.  Nothing refers to it; PROJECT.json says which property     *)
(* catches it.                                                             *)
(***************************************************************************)
EXTENDS Integers, FiniteSets

CONSTANTS
  Procs,            \* request slots: multi-statement handlers in flight
  Emails, Passwords,
  DefaultPassword,  \* the one CreateStudent hashes
  Tokens,           \* what GenerateRefreshToken can return
  NoEmail, NoPassword, NoToken,
  MaxId,            \* bound: last value of the sequence of students.id
  MaxTime,          \* bound: last value of the clock
  AccessTTL, RefreshTTL,
  HasSecret,        \* is JWT_SECRET set in the environment?
  ClientIds,        \* ids that clients put into the body of POST /students
  Faults,           \* how a database call may go wrong, see DBWrite
  Workload          \* the requests that clients send

ASSUME ConstantsAssumption ==
  /\ DefaultPassword \in Passwords
  /\ NoEmail \notin Emails /\ NoPassword \notin Passwords /\ NoToken \notin Tokens
  /\ MaxId \in Nat /\ MaxTime \in Nat /\ AccessTTL \in Nat /\ RefreshTTL \in Nat
  /\ HasSecret \in BOOLEAN
  /\ ClientIds \subseteq 1..MaxId
  /\ Faults \subseteq {"failed", "lost"}

\* A process runs finitely many handlers at a time.
ASSUME FiniteSlots == IsFiniteSet(Procs)

VARIABLES
  students,  \* rows of table students
  lastId,    \* last value taken from the sequence of students.id
  tokens,    \* rows of table refresh_tokens
  now,       \* the clock
  req,       \* the handler running in each slot
  reply,     \* the response sent by the last step, "none" if it sent none
  held,      \* AuthResponses that reached a client
  used,      \* random strings GenerateRefreshToken has returned so far
  spent,     \* refresh tokens whose logout or exchange was acknowledged
  absent     \* history, see Remember: ids without an account, per request

vars == <<students, lastId, tokens, now, req, reply, held, used, spent, absent>>
clients == <<held, used, spent>>

Ids == 1..MaxId
Student == [id : Ids, email : Emails, hash : Passwords \cup {NoPassword}]
RefreshToken == [student : Ids, token : Tokens, expires : Nat]
AuthResponse == [token : Tokens, exp : Nat]
Statuses == {"none", "ok", "created", "noContent", "badRequest",
             "unauthorized", "conflict", "notFound", "error"}
Slot == [pc : {"idle", "insert", "student", "clean", "store"},
         op : {"none", "register", "login", "refresh"},
         email : Emails \cup {NoEmail},
         pw : Passwords \cup {NoPassword},
         stud : Ids \cup {0},
         tok : Tokens \cup {NoToken},     \* the refresh token presented
         new : Tokens \cup {NoToken},     \* the refresh token generated
         exp : Nat]                       \* of the access token generated

\* What a handler has in hand when it reaches a statement.
Request == {r \in Slot : /\ r.pc = "insert" => r.email \in Emails /\ r.pw \in Passwords
                         /\ r.pc \in {"student", "clean", "store"} => r.stud \in Ids
                         /\ r.pc = "store" => r.new \in Tokens}

Idle == [pc |-> "idle", op |-> "none", email |-> NoEmail, pw |-> NoPassword,
         stud |-> 0, tok |-> NoToken, new |-> NoToken, exp |-> 0]

Init ==
  /\ students = {} /\ lastId = 0 /\ tokens = {} /\ now = 0
  /\ req = [p \in Procs |-> Idle] /\ reply = "none"
  /\ held = {} /\ used = {} /\ spent = {}
  /\ absent = [p \in Procs |-> {}]

-----------------------------------------------------------------------------
(* What a handler does with the result of a statement. *)

\* The handler in slot p goes on to its next statement.
Continue(p, r) == req' = [req EXCEPT ![p] = r] /\ reply' = "none"

\* The handler in slot p answers and returns.
Respond(p, status) == req' = [req EXCEPT ![p] = Idle] /\ reply' = status

\* A handler of a single statement answers.
Answer(status) == req' = req /\ reply' = status

\* A statement that writes.  It may fail without being executed ("failed"), or
\* be executed although the caller gets an error, the connection or the request
\* context having ended in between ("lost").
DBWrite(executed, skipped, succeeded, failed) ==
  \/ executed /\ succeeded
  \/ "failed" \in Faults /\ skipped /\ failed
  \/ "lost" \in Faults /\ executed /\ failed

\* A statement that reads may fail too.
ReadFails == Faults # {}

-----------------------------------------------------------------------------
(* The repositories. *)

\* GetByEmail, and GetByID as far as a handler looks at its result.
GetByEmail(email) == {s \in students : s.email = email}
RowExists(id) == \E s \in students : s.id = id

\* Create: the id is taken from the sequence unless the caller supplies one.
\* Postgres keeps id and email unique, and a value taken from the sequence is
\* not given back when the row is refused.
RowId(id) == IF id = 0 THEN lastId + 1 ELSE id
RefusedByIdOnly(id, email) ==                                            \* mutant
  RowId(id) \notin Ids \/ \E s \in students : s.id = RowId(id)
Refused(id, email) == \/ RowId(id) \notin Ids
                      \/ \E s \in students : s.id = RowId(id) \/ s.email = email
TakeId(id) == lastId' = IF id = 0 /\ lastId < MaxId THEN lastId + 1 ELSE lastId
InsertRow(id, email, hash) ==
  /\ ~Refused(id, email)
  /\ students' = students \cup {[id |-> RowId(id), email |-> email, hash |-> hash]}
  /\ TakeId(id)
\* The insert returns the row, with the id it got, to the handler of Register.
UnknownId == 0                                                           \* mutant
ReturnedId == RowId(0)
RefuseRow(id, email) == Refused(id, email) /\ students' = students /\ TakeId(id)
NoInsert == UNCHANGED <<students, lastId>>

\* Update: all columns of the row with this id are overwritten.
EmailTaken(id, email) == \E s \in students : s.email = email /\ s.id # id
UpdateRow(id, email, hash) ==
  /\ RowExists(id) /\ ~EmailTaken(id, email)
  /\ students' = {IF s.id = id THEN [id |-> id, email |-> email, hash |-> hash] ELSE s :
                    s \in students}

DeleteRow(id) == RowExists(id) /\ students' = {s \in students : s.id # id}

\* GetRefreshToken: the token's row, if it has not expired.
ValidTokens(t) == {row \in tokens : row.token = t /\ row.expires > now}

\* cleanTokens, DeleteRefreshToken and CreateRefreshToken.
CleanExpiredRows(id) ==                                                  \* mutant
  tokens' = {row \in tokens : row.student # id \/ row.expires > now}
CleanRows(id) == tokens' = {row \in tokens : row.student # id}
DeleteExpiredTokenRow(t) ==                                              \* mutant
  tokens' = {row \in tokens : row.token # t \/ row.expires > now}
DeleteTokenRow(t) == tokens' = {row \in tokens : row.token # t}
InsertToken(id, t) ==
  tokens' = tokens \cup {[student |-> id, token |-> t, expires |-> now + RefreshTTL]}

-----------------------------------------------------------------------------
(* The tokens. *)

\* An access token, by its expiry; there is none without a secret to sign it.
GenerateAccessToken == IF HasSecret THEN {now + AccessTTL} ELSE {}
ValidateAccessToken(exp) == HasSecret /\ exp > now

\* 32 random bytes never repeat.  When Tokens has no fresh one left, the
\* generator reports an error.
GenerateRefreshToken == Tokens \ used

-----------------------------------------------------------------------------
(* POST /auth/register *)

\* GetByEmail, before the insert: an error of the read counts as "no such
\* student".
Register(p, email, pw) ==
  /\ "register" \in Workload
  /\ req[p] = Idle
  /\ \/ GetByEmail(email) # {} /\ Answer("conflict")
     \/ /\ ReadFails \/ GetByEmail(email) = {}
        /\ Continue(p, [Idle EXCEPT !.pc = "insert", !.op = "register",
                                    !.email = email, !.pw = pw])
  /\ UNCHANGED <<students, lastId, tokens, now, clients>>

\* Create: a violated constraint is an internal error to this handler.
RegisterInsert(p) ==
  LET r == req[p]
      next == [Idle EXCEPT !.pc = "clean", !.op = "register", !.stud = ReturnedId] IN
  /\ r.pc = "insert"
  /\ \/ DBWrite(InsertRow(0, r.email, r.pw), NoInsert,
                Continue(p, next), Respond(p, "error"))
     \/ RefuseRow(0, r.email) /\ Respond(p, "error")
  /\ UNCHANGED <<tokens, now, clients>>

(* POST /auth/login *)

\* GetByEmail, then the password is compared with the hash just read.
Login(p, email, pw) ==
  /\ "login" \in Workload
  /\ req[p] = Idle
  /\ \/ \E s \in GetByEmail(email) :
          /\ s.hash = pw
          /\ Continue(p, [Idle EXCEPT !.pc = "clean", !.op = "login",
                                      !.stud = s.id])
     \/ /\ ReadFails \/ \A s \in GetByEmail(email) : s.hash # pw
        /\ Answer("unauthorized")
  /\ UNCHANGED <<students, lastId, tokens, now, clients>>

(* POST /auth/refresh *)

\* GetRefreshToken.
Refresh(p, t) ==
  /\ "refresh" \in Workload
  /\ req[p] = Idle
  /\ \/ \E row \in ValidTokens(t) :
          Continue(p, [Idle EXCEPT !.pc = "student", !.op = "refresh",
                                   !.stud = row.student, !.tok = t])
     \/ /\ ReadFails \/ ValidTokens(t) = {}
        /\ Answer("unauthorized")
  /\ UNCHANGED <<students, lastId, tokens, now, clients>>

\* GetByID of the token's student.
RefreshUnchecked(p) ==                                                   \* mutant
  /\ req[p].pc = "student"
  /\ Continue(p, [req[p] EXCEPT !.pc = "clean"])
  /\ UNCHANGED <<students, lastId, tokens, now, clients>>
RefreshAwaitsStudent(p) ==                                               \* mutant
  /\ req[p].pc = "student" /\ RowExists(req[p].stud)
  /\ Continue(p, [req[p] EXCEPT !.pc = "clean"])
  /\ UNCHANGED <<students, lastId, tokens, now, clients>>
RefreshStudent(p) ==
  LET r == req[p] IN
  /\ r.pc = "student"
  /\ \/ RowExists(r.stud) /\ Continue(p, [r EXCEPT !.pc = "clean"])
     \/ (ReadFails \/ ~RowExists(r.stud)) /\ Respond(p, "unauthorized")
  /\ UNCHANGED <<students, lastId, tokens, now, clients>>

(* generateTokenPair, the end of all three *)

\* Both tokens are generated, then cleanTokens.
CleanTokens(p) ==
  LET r == req[p] IN
  /\ r.pc = "clean"
  /\ \/ /\ GenerateAccessToken = {} \/ GenerateRefreshToken = {}
        /\ Respond(p, "error")
        /\ UNCHANGED <<tokens, used>>
     \/ \E exp \in GenerateAccessToken, t \in GenerateRefreshToken :
          /\ used' = used \cup {t}
          /\ DBWrite(CleanRows(r.stud), tokens' = tokens,
                     Continue(p, [r EXCEPT !.pc = "store", !.new = t, !.exp = exp]),
                     Respond(p, "error"))
  /\ UNCHANGED <<students, lastId, now, held, spent>>

\* CreateRefreshToken, and the response that carries the pair.
Deliver(r) ==
  /\ held' = held \cup {[token |-> r.new, exp |-> r.exp]}
  /\ spent' = spent \cup ({r.tok} \cap Tokens)
Withhold == UNCHANGED <<held, spent>>
StoreToken(p) ==
  LET r == req[p] IN
  /\ r.pc = "store"
  /\ DBWrite(InsertToken(r.stud, r.new), tokens' = tokens,
             /\ Respond(p, IF r.op = "register" THEN "created" ELSE "ok")
             /\ Deliver(r),
             Respond(p, "error") /\ Withhold)
  /\ UNCHANGED <<students, lastId, now, used>>

(* POST /auth/logout; the body is not validated, the token may be empty *)

Logout(t) ==
  /\ "logout" \in Workload
  /\ DBWrite(DeleteTokenRow(t), tokens' = tokens,
             Answer("noContent") /\ spent' = spent \cup {t},
             Answer("error") /\ spent' = spent)
  /\ UNCHANGED <<students, lastId, now, held, used>>

-----------------------------------------------------------------------------
(* /api/students, behind AuthMiddleware *)

\* The request carries an access token that has not expired.
Authorized == \E h \in held : ValidateAccessToken(h.exp)

\* Any other request is turned away before its handler runs.
Reject ==
  /\ Workload \cap {"create", "update", "delete"} # {}
  /\ Answer("unauthorized")
  /\ UNCHANGED <<students, lastId, tokens, now, clients>>

\* POST: the password never comes from the body (json:"-").
CreateStudent(id, email) ==
  /\ "create" \in Workload /\ Authorized
  /\ \/ DBWrite(InsertRow(id, email, DefaultPassword), NoInsert,
                Answer("created"), Answer("error"))
     \/ RefuseRow(id, email) /\ Answer("error")
  /\ UNCHANGED <<tokens, now, clients>>

\* PUT /:id: the row is overwritten with the decoded body, whose password is
\* empty.
UpdateStudent(id, email) ==
  /\ "update" \in Workload /\ Authorized
  /\ \/ id = 0 /\ Answer("badRequest") /\ students' = students
     \/ /\ id > 0
        /\ \/ ~RowExists(id) /\ Answer("notFound") /\ students' = students
           \/ EmailTaken(id, email) /\ RowExists(id) /\ Answer("error") /\ students' = students
           \/ DBWrite(UpdateRow(id, email, NoPassword), students' = students,
                      Answer("ok"), Answer("error"))
  /\ UNCHANGED <<lastId, tokens, now, clients>>

\* DELETE /:id: the rows of refresh_tokens stay.
DeleteStudent(id) ==
  /\ "delete" \in Workload /\ Authorized
  /\ \/ id = 0 /\ Answer("badRequest") /\ students' = students
     \/ /\ id > 0
        /\ \/ ~RowExists(id) /\ Answer("notFound") /\ students' = students
           \/ DBWrite(DeleteRow(id), students' = students,
                      Answer("noContent"), Answer("error"))
  /\ UNCHANGED <<lastId, tokens, now, clients>>

-----------------------------------------------------------------------------
\* The replica dies, or the client disconnects, which cancels the request's
\* context: the handler gets no further and nobody is answered.
Abandon(p) ==
  /\ Faults # {}
  /\ req[p] # Idle
  /\ Respond(p, "none")
  /\ UNCHANGED <<students, lastId, tokens, now, clients>>

Tick ==
  /\ now < MaxTime
  /\ now' = now + 1 /\ reply' = "none"
  /\ UNCHANGED <<students, lastId, tokens, req, clients>>

Known == {h.token : h \in held}

Arrive(p) ==
  \/ \E email \in Emails, pw \in Passwords : Register(p, email, pw) \/ Login(p, email, pw)
  \/ \E t \in Known : Refresh(p, t)

Handle(p) == RegisterInsert(p) \/ RefreshStudent(p) \/ CleanTokens(p) \/ StoreToken(p)

Single ==
  \/ \E t \in Known \cup {NoToken} : Logout(t)
  \/ \E id \in {0} \cup ClientIds, email \in Emails : CreateStudent(id, email)
  \/ \E id \in 0..MaxId, email \in Emails : UpdateStudent(id, email)
  \/ \E id \in 0..MaxId : DeleteStudent(id)
  \/ Reject

Step == (\E p \in Procs : Arrive(p) \/ Handle(p) \/ Abandon(p)) \/ Single \/ Tick

\* History for NoSessionAfterDelete, which no handler reads: the ids that had no
\* account when the request in a slot arrived, and have not been given one since;
\* once the handler has its student, only whether that id is one of them.
Concerns(p) == {i \in Ids : req[p].stud \in {0, i}}
Remember ==
  absent' = [p \in Procs |->
    IF req'[p].pc = "idle" THEN {}
    ELSE {i \in IF req[p].pc = "idle" THEN Concerns(p)' ELSE absent[p] \cap Concerns(p)' :
            ~RowExists(i)'}]

Next == Step /\ Remember

Spec == Init /\ [][Next]_vars

\* A started handler is a goroutine whose statement ends in a result or an
\* error: it is never left without its next step.  Requests need not arrive.
FairSpec == Spec /\ \A p \in Procs : WF_vars(Handle(p) /\ Remember)

-----------------------------------------------------------------------------
(* Properties *)

TypeOK ==
  /\ students \subseteq Student
  /\ lastId \in 0..MaxId
  /\ tokens \subseteq RefreshToken
  /\ now \in 0..MaxTime
  /\ req \in [Procs -> Request]
  /\ reply \in Statuses
  /\ held \subseteq AuthResponse
  /\ used \subseteq Tokens
  /\ spent \subseteq Tokens \cup {NoToken}
  /\ absent \in [Procs -> SUBSET Ids]

\* However registrations, creations and updates interleave, no two accounts
\* share an id or an email (Register's own check of the email is not atomic
\* with its insert).
UniqueAccounts ==
  \A s1, s2 \in students : s1.id = s2.id \/ s1.email = s2.email => s1 = s2

\* A refresh token that was logged out with 204 or exchanged for a new pair with
\* 200 is never accepted again: no row has it, and no request that is still in
\* flight is about to store it.
SpentTokensStayDead ==
  /\ \A row \in tokens : row.token \notin spent
  /\ \A p \in Procs : req[p].pc = "store" => req[p].new \notin spent

\* cleanTokens and CreateRefreshToken are two statements, so one student may end
\* up with several refresh tokens; they are never more than the requests that
\* the service handles at the same time.
Sessions(id) == Cardinality({row \in tokens : row.student = id})
Storing(id) == Cardinality({p \in Procs : req[p].pc = "store" /\ req[p].stud = id})
SessionBound == \A id \in Ids : Sessions(id) + Storing(id) <= Cardinality(Procs)

\* A request gets tokens for a student only if the student had an account when
\* the request arrived, or was given one later: although the refresh tokens of a
\* deleted student stay in the table and its handlers run on, none of them leads
\* to a new session.  An id that a client has chosen anew has an account again.
NoSessionAfterDelete ==
  \A p \in Procs : req[p].pc \in {"clean", "store"} => req[p].stud \notin absent[p]

\* The life of a refresh token as its holder sees it: not yet stored, accepted by
\* GetRefreshToken, and over for good.
Accepted == {row.token : row \in {row \in tokens : row.expires > now}}
Unstored == (Tokens \ used) \cup {req[p].new : p \in {p \in Procs : req[p].pc = "store"}}
Phase(t) == IF t \in Accepted THEN "live" ELSE IF t \in Unstored THEN "unborn" ELSE "dead"
Lifecycle == INSTANCE TokenLifecycle
               WITH phase <- [t \in Tokens |-> Phase(t)], spent <- spent \cap Tokens

\* The handlers keep the promises of TokenLifecycle: no token comes back after
\* its logout, its expiry, or its replacement by a later session, whichever
\* requests were in flight at that time.
TokensLiveOnce == Lifecycle!Spec

\* Every started request comes to an end.
RequestsTerminate == \A p \in Procs : req[p] # Idle ~> req[p] = Idle

\* CreateStudent gives accounts without a password a default one: every account
\* has a password that Login accepts.
EveryAccountOpens == \A s \in students : s.hash \in Passwords

=============================================================================
