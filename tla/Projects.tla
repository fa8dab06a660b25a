------------------------------ MODULE Projects ------------------------------
(***************************************************************************)
(* The project store: the gRPC handlers of the project service over table  *)
(* projects.  Create and Update write in one statement and read the row    *)
(* they answer in a second one; between the two, handlers of this and of   *)
(* other replicas run.  The two reading handlers change nothing and are    *)
(* left out.  Replicas migrate the database before they serve, while       *)
(* others serve, and crash; see Migrations.                                *)
(*                                                                         *)
(* A version of a row counts its writes.  updated_at is the start of the   *)
(* transaction that sets it, which says nothing about the order of two     *)
(* concurrent updates; stampedBy names the write that it comes from.       *)
(*                                                                         *)
(* A definition marked "mutant" is a plausible bug of the definition that  *)
(* follows it.  Nothing refers to it; PROJECT.json says which property     *)
(* catches it.                                                             *)
(***************************************************************************)
EXTENDS Integers, Migrations

CONSTANTS
  Procs,       \* handlers between their two statements
  Home,        \* the replica that each of them runs in
  Names,
  MaxId,       \* bound: last value of the sequence of projects.id
  MaxVersion,  \* bound: writes of one row
  Faults       \* how a database call may go wrong, see DBWrite

ASSUME ProjectsAssumption ==
  /\ Home \in [Procs -> Replicas]
  /\ MaxId \in Nat /\ MaxVersion \in Nat \ {0}
  /\ Faults \subseteq {"failed", "lost"}

VARIABLES
  rows,    \* table projects
  lastId,  \* last value taken from its sequence
  call,    \* the handler in each slot: what it has written and will read back
  reply    \* the response sent by the last step of a handler, if it sent one

storeVars == <<rows, lastId, call, reply>>
vars == <<storeVars, migrationVars>>

Project == [id : 1..MaxId, name : Names, version : 1..MaxVersion, stampedBy : 1..MaxVersion]
Idle == [status |-> "idle"]
\* A handler that has written a row, and the response it makes of the row it reads.
Written == [status : {"written"}, row : Project]
Answered == [status : {"ok"}, row : Project, shown : Project]
Statuses == {"none", "deleted", "invalid", "error"}

Init ==
  /\ MigrationsInit
  /\ rows = {} /\ lastId = 0
  /\ call = [p \in Procs |-> Idle] /\ reply = [status |-> "none"]

-----------------------------------------------------------------------------
Free(p) == Home[p] \in Serving /\ call[p] = Idle

Answer(status) == reply' = [status |-> status] /\ call' = call
ReadBackLater(p, row) ==
  /\ call' = [call EXCEPT ![p] = [status |-> "written", row |-> row]]
  /\ reply' = [status |-> "none"]

\* A writing statement may fail without being executed, or be executed although
\* its caller gets an error: the five seconds of the client end both.
DBWrite(executed, skipped, succeeded, failed) ==
  \/ executed /\ succeeded
  \/ "failed" \in Faults /\ skipped /\ failed
  \/ "lost" \in Faults /\ executed /\ failed
ReadFails == Faults # {}

SelectedAnyone(id) == rows                                               \* mutant
Selected(id) == {row \in rows : row.id = id}
Present(id) == \E row \in rows : row.id = id

-----------------------------------------------------------------------------
(* CreateProject: the id always comes from the sequence. *)

CurrentId == lastId                                                      \* mutant
FreedId == CHOOSE id \in 1..lastId + 1 : \A row \in rows : row.id # id   \* mutant
NextId == lastId + 1

Create(p, name) ==
  LET row == [id |-> NextId, name |-> name, version |-> 1, stampedBy |-> 1] IN
  /\ Free(p) /\ lastId < MaxId
  /\ lastId' = lastId + 1
  /\ DBWrite(rows' = rows \cup {row}, rows' = rows, ReadBackLater(p, row), Answer("error"))

(* UpdateProject: an id without a row is an error and changes nothing.  It writes the
   name only; the trigger, if there is one, sets updated_at. *)

Updated(row, name) ==
  [id |-> row.id, name |-> name, version |-> row.version + 1,
   stampedBy |-> IF "trigger" \in schema THEN row.version + 1 ELSE row.stampedBy]

Update(p, id, name) ==
  /\ Free(p) /\ lastId' = lastId
  /\ \/ id = 0 /\ Answer("invalid") /\ rows' = rows
     \/ id > 0 /\ (ReadFails \/ Selected(id) = {}) /\ Answer("error") /\ rows' = rows
     \/ \E row \in Selected(id) :
          /\ row.version < MaxVersion
          /\ DBWrite(rows' = (rows \ {row}) \cup {Updated(row, name)}, rows' = rows,
                     ReadBackLater(p, Updated(row, name)), Answer("error"))

(* The second statement of both. *)

ReadBack(p) ==
  /\ call[p] # Idle
  /\ call' = [call EXCEPT ![p] = Idle]
  /\ \/ \E shown \in Selected(call[p].row.id) :
          reply' = [status |-> "ok", row |-> call[p].row, shown |-> shown]
     \/ (ReadFails \/ Selected(call[p].row.id) = {}) /\ reply' = [status |-> "error"]
  /\ UNCHANGED <<rows, lastId>>

(* DeleteProject: it does not tell whether there was a row. *)

Delete(id) ==
  /\ Serving # {} /\ lastId' = lastId
  /\ \/ id = 0 /\ Answer("invalid") /\ rows' = rows
     \/ id > 0 /\ DBWrite(rows' = rows \ Selected(id), rows' = rows,
                          Answer("deleted"), Answer("error"))

Handle ==
  \/ \E p \in Procs, name \in Names :
       Create(p, name) \/ \E id \in 0..MaxId : Update(p, id, name)
  \/ \E p \in Procs : ReadBack(p)
  \/ \E id \in 0..MaxId : Delete(id)

\* With the process of a replica its handlers are gone.
CrashWithHandlers(r) ==
  /\ Crash(r)
  /\ call' = [p \in Procs |-> IF Home[p] = r THEN Idle ELSE call[p]]
  /\ reply' = [status |-> "none"]
  /\ UNCHANGED <<rows, lastId>>

Next ==
  \/ Handle /\ UNCHANGED migrationVars
  \/ \E r \in Replicas : Migrate(r) /\ UNCHANGED storeVars
  \/ \E r \in Replicas : CrashWithHandlers(r)

\* Kubernetes starts a process that has ended, and statements of migrations end.
Spec ==
  /\ Init /\ [][Next]_vars
  /\ \A r \in Replicas : WF_vars(Migrate(r) /\ UNCHANGED storeVars)

-----------------------------------------------------------------------------
\* Every variable has its type, and the id is a key of the table.
TypeOK ==
  /\ rows \subseteq Project /\ lastId \in 0..MaxId
  /\ \A r1, r2 \in rows : r1.id = r2.id => r1 = r2
  /\ call \in [Procs -> {Idle} \cup Written]
  /\ reply \in Answered \cup [status : Statuses]
  /\ step \in [Replicas -> 0..Len(Statements) + 1]
  /\ flight \in [Replicas -> {"no", "alone", "overtaken"}]
  /\ schema \subseteq Schema /\ crashes \in 0..MaxCrashes

\* An id that has been handed out and has no row never has one again, whatever
\* handlers were still between their two statements when the row went: a project
\* that a client has deleted does not come back, as itself or as another one.
NoResurrection ==
  [][\A id \in 1..lastId : ~Present(id) => ~Present(id)']_vars

\* What Create and Update answer is the project they wrote, as they left it or as a
\* later write of somebody else left it, and its updated_at is the time of that write:
\* no update goes without a time stamp, even while another replica runs its migrations.
\* The stamp of a later write may all the same be an earlier time.
AnswersOwnOrLater ==
  reply.status = "ok" =>
    /\ reply.shown.id = reply.row.id
    /\ \/ reply.shown = reply.row
       \/ reply.shown.version > reply.row.version
    /\ reply.shown.stampedBy = reply.shown.version

=============================================================================
