--------------------------- MODULE ProjectsProofs ---------------------------
(***************************************************************************)
(* Theorems about Projects and the Migrations it runs on, for any number   *)
(* of handlers, replicas, names, ids and crashes and any database faults.  *)
(***************************************************************************)
EXTENDS Projects, TLAPS

\* The list of migrations, spelled out.
LEMMA StatementFacts ==
  /\ Len(Statements) = 4 /\ DOMAIN Statements = 1..4
  /\ Statements[1] = "projects" /\ Statements[2] = "messages"
  /\ Statements[3] = "function" /\ Statements[4] = "trigger"
  /\ Schema = {"projects", "messages", "function", "trigger"}
<1>1. /\ Len(Statements) = 4 /\ DOMAIN Statements = 1..4
      /\ Statements[1] = "projects" /\ Statements[2] = "messages"
      /\ Statements[3] = "function" /\ Statements[4] = "trigger"
  BY DEF Statements
<1>2. \A i \in 1..4 : i = 1 \/ i = 2 \/ i = 3 \/ i = 4
  OBVIOUS
<1> QED BY <1>1, <1>2 DEF Schema

-----------------------------------------------------------------------------
(* Migrations: the schema only grows, and a replica gets past a statement    *)
(* only after it has been executed.                                          *)

\* What a replica is past exists, and a statement runs only where there is one.
Migrated ==
  /\ step \in [Replicas -> 0..Len(Statements) + 1]
  /\ flight \in [Replicas -> {"no", "alone", "overtaken"}]
  /\ schema \subseteq Schema /\ crashes \in 0..MaxCrashes
  /\ \A r \in Replicas : flight[r] # "no" => step[r] \in DOMAIN Statements
  /\ \A r \in Replicas, i \in DOMAIN Statements : step[r] > i => Statements[i] \in schema

\* A replica that serves is past all statements, so all of them have been executed.
LEMMA MigratedServes ==
  ASSUME Migrated
  PROVE  /\ ServingHasSchema
         /\ Serving # {} => "trigger" \in schema
<1>1. ASSUME NEW r \in Serving
      PROVE  schema = Schema
  <2>1. \A i \in 1..4 : Statements[i] \in schema
    BY StatementFacts DEF Migrated, Serving
  <2>2. /\ Statements[1] \in schema /\ Statements[2] \in schema
        /\ Statements[3] \in schema /\ Statements[4] \in schema
    BY <2>1
  <2> QED BY <2>2, StatementFacts DEF Migrated
<1> QED BY <1>1, StatementFacts DEF ServingHasSchema

\* Migrate and Crash preserve it, and neither takes anything out of the schema.
LEMMA MigratedInductive ==
  ASSUME Migrated, MigrationsAssumption, NEW r \in Replicas,
         Migrate(r) \/ Crash(r) \/ UNCHANGED migrationVars
  PROVE  Migrated' /\ schema \subseteq schema'
<1> USE StatementFacts DEF Migrated, MigrationsAssumption
<1>1. ASSUME Start(r) PROVE Migrated' /\ schema \subseteq schema'
  BY <1>1 DEF Start
<1>2. ASSUME Begin(r) PROVE Migrated' /\ schema \subseteq schema'
  BY <1>2 DEF Begin, Ready
<1>3. ASSUME Commit(r) PROVE Migrated' /\ schema \subseteq schema'
  <2>1. /\ step[r] \in 1..4
        /\ schema' = schema \cup {Statements[step[r]]}
        /\ step' = [step EXCEPT ![r] = step[r] + 1]
        /\ crashes' = crashes
    BY <1>3 DEF Commit
  <2>2. flight' \in [Replicas -> {"no", "alone", "overtaken"}]
    BY <1>3 DEF Commit
  <2>3. \A q \in Replicas : flight'[q] # "no" => q # r /\ flight[q] # "no"
    BY <1>3 DEF Commit
  <2>4. schema' \subseteq Schema /\ schema \subseteq schema'
    BY <2>1 DEF Schema
  <2>5. step' \in [Replicas -> 0..5]
    BY <2>1
  <2>6. \A q \in Replicas : flight'[q] # "no" => step'[q] \in 1..4
    BY <2>1, <2>3
  <2>7. ASSUME NEW q \in Replicas, NEW i \in 1..4, step'[q] > i
        PROVE  Statements[i] \in schema'
    BY <2>1, <2>7
  <2> QED BY <2>1, <2>2, <2>4, <2>5, <2>6, <2>7
<1>4. ASSUME Ends(r), schema \subseteq schema', schema' \subseteq Schema,
             crashes' \in 0..MaxCrashes
      PROVE  Migrated'
  BY <1>4 DEF Ends
<1>5. ASSUME Refuse(r) PROVE Migrated' /\ schema \subseteq schema'
  BY <1>4, <1>5 DEF Refuse
<1>6. ASSUME Crash(r) PROVE Migrated' /\ schema \subseteq schema'
  <2>1. crashes' \in 0..MaxCrashes
    BY <1>6 DEF Crash
  <2>2. schema \subseteq schema' /\ schema' \subseteq Schema
    BY <1>6 DEF Crash, Schema
  <2> QED BY <1>4, <1>6, <2>1, <2>2 DEF Crash
<1>7. ASSUME UNCHANGED migrationVars PROVE Migrated' /\ schema \subseteq schema'
  BY <1>7 DEF migrationVars
<1> QED BY <1>1, <1>2, <1>3, <1>5, <1>6, <1>7 DEF Migrate

-----------------------------------------------------------------------------
(* The store *)

\* An id belongs to one row and came from the sequence, and a row bears the time stamp
\* of its last write.
Keyed ==
  /\ rows \subseteq Project /\ lastId \in 0..MaxId
  /\ \A r1, r2 \in rows : r1.id = r2.id => r1 = r2
  /\ \A row \in rows : row.id <= lastId /\ row.stampedBy = row.version

\* What a handler has written and not yet read back is still there, or has been
\* written again since, or is gone; in each case its id is taken.
Claims(p) ==
  call[p] # Idle =>
    /\ call[p].row.id <= lastId
    /\ \A row \in rows : row.id = call[p].row.id =>
         row = call[p].row \/ row.version > call[p].row.version

\* The inductive invariant of the rows and of the handlers that write them.
StoreConsistent ==
  /\ Keyed
  /\ call \in [Procs -> {Idle} \cup Written]
  /\ \A p \in Procs : Claims(p)
  /\ reply \in Answered \cup [status : Statuses]
  /\ AnswersOwnOrLater

\* An answer without a row says nothing about one.
LEMMA PlainAnswer ==
  ASSUME NEW status \in Statuses, reply' = [status |-> status]
  PROVE  reply' \in Answered \cup [status : Statuses] /\ AnswersOwnOrLater'
BY DEF Statuses, AnswersOwnOrLater

\* A row with its time stamp is put in place of the one with its id, if there is one, as
\* a newer version; whoever else has written it before keeps a true claim.
Supersedes(row, old) ==
  /\ row.stampedBy = row.version
  /\ \/ old = {} /\ row.id > lastId
     \/ \E r \in rows : old = {r} /\ row.id = r.id /\ row.version > r.version

\* Writing a row that supersedes what has its id keeps ids unique and all claims true.
LEMMA RowWritten ==
  ASSUME StoreConsistent, NEW row \in Project, NEW old,
         Supersedes(row, old),
         rows' = (rows \ old) \cup {row},
         lastId' \in 0..MaxId, lastId <= lastId', row.id <= lastId'
  PROVE  /\ Keyed'
         /\ \A p \in Procs : call'[p] = call[p] => Claims(p)'
         /\ \A p \in Procs : call'[p] = [status |-> "written", row |-> row] => Claims(p)'
<1> USE DEF StoreConsistent, Keyed, Project
<1>1. Keyed'
  BY DEF Supersedes
<1>2. ASSUME NEW p \in Procs, call'[p] = call[p]
      PROVE  Claims(p)'
  <2> SUFFICES ASSUME call[p] # Idle
               PROVE  /\ call[p].row.id <= lastId'
                      /\ \A r \in rows' : r.id = call[p].row.id =>
                           r = call[p].row \/ r.version > call[p].row.version
    BY <1>2 DEF Claims
  <2>1. /\ call[p].row.id \in Int /\ call[p].row.version \in Int
        /\ call[p].row.id <= lastId
    BY DEF Written, Claims
  <2>2. row.id = call[p].row.id => row.version > call[p].row.version
    BY <2>1 DEF Supersedes, Claims
  <2> QED BY <2>1, <2>2 DEF Claims
<1>3. ASSUME NEW p \in Procs, call'[p] = [status |-> "written", row |-> row]
      PROVE  Claims(p)'
  BY <1>1, <1>3 DEF Claims
<1> QED BY <1>1, <1>2, <1>3

\* Nothing is written; rows may go and ids may be used up.
LEMMA NoRowWritten ==
  ASSUME StoreConsistent, rows' \subseteq rows, lastId' \in 0..MaxId, lastId <= lastId'
  PROVE  /\ Keyed'
         /\ \A p \in Procs : call'[p] \in {call[p], Idle} => Claims(p)'
<1> USE DEF StoreConsistent, Keyed, Project
<1>1. Keyed'
  OBVIOUS
<1>2. ASSUME NEW p \in Procs, call'[p] \in {call[p], Idle}
      PROVE  Claims(p)'
  <2>1. CASE call'[p] = Idle
    BY <2>1 DEF Claims
  <2>2. CASE call'[p] = call[p] /\ call[p] # Idle
    <3>1. call[p].row.id \in Int /\ call[p].row.id <= lastId
      BY <2>2 DEF Claims, Written
    <3> QED BY <2>2, <3>1 DEF Claims
  <2> QED BY <1>2, <2>1, <2>2
<1> QED BY <1>1, <1>2

-----------------------------------------------------------------------------

\* Create writes a row with a new id.
LEMMA CreateConsistent ==
  ASSUME StoreConsistent, NEW p \in Procs, NEW name \in Names, Create(p, name),
         ProjectsAssumption
  PROVE  StoreConsistent'
<1> DEFINE row == [id |-> NextId, name |-> name, version |-> 1, stampedBy |-> 1]
<1>1. /\ lastId \in 0..MaxId /\ lastId < MaxId
      /\ lastId' \in 0..MaxId /\ lastId <= lastId' /\ lastId' = lastId + 1
  BY DEF Create, StoreConsistent, Keyed, ProjectsAssumption
<1>2. row \in Project /\ row.id = lastId + 1
  BY <1>1 DEF Project, NextId, ProjectsAssumption
<1>3. CASE rows' = rows \cup {row} /\ ReadBackLater(p, row)
  <2>1. Supersedes(row, {})
    BY <1>1, <1>2 DEF Supersedes
  <2>2. /\ call' \in [Procs -> {Idle} \cup Written]
        /\ \A q \in Procs : call'[q] = call[q] \/ call'[q] = [status |-> "written", row |-> row]
        /\ reply' = [status |-> "none"]
    BY <1>2, <1>3 DEF ReadBackLater, StoreConsistent, Written
  <2> HIDE DEF row
  <2> QED BY <1>1, <1>2, <1>3, <2>1, <2>2, RowWritten, PlainAnswer DEF StoreConsistent, Statuses
<1>4. CASE rows' = rows \cup {row} /\ Answer("error")
  <2>1. Supersedes(row, {})
    BY <1>1, <1>2 DEF Supersedes
  <2>2. call' = call /\ reply' = [status |-> "error"]
    BY <1>4 DEF Answer
  <2> HIDE DEF row
  <2> QED BY <1>1, <1>2, <1>4, <2>1, <2>2, RowWritten, PlainAnswer DEF StoreConsistent, Statuses
<1>5. CASE rows' = rows /\ Answer("error")
  BY <1>1, <1>5, NoRowWritten, PlainAnswer DEF StoreConsistent, Statuses, Answer
<1> QED BY <1>3, <1>4, <1>5 DEF Create, DBWrite

\* An update goes through a replica that serves, so the trigger is there and the row
\* it leaves bears the stamp of this update.
LEMMA UpdateConsistent ==
  ASSUME StoreConsistent, Migrated, NEW p \in Procs, NEW id \in 0..MaxId, NEW name \in Names,
         Update(p, id, name), ProjectsAssumption
  PROVE  StoreConsistent'
<1>1. lastId' = lastId /\ lastId \in 0..MaxId /\ lastId <= lastId'
  BY DEF Update, StoreConsistent, Keyed, ProjectsAssumption
<1>2. "trigger" \in schema
  BY MigratedServes DEF Update, Free
<1>3. ASSUME NEW status \in Statuses, rows' = rows, Answer(status)
      PROVE  StoreConsistent'
  BY <1>1, <1>3, NoRowWritten, PlainAnswer DEF StoreConsistent, Answer
<1>4. ASSUME NEW old \in Selected(id), old.version < MaxVersion,
             DBWrite(rows' = (rows \ {old}) \cup {Updated(old, name)}, rows' = rows,
                     ReadBackLater(p, Updated(old, name)), Answer("error"))
      PROVE  StoreConsistent'
  <2> DEFINE row == Updated(old, name)
  <2>1. old \in rows /\ old \in Project
    BY DEF Selected, StoreConsistent, Keyed
  <2>2. /\ row \in Project /\ row.id = old.id
        /\ row.version = old.version + 1 /\ row.stampedBy = row.version
    <3>1. row = [id |-> old.id, name |-> name, version |-> old.version + 1,
                 stampedBy |-> old.version + 1]
      BY <1>2 DEF Updated
    <3>2. /\ old.id \in 1..MaxId /\ old.version \in 1..MaxVersion /\ old.version < MaxVersion
          /\ MaxVersion \in Nat
      BY <1>4, <2>1 DEF Project, ProjectsAssumption
    <3>3. old.version + 1 \in 1..MaxVersion
      BY <3>2
    <3> HIDE DEF row
    <3> QED BY <3>1, <3>2, <3>3 DEF Project
  <2>3. Supersedes(row, {old}) /\ row.id <= lastId'
    BY <1>1, <2>1, <2>2 DEF Supersedes, Project, StoreConsistent, Keyed
  <2>4. CASE rows' = (rows \ {old}) \cup {row} /\ ReadBackLater(p, row)
    <3>1. /\ call' \in [Procs -> {Idle} \cup Written]
          /\ \A q \in Procs : call'[q] = call[q] \/ call'[q] = [status |-> "written", row |-> row]
          /\ reply' = [status |-> "none"]
      BY <2>2, <2>4 DEF ReadBackLater, StoreConsistent, Written
    <3> HIDE DEF row
    <3> QED BY <1>1, <2>2, <2>3, <2>4, <3>1, RowWritten, PlainAnswer DEF StoreConsistent, Statuses
  <2>5. CASE rows' = (rows \ {old}) \cup {row} /\ Answer("error")
    <3>1. call' = call /\ reply' = [status |-> "error"]
      BY <2>5 DEF Answer
    <3> HIDE DEF row
    <3> QED BY <1>1, <2>2, <2>3, <2>5, <3>1, RowWritten, PlainAnswer DEF StoreConsistent, Statuses
  <2>6. CASE rows' = rows /\ Answer("error")
    BY <1>3, <2>6 DEF Statuses
  <2> QED BY <1>4, <2>4, <2>5, <2>6 DEF DBWrite
<1> QED BY <1>3, <1>4 DEF Update, Statuses

\* Delete takes rows away, which no claim minds.
LEMMA DeleteConsistent ==
  ASSUME StoreConsistent, NEW id \in 0..MaxId, Delete(id)
  PROVE  StoreConsistent'
<1>1. lastId' = lastId /\ lastId \in 0..MaxId /\ lastId <= lastId' /\ rows' \subseteq rows
  BY DEF Delete, DBWrite, StoreConsistent, Keyed
<1>2. PICK status \in Statuses : Answer(status)
  BY DEF Delete, DBWrite, Statuses
<1> QED BY <1>1, <1>2, NoRowWritten, PlainAnswer DEF StoreConsistent, Answer

\* What ReadBack shows was written by the handler itself or is newer: the claim of
\* the handler becomes the property of its answer.
LEMMA ReadBackConsistent ==
  ASSUME StoreConsistent, NEW p \in Procs, ReadBack(p)
  PROVE  StoreConsistent'
<1>1. /\ rows' = rows /\ lastId' = lastId /\ lastId \in 0..MaxId /\ lastId <= lastId'
      /\ call' \in [Procs -> {Idle} \cup Written]
      /\ \A q \in Procs : call'[q] \in {call[q], Idle}
  BY DEF ReadBack, StoreConsistent, Keyed
<1>2. reply' \in Answered \cup [status : Statuses] /\ AnswersOwnOrLater'
  <2>1. CASE reply' = [status |-> "error"]
    BY <2>1, PlainAnswer DEF Statuses
  <2>2. ASSUME NEW shown \in Selected(call[p].row.id),
               reply' = [status |-> "ok", row |-> call[p].row, shown |-> shown]
        PROVE  reply' \in Answered /\ AnswersOwnOrLater'
    <3>1. /\ call[p].row \in Project /\ shown \in Project
          /\ shown.id = call[p].row.id
          /\ shown = call[p].row \/ shown.version > call[p].row.version
          /\ shown.stampedBy = shown.version
      BY DEF ReadBack, StoreConsistent, Keyed, Claims, Written, Selected
    <3> QED BY <2>2, <3>1 DEF Answered, AnswersOwnOrLater
  <2> QED BY <2>1, <2>2 DEF ReadBack
<1> QED BY <1>1, <1>2, NoRowWritten DEF StoreConsistent

\* A crash ends the handlers of a replica and with them their claims.
LEMMA CrashConsistent ==
  ASSUME StoreConsistent, NEW r \in Replicas, CrashWithHandlers(r)
  PROVE  StoreConsistent'
<1>1. /\ rows' = rows /\ lastId' = lastId /\ lastId \in 0..MaxId /\ lastId <= lastId'
      /\ call' \in [Procs -> {Idle} \cup Written]
      /\ \A q \in Procs : call'[q] \in {call[q], Idle}
      /\ reply' = [status |-> "none"]
  BY DEF CrashWithHandlers, StoreConsistent, Keyed
<1> QED BY <1>1, NoRowWritten, PlainAnswer DEF StoreConsistent, Statuses

\* The inductive invariant of the two modules.
Consistent == Migrated /\ StoreConsistent

\* It holds before the first replica starts.
LEMMA ConsistentInitially ==
  ASSUME Init, MigrationsAssumption, ProjectsAssumption
  PROVE  Consistent
BY StatementFacts
   DEF Init, MigrationsInit, Consistent, Migrated, StoreConsistent, Keyed, Claims,
       Statuses, AnswersOwnOrLater, MigrationsAssumption, ProjectsAssumption

\* Every step keeps it.
LEMMA ConsistentInductive ==
  ASSUME Consistent, MigrationsAssumption, ProjectsAssumption, [Next]_vars
  PROVE  Consistent'
<1> USE DEF Consistent
<1>1. CASE Handle /\ UNCHANGED migrationVars
  <2>1. Migrated'
    BY <1>1 DEF Migrated, migrationVars
  <2>2. StoreConsistent'
    BY <1>1, CreateConsistent, UpdateConsistent, ReadBackConsistent, DeleteConsistent DEF Handle
  <2> QED BY <2>1, <2>2
<1>2. ASSUME NEW r \in Replicas, Migrate(r), UNCHANGED storeVars
      PROVE  Consistent'
  BY <1>2, MigratedInductive
     DEF storeVars, StoreConsistent, Keyed, Claims, AnswersOwnOrLater
<1>3. ASSUME NEW r \in Replicas, CrashWithHandlers(r)
      PROVE  Consistent'
  BY <1>3, MigratedInductive, CrashConsistent DEF CrashWithHandlers
<1>4. CASE UNCHANGED vars
  BY <1>4 DEF vars, storeVars, migrationVars, Migrated, StoreConsistent, Keyed, Claims, AnswersOwnOrLater
<1> QED BY <1>1, <1>2, <1>3, <1>4 DEF Next

-----------------------------------------------------------------------------
(* Results *)

\* It holds in every reachable state.
LEMMA AlwaysConsistent ==
  ASSUME MigrationsAssumption, ProjectsAssumption
  PROVE  Spec => []Consistent
<1>1. Init => Consistent
  BY ConsistentInitially
<1>2. Consistent /\ [Next]_vars => Consistent'
  BY ConsistentInductive
<1> QED BY <1>1, <1>2, PTL DEF Spec

\* The variables keep their types and ids stay keys.
THEOREM TypeCorrect == Spec => []TypeOK
<1>1. Consistent => TypeOK
  BY DEF Consistent, Migrated, StoreConsistent, Keyed, TypeOK
<1> QED BY <1>1, AlwaysConsistent, MigrationsAssumption, ProjectsAssumption, PTL

\* A replica that serves never lacks a part of the schema, whatever the others that
\* run the migrations again do, and wherever one of them is cut off.
THEOREM SchemaServed == Spec => []ServingHasSchema
<1>1. Consistent => ServingHasSchema
  BY MigratedServes DEF Consistent
<1> QED BY <1>1, AlwaysConsistent, MigrationsAssumption, ProjectsAssumption, PTL

\* Create and Update answer their own write or one that came after it, although they
\* read it back in a second statement, and never with the time stamp of another write:
\* whatever replica updates a row finds the trigger there.
THEOREM AnswersTrue == Spec => []AnswersOwnOrLater
<1>1. Consistent => AnswersOwnOrLater
  BY DEF Consistent, StoreConsistent
<1> QED BY <1>1, AlwaysConsistent, MigrationsAssumption, ProjectsAssumption, PTL

\* No step gives a row to an id that had been handed out and has none: what was
\* deleted stays deleted.
THEOREM Deleted == Spec => NoResurrection
<1>1. ASSUME Consistent, Next
      PROVE  \A row \in rows' : row.id = lastId + 1 \/ \E old \in rows : old.id = row.id
  <2>1. ASSUME NEW p \in Procs, NEW name \in Names, Create(p, name)
        PROVE  \A row \in rows' : row.id = lastId + 1 \/ \E old \in rows : old.id = row.id
    BY <2>1 DEF Create, DBWrite, NextId
  <2>2. ASSUME NEW p \in Procs, NEW id \in 0..MaxId, NEW name \in Names, Update(p, id, name)
        PROVE  \A row \in rows' : \E old \in rows : old.id = row.id
    <3>1. ASSUME NEW old \in Selected(id)
          PROVE  old \in rows /\ Updated(old, name).id = old.id
      BY <1>1 DEF Selected, Updated, Consistent, StoreConsistent, Keyed, Project
    <3> QED BY <2>2, <3>1 DEF Update, DBWrite
  <2>3. ASSUME NEW p \in Procs, ReadBack(p)
        PROVE  rows' = rows
    BY <2>3 DEF ReadBack
  <2>4. ASSUME NEW id \in 0..MaxId, Delete(id)
        PROVE  rows' \subseteq rows
    BY <2>4 DEF Delete, DBWrite
  <2>5. ASSUME NEW r \in Replicas, (Migrate(r) /\ UNCHANGED storeVars) \/ CrashWithHandlers(r)
        PROVE  rows' = rows
    BY <2>5 DEF storeVars, CrashWithHandlers
  <2> QED BY <1>1, <2>1, <2>2, <2>3, <2>4, <2>5 DEF Next, Handle
<1>2. Consistent /\ [Next]_vars => [\A id \in 1..lastId : ~Present(id) => ~Present(id)']_vars
  <2> SUFFICES ASSUME Consistent, Next, NEW id \in 1..lastId, ~Present(id)
               PROVE  ~Present(id)'
    OBVIOUS
  <2>1. id # lastId + 1
    BY DEF Consistent, StoreConsistent, Keyed
  <2> QED BY <1>1, <2>1 DEF Present
<1> QED BY <1>2, AlwaysConsistent, MigrationsAssumption, ProjectsAssumption, PTL DEF Spec, NoResurrection

=============================================================================
