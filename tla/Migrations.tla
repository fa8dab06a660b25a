----------------------------- MODULE Migrations -----------------------------
(***************************************************************************)
(* RunMigrations of the project service, in replicas that start, crash and *)
(* are started again while others serve.  Each statement is a transaction, *)
(* the DROP and CREATE of the trigger too: the driver sends them as one    *)
(* simple query.                                                           *)
(*                                                                         *)
(* Postgres is modelled from how it is used: of two replicas that run the  *)
(* same statement at the same time the later one may be refused, which     *)
(* ends its process (log.Fatal); Kubernetes starts it again.               *)
(*                                                                         *)
(* A definition marked "mutant" is a plausible bug of the definition that  *)
(* follows it.  Nothing refers to it; PROJECT.json says which property     *)
(* catches it.                                                             *)
(***************************************************************************)
EXTENDS Integers, Sequences

CONSTANTS
  Replicas,
  MaxCrashes  \* bound: processes that end for another reason than a refused statement

ASSUME MigrationsAssumption == MaxCrashes \in Nat

VARIABLES
  step,     \* the statement each replica is at; 0 without a process
  flight,   \* is that statement running, and has another replica overtaken it?
  schema,   \* what exists in the database
  crashes   \* processes that have crashed

migrationVars == <<step, flight, schema, crashes>>

Statements == <<"projects", "messages", "function", "trigger">>
Schema == {Statements[i] : i \in DOMAIN Statements}
Serving == {r \in Replicas : step[r] > Len(Statements)}

MigrationsInit ==
  /\ step = [r \in Replicas |-> 0] /\ flight = [r \in Replicas |-> "no"]
  /\ schema = {} /\ crashes = 0

-----------------------------------------------------------------------------
\* NewWithDSN has connected.
Start(r) ==
  /\ step[r] = 0
  /\ step' = [step EXCEPT ![r] = 1]
  /\ UNCHANGED <<flight, schema, crashes>>

Ready(r) == step[r] \in DOMAIN Statements /\ flight[r] = "no"

BeginByDropping(r) ==                                                    \* mutant
  /\ Ready(r)
  /\ flight' = [flight EXCEPT ![r] = "alone"]
  /\ schema' = IF Statements[step[r]] = "trigger" THEN schema \ {"trigger"} ELSE schema
  /\ UNCHANGED <<step, crashes>>
Begin(r) ==
  /\ Ready(r)
  /\ flight' = [flight EXCEPT ![r] = "alone"]
  /\ UNCHANGED <<step, schema, crashes>>

CommitNew(r) ==                                                          \* mutant
  /\ flight[r] # "no" /\ Statements[step[r]] \notin schema
  /\ schema' = schema \cup {Statements[step[r]]}
  /\ step' = [step EXCEPT ![r] = @ + 1]
  /\ flight' = [q \in Replicas |-> IF q = r THEN "no"
                                   ELSE IF flight[q] # "no" /\ step[q] = step[r] THEN "overtaken"
                                   ELSE flight[q]]
  /\ UNCHANGED crashes
\* IF NOT EXISTS, OR REPLACE, DROP IF EXISTS and CREATE: what exists is no error.
Commit(r) ==
  /\ flight[r] # "no"
  /\ schema' = schema \cup {Statements[step[r]]}
  /\ step' = [step EXCEPT ![r] = @ + 1]
  /\ flight' = [q \in Replicas |-> IF q = r THEN "no"
                                   ELSE IF flight[q] # "no" /\ step[q] = step[r] THEN "overtaken"
                                   ELSE flight[q]]
  /\ UNCHANGED crashes

Ends(r) == step' = [step EXCEPT ![r] = 0] /\ flight' = [flight EXCEPT ![r] = "no"]

Refuse(r) ==
  /\ flight[r] = "overtaken"
  /\ Ends(r) /\ UNCHANGED <<schema, crashes>>

\* The process ends anywhere; a statement it was running is executed or not.
Crash(r) ==
  /\ step[r] > 0 /\ crashes < MaxCrashes
  /\ crashes' = crashes + 1
  /\ Ends(r)
  /\ \/ schema' = schema
     \/ flight[r] # "no" /\ schema' = schema \cup {Statements[step[r]]}

Migrate(r) == Start(r) \/ Begin(r) \/ Commit(r) \/ Refuse(r)

-----------------------------------------------------------------------------
\* A replica that serves finds everything it needs, while others run the same
\* migrations again.
ServingHasSchema == Serving # {} => schema = Schema

\* Replicas do not keep each other from starting: once nothing crashes any more
\* all of them come to serve, however often one was refused.
AllServe == <>[](Serving = Replicas)

=============================================================================
