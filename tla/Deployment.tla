----------------------------- MODULE Deployment ------------------------------
(***************************************************************************)
(* The processes around the schema of the database: the administrative     *)
(* commands (src/obsforge/cli.py) and the migrations (alembic/) that make  *)
(* it, the API process that checks it when it starts (lifespan,            *)
(* src/obsforge/main.py), and the worker process, which does not           *)
(* (startup and shutdown, src/obsforge/worker/main.py).  Any of them dies  *)
(* between any two of its steps.                                           *)
(***************************************************************************)
EXTENDS Naturals, Sequences

CONSTANTS Operators,  \* the commands that may run at the same time
          Jobs        \* the requests for an enrichment, and their arq jobs

\* What each migration adds: two tables, then a column of the first.
InitialSchema == "enrichment_job"
AddObsCore == "ObsCore"
AddArqJobId == "arq_job_id"

\* In the order of their revisions.
Migrations == <<InitialSchema, AddObsCore, AddArqJobId>>
Newest == Len(Migrations)
Upto(n) == {Migrations[i] : i \in 1..n}
Complete == Upto(Newest)

VARIABLES version,   \* the revision in alembic_version, 0 if there is none
          parts,     \* the tables, and the column added later, that exist
          misused,   \* history: a plain init met the table of an earlier release
          command,   \* what the command of each operator is about to do
          api,       \* the API process: where it is, and what it has open
          requests,  \* the requests the API is handling
          recording, \* those that have enqueued and are to record the arq job id
          queue,     \* the arq jobs in Redis that no run is working on
          accepted,  \* history: the arq jobs enqueued by this release
          worker,    \* the worker process: where it is, and what it has open
          runs       \* the arq jobs the worker is running

vars == <<version, parts, misused, command, api, requests, recording, queue, accepted,
          worker, runs>>

Steps == {"none", "create", "reset", "stamp", "migrate"}

Process(pcs, resources) == [pc : pcs, open : SUBSET resources]
Down == [pc |-> "down", open |-> {}]

Api == Process({"down", "checking", "sessions", "arq", "serving", "draining",
                "close_sessions"}, {"sessions", "arq"})
Worker == Process({"down", "context", "sessions", "polling", "draining",
                   "close_sessions"}, {"context", "sessions"})

\* An earlier release may have left its schema, and jobs in Redis.
DeploymentInit ==
  /\ version \in 0..Newest
  /\ parts = Upto(version)
  /\ misused = FALSE
  /\ command = [o \in Operators |-> "none"]
  /\ api = Down
  /\ requests = {}
  /\ recording = {}
  /\ queue \in SUBSET Jobs /\ (version = 0 => queue = {})
  /\ accepted = {}
  /\ worker = Down
  /\ runs = {}

DeploymentTypeOK ==
  /\ version \in 0..Newest
  /\ parts \in SUBSET Complete
  /\ misused \in BOOLEAN
  /\ command \in [Operators -> Steps]
  /\ api \in Api
  /\ requests \in SUBSET Jobs
  /\ recording \in SUBSET requests
  /\ queue \in SUBSET Jobs
  /\ accepted \in SUBSET Jobs
  /\ worker \in Worker
  /\ runs \in SUBSET Jobs
-----------------------------------------------------------------------------
\* is_database_current: the revision is compared, the tables are not looked at.
IsCurrent == version = Newest

\* create_all makes the tables that are missing, each with all of its columns,
\* and does not alter those that exist.
Created ==
  parts \cup {AddObsCore}
        \cup (IF InitialSchema \in parts THEN {} ELSE {InitialSchema, AddArqJobId})

\* The table is one that create_all leaves without the column.
LacksColumn == InitialSchema \in parts /\ AddArqJobId \notin parts

Pending == {Migrations[i] : i \in (version + 1)..Newest}

\* A migration fails when what it adds is there already, or the table it alters
\* is not.
MigrationFails ==
  \/ Pending \cap parts # {}
  \/ AddArqJobId \in Pending /\ InitialSchema \notin parts \cup Pending

\* What no command changes.
Remains == <<api, requests, recording, queue, accepted, worker, runs>>

StepOf(o, step, next) == command[o] = step /\ command' = [command EXCEPT ![o] = next]

Issue(o) ==
  /\ \/ StepOf(o, "none", "create")   \* init
     \/ StepOf(o, "none", "reset")    \* init --reset
     \/ StepOf(o, "none", "migrate")  \* update-schema
  /\ UNCHANGED <<version, parts, misused, Remains>>

\* Mutant: a failure of initialize_database goes unnoticed.
CreateUnchecked(o) ==
  /\ StepOf(o, "create", "stamp")
  /\ parts' \in {parts, Created}
  /\ misused' = (misused \/ LacksColumn)
  /\ UNCHANGED <<version, Remains>>

\* init: initialize_database in one transaction ...
Create(o) ==
  /\ StepOf(o, "create", "stamp")
  /\ parts' = Created
  /\ misused' = (misused \/ LacksColumn)
  /\ UNCHANGED <<version, Remains>>

\* ... which with --reset drops the tables first; alembic_version is not one of them.
Reset(o) ==
  /\ StepOf(o, "reset", "stamp")
  /\ parts' = Complete
  /\ misused' = FALSE
  /\ UNCHANGED <<version, Remains>>

\* ... then stamp_database, in a process of its own.
Stamp(o) ==
  /\ StepOf(o, "stamp", "none")
  /\ version' = Newest
  /\ UNCHANGED <<parts, misused, Remains>>

\* Mutant: each migration commits by itself, before the revision is recorded.
MigratePiecemeal(o) ==
  /\ StepOf(o, "migrate", "none")
  /\ IF MigrationFails
       THEN UNCHANGED <<version, parts, misused>>
       ELSE \E i \in version..Newest :
              /\ parts' = parts \cup Upto(i)
              /\ version' = IF i = Newest THEN Newest ELSE version
              /\ misused' = (misused /\ AddArqJobId \notin Pending)
  /\ UNCHANGED Remains

\* update_schema: the pending migrations in one transaction.
Migrate(o) ==
  /\ StepOf(o, "migrate", "none")
  /\ IF MigrationFails
       THEN UNCHANGED <<version, parts, misused>>
       ELSE /\ version' = Newest
            /\ parts' = parts \cup Pending
            /\ misused' = (misused /\ AddArqJobId \notin Pending)
  /\ UNCHANGED Remains

CommandDies(o) ==
  /\ command[o] # "none"
  /\ command' = [command EXCEPT ![o] = "none"]
  /\ UNCHANGED <<version, parts, misused, Remains>>

CommandStep(o) ==
  Issue(o) \/ Create(o) \/ Reset(o) \/ Stamp(o) \/ Migrate(o) \/ CommandDies(o)
-----------------------------------------------------------------------------
Database == <<version, parts, misused, command>>

Moves(process, from, to, open) ==
  /\ process.pc = from
  /\ process' = [pc |-> to, open |-> open]

\* Everything but the processes themselves; requests, runs and queue as well.
Rest == <<Database, requests, recording, queue, accepted, runs>>

ApiStart == Moves(api, "down", "checking", {}) /\ UNCHANGED <<Rest, worker>>

\* Mutant: a schema that is not current is only logged.
ApiCheckIgnored ==
  Moves(api, "checking", "sessions", {}) /\ UNCHANGED <<Rest, worker>>

\* Mutant: any revision will do.
ApiCheckStamped ==
  /\ IF version # 0 THEN Moves(api, "checking", "sessions", {})
                    ELSE Moves(api, "checking", "down", {})
  /\ UNCHANGED <<Rest, worker>>

ApiCheck ==
  /\ IF IsCurrent THEN Moves(api, "checking", "sessions", {})
                  ELSE Moves(api, "checking", "down", {})
  /\ UNCHANGED <<Rest, worker>>

ApiOpen ==
  /\ \/ Moves(api, "sessions", "arq", {"sessions"})
     \/ Moves(api, "arq", "serving", {"sessions", "arq"})
  /\ UNCHANGED <<Rest, worker>>

Admit(j) ==
  /\ api.pc = "serving"
  /\ j \notin requests \cup queue \cup runs
  /\ requests' = requests \cup {j}
  /\ UNCHANGED <<Database, api, recording, queue, accepted, worker, runs>>

\* The request has stored its row and puts its job into the queue ...
Enqueue(j) ==
  /\ j \in requests \ recording
  /\ recording' = recording \cup {j}
  /\ queue' = queue \cup {j}
  /\ accepted' = accepted \cup {j}
  /\ UNCHANGED <<Database, api, requests, worker, runs>>

\* ... and ends when it has recorded the id of the job, had nothing to enqueue, or
\* failed.
RequestEnds(j) ==
  /\ j \in requests
  /\ requests' = requests \ {j}
  /\ recording' = recording \ {j}
  /\ UNCHANGED <<Database, api, queue, accepted, worker, runs>>

\* Uvicorn stops accepting, waits for the requests in flight, and then resumes
\* the lifespan after its yield.
ApiStop == Moves(api, "serving", "draining", api.open) /\ UNCHANGED <<Rest, worker>>

ApiClose ==
  /\ \/ requests = {} /\ Moves(api, "draining", "close_sessions", {"sessions"})
     \/ Moves(api, "close_sessions", "down", {})
  /\ UNCHANGED <<Rest, worker>>

\* The process dies, or an await of the lifespan raises.
ApiDies ==
  /\ api.pc # "down"
  /\ api' = Down
  /\ requests' = {}
  /\ recording' = {}
  /\ UNCHANGED <<Database, queue, accepted, worker, runs>>

ApiStep ==
  \/ ApiStart \/ ApiCheck \/ ApiOpen \/ ApiStop \/ ApiClose \/ ApiDies
  \/ \E j \in Jobs : Admit(j) \/ Enqueue(j) \/ RequestEnds(j)
-----------------------------------------------------------------------------
WorkerStart == Moves(worker, "down", "context", {}) /\ UNCHANGED <<Rest, api>>

\* startup: the enrichment resources, then the sessions.
WorkerOpen ==
  /\ \/ Moves(worker, "context", "sessions", {"context"})
     \/ Moves(worker, "sessions", "polling", {"context", "sessions"})
  /\ UNCHANGED <<Rest, api>>

\* startup raises, for instance because a required setting is missing: arq
\* calls shutdown all the same.
WorkerFails ==
  /\ \/ Moves(worker, "context", "draining", worker.open)
     \/ Moves(worker, "sessions", "draining", worker.open)
  /\ UNCHANGED <<Rest, api>>

Take(j) ==
  /\ worker.pc = "polling"
  /\ j \in queue
  /\ queue' = queue \ {j}
  /\ runs' = runs \cup {j}
  /\ UNCHANGED <<Database, api, requests, recording, accepted, worker>>

\* The run has recorded its outcome; arq is done with the job or puts it back.
RunEnds(j) ==
  /\ j \in runs
  /\ runs' = runs \ {j}
  /\ queue' \in {queue, queue \cup {j}}
  /\ UNCHANGED <<Database, api, requests, recording, accepted, worker>>

\* arq stops polling, cancels the runs and waits for them to record it.
WorkerStop == Moves(worker, "polling", "draining", worker.open) /\ UNCHANGED <<Rest, api>>

\* shutdown: the resources leave the context, then the sessions are closed.
WorkerClose ==
  /\ \/ runs = {} /\ Moves(worker, "draining", "close_sessions", worker.open \ {"context"})
     \/ Moves(worker, "close_sessions", "down", {})
  /\ UNCHANGED <<Rest, api>>

\* The jobs of a dead worker are put back when their in-progress keys expire.
WorkerDies ==
  /\ worker.pc # "down"
  /\ worker' = Down
  /\ runs' = {}
  /\ queue' = queue \cup runs
  /\ UNCHANGED <<Database, api, requests, recording, accepted>>

WorkerStep ==
  \/ WorkerStart \/ WorkerOpen \/ WorkerFails \/ WorkerStop \/ WorkerClose \/ WorkerDies
  \/ \E j \in Jobs : Take(j) \/ RunEnds(j)
-----------------------------------------------------------------------------
DeploymentNext == (\E o \in Operators : CommandStep(o)) \/ ApiStep \/ WorkerStep

DeploymentSpec == DeploymentInit /\ [][DeploymentNext]_vars

(* validate_schema and the check at start-up read only the revision: when    *)
(* they find it current, the tables and columns the code uses are there,     *)
(* whatever commands ran before, at the same time or cut short.  One misuse  *)
(* excepted, which the commands do not prevent: a plain init on the database *)
(* of an earlier release stamps it without adding the column to its table,   *)
(* and stays the exception until a reset or a migration makes up for it.     *)
CurrentIsComplete == IsCurrent => parts = Complete \/ misused

(* A command that dies half-way leaves a schema one more command completes:  *)
(* either update_schema can apply what is pending, or init only has to stamp.*)
(* Only that misuse takes both ways out.                                     *)
SchemaIsRepairable == ~MigrationFails \/ Created = Complete \/ misused

(* A request is handled with its sessions and the arq queue open, from       *)
(* before its admission until it has recorded the id of its arq job, while   *)
(* the API is being stopped; and, misuse apart, on the whole schema, while   *)
(* commands run.                                                             *)
RequestsAreEquipped ==
  requests # {} => /\ api.open = {"sessions", "arq"}
                   /\ parts = Complete \/ misused

(* A run has its ObsCore resources and its sessions until it has recorded    *)
(* how it ended; and although the worker never checks the schema, a run of a *)
(* job that this release enqueued finds it complete, misuse apart.           *)
RunsAreEquipped ==
  /\ runs # {} => worker.open = {"context", "sessions"}
  /\ runs \cap accepted # {} => parts = Complete \/ misused
=============================================================================
