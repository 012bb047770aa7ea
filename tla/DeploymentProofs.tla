-------------------------- MODULE DeploymentProofs ---------------------------
(***************************************************************************)
(* The schema a process relies on is complete, and its resources are open, *)
(* for any operators, jobs and commands, on the database of any release.   *)
(* What the commands leave behind is the schema of the recorded revision,  *)
(* the whole schema, or the tables that a plain init stamps without their  *)
(* column; once it is one of the last two it stays so.  The check of the   *)
(* API carries that over to the jobs it enqueues and from there to the     *)
(* runs of a worker that never looks at the schema.                        *)
(***************************************************************************)
EXTENDS Deployment, TLAPS

IsComplete == parts = Complete

\* The schema is whole, or a plain init has been used on an earlier release's.
Accounted == IsComplete \/ misused

\* The schema is that of the recorded revision, unless it is whole or misused; a
\* misused one has its two tables, so that only the column may be missing.
SchemaInv ==
  /\ parts = Upto(version) \/ Accounted
  /\ misused => {InitialSchema, AddObsCore} \subseteq parts
  /\ \A o \in Operators : command[o] = "stamp" => Accounted

\* Past its check the API relies on a schema that is whole, and it has its
\* resources open while it has requests.
ApiInv ==
  /\ api.pc \notin {"down", "checking"} => Accounted
  /\ api.pc = "arq" => api.open = {"sessions"}
  /\ api.pc \in {"serving", "draining"} => api.open = {"sessions", "arq"}
  /\ requests # {} => api.pc \in {"serving", "draining"}
  /\ accepted # {} => Accounted

WorkerInv ==
  /\ worker.pc = "sessions" => worker.open = {"context"}
  /\ worker.pc = "polling" => worker.open = {"context", "sessions"}
  /\ runs # {} => /\ worker.pc \in {"polling", "draining"}
                  /\ worker.open = {"context", "sessions"}

IInv == DeploymentTypeOK /\ SchemaInv /\ ApiInv /\ WorkerInv
-----------------------------------------------------------------------------
LEMMA NewestIsThree == Newest = 3
  BY DEF Newest, Migrations

LEMMA UptoEach ==
  /\ Upto(0) = {}
  /\ Upto(1) = {"enrichment_job"}
  /\ Upto(2) = {"enrichment_job", "ObsCore"}
  /\ Upto(3) = {"enrichment_job", "ObsCore", "arq_job_id"}
  /\ Complete = Upto(3)
<1>1. 1..0 = {} /\ 1..1 = {1} /\ 1..2 = {1, 2} /\ 1..3 = {1, 2, 3}
  OBVIOUS
<1>2. /\ Migrations[1] = "enrichment_job"
      /\ Migrations[2] = "ObsCore"
      /\ Migrations[3] = "arq_job_id"
  BY DEF Migrations, InitialSchema, AddObsCore, AddArqJobId
<1> QED
  BY <1>1, <1>2, NewestIsThree DEF Upto, Complete

\* What is pending and what the recorded revision has make up the whole schema.
LEMMA PendingEach ==
  ASSUME version \in 0..Newest
  PROVE  Upto(version) \cup Pending = Complete /\ Upto(version) \cap Pending = {}
<1>1. /\ Migrations[1] = "enrichment_job"
      /\ Migrations[2] = "ObsCore"
      /\ Migrations[3] = "arq_job_id"
  BY DEF Migrations, InitialSchema, AddObsCore, AddArqJobId
<1>2. CASE version = 0
  <2>1. (version + 1)..Newest = {1, 2, 3}
    BY <1>2, NewestIsThree
  <2>2. Pending = {"enrichment_job", "ObsCore", "arq_job_id"}
    BY <1>1, <2>1 DEF Pending
  <2> QED
    BY <1>2, <2>2, UptoEach
<1>3. CASE version = 1
  <2>1. (version + 1)..Newest = {2, 3}
    BY <1>3, NewestIsThree
  <2>2. Pending = {"ObsCore", "arq_job_id"}
    BY <1>1, <2>1 DEF Pending
  <2> QED
    BY <1>3, <2>2, UptoEach
<1>4. CASE version = 2
  <2>1. (version + 1)..Newest = {3}
    BY <1>4, NewestIsThree
  <2>2. Pending = {"arq_job_id"}
    BY <1>1, <2>1 DEF Pending
  <2> QED
    BY <1>4, <2>2, UptoEach
<1>5. CASE version = 3
  <2>1. (version + 1)..Newest = {}
    BY <1>5, NewestIsThree
  <2>2. Pending = {}
    BY <2>1 DEF Pending
  <2> QED
    BY <1>5, <2>2, UptoEach
<1> QED
  BY <1>2, <1>3, <1>4, <1>5, NewestIsThree

\* create_all makes the schema whole, unless it meets a table without its column.
LEMMA CreatedIsWhole ==
  ASSUME parts \in SUBSET Complete, ~LacksColumn
  PROVE  Created = Complete
<1>1. CASE InitialSchema \in parts
  BY <1>1, UptoEach DEF Created, LacksColumn, InitialSchema, AddObsCore, AddArqJobId
<1>2. CASE InitialSchema \notin parts
  BY <1>2, UptoEach DEF Created, InitialSchema, AddObsCore, AddArqJobId
<1> QED
  BY <1>1, <1>2

-----------------------------------------------------------------------------
LEMMA InitIInv == DeploymentInit => IInv
<1> SUFFICES ASSUME DeploymentInit PROVE IInv
  OBVIOUS
<1>1. version \in 0..Newest
  BY DEF DeploymentInit
<1>2. parts \in SUBSET Complete
  BY <1>1, PendingEach DEF DeploymentInit
<1>3. DeploymentTypeOK
  BY <1>1, <1>2 DEF DeploymentInit, DeploymentTypeOK, Down, Steps, Api, Worker, Process
<1>4. SchemaInv
  BY DEF DeploymentInit, SchemaInv
<1> QED
  BY <1>3, <1>4 DEF IInv, ApiInv, WorkerInv, DeploymentInit, Down

\* What a command finds accounted for stays so; the processes do not notice it.
LEMMA CommandKeepsRemains ==
  ASSUME IInv, UNCHANGED Remains, Accounted => Accounted',
         version' \in 0..Newest, parts' \in SUBSET Complete, misused' \in BOOLEAN,
         command' \in [Operators -> Steps], SchemaInv'
  PROVE  IInv'
  BY DEF IInv, DeploymentTypeOK, ApiInv, WorkerInv, Remains

\* The step of a command that leaves the schema alone.
LEMMA CommandOnly ==
  ASSUME IInv, NEW o \in Operators, NEW step \in Steps, step # "stamp",
         command' = [command EXCEPT ![o] = step],
         UNCHANGED <<version, parts, misused, Remains>>
  PROVE  IInv'
<1>1. Accounted' <=> Accounted
  BY DEF Accounted, IsComplete
<1>2. \A p \in Operators : command'[p] = "stamp" => command[p] = "stamp"
  BY DEF IInv, DeploymentTypeOK
<1>3. SchemaInv'
  BY <1>1, <1>2 DEF IInv, SchemaInv
<1>4. command' \in [Operators -> Steps]
  BY DEF IInv, DeploymentTypeOK
<1> QED
  BY <1>1, <1>3, <1>4, CommandKeepsRemains DEF IInv, DeploymentTypeOK

\* The step of a command that leaves the schema accounted for.
LEMMA CommandAccounts ==
  ASSUME IInv, NEW o \in Operators, NEW step \in Steps,
         command' = [command EXCEPT ![o] = step], UNCHANGED Remains,
         version' \in 0..Newest, parts' \in SUBSET Complete, misused' \in BOOLEAN,
         misused' => {InitialSchema, AddObsCore} \subseteq parts', Accounted'
  PROVE  IInv'
<1>1. command' \in [Operators -> Steps]
  BY DEF IInv, DeploymentTypeOK
<1>2. SchemaInv'
  BY DEF SchemaInv
<1> QED
  BY <1>1, <1>2, CommandKeepsRemains

LEMMA CommandStepIInv ==
  ASSUME IInv, NEW o \in Operators, CommandStep(o)
  PROVE  IInv'
<1>1. DeploymentTypeOK /\ SchemaInv
  BY DEF IInv
<1>2. CASE Issue(o)
  BY <1>2, CommandOnly DEF Issue, StepOf, Steps
<1>3. CASE Create(o)
  <2>1. /\ command' = [command EXCEPT ![o] = "stamp"]
        /\ parts' = Created /\ misused' = (misused \/ LacksColumn)
        /\ UNCHANGED <<version, Remains>>
    BY <1>3 DEF Create, StepOf
  <2>2. parts' \in SUBSET Complete /\ parts \subseteq parts' /\ AddObsCore \in parts'
    BY <1>1, <2>1, UptoEach
    DEF Created, DeploymentTypeOK, InitialSchema, AddObsCore, AddArqJobId
  <2>3. CASE misused \/ LacksColumn
    <3>1. misused' /\ InitialSchema \in parts
      BY <1>1, <2>1, <2>3 DEF SchemaInv, LacksColumn
    <3> QED
      BY <1>1, <2>1, <2>2, <3>1, CommandAccounts DEF DeploymentTypeOK, Accounted, Steps
  <2>4. CASE ~misused /\ ~LacksColumn
    <3>1. parts' = Complete /\ ~misused'
      BY <1>1, <2>1, <2>4, CreatedIsWhole DEF DeploymentTypeOK
    <3> QED
      BY <1>1, <2>1, <3>1, CommandAccounts
      DEF DeploymentTypeOK, Accounted, IsComplete, Steps
  <2> QED
    BY <2>3, <2>4
<1>4. CASE Reset(o)
  BY <1>1, <1>4, CommandAccounts
  DEF Reset, StepOf, DeploymentTypeOK, Accounted, IsComplete, Steps
<1>5. CASE Stamp(o)
  <2>1. Accounted
    BY <1>1, <1>5 DEF Stamp, StepOf, SchemaInv
  <2>2. /\ command' = [command EXCEPT ![o] = "none"]
        /\ version' = Newest /\ UNCHANGED <<parts, misused, Remains>>
    BY <1>5 DEF Stamp, StepOf
  <2>3. version' \in 0..Newest /\ Accounted'
    BY <2>1, <2>2, NewestIsThree DEF Accounted, IsComplete
  <2> QED
    BY <1>1, <2>2, <2>3, CommandAccounts DEF SchemaInv, DeploymentTypeOK, Steps
<1>6. CASE Migrate(o)
  <2>1. command' = [command EXCEPT ![o] = "none"] /\ UNCHANGED Remains
    BY <1>6 DEF Migrate, StepOf
  <2>2. CASE MigrationFails
    BY <1>6, <2>1, <2>2, CommandOnly DEF Migrate, Steps
  <2>3. CASE ~MigrationFails
    <3>1. /\ version' = Newest /\ parts' = parts \cup Pending
          /\ misused' = (misused /\ AddArqJobId \notin Pending)
      BY <1>6, <2>3 DEF Migrate
    <3>2. Upto(version) \cup Pending = Complete
      BY <1>1, PendingEach DEF DeploymentTypeOK
    <3>3. parts' \in SUBSET Complete
      BY <1>1, <3>1, <3>2 DEF DeploymentTypeOK
    <3>4. misused' => {InitialSchema, AddObsCore} \subseteq parts'
      BY <1>1, <3>1 DEF SchemaInv
    <3>5. ASSUME misused, ~misused' PROVE parts' = Complete
      <4>1. AddArqJobId \in Pending /\ {InitialSchema, AddObsCore} \subseteq parts
        BY <1>1, <3>1, <3>5 DEF SchemaInv
      <4>2. Complete \subseteq parts'
        BY <3>1, <4>1, UptoEach DEF InitialSchema, AddObsCore, AddArqJobId
      <4> QED
        BY <3>3, <4>2
    <3>6. ASSUME ~misused PROVE parts' = Complete
      <4>1. parts = Upto(version) \/ parts = Complete
        BY <1>1, <3>6 DEF SchemaInv, Accounted, IsComplete
      <4> QED
        BY <3>1, <3>2, <4>1
    <3>7. Accounted'
      BY <3>5, <3>6 DEF Accounted, IsComplete
    <3>8. version' \in 0..Newest /\ misused' \in BOOLEAN
      BY <3>1, NewestIsThree
    <3> QED
      BY <2>1, <3>3, <3>4, <3>7, <3>8, CommandAccounts DEF Steps
  <2> QED
    BY <2>2, <2>3
<1>7. CASE CommandDies(o)
  BY <1>7, CommandOnly DEF CommandDies, Steps
<1> QED
  BY <1>2, <1>3, <1>4, <1>5, <1>6, <1>7 DEF CommandStep
-----------------------------------------------------------------------------
\* When the check passes, the schema is whole.
LEMMA CheckedIsComplete ==
  ASSUME DeploymentTypeOK, SchemaInv
  PROVE  CurrentIsComplete
  BY UptoEach, NewestIsThree
  DEF CurrentIsComplete, IsCurrent, SchemaInv, Accounted, IsComplete

LEMMA SchemaFrame ==
  ASSUME SchemaInv, UNCHANGED Database
  PROVE  SchemaInv' /\ (Accounted => Accounted')
  BY DEF SchemaInv, Database, Accounted, IsComplete, Upto

LEMMA ApiMoves ==
  ASSUME IInv, UNCHANGED <<Rest, worker>>, api' \in Api, ApiInv'
  PROVE  IInv'
<1>1. SchemaInv'
  BY SchemaFrame DEF IInv, Rest
<1> QED
  BY <1>1 DEF IInv, DeploymentTypeOK, WorkerInv, Rest, Database

LEMMA ApiStepIInv ==
  ASSUME IInv, ApiStep
  PROVE  IInv'
<1> USE DEF IInv
<1>1. CASE ApiStart \/ ApiCheck \/ ApiOpen \/ ApiStop \/ ApiClose
  <2> USE DEF Moves, Rest, Database
  <2>0. Accounted' <=> Accounted
    BY <1>1 DEF Accounted, IsComplete, ApiStart, ApiCheck, ApiOpen, ApiStop, ApiClose
  <2>1. UNCHANGED <<Rest, worker>>
    BY <1>1 DEF ApiStart, ApiCheck, ApiOpen, ApiStop, ApiClose
  <2>2. api \in Api
    BY DEF DeploymentTypeOK
  <2>3. CASE ApiStart
    <3>1. api' \in Api /\ ApiInv'
      BY <2>0, <2>1, <2>3 DEF ApiStart, ApiInv, Api, Process
    <3> QED
      BY <2>1, <3>1, ApiMoves
  <2>4. CASE ApiCheck
    <3>1. IsCurrent => Accounted
      BY CheckedIsComplete DEF CurrentIsComplete, Accounted, IsComplete
    <3>2. api' \in Api /\ ApiInv'
      BY <2>0, <2>1, <2>4, <3>1 DEF ApiCheck, ApiInv, Api, Process
    <3> QED
      BY <2>1, <3>2, ApiMoves
  <2>5. CASE ApiOpen
    <3>1. api' \in Api /\ ApiInv'
      BY <2>0, <2>1, <2>5 DEF ApiOpen, ApiInv, Api, Process
    <3> QED
      BY <2>1, <3>1, ApiMoves
  <2>6. CASE ApiStop
    <3>1. api' \in Api /\ ApiInv'
      BY <2>0, <2>1, <2>2, <2>6 DEF ApiStop, ApiInv, Api, Process
    <3> QED
      BY <2>1, <3>1, ApiMoves
  <2>7. CASE ApiClose
    <3>1. api' \in Api /\ ApiInv'
      BY <2>0, <2>1, <2>7 DEF ApiClose, ApiInv, Api, Process
    <3> QED
      BY <2>1, <3>1, ApiMoves
  <2> QED
    BY <1>1, <2>3, <2>4, <2>5, <2>6, <2>7
<1>2. CASE ApiDies
  <2>1. SchemaInv' /\ (Accounted => Accounted')
    BY <1>2, SchemaFrame DEF ApiDies
  <2> QED
    BY <1>2, <2>1
    DEF ApiDies, ApiInv, WorkerInv, DeploymentTypeOK, Down, Database, Api, Process
<1>3. ASSUME NEW j \in Jobs, Admit(j) PROVE IInv'
  <2>1. SchemaInv' /\ (Accounted => Accounted')
    BY <1>3, SchemaFrame DEF Admit
  <2> QED
    BY <1>3, <2>1 DEF Admit, ApiInv, WorkerInv, DeploymentTypeOK, Database
<1>4. ASSUME NEW j \in Jobs, Enqueue(j) PROVE IInv'
  <2>1. SchemaInv' /\ (Accounted => Accounted')
    BY <1>4, SchemaFrame DEF Enqueue
  <2>2. Accounted
    BY <1>4 DEF Enqueue, ApiInv
  <2> QED
    BY <1>4, <2>1, <2>2 DEF Enqueue, ApiInv, WorkerInv, DeploymentTypeOK, Database
<1>5. ASSUME NEW j \in Jobs, RequestEnds(j) PROVE IInv'
  <2>1. SchemaInv' /\ (Accounted => Accounted')
    BY <1>5, SchemaFrame DEF RequestEnds
  <2> QED
    BY <1>5, <2>1 DEF RequestEnds, ApiInv, WorkerInv, DeploymentTypeOK, Database
<1> QED
  BY <1>1, <1>2, <1>3, <1>4, <1>5 DEF ApiStep
-----------------------------------------------------------------------------
LEMMA WorkerMoves ==
  ASSUME IInv, UNCHANGED <<Rest, api>>, worker' \in Worker, WorkerInv'
  PROVE  IInv'
<1>1. SchemaInv' /\ (Accounted => Accounted')
  BY SchemaFrame DEF IInv, Rest
<1> QED
  BY <1>1 DEF IInv, DeploymentTypeOK, ApiInv, Rest, Database

LEMMA WorkerStepIInv ==
  ASSUME IInv, WorkerStep
  PROVE  IInv'
<1> USE DEF IInv
<1>1. CASE WorkerStart \/ WorkerOpen \/ WorkerFails \/ WorkerStop \/ WorkerClose
  <2> USE DEF Moves, Rest, Database
  <2>1. UNCHANGED <<Rest, api>>
    BY <1>1 DEF WorkerStart, WorkerOpen, WorkerFails, WorkerStop, WorkerClose
  <2>2. worker \in Worker
    BY DEF DeploymentTypeOK
  <2>3. worker.open \subseteq {"context", "sessions"}
    BY <2>2 DEF Worker, Process
  <2>4. worker' \in Worker
    BY <1>1, <2>3
    DEF WorkerStart, WorkerOpen, WorkerFails, WorkerStop, WorkerClose, Worker, Process
  <2>5. WorkerInv'
    BY <1>1, <2>1
    DEF WorkerStart, WorkerOpen, WorkerFails, WorkerStop, WorkerClose, WorkerInv
  <2> QED
    BY <2>1, <2>4, <2>5, WorkerMoves
<1>2. CASE WorkerDies
  <2>1. SchemaInv' /\ (Accounted => Accounted')
    BY <1>2, SchemaFrame DEF WorkerDies
  <2> QED
    BY <1>2, <2>1
    DEF WorkerDies, ApiInv, WorkerInv, DeploymentTypeOK, Down, Database, Worker, Process
<1>3. ASSUME NEW j \in Jobs, Take(j) PROVE IInv'
  <2>1. SchemaInv' /\ (Accounted => Accounted')
    BY <1>3, SchemaFrame DEF Take
  <2> QED
    BY <1>3, <2>1 DEF Take, ApiInv, WorkerInv, DeploymentTypeOK, Database
<1>4. ASSUME NEW j \in Jobs, RunEnds(j) PROVE IInv'
  <2>1. SchemaInv' /\ (Accounted => Accounted')
    BY <1>4, SchemaFrame DEF RunEnds
  <2> QED
    BY <1>4, <2>1 DEF RunEnds, ApiInv, WorkerInv, DeploymentTypeOK, Database
<1> QED
  BY <1>1, <1>2, <1>3, <1>4 DEF WorkerStep

LEMMA NextIInv ==
  ASSUME IInv, [DeploymentNext]_vars
  PROVE  IInv'
<1>1. CASE UNCHANGED vars
  <2>1. SchemaInv' /\ (Accounted => Accounted')
    BY <1>1, SchemaFrame DEF vars, Database, IInv
  <2> QED
    BY <1>1, <2>1 DEF vars, IInv, DeploymentTypeOK, ApiInv, WorkerInv
<1> QED
  BY <1>1, CommandStepIInv, ApiStepIInv, WorkerStepIInv DEF DeploymentNext

LEMMA InvariantHolds == DeploymentSpec => []IInv
  BY InitIInv, NextIInv, PTL DEF DeploymentSpec
-----------------------------------------------------------------------------
(* What is_database_current finds current, the code can run on: no command   *)
(* of init, init --reset and update-schema, cut short or concurrent with     *)
(* others, makes the revision current before the schema is whole, but a      *)
(* plain init on the database of an earlier release.                         *)
THEOREM CurrentSchemasAreComplete == DeploymentSpec => []CurrentIsComplete
<1>1. IInv => CurrentIsComplete
  BY CheckedIsComplete DEF IInv
<1> QED
  BY <1>1, InvariantHolds, PTL

(* One more command repairs what a command that died has left behind, if no  *)
(* plain init has been used on the database of an earlier release.           *)
THEOREM SchemasAreRepairable == DeploymentSpec => []SchemaIsRepairable
<1>1. ASSUME IInv PROVE SchemaIsRepairable
  <2>1. CASE IsComplete
    <3>1. ~LacksColumn /\ parts \in SUBSET Complete
      BY <2>1, UptoEach DEF IsComplete, LacksColumn, AddArqJobId
    <3> QED
      BY <3>1, CreatedIsWhole DEF SchemaIsRepairable
  <2>2. CASE parts = Upto(version)
    <3>1. Upto(version) \cup Pending = Complete /\ Upto(version) \cap Pending = {}
      BY <1>1, PendingEach DEF IInv, DeploymentTypeOK
    <3>2. InitialSchema \in Complete
      BY UptoEach DEF InitialSchema
    <3> QED
      BY <2>2, <3>1, <3>2 DEF SchemaIsRepairable, MigrationFails
  <2> QED
    BY <1>1, <2>1, <2>2 DEF IInv, SchemaInv, Accounted, SchemaIsRepairable
<1> QED
  BY <1>1, InvariantHolds, PTL

(* The API handles requests, to the record of their arq job ids, only with   *)
(* its resources open, and on a whole schema unless a plain init has been    *)
(* used on the database of an earlier release.                               *)
THEOREM RequestsEquipped == DeploymentSpec => []RequestsAreEquipped
<1>1. IInv => RequestsAreEquipped
  BY DEF IInv, ApiInv, RequestsAreEquipped, Accounted, IsComplete
<1> QED
  BY <1>1, InvariantHolds, PTL

(* The worker has its resources open while it has runs, and finds the schema *)
(* whole, with the same exception, in every run of a job of this release.    *)
THEOREM RunsEquipped == DeploymentSpec => []RunsAreEquipped
<1>1. IInv => RunsAreEquipped
  BY DEF IInv, ApiInv, WorkerInv, RunsAreEquipped, Accounted, IsComplete
<1> QED
  BY <1>1, InvariantHolds, PTL
=============================================================================
