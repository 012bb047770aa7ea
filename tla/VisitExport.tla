---------------------------- MODULE VisitExport ------------------------------
(***************************************************************************)
(* What a run exports: enrich_visit                                        *)
(* (src/obsforge/worker/functions/enrichment.py) and DaxObsCoreAdapter     *)
(* (src/obsforge/adapters/obscore.py), with the payload of the row, the    *)
(* Butler, the ObsCore table, and the ExporterConfig that all the runs of  *)
(* a worker share through the arq context and read in threads.             *)
(*                                                                         *)
(* A dataset stands for its id, which is also the obs_id of its record.    *)
(* The queue is left open: a run of a visit may start at any time and any  *)
(* number of times, which covers every delivery of arq.  Whether a row is  *)
(* PENDING or QUEUED does not matter to a run, so no arq id is recorded.   *)
(***************************************************************************)
EXTENDS EnrichmentJobStore

CONSTANTS Datasets,  \* what the Butler may hold and a registration may list
          Matching,  \* the datasets of the type OBSFORGE_OBSCORE_DATASET_TYPE
          Payloads,  \* the lists of datasets clients register
          Runs,      \* the runs a worker can have in progress at once
          Shared     \* the place of the config in the arq context

ASSUME ExportAssumption ==
  /\ Matching \subseteq Datasets /\ Payloads \subseteq SUBSET Datasets
  /\ Shared \notin Runs

VARIABLES payload,  \* registration_payload of each visit
          dropped,  \* history: the visits last opened with datasets it does not list
          known,    \* history: which of them the Butler held at the first registration
          butler,   \* the datasets of the type the Butler holds
          obscore,  \* the datasets whose records are in the ObsCore table
          config,   \* the datasets an ExporterConfig object selects: all of its types,
                    \* until a run configures its copy
          run       \* the local state of each run

evars == <<job, payload, dropped, known, butler, obscore, config, run>>

\* pc is the step the run is about to perform.
Run == [pc      : {"idle", "configure", "export", "upsert", "mark_completed",
                   "mark_failed"},
        visit   : Visits \cup {None},
        records : SUBSET Datasets,
        code    : ErrorCodes \cup {None}]

NoRun == [pc |-> "idle", visit |-> None, records |-> {}, code |-> None]

ExportInit ==
  /\ StoreInit
  /\ payload = [v \in Visits |-> {}]
  /\ dropped = {}
  /\ known = [v \in Visits |-> {}]
  /\ butler = {}
  /\ obscore = {}
  /\ config = [place \in Runs \cup {Shared} |-> IF place = Shared THEN Matching ELSE {}]
  /\ run = [n \in Runs |-> NoRun]

ExportTypeOK ==
  /\ StoreTypeOK
  /\ payload \in [Visits -> SUBSET Datasets]
  /\ dropped \in SUBSET Visits
  /\ known \in [Visits -> SUBSET Datasets]
  /\ butler \in SUBSET Datasets
  /\ obscore \in SUBSET Datasets
  /\ config \in [Runs \cup {Shared} -> SUBSET Datasets]
  /\ run \in [Runs -> Run]
-----------------------------------------------------------------------------
\* A dataset is put into the Butler and stays there; those of other types are
\* never looked at.
Put(d) ==
  /\ butler' = butler \cup {d}
  /\ UNCHANGED <<job, payload, dropped, known, obscore, config, run>>

\* The payload is a column of the INSERT, which does nothing to an existing row.
Register(v, datasets) ==
  /\ AddOrGet(v)
  /\ IF Exists(v) THEN UNCHANGED <<payload, known>>
     ELSE /\ payload' = [payload EXCEPT ![v] = datasets]
          /\ known' = [known EXCEPT ![v] = butler \cap datasets]
  /\ IF Exists(v) /\ job[v].phase = "ERROR" /\ datasets # payload[v]
       THEN dropped' = dropped \cup {v}
       ELSE UNCHANGED dropped
  /\ UNCHANGED <<butler, obscore, config, run>>
-----------------------------------------------------------------------------
At(n, pc) == run[n].pc = pc
Go(n, pc) == run' = [run EXCEPT ![n].pc = pc]
Visit(n) == run[n].visit

Fail(n, code) == run' = [run EXCEPT ![n].pc = "mark_failed", ![n].code = code]

\* The inputs of all but the run's own steps.
Given == <<payload, dropped, known, butler>>

\* arq calls run_enrichment, which begins with mark_executing.
Start(n, v) ==
  /\ At(n, "idle")
  /\ Exists(v)
  /\ MarkExecuting(v)
  /\ run' = [run EXCEPT ![n] =
       IF Rejects("mark_executing", v)
         THEN [NoRun EXCEPT !.visit = v, !.pc = "mark_failed", !.code = "InvalidTransition"]
         ELSE [NoRun EXCEPT !.visit = v, !.pc = "configure"]]
  /\ UNCHANGED <<Given, obscore, config>>

\* The datasets a visit is to be enriched with.
Wanted(v) == payload[v] \cap Matching

\* MissingObsCoreDatasetError.
NothingWanted(n) ==
  /\ At(n, "configure")
  /\ Wanted(Visit(n)) = {}
  /\ Fail(n, "EnrichmentFailure")
  /\ UNCHANGED <<job, Given, obscore, config>>

\* Mutant: the runs configure the shared object itself.
NoCopy(n) == Shared

\* model_copy(deep=True): the object a run configures is its own.
CopyOf(n) == n

\* Mutant: the constraint on the dataset ids is lost.
SelectsType(datasets) == Matching

\* select_dataset_types, then dataset_id IN (:dataset_ids).
Selects(datasets) == datasets

Configure(n) ==
  /\ At(n, "configure")
  /\ Wanted(Visit(n)) # {}
  /\ config' = [config EXCEPT ![CopyOf(n)] = Selects(Wanted(Visit(n)))]
  /\ Go(n, "export")
  /\ UNCHANGED <<job, Given, obscore>>

\* Mutant: the exporter is given the config of the context, not the copy.
ConfigOfContext(n) == Shared

\* The object the exporter is given.
ExporterConfigOf(n) == CopyOf(n)

\* The exporter reads its config while it iterates over what the Butler holds.
Export(n) ==
  /\ At(n, "export")
  /\ run' = [run EXCEPT ![n].pc = "upsert",
                        ![n].records = config[ExporterConfigOf(n)] \cap butler]
  /\ UNCHANGED <<job, Given, obscore, config>>

\* upsert_many, one transaction; no records is a success too.
Upsert(n) ==
  /\ At(n, "upsert")
  /\ obscore' = obscore \cup run[n].records
  /\ Go(n, "mark_completed")
  /\ UNCHANGED <<job, Given, config>>

\* The run is over and its copy of the config is gone.
Over(n) ==
  /\ run' = [run EXCEPT ![n] = NoRun]
  /\ config' = [config EXCEPT ![n] = {}]

RunMarkCompleted(n) ==
  /\ At(n, "mark_completed")
  /\ MarkCompleted(Visit(n))
  /\ IF Rejects("mark_completed", Visit(n))
       THEN Fail(n, "InvalidTransition") /\ UNCHANGED config
       ELSE Over(n)
  /\ UNCHANGED <<Given, obscore>>

RunMarkFailed(n) ==
  /\ At(n, "mark_failed")
  /\ MarkFailed(Visit(n), run[n].code)
  /\ Over(n)
  /\ UNCHANGED <<Given, obscore>>

\* A step of the enrichment raises, or the run is cancelled at it.
Raises(n) ==
  /\ run[n].pc \in {"configure", "export", "upsert", "mark_completed"}
  /\ Fail(n, "EnrichmentFailure")
  /\ UNCHANGED <<job, Given, obscore, config>>

\* The worker dies.
Dies(n) == ~At(n, "idle") /\ Over(n) /\ UNCHANGED <<job, Given, obscore>>
-----------------------------------------------------------------------------
RunStep(n) ==
  \/ NothingWanted(n)
  \/ Configure(n)
  \/ Export(n)
  \/ Upsert(n)
  \/ RunMarkCompleted(n)
  \/ RunMarkFailed(n)
  \/ Raises(n)
  \/ Dies(n)

ExportNext ==
  \/ \E d \in Matching : Put(d)
  \/ \E v \in Visits, datasets \in Payloads : Register(v, datasets)
  \/ \E n \in Runs : RunStep(n) \/ \E v \in Visits : Start(n, v)

ExportSpec == ExportInit /\ [][ExportNext]_evars

(* A COMPLETED visit listed datasets of the configured type, and those the   *)
(* Butler held when it was registered have their records in the ObsCore      *)
(* table, although other runs configure and export at the same time, fail,   *)
(* die and are started again.                                                *)
CompletedIsExported ==
  \A v \in Visits : Exists(v) /\ job[v].phase = "COMPLETED" =>
    Wanted(v) # {} /\ Wanted(v) \cap known[v] \subseteq obscore

(* The ObsCore table holds records only of datasets that some registered     *)
(* visit listed, whatever else the Butler holds.                             *)
OnlyRegisteredExported == obscore \subseteq UNION {Wanted(v) : v \in Visits}

\* The registered visits all of whose known datasets can be queried.
Catalogued ==
  {v \in Visits : Exists(v) /\ Wanted(v) # {} /\ Wanted(v) \cap known[v] \subseteq obscore}

Ledger == INSTANCE VisitLedger WITH Errors <- ErrorCodes,
                                    account <- Account,
                                    catalogued <- Catalogued

(* Down to the datasets too, the database implements the ledger: a visit is  *)
(* in the catalogue when its known datasets are in the ObsCore table, which  *)
(* nothing takes back, and no row is COMPLETED before.                       *)
ExportsImplementLedger == Ledger!Spec

(* The registration that opens a visit, the first one or the one after an    *)
(* ERROR, has its datasets in the registration_payload the run will read.    *)
DatasetsPersisted == dropped = {}
=============================================================================
