------------------------- MODULE VisitExportProofs --------------------------
(***************************************************************************)
(* A COMPLETED visit is exported, and nothing else is, for any visits,     *)
(* datasets, payloads and runs.  The argument follows one run: its config  *)
(* is its own and selects the wanted datasets of its visit, so its records *)
(* lie between those the Butler held at registration and the wanted ones,  *)
(* and they are in the table before the row is COMPLETED.                  *)
(***************************************************************************)
EXTENDS VisitExport, EnrichmentJobStoreProofs

IsCompleted(v) == Exists(v) /\ job[v].phase = "COMPLETED"

\* A run past mark_executing works for a registered visit; what it selects, what
\* it has read and what it has written is what the visit wants.
RunInv(n) ==
  /\ ~At(n, "idle") => Visit(n) \in Visits /\ Exists(Visit(n))
  /\ run[n].pc \in {"export", "upsert", "mark_completed"} => Wanted(Visit(n)) # {}
  /\ At(n, "export") => config[n] = Wanted(Visit(n))
  /\ At(n, "upsert") => /\ run[n].records \subseteq Wanted(Visit(n))
                        /\ Wanted(Visit(n)) \cap known[Visit(n)] \subseteq run[n].records
  /\ At(n, "mark_completed") => Wanted(Visit(n)) \cap known[Visit(n)] \subseteq obscore
  /\ At(n, "mark_failed") => run[n].code \in ErrorCodes

\* What was known of a visit is still in the Butler; a visit without a row has
\* no payload.
VisitInv(v) ==
  /\ known[v] \subseteq butler
  /\ ~Exists(v) => payload[v] = {}
  /\ IsCompleted(v) => Wanted(v) # {} /\ Wanted(v) \cap known[v] \subseteq obscore

IInv ==
  /\ ExportTypeOK
  /\ \A n \in Runs : RunInv(n)
  /\ \A v \in Visits : VisitInv(v)
  /\ OnlyRegisteredExported

-----------------------------------------------------------------------------
\* The transactions of the runs, as far as the export is concerned: rows stay, and
\* only those of a set of visits may become COMPLETED.
Moves(completing) ==
  /\ StoreTypeOK'
  /\ \A v \in Visits : Exists(v) => Exists(v)'
  /\ \A v \in Visits : IsCompleted(v)' => IsCompleted(v) \/ v \in completing

LEMMA AddOrGetMoves ==
  ASSUME StoreTypeOK, NEW v \in Visits, AddOrGet(v)
  PROVE  Moves({}) /\ Exists(v)'
<1>1. /\ StoreTypeOK' /\ \A u \in Visits \ {v} : job'[u] = job[u]
      /\ job'[v] = AddedOrGot(job[v]) /\ job'[v] \in Row
  BY AddOrGetEffect
<1>2. Exists(v)'
  BY <1>1, NoRowAssumption DEF Exists
<1>3. IsCompleted(v)' => IsCompleted(v)
  BY <1>1, RequeuedColumns, NewRowColumns, NoRowAssumption
  DEF IsCompleted, Exists, AddedOrGot, NewRow, StoreTypeOK
<1> QED
  BY <1>1, <1>2, <1>3 DEF Moves, IsCompleted, Exists

LEMMA MarkExecutingMoves ==
  ASSUME StoreTypeOK, NEW v \in Visits, Exists(v), MarkExecuting(v)
  PROVE  Moves({})
<1>1. job[v] \in Row
  BY DEF StoreTypeOK, Exists
<1>2. Executing(job[v]) \in Row /\ Executing(job[v]).phase = "EXECUTING"
  BY <1>1, ExecutingColumns
<1>3. /\ StoreTypeOK' /\ \A u \in Visits \ {v} : job'[u] = job[u]
      /\ job'[v] = Executing(job[v]) \/ job'[v] = job[v]
  BY <1>2, TransitionEffect DEF MarkExecuting
<1> QED
  BY <1>1, <1>2, <1>3, NoRowAssumption DEF Moves, IsCompleted, Exists

LEMMA MarkFailedMoves ==
  ASSUME StoreTypeOK, NEW v \in Visits, Exists(v), NEW code \in ErrorCodes,
         MarkFailed(v, code)
  PROVE  Moves({})
<1>1. job[v] \in Row
  BY DEF StoreTypeOK, Exists
<1>2. Failed(job[v], code) \in Row /\ Failed(job[v], code).phase = "ERROR"
  BY <1>1, FailedColumns
<1>3. /\ StoreTypeOK' /\ \A u \in Visits \ {v} : job'[u] = job[u]
      /\ job'[v] = Failed(job[v], code) \/ job'[v] = job[v]
  BY <1>2, TransitionEffect DEF MarkFailed
<1> QED
  BY <1>1, <1>2, <1>3, NoRowAssumption DEF Moves, IsCompleted, Exists

LEMMA MarkCompletedMoves ==
  ASSUME StoreTypeOK, NEW v \in Visits, Exists(v), MarkCompleted(v)
  PROVE  Moves({v})
<1>1. job[v] \in Row
  BY DEF StoreTypeOK, Exists
<1>2. AsCompleted(job[v]) \in Row
  BY <1>1, AsCompletedColumns
<1>3. /\ StoreTypeOK' /\ \A u \in Visits \ {v} : job'[u] = job[u]
      /\ job'[v] = AsCompleted(job[v]) \/ job'[v] = job[v]
  BY <1>2, TransitionEffect DEF MarkCompleted
<1> QED
  BY <1>1, <1>2, <1>3, NoRowAssumption DEF Moves, IsCompleted, Exists

LEMMA JobStays ==
  ASSUME StoreTypeOK, UNCHANGED job
  PROVE  Moves({})
  BY DEF Moves, StoreTypeOK, IsCompleted, Exists
-----------------------------------------------------------------------------
\* A run that a step leaves alone keeps its invariant: its payload and its config
\* stay, and the table only grows.
Harmless ==
  /\ \A v \in Visits : Exists(v) => /\ Exists(v)'
                                    /\ payload'[v] = payload[v]
                                    /\ known'[v] = known[v]
  /\ obscore \subseteq obscore'

LEMMA RunFrame ==
  ASSUME NEW n \in Runs, RunInv(n), Harmless, run'[n] = run[n], config'[n] = config[n]
  PROVE  RunInv(n)'
  BY DEF RunInv, Harmless, At, Visit, Wanted

LEMMA VisitFrame ==
  ASSUME NEW v \in Visits, VisitInv(v), Harmless, UNCHANGED <<payload, known>>,
         butler \subseteq butler', IsCompleted(v)' => IsCompleted(v)
  PROVE  VisitInv(v)'
  BY DEF VisitInv, Harmless, Wanted

\* A step of run n that leaves the registrations alone.
LEMMA RunStepKeeps ==
  ASSUME IInv, NEW n \in Runs, UNCHANGED Given, Moves({}),
         NEW r \in Run, run' = [run EXCEPT ![n] = r],
         NEW c \in SUBSET Datasets, config' = [config EXCEPT ![n] = c],
         obscore \subseteq obscore', obscore' \subseteq UNION {Wanted(v) : v \in Visits},
         RunInv(n)'
  PROVE  IInv'
<1>1. Harmless
  BY DEF Harmless, Moves, Given
<1>2. \A m \in Runs : RunInv(m)'
  <2> SUFFICES ASSUME NEW m \in Runs, m # n PROVE RunInv(m)'
    OBVIOUS
  <2>1. run'[m] = run[m] /\ config'[m] = config[m]
    BY DEF IInv, ExportTypeOK
  <2> QED
    BY <1>1, <2>1, RunFrame DEF IInv
<1>3. \A v \in Visits : VisitInv(v)'
  BY <1>1, VisitFrame DEF IInv, Moves, Given
<1>4. obscore' \in SUBSET Datasets
  BY DEF IInv, ExportTypeOK, Wanted
<1>5. ExportTypeOK'
  BY <1>4 DEF IInv, ExportTypeOK, Moves, Given
<1>6. OnlyRegisteredExported'
  BY DEF OnlyRegisteredExported, Wanted, Given
<1> QED
  BY <1>2, <1>3, <1>5, <1>6 DEF IInv

LEMMA NoRunIsRun == NoRun \in Run /\ NoRun.pc = "idle"
  BY DEF NoRun, Run

\* A run that fails keeps its visit.
LEMMA FailKeeps ==
  ASSUME IInv, NEW n \in Runs, ~At(n, "idle"), NEW code \in ErrorCodes, Fail(n, code),
         UNCHANGED <<Given, obscore, config>>, Moves({})
  PROVE  IInv'
<1> DEFINE r == [run[n] EXCEPT !.pc = "mark_failed", !.code = code]
<1>1. run[n] \in Run /\ RunInv(n)
  BY DEF IInv, ExportTypeOK
<1>2. r \in Run /\ r.pc = "mark_failed" /\ r.visit = run[n].visit /\ r.code = code
  BY <1>1 DEF Run
<1>3. run' = [run EXCEPT ![n] = r]
  BY DEF Fail
<1>4. run'[n] = r
  BY <1>3 DEF IInv, ExportTypeOK
<1>5. RunInv(n)'
  BY <1>1, <1>2, <1>4 DEF RunInv, At, Visit, Moves
<1>6. config' = [config EXCEPT ![n] = config[n]] /\ config[n] \in SUBSET Datasets
  BY DEF IInv, ExportTypeOK
<1>7. obscore' \subseteq UNION {Wanted(v) : v \in Visits}
  BY DEF IInv, OnlyRegisteredExported
<1> HIDE DEF r
<1> QED
  BY <1>2, <1>3, <1>5, <1>6, <1>7, RunStepKeeps

\* A run that ends leaves its place.
LEMMA OverKeeps ==
  ASSUME IInv, NEW n \in Runs, Over(n), UNCHANGED <<Given, obscore>>, Moves({})
  PROVE  IInv'
<1>1. run' = [run EXCEPT ![n] = NoRun] /\ config' = [config EXCEPT ![n] = {}]
  BY DEF Over
<1>2. run'[n] = NoRun
  BY <1>1 DEF IInv, ExportTypeOK
<1>3. RunInv(n)'
  BY <1>2, NoRunIsRun DEF RunInv, At
<1>4. /\ obscore \subseteq obscore' /\ UNCHANGED Given
      /\ obscore' \subseteq UNION {Wanted(v) : v \in Visits}
  BY DEF IInv, OnlyRegisteredExported
<1>5. {} \in SUBSET Datasets
  OBVIOUS
<1> QED
  BY <1>1, <1>3, <1>4, <1>5, NoRunIsRun, RunStepKeeps

\* A run that goes on to its next step.
LEMMA NextKeeps ==
  ASSUME IInv, NEW n \in Runs, UNCHANGED Given, Moves({}),
         NEW r, r \in Run, run' = [run EXCEPT ![n] = r],
         NEW c, c \in SUBSET Datasets, config' = [config EXCEPT ![n] = c],
         obscore \subseteq obscore', obscore' \subseteq UNION {Wanted(v) : v \in Visits},
         r.pc # "idle" => r.visit \in Visits /\ Exists(r.visit),
         r.pc \in {"export", "upsert", "mark_completed"} => Wanted(r.visit) # {},
         r.pc = "export" => c = Wanted(r.visit),
         r.pc = "upsert" => /\ r.records \subseteq Wanted(r.visit)
                            /\ Wanted(r.visit) \cap known[r.visit] \subseteq r.records,
         r.pc = "mark_completed" => Wanted(r.visit) \cap known[r.visit] \subseteq obscore',
         r.pc = "mark_failed" => r.code \in ErrorCodes
  PROVE  IInv'
<1>1. run'[n] = r /\ config'[n] = c
  BY DEF IInv, ExportTypeOK
<1>2. RunInv(n)'
  BY <1>1 DEF RunInv, At, Visit, Wanted, Given, Moves
<1> QED
  BY <1>2, RunStepKeeps
-----------------------------------------------------------------------------
LEMMA PutKeeps == ASSUME IInv, NEW d \in Matching, Put(d) PROVE IInv'
<1>1. Harmless
  BY DEF Put, Harmless, Exists
<1>2. \A n \in Runs : RunInv(n)'
  BY <1>1, RunFrame DEF IInv, Put
<1>3. \A v \in Visits : VisitInv(v)'
  BY <1>1, VisitFrame DEF IInv, Put, IsCompleted, Exists
<1>4. ExportTypeOK'
  BY ExportAssumption DEF IInv, ExportTypeOK, Put, StoreTypeOK
<1> QED
  BY <1>2, <1>3, <1>4 DEF IInv, OnlyRegisteredExported, Put, Wanted

LEMMA RegisterKeeps ==
  ASSUME IInv, NEW v \in Visits, NEW datasets \in Payloads, Register(v, datasets)
  PROVE  IInv'
<1>1. Moves({}) /\ Exists(v)'
  BY AddOrGetMoves DEF IInv, ExportTypeOK, Register
<1>2. /\ \A u \in Visits : u # v \/ Exists(v) => payload'[u] = payload[u] /\ known'[u] = known[u]
      /\ ~Exists(v) => payload'[v] = datasets /\ known'[v] = butler \cap datasets
      /\ payload' \in [Visits -> SUBSET Datasets] /\ known' \in [Visits -> SUBSET Datasets]
      /\ dropped' \in SUBSET Visits
  BY ExportAssumption DEF IInv, ExportTypeOK, Register
<1>3. Harmless
  BY <1>1, <1>2 DEF Harmless, Moves, Register
<1>4. \A n \in Runs : RunInv(n)'
  BY <1>3, RunFrame DEF IInv, Register
<1>5. ASSUME NEW u \in Visits PROVE VisitInv(u)'
  <2>1. CASE u # v \/ Exists(v)
    BY <1>1, <1>2, <2>1 DEF IInv, VisitInv, Wanted, Moves, Register
  <2>2. CASE u = v /\ ~Exists(v)
    BY <1>1, <1>2, <2>2 DEF VisitInv, Moves, IsCompleted, Register, IInv, ExportTypeOK
  <2> QED
    BY <2>1, <2>2
<1>6. ExportTypeOK'
  BY <1>1, <1>2 DEF IInv, ExportTypeOK, Moves, Register
<1>7. OnlyRegisteredExported'
  <2>1. \A u \in Visits : Wanted(u) \subseteq Wanted(u)'
    BY <1>2 DEF Wanted, IInv, VisitInv
  <2>2. ASSUME NEW d \in obscore PROVE \E u \in Visits : d \in Wanted(u)'
    BY <2>1 DEF IInv, OnlyRegisteredExported
  <2> QED
    BY <2>2 DEF OnlyRegisteredExported, Register
<1> QED
  BY <1>4, <1>5, <1>6, <1>7 DEF IInv

\* The steps of a run.
LEMMA StartKeeps ==
  ASSUME IInv, NEW n \in Runs, NEW v \in Visits, Start(n, v) PROVE IInv'
<1>1. Moves({})
  BY MarkExecutingMoves DEF Start, IInv, ExportTypeOK
<1> DEFINE r == IF Rejects("mark_executing", v)
                  THEN [NoRun EXCEPT !.visit = v, !.pc = "mark_failed",
                                     !.code = "InvalidTransition"]
                  ELSE [NoRun EXCEPT !.visit = v, !.pc = "configure"]
<1>2. /\ r \in Run /\ r.visit = v
      /\ r.pc = "configure" \/ (r.pc = "mark_failed" /\ r.code \in ErrorCodes)
  BY NoRunIsRun DEF Run, ErrorCodes
<1>3. run' = [run EXCEPT ![n] = r]
  BY DEF Start
<1>4. config' = [config EXCEPT ![n] = config[n]] /\ config[n] \in SUBSET Datasets
  BY DEF IInv, ExportTypeOK, Start
<1>5. UNCHANGED Given /\ obscore \subseteq obscore'
      /\ obscore' \subseteq UNION {Wanted(u) : u \in Visits} /\ Exists(v)
  BY DEF Start, IInv, OnlyRegisteredExported
<1> HIDE DEF r
<1> QED
  BY <1>1, <1>2, <1>3, <1>4, <1>5, NextKeeps

LEMMA ConfigureKeeps ==
  ASSUME IInv, NEW n \in Runs, Configure(n) PROVE IInv'
<1> DEFINE r == [run[n] EXCEPT !.pc = "export"]
<1>1. run[n] \in Run /\ RunInv(n) /\ run[n].pc = "configure"
  BY DEF IInv, ExportTypeOK, Configure, At
<1>2. r \in Run /\ r.pc = "export" /\ r.visit = run[n].visit
  BY <1>1 DEF Run
<1>3. run' = [run EXCEPT ![n] = r]
  BY DEF Configure, Go
<1>4. /\ r.visit \in Visits /\ Exists(r.visit) /\ Wanted(r.visit) # {}
      /\ config' = [config EXCEPT ![n] = Wanted(r.visit)]
      /\ Wanted(r.visit) \in SUBSET Datasets
  BY <1>1, <1>2, ExportAssumption
  DEF RunInv, At, Visit, Configure, CopyOf, Selects, Wanted, IInv, ExportTypeOK
<1>5. /\ UNCHANGED Given /\ obscore \subseteq obscore' /\ Moves({})
      /\ obscore' \subseteq UNION {Wanted(u) : u \in Visits}
  BY JobStays DEF Configure, IInv, ExportTypeOK, OnlyRegisteredExported
<1> HIDE DEF r
<1> QED
  BY <1>2, <1>3, <1>4, <1>5, NextKeeps

LEMMA ExportKeeps ==
  ASSUME IInv, NEW n \in Runs, Export(n) PROVE IInv'
<1> DEFINE r == [run[n] EXCEPT !.pc = "upsert", !.records = config[n] \cap butler]
<1>1. run[n] \in Run /\ RunInv(n) /\ run[n].pc = "export"
  BY DEF IInv, ExportTypeOK, Export, At
<1>2. /\ r \in Run /\ r.pc = "upsert" /\ r.visit = run[n].visit
      /\ r.records = config[n] \cap butler
  BY <1>1 DEF Run, IInv, ExportTypeOK
<1>3. run' = [run EXCEPT ![n] = r]
  BY DEF Export, ExporterConfigOf, CopyOf
<1>4. /\ r.visit \in Visits /\ Exists(r.visit) /\ Wanted(r.visit) # {}
      /\ r.records \subseteq Wanted(r.visit)
      /\ Wanted(r.visit) \cap known[r.visit] \subseteq r.records
  BY <1>1, <1>2 DEF RunInv, At, Visit, IInv, VisitInv
<1>5. config' = [config EXCEPT ![n] = config[n]] /\ config[n] \in SUBSET Datasets
  BY DEF IInv, ExportTypeOK, Export
<1>6. /\ UNCHANGED Given /\ obscore \subseteq obscore' /\ Moves({})
      /\ obscore' \subseteq UNION {Wanted(u) : u \in Visits}
  BY JobStays DEF Export, IInv, ExportTypeOK, OnlyRegisteredExported
<1> HIDE DEF r
<1> QED
  BY <1>2, <1>3, <1>4, <1>5, <1>6, NextKeeps

LEMMA UpsertKeeps ==
  ASSUME IInv, NEW n \in Runs, Upsert(n) PROVE IInv'
<1> DEFINE r == [run[n] EXCEPT !.pc = "mark_completed"]
<1>1. run[n] \in Run /\ RunInv(n) /\ run[n].pc = "upsert"
  BY DEF IInv, ExportTypeOK, Upsert, At
<1>2. r \in Run /\ r.pc = "mark_completed" /\ r.visit = run[n].visit
  BY <1>1 DEF Run
<1>3. run' = [run EXCEPT ![n] = r]
  BY DEF Upsert, Go
<1>4. /\ r.visit \in Visits /\ Exists(r.visit) /\ Wanted(r.visit) # {}
      /\ run[n].records \subseteq Wanted(r.visit)
      /\ Wanted(r.visit) \cap known[r.visit] \subseteq run[n].records
  BY <1>1, <1>2 DEF RunInv, At, Visit
<1>5. obscore' = obscore \cup run[n].records
  BY DEF Upsert
<1>6. obscore' \subseteq UNION {Wanted(u) : u \in Visits}
  BY <1>4, <1>5 DEF IInv, OnlyRegisteredExported
<1>7. config' = [config EXCEPT ![n] = config[n]] /\ config[n] \in SUBSET Datasets
  BY DEF IInv, ExportTypeOK, Upsert
<1>8. UNCHANGED Given /\ obscore \subseteq obscore' /\ Moves({})
      /\ Wanted(r.visit) \cap known[r.visit] \subseteq obscore'
  BY <1>4, <1>5, JobStays DEF Upsert, IInv, ExportTypeOK
<1> HIDE DEF r
<1> QED
  BY <1>2, <1>3, <1>4, <1>6, <1>7, <1>8, NextKeeps

\* The one step that completes a visit: its datasets have been written before.
LEMMA RunMarkCompletedKeeps ==
  ASSUME IInv, NEW n \in Runs, RunMarkCompleted(n) PROVE IInv'
<1> DEFINE v == Visit(n)
<1>1. /\ At(n, "mark_completed") /\ v \in Visits /\ Exists(v) /\ Wanted(v) # {}
      /\ Wanted(v) \cap known[v] \subseteq obscore
  BY DEF RunMarkCompleted, IInv, RunInv, At
<1>2. Moves({v})
  BY <1>1, MarkCompletedMoves DEF RunMarkCompleted, IInv, ExportTypeOK
<1>3. UNCHANGED <<Given, obscore>>
  BY DEF RunMarkCompleted
<1>4. CASE Rejects("mark_completed", v)
  <2>1. UNCHANGED job
    BY <1>1, <1>4, AllowedPhases DEF RunMarkCompleted, MarkCompleted, Transition, Rejects
  <2>2. Moves({})
    BY <2>1, JobStays DEF IInv, ExportTypeOK
  <2>3. "InvalidTransition" \in ErrorCodes
    BY DEF ErrorCodes
  <2>4. Fail(n, "InvalidTransition") /\ UNCHANGED config
    BY <1>4 DEF RunMarkCompleted
  <2> QED
    BY <1>1, <1>3, <2>2, <2>3, <2>4, FailKeeps DEF At
<1>5. CASE ~Rejects("mark_completed", v)
  <2>1. Over(n)
    BY <1>5 DEF RunMarkCompleted
  <2>2. Harmless
    BY <1>2, <1>3 DEF Harmless, Moves, Given
  <2>3. ASSUME NEW m \in Runs PROVE RunInv(m)'
    <3>1. CASE m = n
      <4>1. run'[n] = NoRun
        BY <2>1 DEF Over, IInv, ExportTypeOK
      <4> QED
        BY <3>1, <4>1, NoRunIsRun DEF RunInv, At
    <3>2. CASE m # n
      <4>1. run'[m] = run[m] /\ config'[m] = config[m]
        BY <2>1, <3>2 DEF Over, IInv, ExportTypeOK
      <4> QED
        BY <2>2, <4>1, RunFrame DEF IInv
    <3> QED
      BY <3>1, <3>2
  <2>4. ASSUME NEW u \in Visits PROVE VisitInv(u)'
    <3>1. CASE u = v
      BY <1>1, <1>2, <1>3, <3>1 DEF VisitInv, IInv, Moves, Given, Wanted
    <3>2. CASE u # v
      BY <1>2, <1>3, <2>2, <3>2, VisitFrame DEF Moves, Given, IInv
    <3> QED
      BY <3>1, <3>2
  <2>5. ExportTypeOK'
    BY <1>2, <1>3, <2>1, NoRunIsRun DEF IInv, ExportTypeOK, Moves, Given, Over
  <2>6. OnlyRegisteredExported'
    BY <1>3 DEF IInv, OnlyRegisteredExported, Wanted, Given
  <2> QED
    BY <2>3, <2>4, <2>5, <2>6 DEF IInv
<1> QED
  BY <1>4, <1>5

LEMMA RunMarkFailedKeeps ==
  ASSUME IInv, NEW n \in Runs, RunMarkFailed(n) PROVE IInv'
<1>1. Visit(n) \in Visits /\ Exists(Visit(n)) /\ run[n].code \in ErrorCodes
  BY DEF RunMarkFailed, IInv, RunInv, At
<1>2. Moves({})
  BY <1>1, MarkFailedMoves DEF RunMarkFailed, IInv, ExportTypeOK
<1> QED
  BY <1>2, OverKeeps DEF RunMarkFailed

LEMMA StoppedKeeps ==
  ASSUME IInv, NEW n \in Runs, NothingWanted(n) \/ Raises(n) \/ Dies(n) PROVE IInv'
<1>1. Moves({}) /\ UNCHANGED <<Given, obscore>>
  BY JobStays DEF NothingWanted, Raises, Dies, IInv, ExportTypeOK
<1>2. CASE Dies(n)
  BY <1>1, <1>2, OverKeeps DEF Dies
<1>3. CASE NothingWanted(n) \/ Raises(n)
  <2>1. "EnrichmentFailure" \in ErrorCodes
    BY DEF ErrorCodes
  <2>2. ~At(n, "idle") /\ Fail(n, "EnrichmentFailure") /\ UNCHANGED config
    BY <1>3 DEF NothingWanted, Raises, At
  <2> QED
    BY <1>1, <2>1, <2>2, FailKeeps
<1> QED
  BY <1>2, <1>3
-----------------------------------------------------------------------------
LEMMA InductiveStep == IInv /\ [ExportNext]_evars => IInv'
<1> SUFFICES ASSUME IInv, [ExportNext]_evars PROVE IInv'
  OBVIOUS
<1>1. CASE UNCHANGED evars
  BY <1>1 DEF evars, IInv, ExportTypeOK, StoreTypeOK, RunInv, VisitInv, At, Visit, Wanted,
              IsCompleted, Exists, OnlyRegisteredExported
<1>2. ASSUME NEW n \in Runs, RunStep(n) PROVE IInv'
  BY <1>2, ConfigureKeeps, ExportKeeps, UpsertKeeps, RunMarkCompletedKeeps,
     RunMarkFailedKeeps, StoppedKeeps DEF RunStep
<1> QED
  BY <1>1, <1>2, PutKeeps, RegisterKeeps, StartKeeps DEF ExportNext

LEMMA InitialStep == ExportInit => IInv
<1> SUFFICES ASSUME ExportInit PROVE IInv
  OBVIOUS
<1>1. ExportTypeOK
  <2>1. config \in [Runs \cup {Shared} -> SUBSET Datasets]
    BY ExportAssumption DEF ExportInit
  <2> QED
    BY <2>1, NoRunIsRun DEF ExportInit, ExportTypeOK, StoreInit, StoreTypeOK
<1>2. \A n \in Runs : RunInv(n)
  BY NoRunIsRun DEF ExportInit, RunInv, At
<1>3. \A v \in Visits : VisitInv(v)
  BY DEF ExportInit, StoreInit, VisitInv, IsCompleted, Exists
<1> QED
  BY <1>1, <1>2, <1>3 DEF IInv, OnlyRegisteredExported, ExportInit

LEMMA ExportInvariant == ExportSpec => []IInv
  BY InitialStep, InductiveStep, PTL DEF ExportSpec

(* For any visits, datasets, payloads and runs, however they interleave, fail *)
(* and are repeated, a COMPLETED visit has the records of its datasets.       *)
THEOREM CompletedVisitsAreExported == ExportSpec => []CompletedIsExported
<1>1. IInv => CompletedIsExported
  BY DEF IInv, VisitInv, IsCompleted, CompletedIsExported
<1> QED
  BY <1>1, ExportInvariant, PTL

(* Whatever the Butler holds and the runs do at the same time, a record in   *)
(* the table is that of a dataset some registration listed.                  *)
THEOREM OnlyRegisteredAreExported == ExportSpec => []OnlyRegisteredExported
<1>1. IInv => OnlyRegisteredExported
  BY DEF IInv
<1> QED
  BY <1>1, ExportInvariant, PTL
-----------------------------------------------------------------------------
(* The refinement.  The runs use the table only through the transactions of  *)
(* the store, so its rows are consistent; the store says which step of the   *)
(* ledger a transaction is, and the invariant what is in the catalogue.      *)

\* Registering may only add to the catalogue, a run's Upsert too; the step that
\* completes a visit leaves alone what it is computed from.
LEMMA ExportKinds ==
  ASSUME IInv, [ExportNext]_evars
  PROVE  \/ /\ StoreNext /\ UNCHANGED <<payload, known, obscore>>
         \/ UNCHANGED <<job, payload, known>> /\ obscore \subseteq obscore'
         \/ /\ UNCHANGED obscore
            /\ \E v \in Visits : \E datasets \in Payloads : Register(v, datasets)
<1>1. ASSUME NEW n \in Runs, RunMarkCompleted(n) \/ RunMarkFailed(n)
      PROVE  StoreNext /\ UNCHANGED <<payload, known, obscore>>
  <2>1. ~At(n, "idle") /\ (At(n, "mark_failed") => run[n].code \in ErrorCodes)
    BY <1>1 DEF RunMarkCompleted, RunMarkFailed, At, IInv, RunInv
  <2>2. Visit(n) \in Visits /\ Exists(Visit(n))
    BY <2>1 DEF IInv, RunInv
  <2> QED
    BY <1>1, <2>1, <2>2 DEF RunMarkCompleted, RunMarkFailed, StoreNext, Given
<1>2. ASSUME NEW n \in Runs, NEW v \in Visits, Start(n, v)
      PROVE  StoreNext /\ UNCHANGED <<payload, known, obscore>>
  BY <1>2 DEF Start, StoreNext, Given
<1>3. ASSUME NEW n \in Runs, \/ NothingWanted(n) \/ Configure(n) \/ Export(n)
                             \/ Upsert(n) \/ Raises(n) \/ Dies(n)
      PROVE  UNCHANGED <<job, payload, known>> /\ obscore \subseteq obscore'
  BY <1>3 DEF NothingWanted, Configure, Export, Upsert, Raises, Dies, Given
<1>4. ASSUME NEW d \in Matching, Put(d)
      PROVE  UNCHANGED <<job, payload, known>> /\ obscore \subseteq obscore'
  BY <1>4 DEF Put
<1>5. ASSUME NEW v \in Visits, NEW datasets \in Payloads, Register(v, datasets)
      PROVE  UNCHANGED obscore
  BY <1>5 DEF Register
<1>6. CASE UNCHANGED evars
  BY <1>6 DEF evars
<1> QED
  BY <1>1, <1>2, <1>3, <1>4, <1>5, <1>6 DEF ExportNext, RunStep

LEMMA ExportIsStoreStep == IInv /\ [ExportNext]_evars => [StoreNext]_job
BY ExportKinds DEF Register, StoreNext

(* The registrations and the runs use the enrichment_job table only through  *)
(* the transactions of the store.                                            *)
THEOREM ExportsUseTheStore == ExportSpec => StoreSpec
<1>1. ExportInit => StoreInit
  BY DEF ExportInit
<1> QED
  BY <1>1, ExportIsStoreStep, ExportInvariant, PTL DEF ExportSpec, StoreSpec

LEMMA CataloguedStays ==
  ASSUME IInv, [ExportNext]_evars
  PROVE  Catalogued \subseteq Catalogued'
<1>1. Harmless
  <2>1. CASE UNCHANGED <<job, payload, known>> /\ obscore \subseteq obscore'
    BY <2>1 DEF Harmless, Exists
  <2>2. CASE StoreNext /\ UNCHANGED <<payload, known, obscore>>
    <3>1. \A v \in Visits : job[v] \in Row => job'[v] \in Row
      <4>1. StoreTypeOK' /\ \A v \in Visits : RowStep(job[v], job'[v])
        BY <2>2, StoreStepEffect DEF IInv, ExportTypeOK
      <4> QED
        BY <4>1, RowStepStays
    <3> QED
      BY <2>2, <3>1, NoRowAssumption DEF Harmless, Exists, IInv, ExportTypeOK, StoreTypeOK
  <2>3. ASSUME NEW v \in Visits, NEW datasets \in Payloads, Register(v, datasets)
        PROVE  Harmless
    <3>1. Moves({})
      BY <2>3, AddOrGetMoves DEF IInv, ExportTypeOK, Register
    <3>2. \A u \in Visits : Exists(u) => payload'[u] = payload[u] /\ known'[u] = known[u]
      BY <2>3 DEF IInv, ExportTypeOK, Register
    <3> QED
      BY <2>3, <3>1, <3>2 DEF Harmless, Moves, Register
  <2> QED
    BY <2>1, <2>2, <2>3, ExportKinds
<1> QED
  BY <1>1 DEF Harmless, Catalogued, Wanted, Exists

LEMMA ExportStepImplements ==
  IInv /\ IInv' /\ StoreInv /\ StoreInv' /\ [ExportNext]_evars =>
    [Ledger!Next]_<<Account, Catalogued>>
<1> SUFFICES ASSUME IInv, IInv', StoreInv, StoreInv', [ExportNext]_evars
             PROVE  Ledger!Next
  OBVIOUS
<1>1. Ledger!CatalogueGrows
  <2>1. ASSUME NEW v \in Catalogued'
        PROVE  v \in Visits /\ Account'[v].status # "absent"
    <3>1. v \in Visits /\ job'[v] \in Row
      BY <2>1 DEF Catalogued, Exists, IInv, ExportTypeOK, StoreTypeOK
    <3> QED
      BY <3>1, RowEntry DEF Account
  <2> QED
    BY <2>1, CataloguedStays DEF Ledger!CatalogueGrows
<1>2. CASE UNCHANGED Account
  BY <1>1, <1>2 DEF Ledger!Next, Ledger!Publish
<1>3. ASSUME NEW v \in Visits,
             Account' = [Account EXCEPT ![v] = EntryOf(job'[v])],
             Account[v] = EntryOf(job[v]), EntryStep(job[v], job'[v])
      PROVE  Ledger!Next
  <2>1. ASSUME NEW from, NEW to, EntryOf(job[v]).status \in from, EntryOf(job'[v]) = to
        PROVE  Ledger!Move(v, from, to)
    BY <1>1, <1>3, <2>1 DEF Ledger!Move
  <2>2. CASE EntryOf(job'[v]) = EntryOf(job[v])
    <3>1. UNCHANGED Account
      BY <1>3, <2>2 DEF Account
    <3> QED
      BY <1>2, <3>1
  <2>3. CASE /\ EntryOf(job[v]).status \in {"absent", "failed"}
             /\ EntryOf(job'[v]) = AnEntry("waiting", None)
    <3>1. Ledger!Accept(v) \/ Ledger!Reopen(v)
      BY <2>1, <2>3 DEF Ledger!Accept, Ledger!Reopen, Ledger!Entry, AnEntry
    <3> QED
      BY <3>1 DEF Ledger!Next
  <2>4. CASE /\ EntryOf(job[v]).status = "waiting"
             /\ EntryOf(job'[v]) = AnEntry("working", None)
    <3>1. Ledger!Begin(v)
      BY <2>1, <2>4 DEF Ledger!Begin, Ledger!Entry, AnEntry
    <3> QED
      BY <3>1 DEF Ledger!Next
  <2>5. CASE /\ EntryOf(job[v]).status = "working" /\ EntryOf(job'[v]) = AnEntry("done", None)
             /\ job[v] \in Row /\ job'[v] \in Row
             /\ job[v].phase = "EXECUTING" /\ job'[v].phase = "COMPLETED"
    <3>1. IsCompleted(v)' /\ ~IsCompleted(v) /\ Exists(v)
      BY <2>5, NoRowAssumption DEF IsCompleted, Exists
    <3>2. (Wanted(v) # {} /\ Wanted(v) \cap known[v] \subseteq obscore)'
      BY <3>1 DEF IInv, VisitInv
    <3>3. UNCHANGED <<payload, known, obscore>>
      <4>1. job' # job
        BY <3>1 DEF IsCompleted, Exists
      <4>2. ASSUME NEW u \in Visits, NEW datasets \in Payloads, Register(u, datasets)
            PROVE  FALSE
        <5>1. Moves({})
          BY <4>2, AddOrGetMoves DEF IInv, ExportTypeOK, Register
        <5> QED
          BY <3>1, <5>1 DEF Moves
      <4> QED
        BY <4>1, <4>2, ExportKinds
    <3>4. v \in Catalogued
      BY <3>1, <3>2, <3>3 DEF Catalogued, Wanted
    <3>5. Ledger!Finish(v)
      BY <2>1, <2>5, <3>4 DEF Ledger!Finish, Ledger!Entry, AnEntry
    <3> QED
      BY <3>5 DEF Ledger!Next
  <2>6. ASSUME EntryOf(job[v]).status \in {"waiting", "working"},
               NEW code \in ErrorCodes, EntryOf(job'[v]) = AnEntry("failed", code)
        PROVE  Ledger!Next
    <3>1. Ledger!Fail(v, code)
      BY <2>1, <2>6 DEF Ledger!Fail, Ledger!Entry, AnEntry
    <3> QED
      BY <3>1 DEF Ledger!Next
  <2> QED
    BY <1>3, <2>2, <2>3, <2>4, <2>5, <2>6 DEF EntryStep
<1>4. [StoreNext]_job
  BY ExportIsStoreStep
<1> QED
  BY <1>2, <1>3, <1>4, StoreStepEntry

(* For any visits, datasets, payloads and runs, the exports implement the    *)
(* ledger: what they complete is in the catalogue before, with each of its   *)
(* known datasets, and nothing leaves the catalogue.                         *)
THEOREM LedgerImplementedByExports == ExportSpec => ExportsImplementLedger
<1>1. ExportInit => Ledger!Init
  BY DEF ExportInit, StoreInit, Ledger!Init, Ledger!Entry, Account, EntryOf, Catalogued, Exists
<1>2. IInv /\ IInv' /\ StoreInv /\ StoreInv' /\ [ExportNext]_evars =>
        [Ledger!Next]_<<Account, Catalogued>>
  BY ExportStepImplements
<1>3. ExportSpec => []StoreInv
  BY ExportsUseTheStore, StoreInvInit, StoreInvStep, PTL DEF StoreSpec
<1> QED
  BY <1>1, <1>2, <1>3, ExportInvariant, PTL
  DEF ExportSpec, ExportsImplementLedger, Ledger!Spec
=============================================================================
