---------------------------- MODULE ObsCoreTable ----------------------------
(***************************************************************************)
(* The ObsCore table (src/obsforge/schema/obscore.py): at most one row for *)
(* each obs_id, its primary key.  The columns beside the key are always    *)
(* written together, so a record is an obs_id and a content.               *)
(***************************************************************************)
EXTENDS Naturals, Sequences

CONSTANTS ObsIds,    \* the values of obs_id
          Contents,  \* the values of all the other columns of a row
          MaxBatch,  \* bound: records in one call
          NoRecord   \* the table has no row for the obs_id

ASSUME TableAssumption == NoRecord \notin Contents /\ MaxBatch \in Nat

Table == [ObsIds -> Contents \cup {NoRecord}]

EmptyTable == [id \in ObsIds |-> NoRecord]

ObsCoreUpsert == [obs_id : ObsIds, content : Contents]

Batches == UNION {[1 .. n -> ObsCoreUpsert] : n \in 0 .. MaxBatch}

IdsOf(batch) == {batch[i].obs_id : i \in DOMAIN batch}

\* upsert_many refuses such a batch.
HasDuplicates(batch) ==
  \E i, j \in DOMAIN batch : i # j /\ batch[i].obs_id = batch[j].obs_id

ContentIn(batch, id) ==
  batch[CHOOSE i \in DOMAIN batch : batch[i].obs_id = id].content

\* INSERT ... ON CONFLICT (obs_id) DO UPDATE of every other column.
Upserted(table, batch) ==
  [id \in ObsIds |-> IF id \in IdsOf(batch) THEN ContentIn(batch, id)
                                            ELSE table[id]]
=============================================================================
