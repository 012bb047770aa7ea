------------------------------ MODULE MCObsCore ------------------------------
(***************************************************************************)
(* ObsCoreTransactions for TLC: every batch of at most two records, except *)
(* that the records of one batch have the same content, which tells whose  *)
(* batch a row comes from.                                                 *)
(***************************************************************************)
EXTENDS ObsCoreTransactions

UniformBatches ==
  {batch \in Batches :
     \A i, j \in DOMAIN batch : batch[i].content = batch[j].content}
=============================================================================
