----------------------------- MODULE MCObsForge -----------------------------
(***************************************************************************)
(* ObsForge for TLC.  The arq job ids and the request slots are            *)
(* interchangeable; the runs of safety properties use that.                *)
(***************************************************************************)
EXTENDS ObsForge, TLC

Symmetry == Permutations(ArqIds) \cup Permutations(Requests)
=============================================================================
