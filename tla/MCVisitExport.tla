--------------------------- MODULE MCVisitExport ----------------------------
(***************************************************************************)
(* VisitExport for TLC.  The run slots of a worker are interchangeable.    *)
(***************************************************************************)
EXTENDS VisitExport, TLC

RunSymmetry == Permutations(Runs)
=============================================================================
