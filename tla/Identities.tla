----------------------------- MODULE Identities -----------------------------
(***************************************************************************)
(* The names the processes of ObsForge share: the database row, the arq    *)
(* job and the requests all refer to a visit or to an arq job by one.      *)
(***************************************************************************)

CONSTANTS Visits,  \* the (instrument, visit) pairs that may be registered
          ArqIds,  \* identities arq may give to its jobs
          None     \* Python's None, SQL's NULL

ASSUME IdentitiesAssumption == None \notin Visits \cup ArqIds
=============================================================================
