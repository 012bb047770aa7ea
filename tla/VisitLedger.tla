---------------------------- MODULE VisitLedger -----------------------------
(***************************************************************************)
(* What ObsForge promises about a registered visit, with no queue, worker, *)
(* request or failure of any of them in sight: a visit is accepted once,   *)
(* is worked on, and ends done or failed.  Done is final, and a visit is   *)
(* done only when its records are in the catalogue.  Failed keeps the one  *)
(* error it was given until the visit is registered again.                 *)
(*                                                                         *)
(* Visits may share datasets: one write may catalogue several of them, and *)
(* a visit may find all of its records in the catalogue when it is         *)
(* accepted.  Nothing leaves the catalogue.                                *)
(***************************************************************************)

CONSTANTS Visits, Errors, None

VARIABLES account,     \* the status of each visit, and its error
          catalogued   \* the visits whose records can be queried

Entry(status, error) == [status |-> status, error |-> error]

Init ==
  /\ account = [v \in Visits |-> Entry("absent", None)]
  /\ catalogued = {}

\* Only what is in the ledger is in the catalogue, and stays there.
CatalogueGrows ==
  /\ catalogued \subseteq catalogued'
  /\ \A v \in catalogued' : v \in Visits /\ account'[v].status # "absent"

Move(v, from, to) ==
  /\ account[v].status \in from
  /\ account' = [account EXCEPT ![v] = to]
  /\ CatalogueGrows

Accept(v) == Move(v, {"absent"}, Entry("waiting", None))
Reopen(v) == Move(v, {"failed"}, Entry("waiting", None))
Begin(v)  == Move(v, {"waiting"}, Entry("working", None))
Finish(v) == v \in catalogued /\ Move(v, {"working"}, Entry("done", None))
Fail(v, e) == Move(v, {"waiting", "working"}, Entry("failed", e))

Publish == CatalogueGrows /\ UNCHANGED account

Next ==
  \/ Publish
  \/ \E v \in Visits :
       \/ Accept(v) \/ Reopen(v) \/ Begin(v) \/ Finish(v)
       \/ \E e \in Errors : Fail(v, e)

Spec == Init /\ [][Next]_<<account, catalogued>>
=============================================================================
