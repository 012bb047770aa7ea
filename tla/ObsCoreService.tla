--------------------------- MODULE ObsCoreService ---------------------------
(***************************************************************************)
(* What ObsCoreService (src/obsforge/services/obscore.py) promises its     *)
(* callers, with no transaction, lock, conflict or retry in sight.  A call *)
(* of upsert_many with an answer of "rows" has written its whole batch in  *)
(* one instant, the last one of the call; one with duplicates has written  *)
(* nothing; one that fails may have written its whole batch, more than     *)
(* once even, but never a part of it.  upsert is upsert_many of one record *)
(* and get_by_obs_id reads the table between any two of these instants.    *)
(***************************************************************************)
EXTENDS ObsCoreTable

CONSTANTS Sessions,  \* the callers
          NoBatch,   \* the caller is not in a call
          Unanswered \* the call has no answer yet

VARIABLES records, call

\* What a call says at its end.
Answers == {"rows", "duplicates", "failed"}

NoCall == [batch |-> NoBatch, answer |-> Unanswered]

Init == records = EmptyTable /\ call = [c \in Sessions |-> NoCall]

IsOpen(c) == call[c].batch # NoBatch /\ call[c].answer = Unanswered

Call(c, batch) ==
  /\ call[c] = NoCall
  /\ call' = [call EXCEPT ![c] = [batch |-> batch, answer |-> Unanswered]]
  /\ UNCHANGED records

\* The batch is written; whether the caller hears of it is another matter.
Apply(c, answer) ==
  /\ IsOpen(c)
  /\ call[c].batch # <<>>
  /\ ~HasDuplicates(call[c].batch)
  /\ answer \in {"rows", "failed", Unanswered}
  /\ records' = Upserted(records, call[c].batch)
  /\ call' = [call EXCEPT ![c].answer = answer]

Answer(c, answer) ==
  /\ IsOpen(c)
  /\ \/ answer = "rows" /\ call[c].batch = <<>>
     \/ answer = "duplicates" /\ HasDuplicates(call[c].batch)
     \/ answer = "failed" /\ call[c].batch # <<>> /\ ~HasDuplicates(call[c].batch)
  /\ call' = [call EXCEPT ![c].answer = answer]
  /\ UNCHANGED records

Return(c) ==
  /\ call[c].answer # Unanswered
  /\ call' = [call EXCEPT ![c] = NoCall]
  /\ UNCHANGED records

Next == \E c \in Sessions :
  \/ \E batch \in Batches : Call(c, batch)
  \/ \E answer \in Answers \cup {Unanswered} : Apply(c, answer) \/ Answer(c, answer)
  \/ Return(c)

Spec == Init /\ [][Next]_<<records, call>>
=============================================================================
