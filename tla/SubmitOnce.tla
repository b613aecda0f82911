----------------------------- MODULE SubmitOnce -----------------------------
(***************************************************************************)
(* What an import hand-over promises (the comments at                      *)
(* pompey_imports.py:108-112 and media_policy.py:168-173): one request for *)
(* an item after its intent is on record, no second one while that record  *)
(* stands, and no record that completes or goes while a request may be at  *)
(* work.  How torrents are listed, native commands polled, receipts kept   *)
(* in memory and passes aborted is left to the modules that implement it.  *)
(***************************************************************************)
CONSTANT Items

VARIABLES
  record,  \* phase of each item's receipt on disk
  permit,  \* items whose intent is fresh: their request may leave, once
  live     \* items with a request that may still be at work

vars == <<record, permit, live>>

Phases == {"none", "submitting", "submitted", "review", "complete"}

Init ==
  /\ record = [i \in Items |-> "none"]
  /\ permit = {} /\ live = {}

Quiet(i) == i \notin permit \cup live

\* An intent starts a record and an acknowledgement confirms it; it is settled
\* when nothing is at work or, once confirmed, given up to review; only a record
\* that was confirmed or settled is dropped.
Move(i, old, new) ==
  \/ old = "none" /\ new = "submitting" /\ i \notin live
  \/ old = "submitting" /\ new = "submitted" /\ i \notin permit
  \/ old = "submitted" /\ new = "review"
  \/ old \in {"submitting", "submitted", "review"} /\ new = "complete" /\ Quiet(i)
  \/ old \in {"submitted", "review", "complete"} /\ new = "none" /\ Quiet(i)

Save ==
  /\ record' \in [Items -> Phases]
  /\ \A i \in Items : record'[i] # record[i] => Move(i, record[i], record'[i])
  /\ permit' = permit \cup
                 {i \in Items : record[i] = "none" /\ record'[i] = "submitting"}
  /\ UNCHANGED live

Send(i) ==
  /\ i \in permit
  /\ permit' = permit \ {i} /\ live' = live \cup {i}
  /\ UNCHANGED record

End(i) ==
  /\ live' = live \ {i}
  /\ UNCHANGED <<record, permit>>

\* Permits are in memory: the process that held them is gone.
Die ==
  /\ permit' = {}
  /\ UNCHANGED <<record, live>>

Next == Save \/ Die \/ \E i \in Items : Send(i) \/ End(i)

Spec == Init /\ [][Next]_vars
=============================================================================
