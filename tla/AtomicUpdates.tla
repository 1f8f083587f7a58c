---------------------------- MODULE AtomicUpdates ---------------------------
(***************************************************************************)
(* What createTransaction promises of update requests: the store takes     *)
(* the whole effect of a request in one step, once, or none of it; the     *)
(* effect stays in the graphs the request writes to; and a caller is told  *)
(* of success only after the effect.  A caller told of a failure learns    *)
(* nothing: the effect may still come.                                     *)
(***************************************************************************)
CONSTANTS Requests, Quads, Graphs

VARIABLES
  store,
  fate,      \* whether a request took effect
  told,      \* what its caller has been told
  writable   \* the graphs it may write to

vars == <<store, fate, told, writable>>

Init ==
  /\ store \in SUBSET Quads
  /\ writable \in [Requests -> SUBSET Graphs]
  /\ fate = [r \in Requests |-> "undecided"]
  /\ told = [r \in Requests |-> "nothing"]

OutsideOf(gs, quads) == {q \in quads : q.graph \notin gs}

TakeEffect(r) ==
  /\ fate[r] = "undecided"
  /\ store' \in SUBSET Quads
  /\ OutsideOf(writable[r], store') = OutsideOf(writable[r], store)
  /\ fate' = [fate EXCEPT ![r] = "applied"]
  /\ UNCHANGED <<told, writable>>

ReportSuccess(r) ==
  /\ fate[r] = "applied" /\ told[r] = "nothing"
  /\ told' = [told EXCEPT ![r] = "success"]
  /\ UNCHANGED <<store, fate, writable>>

(* Requests are dropped, callers are told of a failure: one request that   *)
(* fails, a caller whose wait ends, or everything a restart interrupts.    *)
GiveUp(dropped, failed) ==
  /\ \A r \in dropped : fate[r] = "undecided"
  /\ \A r \in failed : told[r] = "nothing"
  /\ fate' = [r \in Requests |-> IF r \in dropped THEN "dropped" ELSE fate[r]]
  /\ told' = [r \in Requests |-> IF r \in failed THEN "failure" ELSE told[r]]
  /\ UNCHANGED <<store, writable>>

Next ==
  \/ \E r \in Requests : TakeEffect(r) \/ ReportSuccess(r)
  \/ \E dropped, failed \in SUBSET Requests : GiveUp(dropped, failed)

Spec == Init /\ [][Next]_vars
=============================================================================
