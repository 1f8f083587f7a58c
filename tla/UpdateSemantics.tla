-------------------------- MODULE UpdateSemantics ---------------------------
(***************************************************************************)
(* The reference meaning of an update request: SPARQL 1.1 Update's effect  *)
(* of each operation on the whole store, and of a request as its           *)
(* operations in order.  UpdateRequests is compared with it: the base of   *)
(* each behaviour is remembered, and so is where a request was when its    *)
(* signal fired.                                                           *)
(***************************************************************************)
EXTENDS UpdateRequests, SequencesExt

VARIABLES
  base,    \* the contents the store started with
  firedAt  \* the operation a request was in when its signal fired, 0 before

history == <<base, firedAt>>

InitWithHistory ==
  /\ Init
  /\ base = store
  /\ firedAt = [r \in Requests |-> 0]

NextWithHistory ==
  /\ Next
  /\ firedAt' = [r \in Requests |->
       IF aborted'[r] /\ ~aborted[r] THEN at[r] ELSE firedAt[r]]
  /\ UNCHANGED base

SpecWithHistory == InitWithHistory /\ [][NextWithHistory]_<<vars, history>>

OfGraphs(quads, gs) == {q \in quads : q.graph \in gs}

(* One operation; a minted blank node is named by count, the labels used   *)
(* so far.  A failing LOAD SILENT is not an effect, so LOAD is left out.   *)
Effect(op, quads, count) ==
  LET bindings == OfGraphs(quads, op.from)
      matched == {b.term : b \in bindings}
      labels == count .. (count + Cardinality(bindings) - 1)
  IN CASE op.kind = "insert" -> quads \cup op.quads \cup {Minted(count, g) : g \in op.fresh}
       [] op.kind = "delete" -> quads \ op.quads
       [] op.kind = "clear"  -> quads \ OfGraphs(quads, op.from)
       [] op.kind = "add"    -> quads \cup Into(OfGraphs(quads, op.from), op.to)
       [] op.kind = "copy"   ->
            (quads \ OfGraphs(quads, {op.to})) \cup Into(OfGraphs(quads, op.from), op.to)
       [] op.kind = "move"   ->
            IF op.from = {op.to} THEN quads
            ELSE ((quads \ OfGraphs(quads, {op.to})) \ OfGraphs(quads, op.from))
                   \cup Into(OfGraphs(quads, op.from), op.to)
       [] op.kind \in {"deletewhere", "insertdelete"} ->
            {q \in quads : ~(q.graph \in ToSet(op.del) /\ q.term \in matched)}
              \cup (IF op.to = None THEN {}
                    ELSE {[term |-> t, graph |-> op.to] : t \in matched}
                           \cup (IF op.fresh = {} THEN {}
                                 ELSE {Minted(n, op.to) : n \in labels}))
       [] OTHER -> quads

Labels(op, quads) ==
  IF op.fresh = {} THEN 0
  ELSE IF op.kind = "insert" THEN 1
  ELSE Cardinality(OfGraphs(quads, op.from))

Then(done, op) == <<Effect(op, done[1], done[2]), done[2] + Labels(op, done[1])>>

(* The store and the labels used after each prefix of a sequence of        *)
(* operations, and the store after all of them.                            *)
Stages(ops, quads) ==
  LET after[i \in 0 .. Len(ops)] ==
        IF i = 0 THEN <<quads, 0>> ELSE Then(after[i - 1], ops[i])
  IN after

Meaning(ops, quads) == Stages(ops, quads)[Len(ops)][1]

Succeeded(r) == client[r] = "resolved"

(* A request that succeeds leaves the store exactly as the SPARQL meaning  *)
(* of its operations, each applied to the result of the one before         *)
(* (executeUpdate's loop and applyOperation).                              *)
MatchesSparqlMeaning ==
  \A r \in Requests : Succeeded(r) => store = Meaning(script[r], base)

(* What an operation has done when it stops before a DELETE template: the  *)
(* deletions of the templates before it, and no insertion.                 *)
StoppedIn(op, k) == [op EXCEPT !.del = SubSeq(@, 1, k), !.to = None]

(* A cancelled request begins no further operation and, in the one it was  *)
(* in, no further DELETE template: without a transaction the store holds   *)
(* the operations before, and that operation whole or cut at a template    *)
(* ("an aborted request stops at the next boundary", abort.ts).            *)
CancelledStopsAtBoundary ==
  \A r \in Requests : LET ops == script[r]
                          n == firedAt[r] IN
    (phase[r] = "done" /\ n # 0) =>
      \/ store = Meaning(SubSeq(ops, 1, n - 1), base)
      \/ n <= Len(ops) /\ store = Meaning(SubSeq(ops, 1, n), base)
      \/ /\ n <= Len(ops) /\ ops[n].kind \in {"insertdelete", "deletewhere"}
         /\ \E k \in 0 .. Len(ops[n].del) :
              store = Meaning(Append(SubSeq(ops, 1, n - 1), StoppedIn(ops[n], k)), base)
=============================================================================
