--------------------------- MODULE UpdateRequests ---------------------------
(***************************************************************************)
(* The update path: WazooSparqlEngine.execute racing an update request     *)
(* against its timeout and its caller's abort signal, and                  *)
(* UpdateEvaluator.executeUpdate applying the request's operations in      *)
(* order, either straight to a MemoryStore or through one transaction.     *)
(*                                                                         *)
(* The program is single threaded: a step below is the code between two    *)
(* awaits, and requests interleave at the awaits.  A quad is a term (all   *)
(* of subject, predicate and object) in a graph; a term is a constant of   *)
(* the data or a term built on a blank node minted by this evaluator.      *)
(* The transaction object and a durable store are the host's, so commit,   *)
(* rollback and read failures are modelled from the contract the code      *)
(* relies on.                                                              *)
(***************************************************************************)
EXTENDS Naturals, Sequences, FiniteSets

CONSTANTS
  Requests,       \* execute() calls
  Triples,        \* constant triples of the data
  Graphs,         \* graph names, the default graph among them
  DefaultGraph,
  None,           \* "no graph": an absent INSERT template or INTO clause
  VariableGraph,  \* an INSERT template written under GRAPH ?g
  Scripts,        \* the operation sequences a request may carry
  InitStores,     \* the contents the store may start with
  Writers,        \* how the engines to consider write: see writer
  MaxRestarts     \* bound on engine restarts

GroundTerms == [value : Triples, minted : {FALSE}]
MintedTerms == [value : Nat, minted : {TRUE}]
Terms == GroundTerms \cup MintedTerms
GroundQuads == [term : GroundTerms, graph : Graphs]
Quads == [term : Terms, graph : Graphs]

Kinds == {"insert", "delete", "insertdelete", "deletewhere", "clear",
          "create", "add", "copy", "move", "load", "unsupported"}

(***************************************************************************)
(* One operation.  quads: the DATA block or the loaded document.  fresh:   *)
(* the graphs in which the template or document writes a blank node.       *)
(* from: the graphs read (WHERE, CLEAR target, source of ADD/COPY/MOVE).   *)
(* del: the graphs of the DELETE templates.  to: the graph of the INSERT   *)
(* template, the destination graph, or LOAD's INTO.                        *)
(***************************************************************************)
Records == [kind : Kinds, quads : SUBSET GroundQuads, fresh : SUBSET Graphs,
            from : SUBSET Graphs, del : Seq(Graphs),
            to : Graphs \cup {None, VariableGraph}, silent : BOOLEAN]

(* The grammar: ADD, COPY and MOVE name a source and a destination, only   *)
(* an INSERT template may be under a variable, DELETE WHERE has none, and   *)
(* blank nodes occur only in what is inserted or loaded.                   *)
Ops ==
  {op \in Records :
     /\ op.kind \in {"add", "copy", "move"} =>
          op.to \in Graphs /\ \E g \in Graphs : op.from = {g}
     /\ op.to = VariableGraph => op.kind = "insertdelete"
     /\ op.kind = "deletewhere" => op.to = None
     /\ op.fresh # {} => \/ op.kind \in {"insert", "load"}
                         \/ op.kind = "insertdelete" /\ op.to # None}

ASSUME GraphAssumption ==
  /\ DefaultGraph \in Graphs
  /\ None \notin Graphs /\ VariableGraph \notin Graphs /\ None # VariableGraph

ASSUME ScriptAssumption == Scripts \subseteq Seq(Ops)

ASSUME StoreAssumption ==
  /\ InitStores \subseteq SUBSET GroundQuads
  /\ IsFiniteSet(GroundQuads) /\ IsFiniteSet(Graphs)

ASSUME ModeAssumption ==
  /\ Writers \subseteq {"transaction", "memory", "other"}
  /\ MaxRestarts \in Nat

VARIABLES
  writer,     \* createTransaction is given, or else the kind of the store
  store,      \* the committed contents of the store
  nextLabel,  \* UpdateEvaluator.nextBnodeId
  restarts,   \* restarts so far (bounded by MaxRestarts)
  script,     \* the parsed request
  phase,      \* where executeUpdate is
  at,         \* index of the current operation
  step,       \* index of the current step of that operation
  source,     \* quads fetched from the source graph
  target,     \* quads fetched to be removed
  rows,       \* the bindings of the WHERE clause, one for each quad it matched
  patch,      \* the transaction's buffered writes
  tx,         \* the transaction's fate
  aborted,    \* the request's composed AbortSignal
  client      \* what the promise returned by execute() has settled to

locals == <<source, target, rows>>
vars == <<store, nextLabel, restarts, writer, script, phase, at, step, source,
          target, rows, patch, tx, aborted, client>>

Phases == {"idle", "run", "commit", "done", "lost"}
Fates == {"none", "open", "committed", "rolledBack", "lost"}
Outcomes == {"none", "pending", "resolved", "rejected", "unsupported", "lost"}
EmptyPatch == [added |-> {}, deleted |-> {}]

Transactional == writer = "transaction"

-----------------------------------------------------------------------------
(* The steps of one operation, split where the code awaits.                *)

TemplateSteps(op) ==
  [i \in 1 .. 2 * Len(op.del) + 1 |->
     IF i = 1 THEN "where" ELSE IF i % 2 = 0 THEN "scan" ELSE "removeMatched"]

Steps(op) ==
  CASE op.kind = "insert"       -> <<"addData">>
    [] op.kind = "delete"       -> <<"removeData">>
    [] op.kind = "insertdelete" -> Append(TemplateSteps(op), "instantiate")
    [] op.kind = "deletewhere"  -> TemplateSteps(op)
    [] op.kind = "clear"        -> <<"fetchTarget", "removeTarget">>
    [] op.kind = "add"          -> <<"fetchSource", "addSource">>
    [] op.kind = "copy"         ->
         <<"fetchSource", "fetchTarget", "removeTarget", "addSource">>
    [] op.kind = "move" /\ op.from # {op.to} ->
         <<"fetchSource", "fetchTarget", "removeTarget", "addSourceRefetch",
           "removeTarget">>
    [] op.kind = "load"         -> <<"request", "document">>
    [] op.kind = "unsupported"  -> <<"unsupported">>
    [] OTHER                    -> <<"skip">>

(* Mutant: the destination's quads keep the graph they came from.          *)
IntoKeepingGraph(quads, g) == quads

Into(quads, g) == {[term |-> q.term, graph |-> g] : q \in quads}

Op(r) == script[r][at[r]]
Busy(r) == phase[r] = "run" /\ at[r] <= Len(script[r])
Now(r) == Steps(Op(r))[step[r]]

(* Mutant: the loop over the operations does not check the signal.         *)
CheckpointInWhereOnly(r) == Now(r) \in {"where", "scan"}

(* checkAborted runs before each operation, in the WHERE evaluation and    *)
(* before each DELETE template.                                            *)
Checkpoint(r) == step[r] = 1 \/ Now(r) \in {"where", "scan"}

At(r, s) == Busy(r) /\ Now(r) = s /\ ~(Checkpoint(r) /\ aborted[r])

(* Mutant: the step index restarts one too low.                            *)
NextOpFromZero(r) ==
  /\ at' = [at EXCEPT ![r] = @ + 1]
  /\ step' = [step EXCEPT ![r] = 0]

NextOp(r) ==
  /\ at' = [at EXCEPT ![r] = @ + 1]
  /\ step' = [step EXCEPT ![r] = 1]

Advance(r) ==
  IF step[r] < Len(Steps(Op(r)))
  THEN step' = [step EXCEPT ![r] = @ + 1] /\ UNCHANGED at
  ELSE NextOp(r)

(* Mutant: removals bypass the transaction.                                *)
SinkRemovingAtOnce(r, adds, dels) ==
  /\ store' = IF Transactional THEN store \ dels ELSE (store \ dels) \cup adds
  /\ patch' = IF Transactional THEN [patch EXCEPT ![r].added = @ \cup adds] ELSE patch

(* The add and remove sinks an operation writes to: the transaction's      *)
(* buffer, which keeps the last write of a quad, or the store itself.      *)
Sink(r, adds, dels) ==
  IF Transactional
  THEN /\ patch' = [patch EXCEPT ![r] = [added   |-> (@.added \ dels) \cup adds,
                                        deleted |-> (@.deleted \cup dels) \ adds]]
       /\ UNCHANGED store
  ELSE /\ store' = (store \ dels) \cup adds
       /\ UNCHANGED patch

AddAll(r, quads) == Sink(r, quads, {})
RemoveAll(r, quads) == Sink(r, {}, quads)

(* The store once the patch of r is persisted.                             *)
Committed(r) == (store \ patch[r].deleted) \cup patch[r].added

InGraphs(gs) == {q \in store : q.graph \in gs}
Minted(n, g) == [term |-> [value |-> n, minted |-> TRUE], graph |-> g]
-----------------------------------------------------------------------------
(* What ends a request.                                                    *)

Settle(r, outcome) ==
  client' = [client EXCEPT ![r] = IF @ = "pending" THEN outcome ELSE @]

(* Mutant: an error is rethrown without rollback.                          *)
FailWithoutRollback(r) ==
  /\ phase' = [phase EXCEPT ![r] = "done"]
  /\ Settle(r, "rejected")
  /\ UNCHANGED <<store, nextLabel, restarts, writer, script, at, step, locals, patch, tx, aborted>>

(* An error of an operation or of commit: rollback, rethrow.               *)
Fail(r) ==
  /\ phase' = [phase EXCEPT ![r] = "done"]
  /\ tx' = [tx EXCEPT ![r] = IF Transactional THEN "rolledBack" ELSE @]
  /\ Settle(r, "rejected")
  /\ UNCHANGED <<store, nextLabel, restarts, writer, script, at, step, locals, patch, aborted>>

Init ==
  /\ writer \in Writers
  /\ store \in InitStores
  /\ script \in [Requests -> Scripts]
  /\ nextLabel = 0
  /\ restarts = 0
  /\ phase = [r \in Requests |-> "idle"]
  /\ at = [r \in Requests |-> 1]
  /\ step = [r \in Requests |-> 1]
  /\ source = [r \in Requests |-> {}]
  /\ target = [r \in Requests |-> {}]
  /\ rows = [r \in Requests |-> {}]
  /\ patch = [r \in Requests |-> EmptyPatch]
  /\ tx = [r \in Requests |-> "none"]
  /\ aborted = [r \in Requests |-> FALSE]
  /\ client = [r \in Requests |-> "none"]

-----------------------------------------------------------------------------
(* execute(): start, abort, settle.                                        *)

(* execute() composes the signal (the caller's may have fired already),    *)
(* then calls executeUpdate, which opens the transaction.                  *)
Start(r) ==
  /\ phase[r] = "idle"
  /\ writer \in {"transaction", "memory"}
  /\ phase' = [phase EXCEPT ![r] = "run"]
  /\ tx' = [tx EXCEPT ![r] = IF Transactional THEN "open" ELSE @]
  /\ \E pre \in BOOLEAN :
       /\ aborted' = [aborted EXCEPT ![r] = pre]
       /\ client' = [client EXCEPT ![r] = IF pre THEN "rejected" ELSE "pending"]
  /\ UNCHANGED <<store, nextLabel, restarts, writer, script, at, step, locals, patch>>

(* Without createTransaction only a store of kind "memory" is written to.  *)
Refuse(r) ==
  /\ phase[r] = "idle"
  /\ writer = "other"
  /\ phase' = [phase EXCEPT ![r] = "done"]
  /\ client' = [client EXCEPT ![r] = "unsupported"]
  /\ UNCHANGED <<store, nextLabel, restarts, writer, script, at, step, locals, patch, tx, aborted>>

(* Mutant: the abort is left to the next checkpoint, with no race.         *)
AbortWithoutRace(r) ==
  /\ client[r] = "pending" /\ ~aborted[r]
  /\ aborted' = [aborted EXCEPT ![r] = TRUE]
  /\ UNCHANGED <<store, nextLabel, restarts, writer, script, phase, at, step, locals, patch, tx,
                 client>>

(* The timer or the caller aborts the controller: the race rejects.  Once  *)
(* the promise has settled the timer is cleared and the listener removed.  *)
Abort(r) ==
  /\ client[r] = "pending"
  /\ aborted' = [aborted EXCEPT ![r] = TRUE]
  /\ client' = [client EXCEPT ![r] = "rejected"]
  /\ UNCHANGED <<store, nextLabel, restarts, writer, script, phase, at, step, locals, patch, tx>>

(* checkAborted throws at a checkpoint.                                    *)
StopAtCheckpoint(r) ==
  /\ Busy(r) /\ Checkpoint(r) /\ aborted[r]
  /\ Fail(r)

(* After the last operation: no further checkpoint, commit is called.      *)
CallCommit(r) ==
  /\ phase[r] = "run" /\ at[r] > Len(script[r])
  /\ Transactional
  /\ phase' = [phase EXCEPT ![r] = "commit"]
  /\ UNCHANGED <<store, nextLabel, restarts, writer, script, at, step, locals, patch, tx, aborted, client>>

(* The host persists the patch atomically.                                 *)
CommitApplies(r) ==
  /\ phase[r] = "commit" /\ tx[r] = "open"
  /\ store' = Committed(r)
  /\ tx' = [tx EXCEPT ![r] = "committed"]
  /\ UNCHANGED <<nextLabel, restarts, writer, script, phase, at, step, locals, patch, aborted, client>>

CommitFails(r) ==
  /\ phase[r] = "commit" /\ tx[r] = "open"
  /\ Fail(r)

(* executeUpdate returns; the race resolves if nothing settled it before.  *)
Return(r) ==
  /\ \/ phase[r] = "commit" /\ tx[r] = "committed"
     \/ phase[r] = "run" /\ at[r] > Len(script[r]) /\ ~Transactional
  /\ phase' = [phase EXCEPT ![r] = "done"]
  /\ Settle(r, "resolved")
  /\ UNCHANGED <<store, nextLabel, restarts, writer, script, at, step, locals, patch, tx, aborted>>

(* The process dies and a new engine opens the durable store: requests in  *)
(* flight and their buffers are gone, and the label counter starts over.   *)
Restart ==
  /\ Transactional /\ restarts < MaxRestarts
  /\ restarts' = restarts + 1
  /\ nextLabel' = 0
  /\ phase' = [r \in Requests |->
       IF phase[r] \in {"run", "commit"} THEN "lost" ELSE phase[r]]
  /\ tx' = [r \in Requests |-> IF tx[r] = "open" THEN "lost" ELSE tx[r]]
  /\ client' = [r \in Requests |-> IF client[r] = "pending" THEN "lost" ELSE client[r]]
  /\ UNCHANGED <<store, writer, script, at, step, locals, patch, aborted>>
-----------------------------------------------------------------------------
(* applyOperation, step by step.                                           *)

control == <<restarts, writer, script, phase, tx, aborted, client>>

(* Mutant: the label is used but the counter stays.                        *)
AddDataReusingLabel(r) ==
  /\ At(r, "addData")
  /\ AddAll(r, Op(r).quads \cup {Minted(nextLabel, g) : g \in Op(r).fresh})
  /\ Advance(r)
  /\ UNCHANGED <<control, locals, nextLabel>>

(* INSERT DATA: the template's blank node gets one fresh label.            *)
AddData(r) ==
  /\ At(r, "addData")
  /\ AddAll(r, Op(r).quads \cup {Minted(nextLabel, g) : g \in Op(r).fresh})
  /\ nextLabel' = IF Op(r).fresh = {} THEN nextLabel ELSE nextLabel + 1
  /\ Advance(r)
  /\ UNCHANGED <<control, locals>>

(* DELETE DATA.                                                            *)
RemoveData(r) ==
  /\ At(r, "removeData")
  /\ RemoveAll(r, Op(r).quads)
  /\ Advance(r)
  /\ UNCHANGED <<control, locals, nextLabel>>

(* fetchGraphQuads of the source: always reads the store, never the        *)
(* transaction's buffer.                                                   *)
FetchSource(r) ==
  /\ At(r, "fetchSource")
  /\ source' = [source EXCEPT ![r] = InGraphs(Op(r).from)]
  /\ Advance(r)
  /\ UNCHANGED <<control, store, patch, nextLabel, target, rows>>

(* Mutant: COPY and MOVE clear their source first.                         *)
ClearedSource(op) == op.from

(* applyClear's fetch: CLEAR reads its graphs, COPY and MOVE the           *)
(* destination.                                                            *)
Cleared(op) == IF op.kind = "clear" THEN op.from ELSE {op.to}

FetchTarget(r) ==
  /\ At(r, "fetchTarget")
  /\ target' = [target EXCEPT ![r] = InGraphs(Cleared(Op(r)))]
  /\ Advance(r)
  /\ UNCHANGED <<control, store, patch, nextLabel, source, rows>>

RemoveTarget(r) ==
  /\ At(r, "removeTarget")
  /\ RemoveAll(r, target[r])
  /\ Advance(r)
  /\ UNCHANGED <<control, locals, nextLabel>>

AddSource(r) ==
  /\ At(r, "addSource")
  /\ AddAll(r, Into(source[r], Op(r).to))
  /\ Advance(r)
  /\ UNCHANGED <<control, locals, nextLabel>>

(* MOVE adds to the destination and at once fetches the source again, to   *)
(* clear it in the next step.                                              *)
AddSourceRefetch(r) ==
  /\ At(r, "addSourceRefetch")
  /\ AddAll(r, Into(source[r], Op(r).to))
  /\ target' = [target EXCEPT ![r] = {q \in store' : q.graph \in Op(r).from}]
  /\ Advance(r)
  /\ UNCHANGED <<control, nextLabel, source, rows>>

BoundTerms(bindings) == {b.term : b \in bindings}

(* The WHERE clause, evaluated once.  A term found in two graphs is bound  *)
(* twice, as by GRAPH ?g or UNION.                                         *)
Where(r) ==
  /\ At(r, "where")
  /\ rows' = [rows EXCEPT ![r] = InGraphs(Op(r).from)]
  /\ Advance(r)
  /\ UNCHANGED <<control, store, patch, nextLabel, source, target>>

(* deleteMatches scans the store anew for each template; no rows, no scan. *)
ScanTemplate(r) ==
  /\ At(r, "scan")
  /\ target' = [target EXCEPT ![r] =
       IF rows[r] = {} THEN {} ELSE InGraphs({Op(r).del[step[r] \div 2]})]
  /\ Advance(r)
  /\ UNCHANGED <<control, store, patch, nextLabel, source, rows>>

RemoveMatched(r) ==
  /\ At(r, "removeMatched")
  /\ RemoveAll(r, {q \in target[r] : q.term \in BoundTerms(rows[r])})
  /\ Advance(r)
  /\ UNCHANGED <<control, locals, nextLabel>>

(* The INSERT template, per binding: the term bound, and a fresh blank     *)
(* node when the template has one, also when the term was bound before.    *)
Instantiate(r) ==
  LET g == Op(r).to
      count == IF Op(r).fresh = {} THEN 0 ELSE Cardinality(rows[r])
      labels == {n \in nextLabel .. nextLabel + count : n < nextLabel + count}
  IN /\ At(r, "instantiate")
     /\ g = None \/ g \in Graphs \/ rows[r] = {}
     /\ IF g \in Graphs
        THEN /\ AddAll(r, {[term |-> t, graph |-> g] : t \in BoundTerms(rows[r])}
                            \cup {Minted(n, g) : n \in labels})
             /\ nextLabel' = nextLabel + count
        ELSE AddAll(r, {}) /\ UNCHANGED nextLabel
     /\ Advance(r)
     /\ UNCHANGED <<control, locals>>

(* GRAPH ?g in an INSERT template has no term to convert to: the first     *)
(* row throws, after the deletions.                                        *)
InstantiateFails(r) ==
  /\ At(r, "instantiate")
  /\ Op(r).to = VariableGraph /\ rows[r] # {}
  /\ Fail(r)

(* An operation no branch of applyOperation knows.                         *)
UnsupportedFails(r) ==
  /\ At(r, "unsupported")
  /\ Fail(r)

(* A relative source of LOAD that the base does not resolve: thrown before *)
(* anything is caught, SILENT or not.                                      *)
UnresolvedFails(r) ==
  /\ At(r, "request")
  /\ Fail(r)

(* CREATE, and MOVE of a graph to itself.                                  *)
Skip(r) ==
  /\ At(r, "skip")
  /\ Advance(r)
  /\ UNCHANGED <<control, locals, store, patch, nextLabel>>

(* LOAD sends its request, which no signal cancels.                        *)
SendRequest(r) ==
  /\ At(r, "request")
  /\ Advance(r)
  /\ UNCHANGED <<control, locals, store, patch, nextLabel>>

(* LOAD INTO accepts no document with named graphs.                        *)
Loadable(op) ==
  \/ op.to = None
  \/ /\ \A q \in op.quads : q.graph = DefaultGraph
     /\ op.fresh \subseteq {DefaultGraph}

(* The document is there: its quads are added as they are, or into the     *)
(* destination, its blank node under one fresh label.                      *)
DocumentArrives(r) ==
  LET doc == Op(r).quads \cup {Minted(nextLabel, g) : g \in Op(r).fresh}
  IN /\ At(r, "document")
     /\ Loadable(Op(r))
     /\ AddAll(r, IF Op(r).to = None THEN doc ELSE Into(doc, Op(r).to))
     /\ nextLabel' = IF Op(r).fresh = {} THEN nextLabel ELSE nextLabel + 1
     /\ Advance(r)
     /\ UNCHANGED <<control, locals>>

(* The document is unreachable, or unloadable: SILENT goes on.             *)
DocumentFails(r) ==
  /\ At(r, "document")
  /\ IF Op(r).silent
     THEN Advance(r) /\ UNCHANGED <<control, locals, store, patch, nextLabel>>
     ELSE Fail(r)

(* A read of a durable store may fail; a MemoryStore answers at once.      *)
ReadFails(r) ==
  /\ Transactional
  /\ \E s \in {"fetchSource", "fetchTarget", "addSourceRefetch", "where", "scan"} :
       At(r, s)
  /\ Fail(r)

-----------------------------------------------------------------------------
Apply(r) ==
  \/ AddData(r) \/ RemoveData(r) \/ FetchSource(r) \/ FetchTarget(r)
  \/ RemoveTarget(r) \/ AddSource(r) \/ AddSourceRefetch(r) \/ Where(r)
  \/ ScanTemplate(r) \/ RemoveMatched(r) \/ Instantiate(r)
  \/ InstantiateFails(r) \/ UnsupportedFails(r) \/ UnresolvedFails(r)
  \/ Skip(r) \/ SendRequest(r) \/ StopAtCheckpoint(r) \/ CallCommit(r) \/ Return(r)

(* Steps that wait for something outside the engine.                       *)
Host(r) ==
  \/ DocumentArrives(r) \/ DocumentFails(r) \/ ReadFails(r)
  \/ CommitApplies(r) \/ CommitFails(r)

Next ==
  \/ \E r \in Requests : Start(r) \/ Refuse(r) \/ Abort(r) \/ Apply(r) \/ Host(r)
  \/ Restart

Spec == Init /\ [][Next]_vars

(* Fairness.  The event loop runs a continuation whose await has settled,  *)
(* and the timer of a request that has not settled fires.                  *)
TimerFairness == \A r \in Requests : WF_vars(Abort(r))
LoopFairness == \A r \in Requests : WF_vars(Apply(r))
HostFairness == \A r \in Requests : WF_vars(Host(r))

(* The host may never answer: a document that never arrives.               *)
TimedSpec == Spec /\ TimerFairness /\ LoopFairness

-----------------------------------------------------------------------------
(* Properties.                                                             *)

(* The variables stay in their ranges: labels are numbers, a request is at *)
(* an operation and a step of it, buffered and fetched quads are quads.    *)
TypeOK ==
  /\ writer \in Writers
  /\ store \subseteq Quads
  /\ nextLabel \in Nat
  /\ restarts \in 0 .. MaxRestarts
  /\ script \in [Requests -> Scripts]
  /\ phase \in [Requests -> Phases]
  /\ at \in [Requests -> Nat \ {0}]
  /\ step \in [Requests -> Nat \ {0}]
  /\ source \in [Requests -> SUBSET Quads]
  /\ target \in [Requests -> SUBSET Quads]
  /\ rows \in [Requests -> SUBSET Quads]
  /\ patch \in [Requests -> [added : SUBSET Quads, deleted : SUBSET Quads]]
  /\ tx \in [Requests -> Fates]
  /\ aborted \in [Requests -> BOOLEAN]
  /\ client \in [Requests -> Outcomes]

(* One transaction per request: open while executeUpdate is on its way,    *)
(* and ended exactly once, by commit or by rollback, when it is done; a    *)
(* caller told of success had its patch committed (executeUpdate's         *)
(* try/catch around the operations and commit).                            *)
TransactionOutcome ==
  Transactional => \A r \in Requests :
    /\ tx[r] = "open" => phase[r] \in {"run", "commit"}
    /\ phase[r] = "run" => tx[r] = "open"
    /\ phase[r] = "done" => tx[r] \in {"committed", "rolledBack"}
    /\ client[r] = "resolved" => tx[r] = "committed"

(* The graphs an operation may write to.                                   *)
Written(op) ==
  CASE op.kind \in {"insert", "delete"} -> {q.graph : q \in op.quads} \cup op.fresh
    [] op.kind \in {"insertdelete", "deletewhere"} -> 
         {op.del[i] : i \in DOMAIN op.del} \cup ({op.to} \cap Graphs)
    [] op.kind = "clear"           -> op.from
    [] op.kind \in {"add", "copy"} -> {op.to}
    [] op.kind = "move"            -> op.from \cup {op.to}
    [] op.kind = "load"            ->
         IF op.to = None THEN {q.graph : q \in op.quads} \cup op.fresh ELSE {op.to}
    [] OTHER                       -> {}

Footprint(r) == UNION {Written(script[r][i]) : i \in DOMAIN script[r]}

(* A request buffers no write outside the graphs its operations name:      *)
(* what COPY or MOVE fetched, or what a template matched, never reaches    *)
(* another graph.                                                          *)
PatchInFootprint ==
  \A r \in Requests : \A q \in patch[r].added \cup patch[r].deleted :
    q.graph \in Footprint(r)

(* A minted blank-node label occurs nowhere before it is minted: neither   *)
(* in the store nor in an open patch (the label counter of UpdateEvaluator *)
(* never reuses one), as long as the engine lives.                         *)
CarriesAtLeast(quads, n) == \E q \in quads : q.term.minted /\ q.term.value >= n

LabelsAreFresh ==
  restarts = 0 =>
    /\ ~CarriesAtLeast(store, nextLabel)
    /\ \A r \in Requests : ~CarriesAtLeast(patch[r].added, nextLabel)

(* "Labels are never reused" (UpdateEvaluator.nextBnodeId): no two         *)
(* requests that took effect inserted the same minted blank node.          *)
LabelsNeverReused ==
  \A r, s \in Requests :
    (r # s /\ tx[r] = "committed" /\ tx[s] = "committed") =>
      ~ \E q \in patch[r].added, p \in patch[s].added :
          q.term.minted /\ q.term = p.term

(* A caller told that its request failed never sees it take effect.        *)
RejectedHasNoEffect ==
  Transactional => \A r \in Requests : client[r] = "rejected" => tx[r] # "committed"

(* With a transaction, update requests are atomic: the behaviour of the    *)
(* path is one of the abstract specification.                              *)
Fate(r) ==
  CASE tx[r] = "committed"            -> "applied"
    [] tx[r] \in {"rolledBack", "lost"} -> "dropped"
    [] OTHER                          -> "undecided"

Told(r) ==
  CASE client[r] = "resolved" -> "success"
    [] client[r] \in {"none", "pending"} -> "nothing"
    [] OTHER -> "failure"

Atomic == INSTANCE AtomicUpdates WITH
  fate <- [r \in Requests |-> Fate(r)],
  told <- [r \in Requests |-> Told(r)],
  writable <- [r \in Requests |-> Footprint(r)]

ImplementsAtomicUpdates == Atomic!Spec

(* The caller always hears back, even if the host never answers: the       *)
(* timeout settles the promise.                                            *)
CallerHearsBack ==
  \A r \in Requests : client[r] = "pending" ~> client[r] # "pending"

(* When the host answers, every transaction that was opened ends.          *)
TransactionsEnd ==
  HostFairness => \A r \in Requests : tx[r] = "open" ~> tx[r] # "open"
=============================================================================
