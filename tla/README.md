# A TLA+ model of the Wazoo SPARQL engine

The engine is a single-threaded TypeScript library that evaluates SPARQL
queries and updates over an RDF/JS store. What a test hardly reaches is what
happens *between* two awaits: requests that interleave, a timeout that fires
while an update goes on, a cache filled by a drain that began before a
mutation, a host whose transaction fails, a listener that removes itself in its
own callback. And it has many ways to the same answer: hash or nested-loop
joins, planned or written order, a snapshot's index or a scan, an asynchronous
and a synchronous evaluator. The models cover both: the update path, the store,
streams and snapshots as interleaved state machines, and the evaluation of a
query as a state machine whose answers are held to the algebra of SPARQL.

To check: `tlc -config X.cfg M` for the runs below, `tlapm M.tla` for the
modules named `*_proofs`. PROJECT.json lists the runs, the source lines each
definition stands for, the mutants, hazards, findings and theorems.

## Inventory

| Part (under `src/src/`) | State | Operations | What is hard | What makes it correct |
|---|---|---|---|---|
| `wazoo-sparql-engine.ts` execute | controller, timer, parse cache | execute | the race of evaluation, timeout and caller abort | a caller always hears back; what it hears is true |
| `evaluator/update-evaluator.ts` | label counter | executeUpdate, one branch per operation | awaits inside operations, errors half way, cancellation | atomic with a transaction; SPARQL's meaning without |
| transaction (host) | buffer | add, delete, commit, rollback | failing commit, crash | ended exactly once |
| `store/memory-store.ts` | canonical map, four indexes, version | add, remove, bulk removal, streams, getQuads | four copies of one fact, order | every pattern is answered like a scan |
| `evaluator/bgp-evaluator.ts` snapshots | cached snapshot and its version | prepareExistsIndex, groups | drains finishing out of order, mutations at awaits | never stale, of one moment |
| `store/quad-stream.ts` | queue, flags, listeners | on, read, drain, destroy | microtasks, listeners that come and go | every quad once, then `end` |
| `evaluator/bgp-evaluator.ts` groups, joins | bindings | evaluateGroup, joinBgp | scans of a live store against an older index | the algebra's result |
| `evaluator/*-join.ts`, `minus.ts`, `join-hash-index.ts` | hash index | join, left join, minus | unbound variables in keys | equal to the nested loop |
| `planner/` | statistics cache; table of plans by mask | searchBestJoinOrder, greedy loop | path-dependent cost; plans extended while others come in | the order returned is the plan that was compared |
| `evaluator/path-*.ts` | visited set | pathSteps, scanPath | cycles, zero-length paths, an await per node | equal to reachability; nothing found but from quads there were |
| `evaluator/sparql-evaluator.ts`, `select-*.ts`, `aggregate*.ts` | none | query forms, pipeline | - | SPARQL 1.1 section 18 |
| `evaluator/expression-evaluator.ts`, `term/`, `parser/`, `serialize/`, `cli/` | none of note | pure functions | - | conformance suites |

They interact by calls: execute parses, then calls SparqlEvaluator or
UpdateEvaluator; both use BgpEvaluator for WHERE clauses; BgpEvaluator reads
the store through `matchQuads`, which answers at once from a MemoryStore and
through a stream from any other store. What they share is the store, the
snapshot cache of a BgpEvaluator and the label counter of an UpdateEvaluator.

## Modules

| Module | Models |
|---|---|
| `UpdateRequests` | execute() for updates and the whole of UpdateEvaluator |
| `AtomicUpdates` | what a transaction promises: the abstract specification of the above |
| `UpdateSemantics` | the SPARQL meaning of operations, as reference for the above |
| `MemoryStore` | the store, its indexes, bulk calls and subscribed streams |
| `QuadSet` | the abstract specification of MemoryStore |
| `MemoryStream` | the RDF/JS stream and its event emitter, task by task and callback by callback |
| `ExistsSnapshot` | the snapshot cache and the groups that hold snapshots |
| `Filtering` | what `Array.filter` and a scan keep of a sequence, and its first occurrences; extended by `MemoryStore` and `Joins` |
| `Joins` | solutions; join, OPTIONAL, MINUS and VALUES, nested or hashed |
| `PathWalks` | the breadth-first walks of `*` and `+` |
| `PropertyPaths` | path steps and scans of path patterns over a snapshot, as EXISTS evaluates them |
| `PathLookups` | the same walks as the asynchronous evaluator makes them, one awaited lookup after the other |
| `JoinOrder` | statistics, cost model, the plan the subset search keeps, greedy choice |
| `JoinSearch` | searchBestJoinOrder as the loop it is, over bit masks and parents |
| `TriplePatterns` | the graphs of a store; solutions joined with the quads of a pattern, in blocks and with the pairs of a path; what a block means |
| `SelectPipeline` | groups, aggregates, order, duplicates and slice of evaluated solutions |
| `PatternEvaluation` | what is computed without waiting: expressions, SELECT, EXISTS |
| `QueryEvaluation` | one query, split at the awaits, with cancellation and mutations |
| `SparqlAlgebra` | what a query means (SPARQL 1.1, section 18): the reference |
| `QueryMeaning` | the properties that tie the two together |
| `MC*` | values for TLC |
| `Updates_proofs` | the proofs about `UpdateRequests` and `UpdateSemantics` |
| `Joins_proofs` | about what is computed without waiting: `Joins`, `JoinOrder`, `TriplePatterns`, `PathWalks` |
| other `*_proofs` | of the module they name; `Filtering_proofs` has the lemmas on kept sequences that the others share, and the least-number principle |

`TriplePatterns` extends `Joins`, `SelectPipeline` extends it, `PropertyPaths`
extends it and `PathWalks`, and `PathLookups` extends `PropertyPaths`.
`QueryEvaluation` extends `SelectPipeline` and `JoinOrder`, and no module with a
RECURSIVE operator: what is defined by recursion over patterns
(`PatternEvaluation`, `PathLookups`) reaches it as the operators its CONSTANTS
name, and the configurations put the definitions in their place
(`WalkAfter <- PathWalk`). `QueryMeaning` extends all of it and
`SparqlAlgebra`.

### UpdateRequests

A request (`execute()` call) carries a script, a sequence of operations. An
operation is a sequence of steps, split exactly where the code awaits
something (`Steps`); `at` and `step` are its program counter, `source`,
`target` and `rows` its local variables. `Sink` is the pair of add/remove
callbacks: the transaction's buffer, or the store. Requests interleave between
steps, which is what the event loop may do at an await.

* `Start`, `Abort`, `Return` and `Settle` are execute()'s race. `Abort` stands
  for the timer and for the caller's signal. An aborted request goes on until
  `checkAborted` is reached (`StopAtCheckpoint`), which happens before each
  operation, in the WHERE evaluation and before each DELETE template, and not
  before commit.
* `writer` is fixed for a behaviour: `"transaction"` when createTransaction is
  given, otherwise the store's kind; a kind other than `"memory"` is refused.
* The transaction and a durable store belong to the host. The model assumes
  what the code relies on: a buffer in which the last write of a quad wins,
  `commit` all or nothing, failure at any read or commit. `Restart` loses
  every request in flight and starts the label counter over.

A quad is a term in a graph. Templates are reduced to the graphs they read,
delete from and insert into, with one triple each. A WHERE gives one binding for
every quad it matches, so a term in two of its graphs is bound twice, and a
blank node in a template is one fresh label per binding, in a document one per
document. LOAD with a relative source that does not resolve throws before its
`try`, and so even under SILENT (`UnresolvedFails`). The WHERE evaluation is
one step although it awaits several times, so the model does not say what a
WHERE clause sees of other requests half way through.

### MemoryStore

`quads` is the canonical Map in insertion order, `index` the four Maps with
`NoBucket` for a missing key. A call of many removals (`removeMatches`,
`deleteGraph`) or a stream that is drained is a `loop` of one step per quad
during which no other call is enabled, since the code does not yield there; the
order of the quads in a loop is left open, which includes the code's order.
Streams given to `import` and `remove` wait in `streams` for their microtask,
first come first served. Terms are model values: that `termKey` gives every
term its own key is taken from `term/identity.ts` and not modelled.

### ExistsSnapshot

A query is a chain of nested groups, each with an EXISTS. `Hit` and
`Miss`/`Fill` are prepareExistsIndex before and after its await; `Fill` writes
the shared cache even when a later drain has been there first. A MemoryStore is
copied when the drain begins; another store may deliver what it holds at any
moment until the drain ends (`DeliverLater`). `past`, `asOf` and `begun` are
history variables and used by properties only.

### MemoryStream

One JavaScript thread: `stack` holds the calls under way (a task, a microtask,
the listeners an `emit` still has to call), `jobs` the microtasks waiting. Only
the top of the stack moves, and the next microtask starts when the stack is
empty. A listener may call any method of the stream from inside its callback,
which is where the interesting orders come from: a read inside `data`, a
listener that removes itself in mid-drain, `destroy` inside `end`. `emit` works
on a copy of the listener list, as the code does. The client is either free, or
the engine's `matchQuadsViaStream`, whose three listeners settle a promise.

### JoinSearch

A mask is the set of its bits, and `NextMask` the binary increment. `table` has
the entries that the code's arrays `cost`, `card`, `bound` and `parent` hold for
the masks reached; a mask not in it costs infinity. A turn of the inner loop is
one step (`TryIndex`), so is a turn of the outer loop and one parent read back.
Nothing interleaves with the search; the steps are there because what can go
wrong is between them: a plan is extended while the plans of later masks are
still replaced. `JoinOrder` gives the same search as a recursive function over
sets of patterns (`Plans`), which is what `QueryEvaluation` calls. Costs are
exact fractions where the code has doubles.

### QueryEvaluation

The evaluators call each other recursively, so the evaluations under way are a
stack of `frames`, one per group graph pattern. A frame has the patterns ahead
(`todo`, FILTERs last), its solutions (`rows`), the graph it matches in, the
EXISTS snapshot it took, the statistics cache it shares, the answers that the
path it is walking has had so far (`walk`), and the nested groups of the pattern
it is at (`jobs`, and their answers in `inner`). A step is what
the code does between two awaits:

| Action | Code |
|---|---|
| `Load`, `Open` | buildDatasetStore, one scan per FROM clause; evaluateBgp |
| `Enter`, `Descend`, `Return`, `Combine` | OPTIONAL, MINUS, UNION, GRAPH, SERVICE, groups and subqueries: their groups evaluated one after the other, their answers joined |
| `JoinNext` | a triple of a block in written order: scan, then join |
| `LookUp`, `JoinPath` | a path of such a block: pathSteps and scanPathEntry, one awaited lookup after the other, then the join of the pairs found |
| `JoinBlock` | evaluateWithReordering: all scans at once, then all joins |
| `Apply` | FILTER, BIND, VALUES |
| `Stop` | checkAborted throws; `Unwound` are the frames left, up to a SERVICE SILENT |
| `Finish`, `Describe`, `Described` | the query form: pipeline, ASK, CONSTRUCT, DESCRIBE |
| `Cancel`, `Mutate` | the caller's signal; another request's change, of one quad or several |

A walk is resumed by running it over the answers it has had: `WalkAfter` gives
the pattern of the next lookup, or the pairs when there is none. Nothing else is
kept of it, and a lookup is answered by the store as it is then. The signal is
looked at before a walk and not in it, as path-steps.ts is not given one.

The machine says when the operators in its CONSTANTS are called and on what, in
which order, and what is read, thrown and kept; what they compute makes no
difference to that, so a theorem about `QueryEvaluation` holds for every
expression evaluator, path walk and SELECT pipeline. `Patterns` are the patterns
of the queries, nested ones included: a parsed query is a tree, and
`EvaluationAssumption` says of its nodes what the parser's types say (`IsPattern`:
groups are lists of patterns, VALUES a list of rows, a block a list of one triple
or more, each of a path or with all three positions filled), of a store that it
lists its quads once.

`root` is the store an evaluator was constructed with and `scope` the graph a
group matches in. They differ: GRAPH changes the scope and not the root, and a
subquery's evaluator gets the scoped view as its root, which is finding 6.

Solutions are functions from variables to terms. In the synchronous EXISTS
evaluator they are objects that are handed on and written to, so there they are
references into a heap (`ExistsGroup` in `PatternEvaluation`). The heap's first
object is the outer solution.

Two abstractions matter. Scans are answered at once from the live store, as a
MemoryStore answers them; the latency of another store is modelled by
`ExistsSnapshot` and `MemoryStream`. And a term is an atom: EBV and comparison
see its rank only.

The reference, `SparqlAlgebra`, shares the data structures and the solution
modifiers' syntax with the model and none of its evaluation: a basic graph
pattern means all mappings that put it into the graph, a path a relation closed
under composition, EXISTS the pattern with the solution substituted.

## Runs

| Run | Shows | Bounds |
|---|---|---|
| `UpdateTx` | types, refusal of a store that is not writable, ends of transactions, footprint, fresh labels, refinement of AtomicUpdates | 2 requests, 23 scripts: every kind of operation and three pairs; 2 triples, 3 graphs, 1 restart |
| `UpdateLive` | callers hear back, transactions end | 2 requests, 3 scripts with LOAD, failure and MOVE, 1 restart |
| `UpdateDirect` | the meaning of a request, and of a cancelled one | 1 request, all pairs of 17 operations, 3 stores |
| `UpdateTxComposite` | violated: the same pairs in a transaction | as above |
| `UpdateRejected` | violated: a rejected request has no effect | 1 request |
| `UpdateLabels` | violated: labels are never reused | 2 requests, 1 restart |
| `MemoryStore` | indexes, answers in scan order, refinement of QuadSet | 4 quads of 2 terms, 4 mutations, 2 streams |
| `ExistsCache` | cache coherent, snapshots of one moment | 2 queries of 2 groups, 3 mutations, 3 kinds of store |
| `StreamEvents` | quads once and in order, `end` last, promises settle, flow mode drains | streams of 0 to 2 quads, 5 calls, 2 data, 1 readable and 1 end listener besides the engine's |
| `JoinSearch` | plans fit together, the loop finds the plan of `KeptPlan`, its order costs what the table says | 262 blocks: every sequence of up to 3 of 6 entries, two of 4, one too large; 3 cards, 2 sets of bound variables |
| `QueryEvaluation` | answers are the algebra's whichever plan, join or evaluator; reordered blocks see one moment, the others and paths lie between moments, a resource is described as of one; costs; cancellation; every query ends | 109 queries, 6 stores, 3 kinds of planner, 1 mutation of several quads, cancellation anywhere, also between two lookups of a path |
| `SubqueryGraphs` | violated: GRAPH ?g sees every named graph | 2 queries, one of them the W3C's sq07 |

Two requests suffice for the interference of requests, since a request meets
the others only in the store, the counter and the patches. Three graphs give an
operation a source, a destination and a graph it must leave alone; two triples
let operations overlap partly. Four mutations of a store allow three quads to
share a bucket and one of them to go, which is what an index that confuses the
order needs. Three mutations let a drain begin, be overtaken and end late.
Deadlock is not checked: requests end, searches return, and counters are
bounded.

A stream of two quads has a first, a last and a moment in between; five calls
are enough to attach two listeners, start a drain, remove one inside a callback
and read. The queries of `MCQueryEvaluation` are grouped by what they exercise:
nested groups and scopes, joins beyond the hash threshold, expression errors,
subqueries, the eight path forms in all four anchorings, EXISTS, modifiers and
query forms. Each was seen to have a non-empty answer on some store, but for
those whose answer is meant to be empty. The three limits of the code are
small here so that both sides of each occur: `ProductThreshold` (4096 in the
code) is 2, `DpMaxPatterns` (8) is 3, `DistinctSampleCap` (1024) is 2. The six
stores have cycles, self-loops, the same triple in two graphs, no default
graph, more candidates than the sample cap, and nothing. One mutation tells
a block that reads one moment from one that reads two. It replaces a quad by
another or adds two at once, so that a walk may find a path whose edges were
never there together.

*Several moments.* The answers of whole queries are compared with the algebra
where the store did not change. Where it did, three properties say what is left.
A reordered block is of one moment (`BlockSeesOneMoment`). A block in written
order, one joined against an index drained before, and a path may mix moments:
they find only what quads of some moment give together, and all that the quads
there all the while give (`JoinsLieBetweenMoments`). DESCRIBE takes the arcs of
each resource from one moment, and of a later resource from no earlier one
(`DescribesEachAtOneMoment`).

The entries of `MCJoinSearch` are statistics that scans can deliver: variables
with few and with many distinct values, an entry apart from the others, one
without candidates and one without variables, so that plans tie, costs are
fractions, and a dearer plan can have the smaller card. Three patterns are the
least for which the search misses the minimum, four give a set more than one
plan of three.

### Fairness

`UpdateLive` assumes that a continuation whose await has settled runs
(`LoopFairness`: the event loop), and that the timer of an unsettled request
fires (`TimerFairness`: `setTimeout` with a default delay). Nothing is assumed
of the host there: `CallerHearsBack` holds although a document may never
arrive. `TransactionsEnd` is conditional on `HostFairness`, that reads,
documents and commits are answered; LOAD's fetch is not cancelled by the
signal, so without it a transaction may stay open for ever.

`StreamEvents` assumes that a call on the stack returns and that microtasks
run, which the language guarantees, and nothing of the client. `QueryEnds`
assumes that an evaluation that can go on does: weak fairness of `Evaluation`,
written `<>[]CanEvaluate => []<><<Evaluation>>_vars` with ENABLED spelled out,
since TLC evaluates ENABLED anew for every state and step. It needs no
cancellation and no fairness of the mutations, which are bounded.

## Findings

1. *Composite updates in a transaction* (`UpdateTxComposite`): operations read
   the store, not the buffer, so `INSERT DATA {...} ; COPY ...` copies nothing
   of what it inserted. Without a transaction the same request is right.
2. *Rejected but applied* (`UpdateRejected`): a timeout during commit rejects
   the promise; the commit goes through.
3. *Labels are reused* (`UpdateLabels`): the counter is per evaluator; a new
   engine on a durable store mints labels the store already holds.
4. *A snapshot per group*: the comment says one snapshot per query evaluation;
   each group with an EXISTS prepares its own, at a later await. What holds
   instead is `SnapshotsOfOneMoment`: nested groups hold later moments.
5. *Write stores are refused*: the documentation says that addQuad and
   removeQuad suffice; executeUpdate requires the kind `"memory"`. It is one
   guard (`Refuse`), so no run is spent on it.
6. *GRAPH ?g in a subquery* (`SubqueryGraphs`): the subquery's evaluator is
   constructed over the view of the current graph, and asks that view which
   named graphs there are. At the top level there are none. The W3C's sq07
   expects two rows; the repository's runner counts the case as passed because
   its RDF/XML data is refused by both engines it compares.
7. *A late data listener* hears nothing when flow mode stopped because the
   last data listener was removed; the comment says that attaching one drains
   the stream. `FlowEnds` is stated for streams that keep a listener.
8. *Context lost*: COALESCE, IF, IN and sameTerm evaluate their operands
   without the context, so EXISTS inside them throws and IRI() has no base.
   The model does not put EXISTS there.
9. *?g leaks out of EXISTS*: GRAPH ?g inside EXISTS writes into the solution
   objects its group returns, which may be the outer solution itself.
10. *Not the minimum*: the architecture document calls the search globally
   optimal under the model. It keeps the cheapest plan of each set of patterns,
   whose card may be larger than that of a dearer one. Of the entries `Three`,
   `Seven` and `Apart` of `MCJoinSearch`, the first two cost 13.5 in this order
   and leave 10.5 solutions, and cost 14 the other way and leave 7. So the
   search keeps the first plan, and joining the third entry makes it 76.5 where
   the other order costs 56. `PlanCostsAsClaimed` states the optimum for two
   patterns.
11. *Not the lowest estimate*: the greedy loop splices the joined pattern out of
   `remaining` and goes on to index `perEntryStats`, which still has it, so from
   the second turn on a pattern is costed with the statistics of another. The
   comment says that the pattern with the lowest estimated cost is joined.
   `GreedyChoice` costs as the code does; the answers do not depend on it.

Beside these, where the code deviates from SPARQL and no text of the repository
says otherwise: the effective boolean value of an IRI is true instead of an
error; a blank node at the end of a path pattern is a constant; EXISTS applies
FILTERs in written order; SELECT DISTINCT * compares blank-node variables it
then drops. The model follows the code, and `SparqlAlgebra` the code's choice
where a checked query depends on it.

Two direct requests that overlap are not serializable (MOVE's second fetch
removes what another request adds to the source in between). The documents
promise atomicity only with a transaction, so this is listed as a hazard and
not as a finding. COPY of a graph onto itself relies on the host replaying the
buffer in call order. Three more hazards are met by the code and so caught by no
property: findings 7, 10 and 11 say what it does instead.

## What is proved

The runs look at two requests, two queries and a handful of quads; the theorems
hold for any number of them.

| Theorem | States |
|---|---|
| `Updates_proofs!TypesHold` | `Spec => []TypeOK` |
| `Updates_proofs!TransactionsEndOnce` | `Spec => []TransactionOutcome` |
| `Updates_proofs!FreshLabels` | `Spec => []LabelsAreFresh` |
| `Updates_proofs!WritesStayInside` | `Spec => []PatchInFootprint` |
| `Updates_proofs!UpdatesAreAtomic` | `Spec /\ writer # "memory" => ImplementsAtomicUpdates` |
| `Updates_proofs!SuccessMeansSparql` | `SpecWithHistory => []MatchesSparqlMeaning`, for one direct request |
| `Updates_proofs!CancellationStopsAtBoundary` | `SpecWithHistory => []CancelledStopsAtBoundary`, for one direct request |
| `MemoryStore_proofs!TypesHold` | `Spec => []TypeOK` |
| `MemoryStore_proofs!IndexesAreExact` | `Spec => []IndexExact` |
| `MemoryStore_proofs!AnswersAreScans` | `Spec => []AnswersLikeScan` |
| `MemoryStore_proofs!StoreIsASet` | `Spec => ImplementsQuadSet` |
| `ExistsSnapshot_proofs!TypesHold` | `Spec => []TypeOK` |
| `ExistsSnapshot_proofs!CacheIsCoherent` | `Spec => []CacheCoherent` |
| `ExistsSnapshot_proofs!HeldSnapshotsAreMoments` | `Spec => []SnapshotsOfOneMoment` |
| `MemoryStream_proofs!TypesHold` | `Spec => []TypeOK` |
| `MemoryStream_proofs!QuadsHandedOutOnce` | `Spec => []HandedOutOnce` |
| `MemoryStream_proofs!EndIsLast` | `Spec => EndMeansConsumed` |
| `MemoryStream_proofs!MatchAnswersInFull` | `Spec => []MatchIsComplete` |
| `Joins_proofs!HashFindsTheCompatible` | the hash index offers exactly the compatible rows, none twice |
| `Joins_proofs!PartnersAreTheCompatible` | so does a join, nested or hashed |
| `Joins_proofs!MinusEliminatesTheCompatible` | MINUS eliminates a solution exactly for a compatible one that shares a variable |
| `Joins_proofs!HashJoinIsNestedLoop` | a hashed join is a rearrangement of the nested loop |
| `Joins_proofs!KeptPlanCosts` | the plan kept for a block joins every pattern once and costs what its joins cost; of two patterns, no order costs less |
| `Joins_proofs!BlockMeansItsTriples` | a block joined in any order, with or without an index, gives its mappings, each once |
| `Joins_proofs!WalksFindTheReachable` | `*` and `+` walks end and find exactly what steps lead to, each term once |
| `Joins_proofs!WalksAgreeFromEitherEnd` | such a path finds the same pairs from either end |
| `JoinSearch_proofs!SearchFitsTogether` | `Spec => []PlansFitTogether` |
| `JoinSearch_proofs!SearchFindsKeptPlan` | `Spec => []OrderIsOfKeptPlan` |
| `JoinSearch_proofs!SearchPricesItsOrder` | `Spec => []CostIsOfOrder` |
| `QueryEvaluation_proofs!EvaluationIsWellFormed` | `Spec => []TypeOK` |
| `QueryEvaluation_proofs!CancelledEvaluationReadsNoMore` | `Spec => CancelledReadsNoMore` |
| `QueryEvaluation_proofs!BlocksSeeOneMoment` | `Spec => []BlockSeesOneMoment` |
| `QueryEvaluation_proofs!PlansCostWhatTheyClaim` | `Spec => []PlanCostsAsClaimed`, if operators return sequences |
| `QueryEvaluation_proofs!GroupsPartition` | GROUP BY partitions the solutions by the values of its expressions |
| `QueryEvaluation_proofs!SortIsStable` | ORDER BY is a stable sort: a rearrangement, ties in their order |
| `QueryEvaluation_proofs!PagesMakeTheWhole` | OFFSET and LIMIT cut an answer, DISTINCT or not, into pages that make up the whole |

Assumptions, named in the modules and evaluated by the runs: the default graph
is a graph; markers (`None`, `VariableGraph`, `NoBucket`, `Wildcard`, `NoQuad`)
are none of the values they stand beside; scripts are sequences of operations;
an ADD, COPY or MOVE names a destination; data and graphs of updates are
finite; bounds and thresholds are numbers; a snapshot is not `None`; a block to
plan is a sequence of entries whose counts are numbers; queries are trees of
patterns and stores list their quads once (`EvaluationAssumption`).

*Types of updates.* `TypeOK` is not inductive. COPY and MOVE write to their
destination, and that the operation has one follows from the step the request
is at, so the invariant adds `StepInRange`: the step index is an index of the
operation's steps, whichever operation that is. INSERT templates mint one label
per row, so the rows have to be finite, and therefore also the store they were
read from and the patches that are committed to it (`FiniteData`). The three
together are `IInv`; each is shown to be preserved, action by action
(`NextTypes`, `NextRange`, `NextFinite`).

*Ends of transactions.* `TransactionOutcome` is inductive given the types. The
step that matters is `Fail`: whatever fails does so while the transaction is
open, hence before the caller can have been told of success (`FailOutcome`).

*Fresh labels.* The store and the patches are not enough: a label also hides in
what COPY has fetched, or a WHERE clause has bound, and what will be written
later. `LabelInv` bounds those too. The theorem is about one engine: a restart
makes its premise false, and `UpdateLabels` shows why.

*Footprint and atomicity.* A removal is applied at a later await than the fetch
it removes, so the patch stays in the footprint only because what is fetched
does (`FootprintInv`), and that depends on which operation a step belongs to
(`NowTellsKind`). The refinement then has five kinds of step: a commit takes
effect, a return reports success, failures, aborts and refusals give up one
request, a restart gives up many, and everything else changes nothing that
`AtomicUpdates` sees, since a transactional sink leaves the store alone. The
premise `writer # "memory"` is needed: direct writes are not atomic.

*Meaning of updates.* Both theorems assume `DirectOnly`: one request, no
transaction, no LOAD, any operations in any number, on any store. The
assumption says where the meaning holds at all. A second request may change the
store at every await; in a transaction a later operation does not see what an
earlier one wrote, which is finding 1; and whether a document loads is the
host's choice. `MeaningInv` says what the store is half way: the stage that
the operations before mean (`Stages`), then, for each kind of operation and
step, what of it is done and what the local variables hold (`Halfway`). Every
step leads from one half-way state to the next or to the operation's effect.
For cancellation, `CancelInv` relates the place of the request to the operation
at which its signal fired: it is still in that one, or about to begin the next.

*The store.* `IndexExact` is inductive with the types. Adding relies on the
buckets not holding the new quad already, removing on their holding it once, so
that taking out the first occurrence takes out the quad, and a bucket goes
exactly with its last quad (`AddedExact`, `RemovedExact`). `FoundIsScan` says
that the answer of getQuads has the quads of a scan; the only use of lengths
and ranks is that a smallest bucket exists (`SomeBucketProbed`). With it, every
step maps to a step of `QuadSet`: a loop takes effect when it begins, its rounds
are stutters. For the order of an answer, `InOrder` adds that a bucket is what a
scan keeps of the canonical map for its term (`Kept`). An insertion appends to
both sides and a removal takes the same quad out of both (`AddedInOrder`,
`RemovedInOrder`), and what a scan keeps of a bucket is what it keeps of the
whole, since every match of the pattern is in the bucket.

*Snapshots.* The invariant ties every drain under way, and not only the cache,
to the version it was started at; for what groups hold, it adds that versions
only grow along the nesting and never precede the query (`SnapInv`).

*Streams.* What `read` and the drain hand out is always the first of the queue,
so the handed-out quads are a prefix of the source (`QueueSteps`). That `end`
comes once and last rests on `Consumption`: quads have gone only if somebody
consumes, a drain is on the stack only while the stream flows, and an `end`
that was emitted is recorded; no callback can undo any of the three. For the
engine's own scan (`EngineInv`) nobody calls back, so the stack has one of a
few shapes; in each, what was taken is what the data listener heard, but for one
quad on its way, and `end` goes out only when none is.

*Joins.* For any solutions, left rows and right rows: a right row is in the
probed bucket or among the wildcard rows exactly if it is compatible, and never
in both. The rest is about sequences: sorting the two finds each position once
(`AscendingOnce`), so a left solution contributes the same rows in another
order, and joining such contributions end to end is a rearrangement again
(`FlattenRearranged`). MINUS keeps a subsequence, so there the order stays too.

*The join-order search.* `TableInv` says of every set in the table that its
parent is the best of the last joins tried, ties going to the highest index, and
that exactly the sets with a join tried are there. `TriedLast` reads off the
loop's place which those are; that it is all of them when the loop reaches a
mask rests on two facts on binary increments: a subset is a smaller mask
(`SubsetIsBefore`), and what is below the next mask is this one or below it
(`NextMaskFollows`). A turn of the loop therefore changes only sets that no plan
was made from, which is `PlansFitTogether`. When the loop is over every last
join was tried and the table solves the equation of `Plans` (`TableIsPlans`, by
the number of patterns in a set), costs being totally ordered; tracing the
parents then takes that plan's order apart from its end.

The same facts are needed of `Plans`, which `QueryEvaluation` calls:
`PlansKeepBest` and `PlansReplay` lead to `KeptPlanCosts`.

*Blocks.* `BlockMeansItsTriples` is about `evaluateWithReordering` after its
scans. After some joins, in any order, the solutions are those that extend the
starting one to the variables of the triples joined and put these triples into
the graph (`Mappings`), none twice. A join adds one triple: a quad that agrees
with the triple under a solution determines the extension, since a graph has no
two quads with one triple, and conversely a mapping of one triple more is the
extension of its own restriction by the quad it maps the triple to
(`MappingsStep`, `ExtendedByIs`). An index of a snapshot offers the quads that
agree, the scan may offer more, which `Extended` rejects (`PoolIs`).

*Walks.* A turn expands the head of the queue for good. `IsWalk` says that
everything found or started from and no longer queued has all its steps among
what was found, and that there are as many such terms as there were turns. So
after one turn per term of the graph the queue is empty, what was found is
closed under steps, and every turn stayed inside any set that is
(`WalkedIsLeast`). The least closed set is what chains of steps reach. The start
of a `+` walk is expanded first and never queued again, which `Done` accounts
for. A pattern whose object alone is a constant is walked backward. A chain read
from its end is a chain of the converse steps, so both ways find the same pairs
(`WalksAgreeFromEitherEnd`).

*The clauses of a SELECT.* `GroupsPartition`, `SortIsStable` and
`PagesMakeTheWhole` are about `SelectPipeline`, for solutions and values of any
kind; that the clauses follow each other in the right order is
`ModifiersMeanTheAlgebra`, checked by TLC. The comparison of sort keys looks at
the clauses in turn, each up or down; two keys differ at a first clause or are
equal (`KeysAreOrdered`, `KeysInTurn`), so with ties decided by position it is a
total order (`SortIsTotal`), and counting what comes before a solution gives
every one its own place. Here terms compare as their ranks do: that
`compareRdfTerms` orders terms of all kinds consistently is not modelled.

*The evaluation of queries.* Four theorems about `QueryEvaluation`, for any
queries, stores, nesting, mutations, estimators and operators.

* `TypeOK` needs to know that frames form a stack: every frame but the top one
  waits for the nested groups of its first pattern, and only a frame that has
  entered one has jobs or answers (`Settled`, `IsStack`; `TypeInv`). SERVICE
  SILENT cuts the stack anywhere; what is left is a stack again (`Cut`).
* `CancelledReadsNoMore` follows from each step's guard. Its content is which
  steps have a checkpoint and which read: a block that skips the signal
  (bgp-evaluator.ts:1223) reads nothing after it, while a path is not given the
  signal and its walk reads on to its last lookup. So the property excepts the
  walk under way, and says that no other begins.
* `BlockSeesOneMoment`: for a WHERE that is one block, `BlockInv` says that the
  one frame has either the whole block ahead of it and the unit solution, or
  nothing ahead and the answers of some moment. The step between the two joins
  in the order of the search or of the greedy loop. That either order has every
  triple once is `OrdersCover` and `GreedyOrderCovers`: the loop splices one
  entry out of `remaining` a turn, whichever the estimator prefers, and by
  `GreedyChosen` there is always one. `BlockMeansItsTriples` does the rest. The
  invariant also carries that the store remains a set of quads (`StoreStep`).
* `PlanCostsAsClaimed` is `KeptPlanCosts` of the entries and solutions at hand,
  if the solutions are a sequence and the statistics counts (`StatsAreCounts`).
  That they are is a fact about every frame: its solutions, its snapshot, the
  answers of its nested groups are sequences, the statistics it shares are
  counts, and the patterns ahead come from the queries (`Gathers`, `RowsInv`).
  The theorem's hypothesis `ComputesRows` is that the operators of the
  CONSTANTS return sequences, a walk's pairs included, for the paths, conditions and SELECTs of the
  queries when given sequences. The functions of the code return arrays; for
  the definitions the runs use it cannot be proved, as they are RECURSIVE.

`TypeInv` and `BlockInv` were also checked by TLC, as invariants of the
`QueryEvaluation` run.

*Recursive functions.* The library's induction theorems take an operator, which
the provers cannot instantiate. Where a proof needs induction, here for
existence and equations of `Kept`, `Stages`, `Plans`, `ReplayedPlan`,
`BlockJoins`, `GreedyTurns` and `Turns` and for facts on all sequences, it takes
a least counterexample (`LeastNatural`).

Only model-checked:

* the answers of whole queries: `GroupsMeanTheAlgebra`, `PathsMeanTheirRelation`,
  `ExistsMeansSubstitution` and `ModifiersMeanTheAlgebra` compare the evaluators
  with `SparqlAlgebra`, and both are RECURSIVE operators over patterns, with
  which the prover loses its SMT backend. The theorems on joins, MINUS, blocks,
  walks, groups, sorting and slices are the parts of it that need no such
  recursion;
* what lies between moments: `JoinsLieBetweenMoments` is about path walks, which
  are RECURSIVE too, and `DescribesEachAtOneMoment` stands beside it;
* the meaning of updates with several requests, where it fails in general, and
  with LOAD, whose outcome TLC enumerates;
* all liveness: fairness and ENABLED are beyond the prover.

## Not modelled

* *Parsers* (`src/parser`, over half of the repository's code, most of it
  generated LR tables) and the *serializers*: text in, text out. They and the
  benchmarks are why the models stand for a small share of the lines and for
  most of the lines that decide an answer.
* *The expression library*: functions over strings, numbers, dates and hashes,
  the arithmetic of SUM and AVG, GROUP_CONCAT, casts, the ordering of literals
  of different types. What is modelled of expressions is what decides which
  solutions survive: errors, effective boolean values, EXISTS, logic.
* *Reified triples and triple terms*: an expansion into ordinary triples with a
  label counter of the whole process.
* *SERVICE inside EXISTS*, and the text of remote requests: SERVICE is a group
  that may fail.
* *The parse cache*: a map from text to a tree that nobody mutates.
* *Terms*: `termKey` is taken to give every term its own key.
* *WHERE clauses of updates half way*: the WHERE clause of an update is evaluated
  in one step. What it may answer while other requests change the store is not
  documented, so there is nothing to hold it to.
* *Command line, native build, playground*: input and output around the engine.
