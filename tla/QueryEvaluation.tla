--------------------------- MODULE QueryEvaluation ---------------------------
(***************************************************************************)
(* The evaluation of one query by SparqlEvaluator and BgpEvaluator, split   *)
(* where it waits for the store.  Group graph patterns nest, so the         *)
(* evaluations under way form a stack of frames; the top one moves.         *)
(* Between its steps the caller may cancel and other requests may change    *)
(* the store.                                                               *)
(*                                                                          *)
(* What is computed without waiting comes in as operators: this module says *)
(* when they are called, and on what; what they compute makes no difference *)
(* to the order of the steps.  PatternEvaluation and PathLookups define     *)
(* them, under the names given here.                                        *)
(***************************************************************************)
EXTENDS SelectPipeline, JoinOrder

CONSTANTS WalkAfter(_, _, _, _),      \* PathWalk: what a path pattern asks for next, or its pairs
          ExpressionResult(_, _, _),  \* Evaluate: an expression over a solution
          RowsPassing(_, _, _),       \* AllPassing: the solutions that pass conditions
          LeftJoined(_, _, _, _),     \* LeftJoin: the join of an OPTIONAL
          SelectSolutions(_, _, _),   \* ApplySelectPipeline: the clauses of a SELECT
          GroupHasExists(_),          \* ContainsExists: whether EXISTS occurs in patterns
          PipelineHasExists(_)        \* PipelineNeedsExists: or in the clauses of a SELECT

CONSTANTS Queries,      \* the queries a run evaluates: records with a form, see below
          Stores,       \* the stores it starts from: sequences of quads
          Estimators,   \* "baseline", "custom" or "none": none evaluates in written order
          Patterns,     \* the patterns of their groups, those of nested groups included
          Patches,      \* the changes other requests may make: quads to remove and to add
          MaxChanges    \* bound: changes to the store while the query runs

\* A query is a SELECT record with a where, and: form ("select", "ask", "construct",
\* "describe"), from and fromNamed (sequences of graphs), template (triples) and
\* described (terms and variables).

\* The patterns whose groups are listed under patterns.
Grouping == {"optional", "minus", "group", "service", "union", "graph"}

IsPattern(p) ==
    /\ p.type \in Grouping \cup {"query", "bgp", "filter", "bind", "values"}
    /\ p.type \in Grouping => p.patterns \in Seq(Patterns)
    /\ p.type = "query" => p.where \in Seq(Patterns)
    /\ p.type = "values" => p.rows \in Seq(ToSet(p.rows))
    /\ p.type = "bgp" => /\ p.triples \in Seq(ToSet(p.triples)) /\ p.triples # <<>>
                         /\ \A k \in DOMAIN p.triples : IsPath(p.triples[k]) \/ IsClosed(p.triples[k])

IsQuad(q) == q = << q[1], q[2], q[3], q[4] >>

\* A store is a set of quads, in the order they are matched; a parsed query is a tree.
IsContent(s) == s \in Seq(ToSet(s)) /\ IsInjective(s) /\ \A k \in DOMAIN s : IsQuad(s[k])

ASSUME EvaluationAssumption ==
    /\ MaxChanges \in Nat
    /\ \A s \in Stores : IsContent(s)
    /\ \A patch \in Patches : IsContent(patch.add)
    /\ \A q \in Queries : q.where \in Seq(Patterns)
    /\ \A p \in Patterns : IsPattern(p)

VARIABLES query, estimator,
          quads,       \* the store
          changes,
          aborted,     \* the caller's signal
          phase,       \* "dataset", "where", "reload" (of DESCRIBE), "done", "cancelled"
          loading,     \* FROM clauses still to load: [graph, named]
          dataset,     \* << quads >> of the active dataset of a query with FROM, else << >>
          frames,      \* the evaluations under way, outermost first
          reading,     \* history: whether the last step read the store
          moments,     \* history: the stores there were, from the first on
          resources,   \* DESCRIBE: resources still to read
          answer       \* the answer: solutions, triples, or << >> for false

vars == << query, estimator, quads, changes, aborted, phase, loading, dataset, frames, reading,
           moments, resources, answer >>

AllGraphs == "all graphs"
NoSelect == [form |-> "none"]

(***************************************************************************)
(* What an evaluator sees.  root is its store: all of it, or for the        *)
(* evaluator of a subquery the view on one graph.                           *)
(***************************************************************************)
Source == IF dataset = <<>> THEN quads ELSE dataset[1]

Drained(root) == IF root = AllGraphs THEN Source ELSE InGraph(Source, root)

\* A frame evaluates one group: todo are the patterns ahead, rows the solutions so far,
\* scope the graph they are matched in, snapshot << quads >> when EXISTS occurs in the
\* group; entered, jobs and inner belong to the nested groups of the first pattern, walk
\* holds the answers to the lookups of its first triple, a path, so far.
\* A job is a nested group; bind is the variable a GRAPH ?g gives the scope to, and
\* select the SELECT whose WHERE the group is.
Job(patterns, root, scope, bind, select) ==
    [patterns |-> patterns, root |-> root, scope |-> scope, bind |-> bind, select |-> select]

(***************************************************************************)
(* Frames                                                                   *)
(***************************************************************************)
\* Mutant: every block is scanned triple by triple.
PlannedAsWritten(p) ==
    IF p.type # "bgp" THEN p ELSE [type |-> "chain", triples |-> p.triples]

\* A block is joined in the planner's order, a chain triple by triple as written.
Planned(p) ==
    IF p.type # "bgp" THEN p
    ELSE [type    |-> IF /\ estimator # "none" /\ Len(p.triples) > 1
                         /\ \A k \in DOMAIN p.triples : ~IsPath(p.triples[k])
                      THEN "block" ELSE "chain",
          triples |-> p.triples]

Opened(job, stats) ==
    LET steps == NonFilters(job.patterns) \o Filters(job.patterns)
    IN  [todo     |-> [k \in DOMAIN steps |-> Planned(steps[k])],
         rows     |-> Unit,
         job      |-> job,
         snapshot |-> IF GroupHasExists(job.patterns) THEN << Drained(job.root) >> ELSE <<>>,
         stats    |-> stats,
         walk     |-> <<>>,
         entered  |-> FALSE, jobs |-> <<>>, inner |-> <<>>]

OpeningReads(frame) == frame.snapshot # <<>>

Top == Last(frames)
Now == Head(Top.todo)
Scoped == InGraph(Source, Top.job.scope)

\* The evaluation of expressions in the top frame.
Context == [quads |-> IF Top.snapshot = <<>> THEN <<>> ELSE Top.snapshot[1], graph |-> Top.job.scope]

\* existsIndexForScope: the snapshot, when the default graph is all it holds.
PrebuiltIndex ==
    IF Top.snapshot # <<>> /\ Top.job.scope = DefaultGraph
       /\ \A k \in DOMAIN Top.snapshot[1] : Top.snapshot[1][k][4] = DefaultGraph
    THEN Top.snapshot ELSE <<>>

Conditions(p) == [k \in DOMAIN Filters(p.patterns) |-> Filters(p.patterns)[k].expr]

\* The nested groups of a pattern, in the order they are evaluated.
NestedJobs(p) ==
    LET Here(patterns) == Job(patterns, Top.job.root, Top.job.scope, NoVariable, NoSelect)
        There(graph, bind) == Job(p.patterns, Top.job.root, graph, bind, NoSelect)
        graphs == NamedGraphTerms(Drained(Top.job.root))
    IN  CASE p.type = "optional" -> << Here(NonFilters(p.patterns)) >>
          [] p.type \in {"minus", "group", "service"} -> << Here(p.patterns) >>
          [] p.type = "union" -> [k \in DOMAIN p.patterns |-> Here(<< p.patterns[k] >>)]
          [] p.type = "graph" -> IF p.name \in Variables
                                 THEN [k \in DOMAIN graphs |-> There(graphs[k], p.name)]
                                 ELSE << There(p.name, NoVariable) >>
          \* The evaluator of a subquery is given the view of the current graph for a store.
          [] p.type = "query" -> << Job(p.where, Top.job.scope, Top.job.scope, NoVariable, p) >>

IsNesting(p) == p.type \in Grouping \cup {"query"}
IsLocal(p)   == p.type \in {"filter", "bind", "values"}

IsSilent(frame) ==
    frame.entered /\ Head(frame.todo).type = "service" /\ Head(frame.todo).silent

\* Mutant: the group of a SERVICE SILENT that failed is not left.
UnwoundStillEntered(stack) ==
    LET catching == {i \in DOMAIN stack : IsSilent(stack[i])}
        last     == Max(catching)
    IN  IF catching = {} THEN <<>>
        ELSE Append(SubSeq(stack, 1, last - 1), [stack[last] EXCEPT !.todo = Tail(@)])

\* The frames left when something is thrown in the last one: those up to the innermost
\* SERVICE SILENT, which goes on as if it had not been there.  << >>: nobody catches.
Unwound(stack) ==
    LET catching == {i \in DOMAIN stack : IsSilent(stack[i])}
        last     == Max(catching)
    IN  IF catching = {} THEN <<>>
        ELSE Append(SubSeq(stack, 1, last - 1),
                    [stack[last] EXCEPT !.todo = Tail(@), !.entered = FALSE, !.jobs = <<>>, !.inner = <<>>])

(***************************************************************************)
(* The order in which a block is joined                                     *)
(***************************************************************************)
PositionOf(triple, v) ==
    Max({k \in 1..3 : << triple.s, triple.p, triple.o >>[k] = v})

StatsKey(triple) == << Top.job.scope # DefaultGraph, triple >>

\* Blank nodes are counted in the statistics but not in the cost model.
PatternStatistics(triples) ==
    [key \in DOMAIN Top.stats \cup {StatsKey(triples[k]) : k \in DOMAIN triples} |->
        IF key \in DOMAIN Top.stats THEN Top.stats[key]
        ELSE FallbackStats(Scan(Scoped, key[2]),
                           [v \in TripleVars(key[2]) |-> PositionOf(key[2], v)])]

Entries(triples, stats) ==
    [k \in DOMAIN triples |->
        [vars       |-> TripleVars(triples[k]) \cap Variables,
         candidates |-> stats[StatsKey(triples[k])].candidates,
         distinct   |-> stats[StatsKey(triples[k])].distinct]]

\* One turn of the greedy loop: the triple chosen is joined, and left out from then on.
GreedyStep(acc, triples, entries) ==
    LET k == GreedyChoice([j \in DOMAIN acc.left |-> entries[acc.left[j]]], entries, acc.rows)
    IN  [order |-> Append(acc.order, acc.left[k]),
         left  |-> RemoveAt(acc.left, k),
         rows  |-> JoinTriplePattern(acc.rows, triples[acc.left[k]],
                                     Scan(Scoped, triples[acc.left[k]]), PrebuiltIndex)]

\* The loop after its first n turns, as a function of n.
GreedyTurns(triples, entries, rows) ==
    LET acc[n \in 0 .. Len(triples)] ==
            IF n = 0 THEN [order |-> <<>>, left |-> [k \in DOMAIN triples |-> k], rows |-> rows]
            ELSE GreedyStep(acc[n - 1], triples, entries)
    IN  acc

GreedyOrder(triples, entries, rows) == GreedyTurns(triples, entries, rows)[Len(triples)].order

\* The orders the reordering may choose for the triples of a block, and what it reads
\* of the store is read for all of them at once.
Orders(triples, entries, rows) ==
    IF estimator = "custom" THEN SetToSeqs(DOMAIN triples)
    ELSE IF Len(triples) <= DpMaxPatterns
         THEN {SearchBestJoinOrder(entries, Len(rows), BoundVariables(rows))}
    ELSE {GreedyOrder(triples, entries, rows)}

(***************************************************************************)
(* Steps                                                                    *)
(***************************************************************************)
FromClauses(q) ==
    [k \in DOMAIN q.from |-> [graph |-> q.from[k], named |-> FALSE]]
        \o [k \in DOMAIN q.fromNamed |-> [graph |-> q.fromNamed[k], named |-> TRUE]]

\* The active dataset before anything is loaded; without FROM it is the store itself.
EmptyDataset(q) == IF FromClauses(q) = <<>> THEN <<>> ELSE << <<>> >>

\* DESCRIBE without a WHERE evaluates nothing, and goes straight to its resources.
OnlyDescribes(q) == q.form = "describe" /\ q.where = <<>>

\* Literals are not describable; none of the terms here is one.
DescribedResources(q, rows) ==
    FlattenSeq([k \in DOMAIN q.described |->
        IF q.described[k] \notin QueryVariables THEN << q.described[k] >>
        ELSE FlattenSeq([i \in DOMAIN rows |->
                 IF q.described[k] \in DOMAIN rows[i] THEN << rows[i][q.described[k]] >> ELSE <<>>])])

Init ==
    /\ query \in Queries
    /\ estimator \in Estimators
    /\ quads \in Stores
    /\ changes = 0 /\ aborted = FALSE /\ reading = FALSE
    /\ phase = IF OnlyDescribes(query) THEN "reload" ELSE "dataset"
    /\ loading = FromClauses(query)
    /\ dataset = EmptyDataset(query)
    /\ frames = <<>> /\ answer = <<>> /\ moments = << quads >>
    /\ resources = IF OnlyDescribes(query) THEN DescribedResources(query, <<>>) ELSE <<>>

\* The quads of a FROM graph join the default graph; those of a FROM NAMED graph stay.
Loaded(clause) ==
    LET found == InGraph(quads, clause.graph)
    IN  Deduplicated(dataset[1] \o [k \in DOMAIN found |->
            IF clause.named THEN found[k] ELSE << found[k][1], found[k][2], found[k][3], DefaultGraph >>])

\* buildDatasetStore: one read for every clause.
Load ==
    /\ phase \in {"dataset", "reload"} /\ loading # <<>>
    /\ dataset' = << Loaded(Head(loading)) >>
    /\ loading' = Tail(loading)
    /\ reading' = TRUE
    /\ UNCHANGED << query, estimator, quads, changes, moments, aborted, phase, frames, resources, answer >>

\* Mutant: the signal is looked at nowhere.
CheckedNowhere == TRUE

Checked == ~aborted

\* evaluateBgp and its group begin, over the default graph.
Open ==
    /\ phase = "dataset" /\ loading = <<>> /\ Checked
    /\ LET job == Job(query.where, AllGraphs, DefaultGraph, NoVariable, query)
       IN  /\ frames' = << Opened(job, <<>>) >>
           /\ reading' = OpeningReads(Opened(job, <<>>))
    /\ phase' = "where"
    /\ UNCHANGED << query, estimator, quads, changes, moments, aborted, loading, dataset, resources, answer >>

Evaluating == phase = "where" /\ Top.jobs = <<>> /\ Top.todo # <<>>

StepTop(frame) == frames' = [frames EXCEPT ![Len(frames)] = frame]

Untouched == UNCHANGED << query, estimator, quads, changes, moments, aborted, phase, loading, dataset, resources, answer >>

\* A pattern with nested groups: GRAPH ?g reads the named graphs.
Enter ==
    /\ Evaluating /\ ~Top.entered /\ IsNesting(Now) /\ Checked
    /\ StepTop([Top EXCEPT !.entered = TRUE, !.jobs = NestedJobs(Now)])
    /\ reading' = (Now.type = "graph" /\ Now.name \in Variables)
    /\ Untouched

\* evaluateGroup of the next nested group.  A subquery keeps statistics of its own.
Descend ==
    /\ phase = "where" /\ Top.jobs # <<>> /\ Checked
    /\ LET job == Head(Top.jobs)
           frame == Opened(job, IF job.select = NoSelect THEN Top.stats ELSE <<>>)
       IN  /\ frames' = Append([frames EXCEPT ![Len(frames)].jobs = Tail(@)], frame)
           /\ reading' = OpeningReads(frame)
    /\ Untouched

\* All nested groups are evaluated: their solutions meet those of the group.
Joined(p, right) ==
    CASE p.type = "optional" -> LeftJoined(Top.rows, right, Conditions(p), Context)
      [] p.type = "minus"    -> Minus(Top.rows, right)
      [] OTHER               -> InnerJoin(Top.rows, right)

Combine ==
    /\ Evaluating /\ Top.entered
    /\ StepTop([Top EXCEPT !.todo = Tail(@), !.entered = FALSE, !.inner = <<>>,
                           !.rows = Joined(Now, FlattenSeq(Top.inner))])
    /\ reading' = FALSE /\ Untouched

\* A group without patterns ahead hands its solutions to the group around it.  The
\* SELECT pipeline of a subquery drains a snapshot of its own when it needs one.
Solved(frame) ==
    LET q == frame.job.select
        ctx == [quads |-> IF PipelineHasExists(q) THEN Drained(frame.job.root) ELSE <<>>,
                graph |-> DefaultGraph]
    IN  IF q = NoSelect \/ q.form # "select" THEN frame.rows
        ELSE SelectSolutions(frame.rows, q, ctx)

SolvingReads(frame) ==
    /\ frame.job.select # NoSelect
    /\ frame.job.select.form = "select" /\ PipelineHasExists(frame.job.select)

\* The solutions of GRAPH ?g get the graph, unless they bind ?g to another one.
Tagged(rows, bind, graph) ==
    IF bind = NoVariable THEN rows
    ELSE FlattenSeq([i \in DOMAIN rows |-> Bound(rows[i], bind, graph)])

Return ==
    /\ phase = "where" /\ Len(frames) > 1 /\ Top.todo = <<>>
    /\ frames' = Append(SubSeq(frames, 1, Len(frames) - 2),
           [frames[Len(frames) - 1] EXCEPT
               !.inner = Append(@, Tagged(Solved(Top), Top.job.bind, Top.job.scope)),
               !.stats = IF Top.job.select = NoSelect THEN Top.stats ELSE @])
    /\ reading' = SolvingReads(Top)
    /\ Untouched

\* What a chain has ahead when its first triple is joined.
NextInChain ==
    (IF Len(Now.triples) = 1 THEN <<>> ELSE << [Now EXCEPT !.triples = Tail(@)] >>) \o Tail(Top.todo)

\* One triple of a chain: scanned, then joined.
JoinNext ==
    /\ Evaluating /\ Now.type = "chain" /\ ~IsPath(Head(Now.triples)) /\ Checked
    /\ LET triple == Head(Now.triples)
       IN  StepTop([Top EXCEPT
               !.rows = JoinTriplePattern(@, triple, Scan(Scoped, triple), PrebuiltIndex),
               !.todo = NextInChain])
    /\ reading' = TRUE
    /\ Untouched

\* A path of a chain: the signal is looked at before its walk and never during it.
OnPath ==
    /\ Evaluating /\ Now.type = "chain" /\ IsPath(Head(Now.triples))
    /\ Top.walk = <<>> => Checked

WalkOf(triple) == WalkAfter(triple.path, triple.s, triple.o, Top.walk)

\* pathSteps and scanPathEntry: one lookup after the other, each awaited.
LookUp ==
    /\ OnPath
    /\ LET ask == WalkOf(Head(Now.triples)).ask
       IN  /\ ask # <<>>
           /\ StepTop([Top EXCEPT !.walk = Append(@, MatchQuads(Scoped, ask[1][1], ask[1][2], ask[1][3]))])
    /\ reading' = TRUE
    /\ Untouched

\* The walk is over: its pairs are joined.
JoinPath ==
    /\ OnPath
    /\ LET triple == Head(Now.triples)
       IN  /\ WalkOf(triple).ask = <<>>
           /\ StepTop([Top EXCEPT
                  !.rows = JoinPathPattern(@, WalkOf(triple).pairs, triple.s, triple.o),
                  !.todo = NextInChain, !.walk = <<>>])
    /\ reading' = FALSE
    /\ Untouched

\* evaluateWithReordering: every triple is scanned at once, then all are joined
\* without waiting again (and without looking at the signal, which is not passed on).
JoinBlock ==
    /\ Evaluating /\ Now.type = "block" /\ Checked
    /\ LET stats == PatternStatistics(Now.triples)
       IN  \E order \in Orders(Now.triples, Entries(Now.triples, stats), Top.rows) :
               StepTop([Top EXCEPT
                   !.rows  = JoinedInOrder(@, Now.triples, order, Scoped, PrebuiltIndex),
                   !.stats = stats,
                   !.todo  = Tail(@)])
    /\ reading' = TRUE
    /\ Untouched

AfterBind(v, var) ==
    IF v.value = Undef \/ var \in DOMAIN v.after THEN v.after ELSE Bound(v.after, var, v.value)[1]

LocalRows(p, rows) ==
    CASE p.type = "values" -> JoinValues(rows, p.rows)
      [] p.type = "filter" -> RowsPassing(<< p.expr >>, rows, Context)
      [] p.type = "bind"   -> [i \in DOMAIN rows |-> AfterBind(ExpressionResult(p.expr, rows[i], Context), p.var)]

\* FILTER, BIND and VALUES wait for nothing.
Apply ==
    /\ Evaluating /\ IsLocal(Now) /\ Checked
    /\ StepTop([Top EXCEPT !.rows = LocalRows(Now, @), !.todo = Tail(@)])
    /\ reading' = FALSE /\ Untouched

\* checkAborted throws: at the beginning of the evaluation, of a group, of a pattern
\* and of a triple of a chain, but nowhere in the walk of a path.
AtCheckpoint ==
    \/ phase = "dataset" /\ loading = <<>>
    \/ phase = "where" /\ (Top.jobs # <<>> \/ (Top.todo # <<>> /\ ~Top.entered /\ Top.walk = <<>>))

Stop ==
    /\ aborted /\ AtCheckpoint
    /\ frames' = Unwound(frames)
    /\ phase' = IF frames' = <<>> THEN "cancelled" ELSE phase
    /\ reading' = FALSE
    /\ UNCHANGED << query, estimator, quads, changes, moments, aborted, loading, dataset, resources, answer >>

\* A position of a CONSTRUCT template: blank nodes are fresh for every solution.
TemplateTerm(t, row, i) ==
    IF t \in BlankVariables THEN t \o ToString(i)
    ELSE IF t \notin Variables THEN t
    ELSE IF t \in DOMAIN row THEN row[t] ELSE Undef

Constructed(template, rows) ==
    LET triples == FlattenSeq([i \in DOMAIN rows |-> [k \in DOMAIN template |->
                       << TemplateTerm(template[k].s, rows[i], i), TemplateTerm(template[k].p, rows[i], i),
                          TemplateTerm(template[k].o, rows[i], i), DefaultGraph >>]])
    IN  Deduplicated(SelectSeq(triples, LAMBDA t : Undef \notin {t[1], t[2], t[3]}))

\* The WHERE is evaluated: what becomes of its solutions depends on the query's form.
Finish ==
    /\ phase = "where" /\ Len(frames) = 1 /\ Top.todo = <<>>
    /\ frames' = <<>>
    /\ reading' = SolvingReads(Top)
    /\ IF query.form = "describe"
       THEN /\ phase' = "reload" /\ UNCHANGED answer
            /\ resources' = DescribedResources(query, Top.rows)
            /\ loading' = FromClauses(query) /\ dataset' = EmptyDataset(query)
       ELSE /\ phase' = "done" /\ UNCHANGED << resources, loading, dataset >>
            /\ answer' = CASE query.form = "select"    -> Solved(Top)
                           [] query.form = "ask"       -> IF Top.rows = <<>> THEN <<>> ELSE << TRUE >>
                           [] query.form = "construct" -> Constructed(query.template, Top.rows)
    /\ UNCHANGED << query, estimator, quads, changes, moments, aborted >>

\* Mutant: what is found is described too, and only what lies ahead is remembered.
DescribeFollowing ==
    /\ phase = "reload" /\ loading = <<>> /\ resources # <<>>
    /\ LET found == MatchQuads(Source, Head(resources), AnyTerm, AnyTerm)
       IN  /\ answer' = Deduplicated(answer \o found)
           /\ resources' = Deduplicated(Tail(resources) \o Column(found, 3))
    /\ reading' = TRUE
    /\ UNCHANGED << query, estimator, quads, changes, moments, aborted, phase, loading, dataset, frames >>

\* Mutant: at its turn a resource is read along with all those ahead.
DescribeAhead ==
    /\ phase = "reload" /\ loading = <<>> /\ resources # <<>>
    /\ answer' = Deduplicated(answer \o FlattenSeq([k \in DOMAIN resources |->
                      MatchQuads(Source, resources[k], AnyTerm, AnyTerm)]))
    /\ resources' = Tail(resources)
    /\ reading' = TRUE
    /\ UNCHANGED << query, estimator, quads, changes, moments, aborted, phase, loading, dataset, frames >>

\* DESCRIBE reads the quads of one resource after the other, from every graph.
Describe ==
    /\ phase = "reload" /\ loading = <<>> /\ resources # <<>>
    /\ answer' = Deduplicated(answer \o MatchQuads(Source, Head(resources), AnyTerm, AnyTerm))
    /\ resources' = Tail(resources)
    /\ reading' = TRUE
    /\ UNCHANGED << query, estimator, quads, changes, moments, aborted, phase, loading, dataset, frames >>

Described ==
    /\ phase = "reload" /\ loading = <<>> /\ resources = <<>>
    /\ phase' = "done" /\ reading' = FALSE
    /\ UNCHANGED << query, estimator, quads, changes, moments, aborted, loading, dataset, frames, resources, answer >>

Evaluation ==
    \/ Load \/ Open \/ Enter \/ Descend \/ Combine \/ Return \/ JoinNext \/ JoinBlock
    \/ LookUp \/ JoinPath \/ Apply \/ Stop \/ Finish \/ Describe \/ Described

Running == phase \notin {"done", "cancelled"}

Cancel ==
    /\ Running /\ ~aborted /\ aborted' = TRUE /\ reading' = FALSE
    /\ UNCHANGED << query, estimator, quads, changes, moments, phase, loading, dataset, frames, resources, answer >>

\* A store after a change: some quads leave it, then others come.
Patched(store, patch) ==
    LET left == Kept(store, ToSet(store) \ patch.remove)
    IN  left \o Kept(patch.add, ToSet(patch.add) \ ToSet(left))

\* Another request changes the store, all at once.
Mutate ==
    /\ Running /\ changes < MaxChanges /\ changes' = changes + 1
    /\ \E patch \in Patches : quads' = Patched(quads, patch)
    /\ moments' = Append(moments, quads') /\ reading' = FALSE
    /\ UNCHANGED << query, estimator, aborted, phase, loading, dataset, frames, resources, answer >>

Next == Evaluation \/ Cancel \/ Mutate

\* Weak fairness of the evaluation, WF_vars(Evaluation), with the guards of its actions
\* written out for ENABLED: an evaluation that can go on does.
CanEvaluate ==
    \/ phase = "reload"
    \/ phase = "dataset" /\ (loading # <<>> \/ Checked)
    \/ phase = "where" /\ (Top.todo = <<>> \/ (Top.entered /\ Top.jobs = <<>>) \/ Top.walk # <<>> \/ Checked)
    \/ aborted /\ AtCheckpoint

Fairness == <>[]CanEvaluate => []<><<Evaluation>>_vars

Spec == Init /\ [][Next]_vars /\ Fairness

(***************************************************************************)
(* Properties that hold whatever the operators compute                      *)
(***************************************************************************)
\* The evaluation is in a WHERE exactly while frames are under way; every frame but the
\* last waits for the nested groups of its first pattern, and only such a frame has
\* groups ahead or solutions of groups; only a frame whose first triple is a path is in a
\* walk; there is a dataset exactly for queries with FROM.
TypeOK ==
    /\ query \in Queries /\ estimator \in Estimators
    /\ changes \in 0..MaxChanges /\ {aborted, reading} \subseteq BOOLEAN
    /\ phase \in {"dataset", "where", "reload", "done", "cancelled"}
    /\ (phase = "where") = (frames # <<>>)
    /\ Len(moments) = changes + 1 /\ Last(moments) = quads
    /\ Len(dataset) <= 1 /\ (dataset = <<>>) = (FromClauses(query) = <<>>)
    /\ \A i \in DOMAIN frames :
           LET f == frames[i]
           IN  /\ i < Len(frames) \/ f.jobs # <<>> \/ f.inner # <<>> => f.entered
               /\ f.entered => f.todo # <<>> /\ IsNesting(Head(f.todo))
               /\ f.walk # <<>> => /\ f.todo # <<>> /\ Head(f.todo).type = "chain"
                                   /\ IsPath(Head(Head(f.todo).triples))

\* The subset search prices a plan by what its joins cost one after the other, its order
\* joins every triple of the block once, and no order of two triples is cheaper.
PlanCostsAsClaimed ==
    phase = "where" /\ Top.jobs = <<>> /\ Top.todo # <<>> /\ Now.type = "block"
        /\ estimator = "baseline" /\ Len(Now.triples) <= DpMaxPatterns
    => LET entries == Entries(Now.triples, PatternStatistics(Now.triples))
           card    == Len(Top.rows)
           bound   == BoundVariables(Top.rows)
           plan    == KeptPlan(entries, card, bound)
           Cost(order) == ReplayedPlan(entries, card, bound, order).cost
       IN  /\ ToSet(plan.order) = DOMAIN entries /\ Len(plan.order) = Len(entries)
           /\ EqualCost(plan.cost, Cost(plan.order))
           /\ Len(entries) = 2 => \A order \in SetToSeqs(DOMAIN entries) : ~Less(Cost(order), plan.cost)

OneBlock(q) ==
    /\ FromClauses(q) = <<>> /\ Len(q.where) = 1 /\ q.where[1].type = "bgp"
    /\ Len(q.where[1].triples) > 1 /\ \A k \in DOMAIN q.where[1].triples : ~IsPath(q.where[1].triples[k])
    /\ ~GroupHasExists(q.where)

\* A reordered block answers from one moment, whatever its order: other requests may
\* change the store while the query runs, but the solutions of a WHERE that is one block
\* are never a mix of before and after, none is missing and none comes twice.
BlockSeesOneMoment ==
    phase = "where" /\ Top.todo = <<>> /\ OneBlock(query) /\ estimator # "none"
    => LET block == query.where[1].triples
       IN  /\ IsInjective(Top.rows)
           /\ \E m \in DOMAIN moments :
                ToSet(Top.rows) = Mappings(NoBinding, block, DOMAIN block, InGraph(moments[m], DefaultGraph))

\* Once the caller has cancelled, evaluating the WHERE reads the store no more, also
\* where SERVICE SILENT swallowed the cancellation, except that the walk of a path that
\* is under way goes on to its last lookup: it is not given the signal.  No other walk
\* begins.  The loading of a dataset, a snapshot for the SELECT clauses and the resources
\* of DESCRIBE are still read.
CancelledReadsNoMore ==
    [][aborted /\ reading' =>
          \/ phase \in {"dataset", "reload"}
          \/ Top.todo = <<>> /\ SolvingReads(Top)
          \/ Top.walk # <<>>]_vars
=============================================================================
