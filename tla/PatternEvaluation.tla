-------------------------- MODULE PatternEvaluation --------------------------
(***************************************************************************)
(* What an evaluation computes without waiting: expressions, the clauses of *)
(* a SELECT and the synchronous EXISTS evaluator of BgpEvaluator, which     *)
(* works on a snapshot of the store.  They call each other: EXISTS is an    *)
(* expression, and a pattern in it may be a SELECT.                         *)
(*                                                                          *)
(* A pattern is a record with a type: bgp (triples), filter (expr), bind    *)
(* (var, expr), values (rows), graph (name, patterns), query (a SELECT, see *)
(* SelectPipeline, with its where), service (silent, patterns), and         *)
(* optional, minus, union and group (patterns).  A triple is [s, p, o], or  *)
(* [s, path, o].  An expression is [op |-> "term", t], [op |-> "bound",     *)
(* var], [op |-> "same", l, r], [op |-> "in", t, list] with terms, [op |->  *)
(* "not", arg], [op |-> "and" "or" "if" "coalesce", args], [op |->          *)
(* "exists", patterns], or an aggregate.  EXISTS does not stand inside IF   *)
(* and COALESCE, which the code evaluates without the context it needs.     *)
(***************************************************************************)
EXTENDS SelectPipeline, PropertyPaths

(***************************************************************************)
(* Expressions and EXISTS.  The EXISTS evaluator hands solution objects on  *)
(* and writes into them, so its solutions are references: rows of numbers   *)
(* into a heap.  The first object of a heap is the solution EXISTS was      *)
(* asked about, and evaluating an expression says what became of it.        *)
(***************************************************************************)
Objects(st) == [k \in DOMAIN st.rows |-> st.heap[st.rows[k]]]

\* New objects for every row.
Allocated(heap, bindings) ==
    [rows |-> [k \in DOMAIN bindings |-> Len(heap) + k], heap |-> heap \o bindings]

\* A context is [quads |-> the snapshot, graph |-> the graph patterns are matched in].
RECURSIVE Evaluate(_, _, _), ExistsGroup(_, _, _), ExistsPattern(_, _, _), Passes(_, _, _)

Boolean(c) == IF c THEN True ELSE False

\* && and ||: an operand that decides outweighs an error of the other.
Connected(op, l, r) ==
    LET decisive == IF op = "and" THEN False ELSE True
        neutral  == IF op = "and" THEN True ELSE False
    IN  IF decisive \in {l, r} THEN decisive ELSE IF Undef \in {l, r} THEN Undef ELSE neutral

\* EXISTS: whether solutions are left, and what the first object has become.
Decided(found) == [value |-> Boolean(found.rows # <<>>), after |-> found.heap[1]]

Evaluate(e, b, ctx) ==
    LET Just(v)     == [value |-> v, after |-> b]
        TermOf(t)   == IF t \notin QueryVariables THEN t ELSE IF t \in DOMAIN b THEN b[t] ELSE Undef
    IN  CASE e.op = "term"  -> Just(TermOf(e.t))
          [] e.op = "bound" -> Just(Boolean(e.var \in DOMAIN b))
          [] e.op = "same"  -> Just(IF Undef \in {TermOf(e.l), TermOf(e.r)} THEN Undef
                                    ELSE Boolean(TermOf(e.l) = TermOf(e.r)))
          [] e.op = "not"   -> LET of == Evaluate(e.arg, b, ctx)
                               IN  [of EXCEPT !.value = IF @ = Undef THEN Undef ELSE Boolean(Ebv(@) = False)]
          [] e.op \in {"and", "or"} ->
                 LET left  == Evaluate(e.args[1], b, ctx)
                     right == Evaluate(e.args[2], left.after, ctx)
                 IN  [right EXCEPT !.value = Connected(e.op, Ebv(left.value), Ebv(@))]
          [] e.op = "if" -> LET condition == Ebv(Evaluate(e.args[1], b, ctx).value)
                            IN  IF condition = Undef THEN Just(Undef)
                                ELSE Evaluate(e.args[IF condition = True THEN 2 ELSE 3], b, ctx)
          [] e.op = "coalesce" ->
                 LET values == SelectSeq([k \in DOMAIN e.args |-> Evaluate(e.args[k], b, ctx).value],
                                         LAMBDA v : v # Undef)
                 IN  Just(IF values = <<>> THEN Undef ELSE Head(values))
          [] e.op = "in" -> LET found == {TermOf(e.list[k]) : k \in DOMAIN e.list}
                            IN  Just(IF TermOf(e.t) = Undef THEN Undef
                                     ELSE IF TermOf(e.t) \in found THEN True
                                     ELSE IF Undef \in found THEN Undef ELSE False)
          [] e.op = "exists" -> Decided(ExistsGroup(e.patterns, [rows |-> << 1 >>, heap |-> << b >>], ctx))

AfterIfTrue(v) == IF Truth(v.value) THEN << v.after >> ELSE <<>>

\* filterPasses over every condition in turn: bs is << a solution >>, and stays one as
\* the conditions leave it or becomes << >>.
Passes(conditions, bs, ctx) ==
    IF bs = <<>> \/ conditions = <<>> THEN bs
    ELSE Passes(Tail(conditions), AfterIfTrue(Evaluate(Head(conditions), bs[1], ctx)), ctx)

AllPassing(conditions, rows, ctx) ==
    FlattenSeq([i \in DOMAIN rows |-> Passes(conditions, << rows[i] >>, ctx)])

\* The solutions of an OPTIONAL that extend l.
Extensions(l, left, right, conditions, ctx) == AllPassing(conditions, Merged(l, left, right), ctx)

OrElse(extended, l) == IF extended = <<>> THEN << l >> ELSE extended

LeftJoin(left, right, conditions, ctx) ==
    FlattenSeq([i \in DOMAIN left |->
        OrElse(Extensions(left[i], left, right, conditions, ctx), left[i])])

(***************************************************************************)
(* SELECT                                                                   *)
(***************************************************************************)
ValueOver(e, b, ctx) == Evaluate(e, b, ctx).value

\* The value of an expression over a solution; aggregates resolve over its group.
SolutionValue(e, s, b, ctx) ==
    IF ~IsAggregate(e) THEN ValueOver(e, b, ctx)
    ELSE IF s.group = <<>> THEN Undef
    ELSE AggregateValue(e, [k \in DOMAIN s.group[1] |->
             IF "arg" \in DOMAIN e THEN << ValueOver(e.arg, s.group[1][k], ctx) >>
             ELSE << s.group[1][k], "*" >>])

GroupKeys(rows, query, ctx) ==
    [i \in DOMAIN rows |-> [k \in DOMAIN query.group |-> ValueOver(query.group[k].expr, rows[i], ctx)]]

Groups(rows, query, ctx) ==
    IF query.group # <<>> THEN GroupSolutions(rows, query.group, GroupKeys(rows, query, ctx))
    ELSE << [binding |-> <<>>, group |-> << rows >>] >>

Solutions(rows, query, ctx) ==
    IF query.group # <<>> \/ HasAggregates(query)
    THEN SelectSeq(Groups(rows, query, ctx), LAMBDA s :
             \A k \in DOMAIN query.having : Truth(SolutionValue(query.having[k], s, s.binding, ctx)))
    ELSE [i \in DOMAIN rows |-> [binding |-> rows[i], group |-> <<>>]]

SortKey(s, query, ctx) ==
    [k \in DOMAIN query.order |->
        Rank(SolutionValue(OrderExpression(query.order[k].expr, query), s, s.binding, ctx))]

Ordered(solutions, query, ctx) ==
    OrderBindings(solutions, query, [i \in DOMAIN solutions |-> SortKey(solutions[i], query, ctx)])

\* A column is the variable of the solution, or else the value of its expression.
ColumnValue(c, s, out, ctx) ==
    IF c.var \in DOMAIN s.binding THEN s.binding[c.var]
    ELSE IF "expr" \notin DOMAIN c \/ c.var \in DOMAIN out THEN Undef
    ELSE SolutionValue(c.expr, s, Merge(s.binding, out), ctx)

WithColumn(out, v, t) == IF t = Undef THEN out ELSE Merge(out, [w \in {v} |-> t])

\* One column after the other; an expression sees the columns before it.
ProjectSolution(s, query, ctx) ==
    IF query.wildcard THEN s.binding
    ELSE FoldLeft(LAMBDA out, c : WithColumn(out, c.var, ColumnValue(c, s, out, ctx)),
                  <<>>, query.columns)

Projected(solutions, query, ctx) ==
    [n \in DOMAIN solutions |-> ProjectSolution(solutions[n], query, ctx)]

WithValues(rows, query) == IF query.values = <<>> THEN rows ELSE JoinValues(rows, query.values)

AllWithoutBlanks(rows) == [n \in DOMAIN rows |-> WithoutBlanks(rows[n])]

\* VALUES, grouping and HAVING, order, projection, duplicates and slice.
ApplySelectPipeline(rows, query, ctx) ==
    AllWithoutBlanks(DistinctAndSlice(
        Projected(Ordered(Solutions(WithValues(rows, query), query, ctx), query, ctx), query, ctx),
        query))

(***************************************************************************)
(* EXISTS                                                                   *)
(***************************************************************************)
\* Patterns in written order, FILTER included.
ExistsGroup(patterns, st, ctx) ==
    IF patterns = <<>> THEN st
    ELSE ExistsGroup(Tail(patterns), ExistsPattern(Head(patterns), st, ctx), ctx)

\* Mutant: the enclosing graph stays the one that patterns are matched in.
KeptGraph(ctx, graph) == ctx

WithGraph(ctx, graph) == [ctx EXCEPT !.graph = graph]

\* A FILTER keeps the objects that pass, as evaluating it leaves them.
ExistsFilter(st, expr, ctx) ==
    FoldLeft(LAMBDA acc, id :
                 LET v == Evaluate(expr, acc.heap[id], ctx)
                 IN  [heap |-> [acc.heap EXCEPT ![id] = v.after],
                      rows |-> IF Truth(v.value) THEN Append(acc.rows, id) ELSE acc.rows],
             [rows |-> <<>>, heap |-> st.heap], st.rows)

\* A BIND keeps the object when there is nothing to add, else makes a new one.
ExistsBind(st, p, ctx) ==
    FoldLeft(LAMBDA acc, id :
                 LET v    == Evaluate(p.expr, acc.heap[id], ctx)
                     heap == [acc.heap EXCEPT ![id] = v.after]
                 IN  IF v.value = Undef \/ p.var \in DOMAIN v.after
                     THEN [rows |-> Append(acc.rows, id), heap |-> heap]
                     ELSE [rows |-> Append(acc.rows, Len(heap) + 1),
                           heap |-> Append(heap, Bound(v.after, p.var, v.value)[1])],
             [rows |-> <<>>, heap |-> st.heap], st.rows)

\* Every named graph in turn; ?g is written into the very objects the group returned.
ExistsEveryGraph(st, p, ctx) ==
    FoldLeft(LAMBDA acc, graph :
                 LET inner == ExistsGroup(p.patterns, [acc EXCEPT !.rows = st.rows], WithGraph(ctx, graph))
                     named == [id \in DOMAIN inner.heap |->
                                  IF id \in ToSet(inner.rows)
                                  THEN Merge(inner.heap[id], [v \in {p.name} |-> graph])
                                  ELSE inner.heap[id]]
                 IN  [rows |-> acc.rows \o inner.rows, heap |-> named],
             [rows |-> <<>>, heap |-> st.heap], NamedGraphTerms(ctx.quads))

ExistsGraph(st, p, ctx) ==
    IF p.name \notin Variables THEN ExistsGroup(p.patterns, st, WithGraph(ctx, p.name))
    ELSE FoldLeft(LAMBDA acc, id :
                      LET one  == [rows |-> << id >>, heap |-> acc.heap]
                          next == IF p.name \in DOMAIN acc.heap[id]
                                  THEN ExistsGroup(p.patterns, one, WithGraph(ctx, acc.heap[id][p.name]))
                                  ELSE ExistsEveryGraph(one, p, ctx)
                      IN  [rows |-> acc.rows \o next.rows, heap |-> next.heap],
                  [rows |-> <<>>, heap |-> st.heap], st.rows)

\* A row without partner stays the object it was.
Continued(acc, id, extended) ==
    IF extended = <<>> THEN [acc EXCEPT !.rows = Append(@, id)]
    ELSE LET new == Allocated(acc.heap, extended)
         IN  [rows |-> acc.rows \o new.rows, heap |-> new.heap]

ExistsOptional(st, right, conditions, ctx) ==
    FoldLeft(LAMBDA acc, id :
                 Continued(acc, id, Extensions(acc.heap[id], Objects(st), right, conditions, ctx)),
             [rows |-> <<>>, heap |-> st.heap], st.rows)

ExistsMinus(st, right) ==
    [st EXCEPT !.rows = SelectSeq(@, LAMBDA id : Survives(st.heap[id], Objects(st), right))]

\* One triple of a block against the quads of a graph.
JoinInSnapshot(rows, triple, quads) ==
    IF IsPath(triple)
    THEN JoinPathPattern(rows, ScanPathEntry(quads, triple.path, triple.s, triple.o), triple.s, triple.o)
    ELSE JoinTriplePattern(rows, triple, Scan(quads, triple), <<>>)

ExistsPattern(p, st, ctx) ==
    LET quads        == InGraph(ctx.quads, ctx.graph)
        Alone(ps)    == Objects(ExistsGroup(ps, [rows |-> << 1 >>, heap |-> Unit], ctx))
        New(bs)      == Allocated(st.heap, bs)
        conditions   == [k \in DOMAIN Filters(p.patterns) |-> Filters(p.patterns)[k].expr]
    IN  CASE p.type = "bgp"    -> New(FoldLeft(LAMBDA rows, t : JoinInSnapshot(rows, t, quads),
                                               Objects(st), p.triples))
          [] p.type = "filter" -> ExistsFilter(st, p.expr, ctx)
          [] p.type = "graph"  -> ExistsGraph(st, p, ctx)
          [] p.type = "bind"   -> ExistsBind(st, p, ctx)
          [] p.type = "values" -> New(JoinValues(Objects(st), p.rows))
          [] p.type = "optional" -> ExistsOptional(st, Alone(NonFilters(p.patterns)), conditions, ctx)
          [] p.type = "minus"  -> ExistsMinus(st, Alone(p.patterns))
          [] p.type = "union"  -> New(InnerJoin(Objects(st),
                                      FlattenSeq([k \in DOMAIN p.patterns |-> Alone(<< p.patterns[k] >>)])))
          [] p.type = "group"  -> ExistsGroup(p.patterns, st, ctx)
          [] p.type = "query"  -> New(InnerJoin(Objects(st),
                                      ApplySelectPipeline(Alone(p.where), p, ctx)))

(***************************************************************************)
(* Where EXISTS occurs                                                      *)
(***************************************************************************)
RECURSIVE ExistsIn(_), ContainsExists(_)
ExistsIn(e) ==
    \/ e.op = "exists"
    \/ "arg" \in DOMAIN e /\ ExistsIn(e.arg)
    \/ "args" \in DOMAIN e /\ \E k \in DOMAIN e.args : ExistsIn(e.args[k])

\* SERVICE is not looked into: its group prepares a snapshot for itself.
ContainsExists(patterns) ==
    \E k \in DOMAIN patterns :
        LET p == patterns[k]
        IN  CASE p.type \in {"filter", "bind"} -> ExistsIn(p.expr)
              [] p.type \in {"optional", "minus", "union", "graph", "group"} -> ContainsExists(p.patterns)
              [] p.type = "query" -> ContainsExists(p.where)
              [] OTHER -> FALSE

PipelineNeedsExists(q) ==
    \/ \E k \in DOMAIN q.columns : "expr" \in DOMAIN q.columns[k] /\ ExistsIn(q.columns[k].expr)
    \/ \E k \in DOMAIN q.order : ExistsIn(q.order[k].expr)
    \/ \E k \in DOMAIN q.having : ExistsIn(q.having[k])
=============================================================================
