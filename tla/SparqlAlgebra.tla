---------------------------- MODULE SparqlAlgebra ----------------------------
(***************************************************************************)
(* What a query means, independently of how the engine evaluates it: the    *)
(* algebra of the SPARQL 1.1 recommendation (section 18) over a dataset, as *)
(* the comments of the evaluator quote it.  A basic graph pattern means the *)
(* mappings that put it into the graph, a path the pairs of a relation,     *)
(* EXISTS the pattern with the solution substituted into it.  Multisets are *)
(* sequences whose order says nothing.                                      *)
(***************************************************************************)
EXTENDS PatternEvaluation

RECURSIVE Listed(_)
Listed(S) == IF S = {} THEN <<>> ELSE LET x == CHOOSE x \in S : TRUE IN << x >> \o Listed(S \ {x})

(***************************************************************************)
(* Graph patterns                                                           *)
(***************************************************************************)
Compose(R, S) == {<< d[1][1], d[2][2] >> : d \in {e \in R \X S : e[1][2] = e[2][1]}}

Converse(R) == {<< r[2], r[1] >> : r \in R}

Closure(R) ==
    FoldLeft(LAMBDA S, n : S \cup Compose(S, R), R, [n \in 1..Cardinality(R) |-> n])

RECURSIVE Pairs(_, _, _)
Pairs(path, graph, nodes) ==
    LET Same == {<< n, n >> : n \in nodes}
        Edges(forbidden) == {<< e[1], e[3] >> : e \in {d \in graph : d[2] \notin forbidden}}
    IN  CASE path.kind = "link" -> {<< e[1], e[3] >> : e \in {d \in graph : d[2] = path.iri}}
          [] path.kind = "^"    -> Converse(Pairs(path.of, graph, nodes))
          [] path.kind = "?"    -> Same \cup Pairs(path.of, graph, nodes)
          [] path.kind = "+"    -> Closure(Pairs(path.of, graph, nodes))
          [] path.kind = "*"    -> Same \cup Closure(Pairs(path.of, graph, nodes))
          [] path.kind = "|"    -> UNION {Pairs(path.items[k], graph, nodes) : k \in DOMAIN path.items}
          [] path.kind = "/"    -> FoldLeft(LAMBDA R, item : Compose(R, Pairs(item, graph, nodes)),
                                            Pairs(Head(path.items), graph, nodes), Tail(path.items))
          [] path.kind = "!"    -> (IF path.direct = {} THEN {} ELSE Edges(path.direct))
                                   \cup (IF path.inverse = {} THEN {} ELSE Converse(Edges(path.inverse)))

TermsAt(triple) == {triple.s, triple.o} \cup (IF IsPath(triple) THEN {} ELSE {triple.p})

\* A triple pattern with all variables replaced holds in a graph.
Holds(triple, mu, graph, nodes) ==
    LET Image(t) == IF t \in DOMAIN mu THEN mu[t] ELSE t
        ends     == {Image(triple.s), Image(triple.o)}
    IN  IF IsPath(triple)
        THEN << Image(triple.s), Image(triple.o) >> \in
                 Pairs(triple.path, graph, nodes \cup ({triple.s, triple.o} \ QueryVariables))
        ELSE \E e \in graph : << e[1], e[2], e[3] >> = << Image(triple.s), Image(triple.p), Image(triple.o) >>

\* given substitutes for variables, which the solutions then do not bind.
BgpMeaning(triples, quads, given) ==
    LET graph == ToSet(quads)
        nodes == UNION {{e[1], e[3]} : e \in graph}
        used  == UNION {TermsAt(triples[k]) : k \in DOMAIN triples}
        open  == (used \cap QueryVariables) \ DOMAIN given
        terms == nodes \cup {e[2] : e \in graph} \cup (used \ QueryVariables)
        valid == {mu \in [open -> terms] :
                     \A k \in DOMAIN triples : Holds(triples[k], Merge(mu, given), graph, nodes)}
    IN  Listed({[v \in open |-> mu[v]] : mu \in valid})

AJoin(left, right) ==
    FlattenSeq([i \in DOMAIN left |-> FlattenSeq([j \in DOMAIN right |->
        IF Compatible(left[i], right[j]) THEN << Merge(left[i], right[j]) >> ELSE <<>>])])

AMinus(left, right) ==
    SelectSeq(left, LAMBDA l : ~\E j \in DOMAIN right :
        Compatible(l, right[j]) /\ DOMAIN l \cap DOMAIN right[j] # {})

RECURSIVE Meaning(_, _, _, _), PatternMeaning(_, _, _, _), ValueOf(_, _, _, _), Grown(_, _, _, _, _)

\* The value of an expression over a solution, patterns of EXISTS in the graph g of D.
ValueOf(e, b, g, D) ==
    LET TermOf(t)  == IF t \notin QueryVariables THEN t ELSE IF t \in DOMAIN b THEN b[t] ELSE Undef
        arg        == ValueOf(e.arg, b, g, D)
        args       == [k \in DOMAIN e.args |-> ValueOf(e.args[k], b, g, D)]
        \* False, error, true: AND takes the least of its operands, OR the greatest.
        truth      == << False, Undef, True >>
        Level(v)   == CHOOSE n \in 1..3 : truth[n] = v
        levels     == {Level(args[k]) : k \in DOMAIN args}
        equal      == {ValueOf([op |-> "same", l |-> e.t, r |-> e.list[k]], b, g, D) : k \in DOMAIN e.list}
    IN  CASE e.op = "term"   -> TermOf(e.t)
          [] e.op = "bound"  -> Boolean(e.var \in DOMAIN b)
          [] e.op = "same"   -> IF Undef \in {TermOf(e.l), TermOf(e.r)} THEN Undef
                                ELSE Boolean(TermOf(e.l) = TermOf(e.r))
          [] e.op = "not"    -> IF arg = Undef THEN Undef ELSE Boolean(arg = False)
          [] e.op = "and"    -> truth[Min(levels)]
          [] e.op = "or"     -> truth[Max(levels)]
          [] e.op = "if"     -> IF args[1] = Undef THEN Undef ELSE IF args[1] = True THEN args[2] ELSE args[3]
          [] e.op = "coalesce" -> LET ok == {k \in DOMAIN args : args[k] # Undef}
                                  IN  IF ok = {} THEN Undef ELSE args[Min(ok)]
          \* t IN (a, b) is t = a || t = b.
          [] e.op = "in"     -> truth[Max({Level(v) : v \in equal})]
          [] e.op = "exists" -> Boolean(Meaning(e.patterns, g, D, b) # <<>>)

Hold(filters, b, g, D) == \A k \in DOMAIN filters : Truth(ValueOf(filters[k].expr, b, g, D))

Restricted(filters, rows, given, g, D) ==
    SelectSeq(rows, LAMBDA b : Hold(filters, Merge(b, given), g, D))

BoundTo(b, v, t) == IF t = Undef THEN b ELSE Merge(b, [w \in {v} |-> t])

\* A group joined with its next element, whose own solutions are right.
Element(G, p, right, g, D, given) ==
    CASE p.type = "optional" ->
             FlattenSeq([i \in DOMAIN G |->
                 OrElse(Restricted(Filters(p.patterns), AJoin(<< G[i] >>, right), given, g, D), G[i])])
      [] p.type = "minus" -> AMinus(G, right)
      [] p.type = "bind"  -> [i \in DOMAIN G |-> BoundTo(G[i], p.var, ValueOf(p.expr, Merge(G[i], given), g, D))]
      [] OTHER -> AJoin(G, right)

Grown(G, patterns, g, D, given) ==
    IF patterns = <<>> THEN G
    ELSE LET p == Head(patterns)
         IN  Grown(Element(G, p, PatternMeaning(p, g, D, given), g, D, given), Tail(patterns), g, D, given)

\* A group: its elements in order, its filters over the whole of it.
Meaning(patterns, g, D, given) ==
    Restricted(Filters(patterns), Grown(Unit, NonFilters(patterns), g, D, given), given, g, D)

(***************************************************************************)
(* Solution modifiers, but for the order and the slice                      *)
(***************************************************************************)
Once(q, rows) == IF q.distinct THEN Listed(ToSet(rows)) ELSE rows

Member(e, row, g, D) == IF "arg" \in DOMAIN e THEN ValueOf(e.arg, row, g, D) ELSE ToString(row)

\* values has what each solution of the group contributes.
AggregateOf(e, values) ==
    LET defined == {i \in DOMAIN values : values[i] # Undef}
        items   == {values[i] : i \in defined}
    IN  CASE e.op = "count" -> ToString(IF e.distinct THEN Cardinality(items) ELSE Cardinality(defined))
          [] e.op = "min"   -> IF items = {} THEN Undef
                               ELSE CHOOSE t \in items : \A u \in items : Rank(t) <= Rank(u)
          [] e.op = "max"   -> IF items = {} THEN Undef
                               ELSE CHOOSE t \in items : \A u \in items : Rank(t) >= Rank(u)
          \* SAMPLE may be any of them: queries here sample where there is one.
          [] e.op = "sample" -> IF items = {} THEN Undef ELSE CHOOSE t \in items : TRUE

ValueInGroup(e, b, members, g, D) ==
    IF IsAggregate(e) THEN AggregateOf(e, [i \in DOMAIN members |-> Member(e, members[i], g, D)])
    ELSE ValueOf(e, b, g, D)

Parts(q, b, g, D) == [k \in DOMAIN q.group |-> ValueOf(q.group[k].expr, b, g, D)]

KeyBinding(parts, q) ==
    LET named == {k \in DOMAIN parts : KeyVariable(q.group[k]) # NoVariable /\ parts[k] # Undef}
    IN  [v \in {KeyVariable(q.group[k]) : k \in named} |->
            parts[CHOOSE k \in named : KeyVariable(q.group[k]) = v]]

\* The groups of solutions that agree on every GROUP BY expression.
GroupsBy(rows, parts, q) ==
    IF q.group = <<>> THEN {[binding |-> <<>>, members |-> rows]}
    ELSE {[binding |-> KeyBinding(parts[i], q),
           members |-> LET same == SelectSeq([k \in DOMAIN rows |-> k], LAMBDA k : parts[k] = parts[i])
                       IN  [n \in DOMAIN same |-> rows[same[n]]]] : i \in DOMAIN rows}

Grouped(rows, q, g, D) ==
    IF q.group # <<>> \/ HasAggregates(q)
    THEN Listed({G \in GroupsBy(rows, [i \in DOMAIN rows |-> Parts(q, rows[i], g, D)], q) :
             \A k \in DOMAIN q.having : Truth(ValueInGroup(q.having[k], G.binding, G.members, g, D))})
    ELSE [k \in DOMAIN rows |-> [binding |-> rows[k], members |-> <<>>]]

\* SELECT (e AS ?v) extends the solution, for the columns after it too.
Extending(s, q, g, D) ==
    FoldLeft(LAMBDA b, c :
                 IF "expr" \notin DOMAIN c THEN b
                 ELSE BoundTo(b, c.var, ValueInGroup(c.expr, b, s.members, g, D)),
             s.binding, q.columns)

Onto(b, vars) == [v \in vars \cap DOMAIN b |-> b[v]]

ProjectionOf(s, q, g, D) ==
    IF q.wildcard THEN WithoutBlanks(s.binding)
    ELSE Onto(Extending(s, q, g, D), {q.columns[k].var : k \in DOMAIN q.columns})

ProjectionsOf(solutions, q, g, D) ==
    [k \in DOMAIN solutions |-> ProjectionOf(solutions[k], q, g, D)]

SelectMeaning(rows, q, g, D) ==
    LET all == IF q.values = <<>> THEN rows ELSE AJoin(rows, q.values)
    IN  Once(q, ProjectionsOf(Grouped(all, q, g, D), q, g, D))

PatternMeaning(p, g, D, given) ==
    CASE p.type = "bgp"   -> BgpMeaning(p.triples, InGraph(D, g), given)
      [] p.type = "values" -> SelectSeq(p.rows, LAMBDA r : Compatible(r, given))
      [] p.type = "union" -> FlattenSeq([k \in DOMAIN p.patterns |-> Meaning(<< p.patterns[k] >>, g, D, given)])
      [] p.type \in {"group", "minus", "service"} -> Meaning(p.patterns, g, D, given)
      [] p.type = "optional" -> Meaning(NonFilters(p.patterns), g, D, given)
      [] p.type = "bind" -> <<>>
      [] p.type = "graph" ->
             LET names == NamedGraphTerms(D)
             IN  IF p.name \notin Variables THEN Meaning(p.patterns, p.name, D, given)
                 ELSE IF p.name \in DOMAIN given THEN Meaning(p.patterns, given[p.name], D, given)
                 ELSE FlattenSeq([k \in DOMAIN names |->
                          AJoin(Meaning(p.patterns, names[k], D, given), << [v \in {p.name} |-> names[k]] >>)])
      [] p.type = "query" ->
             SelectSeq(SelectMeaning(Meaning(p.where, g, D, NoBinding), p, g, D),
                       LAMBDA r : Compatible(r, given))

(***************************************************************************)
(* Queries                                                                  *)
(***************************************************************************)
\* The dataset of a query over a store.
DatasetOf(q, store) ==
    LET all    == ToSet(store)
        plain  == {<< d[1], d[2], d[3], DefaultGraph >> : d \in {e \in all : e[4] \in ToSet(q.from)}}
        named  == {d \in all : d[4] \in ToSet(q.fromNamed)}
    IN  IF q.from = <<>> /\ q.fromNamed = <<>> THEN store ELSE Listed(plain \cup named)

SolutionsOf(q, store) ==
    LET D == DatasetOf(q, store)
    IN  SelectMeaning(Meaning(q.where, DefaultGraph, D, NoBinding), q, DefaultGraph, D)

Times1(x, seq) == Cardinality({i \in DOMAIN seq : seq[i] = x})

SameMultiset(a, b) == Len(a) = Len(b) /\ \A x \in ToSet(a) : Times1(x, a) = Times1(x, b)

\* The answer lies in the ordered expected solutions from offset on: as many of them
\* come strictly before the n-th row as can, and no more.
Sliced(rows, expected, q) ==
    LET offset   == IF q.offset = NoBound THEN 0 ELSE q.offset
        past     == Max({0, Len(expected) - offset})
        Value(b, e) == Rank(IF e.t \in DOMAIN b THEN b[e.t] ELSE Undef)
        Key(b)   == [k \in DOMAIN q.order |-> Value(b, q.order[k].expr)]
        Before(a, b) == Precedes(Key(a), Key(b), q)
    IN  /\ Len(rows) = (IF q.limit = NoBound THEN past ELSE Min({past, q.limit}))
        /\ \A x \in ToSet(rows) : Times1(x, rows) <= Times1(x, expected)
        /\ \A n \in DOMAIN rows :
               /\ Cardinality({j \in DOMAIN expected : Before(expected[j], rows[n])}) < offset + n
               /\ offset + n <= Cardinality({j \in DOMAIN expected : ~Before(rows[n], expected[j])})

RECURSIVE UsesPath(_)
UsesPath(patterns) ==
    \E k \in DOMAIN patterns :
        LET p == patterns[k]
        IN  CASE p.type = "bgp" -> \E n \in DOMAIN p.triples : IsPath(p.triples[n])
              [] "patterns" \in DOMAIN p -> UsesPath(p.patterns)
              [] p.type = "query" -> UsesPath(p.where)
              [] OTHER -> FALSE

Instances(template, b) ==
    LET Image(t) == IF t \in DOMAIN b THEN b[t] ELSE t
        image    == {<< Image(template[k].s), Image(template[k].p), Image(template[k].o), DefaultGraph >> :
                         k \in DOMAIN template}
    IN  {t \in image : {t[1], t[2], t[3]} \cap Variables = {}}

\* Property paths are compared as sets: their multiplicities follow the code's own rules.
AnswersWith(answer, q, rows, D) ==
    LET shown == UNION {{q.described[k]} : k \in DOMAIN q.described}
        told == (shown \ Variables)
                    \cup UNION {{rows[i][v] : v \in shown \cap DOMAIN rows[i]} : i \in DOMAIN rows}
    IN  CASE q.form = "select" /\ q.order = <<>> /\ UsesPath(q.where) -> ToSet(answer) = ToSet(rows)
          [] q.form = "select" /\ ~UsesPath(q.where) ->
                 IF q.order = <<>> /\ q.limit = NoBound /\ q.offset = NoBound THEN SameMultiset(answer, rows)
                 ELSE Sliced(answer, rows, q)
          [] q.form = "ask" -> (answer # <<>>) = (rows # <<>>)
          [] q.form = "construct" -> ToSet(answer) = UNION {Instances(q.template, rows[i]) : i \in DOMAIN rows}
          [] q.form = "describe" -> ToSet(answer) = {d \in ToSet(D) : d[1] \in told}

Answers(answer, q, store) == AnswersWith(answer, q, SolutionsOf(q, store), DatasetOf(q, store))
=============================================================================
