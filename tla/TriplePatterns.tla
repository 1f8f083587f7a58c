--------------------------- MODULE TriplePatterns ----------------------------
(***************************************************************************)
(* Graphs of a store and the join of solutions with the quads of a triple   *)
(* pattern (src/evaluator/scan-entry.ts, join-triple-pattern.ts).           *)
(***************************************************************************)
EXTENDS Joins

CONSTANT QueryVariables   \* the variables, blank-node variables included
CONSTANT BlankVariables   \* those among them that a query writes as blank nodes
CONSTANT DefaultGraph     \* the graph term of quads outside every named graph

\* Positions of a triple pattern that are variables of the query language.
Variables == QueryVariables \ BlankVariables

\* A quad is << subject, predicate, object, graph >>; AnyTerm leaves a position open.
AnyTerm == "any"

MatchQuads(quads, s, p, o) ==
    Kept(quads, {q \in ToSet(quads) : /\ s = AnyTerm \/ q[1] = s
                                      /\ p = AnyTerm \/ q[2] = p
                                      /\ o = AnyTerm \/ q[3] = o})

Column(quads, i) == [k \in DOMAIN quads |-> quads[k][i]]

NoBinding == <<>>
Unit == << NoBinding >>

\* The FILTERs of a group, and its other patterns.
Filters(patterns) == Kept(patterns, {p \in ToSet(patterns) : p.type = "filter"})
NonFilters(patterns) == Kept(patterns, {p \in ToSet(patterns) : p.type # "filter"})

InGraph(quads, graph) == Kept(quads, {q \in ToSet(quads) : q[4] = graph})

NamedGraphTerms(quads) ==
    LET graphs == Column(quads, 4) IN Deduplicated(Kept(graphs, ToSet(graphs) \ {DefaultGraph}))

IsPath(triple) == "path" \in DOMAIN triple

\* A triple pattern is written with terms and variables; it leaves no position open.
IsClosed(triple) == AnyTerm \notin {triple.s, triple.p, triple.o}

(***************************************************************************)
(* One triple pattern                                                       *)
(***************************************************************************)
Resolve(t, b) == IF t \notin QueryVariables THEN t ELSE IF t \in DOMAIN b THEN b[t] ELSE AnyTerm

\* The quads that agree with a triple pattern where it is resolved under b.
Agreeing(quads, triple, b) ==
    MatchQuads(quads, Resolve(triple.s, b), Resolve(triple.p, b), Resolve(triple.o, b))

TripleVars(triple) == {triple.s, triple.p, triple.o} \cap QueryVariables

Scan(quads, triple) == Agreeing(quads, triple, NoBinding)

\* b with the variable name bound to term: << >> when it is bound to another term.
Bound(b, name, term) ==
    IF name \in DOMAIN b THEN IF b[name] = term THEN << b >> ELSE <<>>
    ELSE << [v \in DOMAIN b \cup {name} |-> IF v = name THEN term ELSE b[v]] >>

\* The solution in bs, if there is one, against a term at a position of a pattern.
Matched(bs, position, term) ==
    IF bs = <<>> \/ position \notin QueryVariables THEN bs ELSE Bound(bs[1], position, term)

\* b extended by a quad at the variable positions: << >> when a variable would get two terms.
Extended(b, triple, quad) ==
    Matched(Matched(Matched(<< b >>, triple.s, quad[1]), triple.p, quad[2]), triple.o, quad[3])

\* prebuilt is << quads >> when an index of a snapshot is at hand: it answers for every
\* solution with a resolved position, whatever candidates were scanned.  Otherwise an
\* index of the candidates only leaves out what Extended rejects.
Pool(b, triple, candidates, prebuilt) ==
    IF prebuilt = <<>> \/ {Resolve(t, b) : t \in {triple.s, triple.p, triple.o}} = {AnyTerm}
    THEN candidates
    ELSE Agreeing(prebuilt[1], triple, b)

\* The solutions b becomes with the quads of a pool.
ExtendedBy(b, triple, pool) == FlattenSeq([k \in DOMAIN pool |-> Extended(b, triple, pool[k])])

JoinTriplePattern(rows, triple, candidates, prebuilt) ==
    FlattenSeq([i \in DOMAIN rows |->
        ExtendedBy(rows[i], triple, Pool(rows[i], triple, candidates, prebuilt))])

(***************************************************************************)
(* A path pattern, whose pairs of terms are scanned elsewhere               *)
(***************************************************************************)
\* A position of a path pattern against an end of a pair.
AtEnd(b, position, term) ==
    IF position \in Variables THEN Bound(b, position, term)
    ELSE IF position = term THEN << b >> ELSE <<>>

JoinPathPattern(rows, pairs, subject, object) ==
    FlattenSeq([i \in DOMAIN rows |->
        FlattenSeq([k \in DOMAIN pairs |->
            LET first == AtEnd(rows[i], subject, pairs[k][1])
            IN  IF first = <<>> THEN <<>> ELSE AtEnd(first[1], object, pairs[k][2])])])

(***************************************************************************)
(* A block of triple patterns                                               *)
(***************************************************************************)
\* The solutions after the first n joins of a block in a given order, as a function of n.
BlockJoins(rows, triples, order, quads, prebuilt) ==
    LET after[n \in 0 .. Len(order)] ==
            IF n = 0 THEN rows
            ELSE JoinTriplePattern(after[n - 1], triples[order[n]],
                                   Scan(quads, triples[order[n]]), prebuilt)
    IN  after

JoinedInOrder(rows, triples, order, quads, prebuilt) ==
    BlockJoins(rows, triples, order, quads, prebuilt)[Len(order)]

(***************************************************************************)
(* What a block means, whatever the order of its joins                      *)
(***************************************************************************)
\* A triple pattern with the terms of a solution for its variables.
Instance(triple, b) == << Resolve(triple.s, b), Resolve(triple.p, b), Resolve(triple.o, b) >>

Triples(quads) == {<< q[1], q[2], q[3] >> : q \in ToSet(quads)}

TermsOf(quads) == UNION {{q[1], q[2], q[3]} : q \in ToSet(quads)}

BlockVars(triples, joined) == UNION {TripleVars(triples[k]) : k \in joined}

\* The solutions that extend b to the variables of the triples joined, and put each of
\* these triples into the graph.
Mappings(b, triples, joined, quads) ==
    {m \in [DOMAIN b \cup BlockVars(triples, joined) -> {b[v] : v \in DOMAIN b} \cup TermsOf(quads)] :
        /\ \A v \in DOMAIN b : m[v] = b[v]
        /\ \A k \in joined : Instance(triples[k], m) \in Triples(quads)}
=============================================================================
