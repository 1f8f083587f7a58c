-------------------------- MODULE MCQueryEvaluation --------------------------
EXTENDS QueryMeaning

(***************************************************************************)
(* Stores                                                                   *)
(***************************************************************************)
MCDefault == "default"

Small == << << "a", "p", "b", MCDefault >>, << "b", "p", "c", MCDefault >>,
            << "a", "q", "c", MCDefault >> >>

Cyclic == << << "a", "p", "b", MCDefault >>, << "a", "p", "b", "g1" >>, << "b", "p", "a", MCDefault >>,
             << "b", "q", "c", "g2" >>, << "b", "p", "c", MCDefault >>, << "a", "q", "b", "g1" >> >>

\* Loops at one node, the same triple in two named graphs, and an empty default graph
\* or store.
Loops == << << "a", "p", "a", MCDefault >>, << "a", "p", "b", MCDefault >>, << "b", "q", "a", MCDefault >>,
            << "a", "p", "b", "g1" >>, << "a", "p", "b", "g2" >>, << "b", "p", "c", "g2" >>, << "g2", "q", "a", MCDefault >> >>

NamedOnly == << << "a", "p", "b", "g1" >>, << "b", "p", "c", "g1" >>, << "c", "q", "a", "g1" >> >>

\* More candidates than a distinct count looks at, spread unevenly.
Dense == << << "a", "p", "a", MCDefault >>, << "a", "p", "b", MCDefault >>, << "a", "p", "c", MCDefault >>,
            << "b", "p", "a", MCDefault >>, << "c", "q", "a", MCDefault >>, << "c", "q", "b", MCDefault >>,
            << "c", "p", "c", MCDefault >> >>

MCStores  == {Small, Cyclic, Loops, NamedOnly, Dense, <<>>}
\* A change moves an arc from one resource to another, or closes a cycle.
MCPatches == {[remove |-> {<< "a", "p", "b", MCDefault >>}, add |-> << << "c", "p", "a", MCDefault >> >>],
              [remove |-> {}, add |-> << << "a", "p", "b", MCDefault >>, << "b", "p", "a", MCDefault >> >>]}

Order == << "undef", "a", "b", "c", "g1", "g2", "p", "q", "0", "1", "2", "3", "4", "5", "6", "false", "true" >>
MCRank(t) == CHOOSE k \in DOMAIN Order : Order[k] = t

(***************************************************************************)
(* Queries                                                                  *)
(***************************************************************************)
T(s, p, o)        == [s |-> s, p |-> p, o |-> o]
TP(s, path, o)    == [s |-> s, path |-> path, o |-> o]
Bgp(triples)      == [type |-> "bgp", triples |-> triples]
Filter(e)         == [type |-> "filter", expr |-> e]
Bind(v, e)        == [type |-> "bind", var |-> v, expr |-> e]
Values(rows)      == [type |-> "values", rows |-> rows]
Nest(type, ps)    == [type |-> type, patterns |-> ps]
Graph(name, ps)   == [type |-> "graph", name |-> name, patterns |-> ps]
Service(ps)       == [type |-> "service", silent |-> TRUE, patterns |-> ps]

Term(t)    == [op |-> "term", t |-> t]
IsBound(v) == [op |-> "bound", var |-> v]
Same(l, r) == [op |-> "same", l |-> l, r |-> r]
Not(e)     == [op |-> "not", arg |-> e]
Both(l, r)   == [op |-> "and", args |-> << l, r >>]
AnyOf(l, r)  == [op |-> "or", args |-> << l, r >>]
If(c, t, e)  == [op |-> "if", args |-> << c, t, e >>]
Coalesce(es) == [op |-> "coalesce", args |-> es]
In(t, list)  == [op |-> "in", t |-> t, list |-> list]
Exists(ps) == [op |-> "exists", patterns |-> ps]
Agg(op, distinct, v) == [op |-> op, distinct |-> distinct, arg |-> Term(v)]
CountAll   == [op |-> "count", distinct |-> FALSE]

Link(iri)     == [kind |-> "link", iri |-> iri]
Of(kind, p)   == [kind |-> kind, of |-> p]
Items(kind, ps) == [kind |-> kind, items |-> ps]
Negated(direct, inverse) == [kind |-> "!", direct |-> direct, inverse |-> inverse]

Query(form, where) ==
    [type |-> "query", form |-> form, where |-> where, values |-> <<>>, columns |-> <<>>, wildcard |-> TRUE,
     group |-> <<>>, having |-> <<>>, order |-> <<>>, distinct |-> FALSE, offset |-> NoBound, limit |-> NoBound,
     from |-> <<>>, fromNamed |-> <<>>, template |-> <<>>, described |-> <<>>]

All(where) == Query("select", where)
Some(columns, where) == [All(where) EXCEPT !.columns = columns, !.wildcard = FALSE]
Col(v) == [var |-> v]
As(v, e) == [var |-> v, expr |-> e]
Key(e, v) == [expr |-> e, as |-> v]
Asc(v) == [expr |-> Term(v), descending |-> FALSE]
Desc(v) == [expr |-> Term(v), descending |-> TRUE]

XpY == Bgp(<< T("?x", "p", "?y") >>)
YpZ == Bgp(<< T("?y", "p", "?z") >>)
Long == Bgp(<< T("?x", "p", "?y"), T("?x", "?e", "?z"), T("?y", "p", "?z"), T("?x", "p", "b") >>)

\* Joins, OPTIONAL, MINUS, UNION, VALUES, BIND, GRAPH and subqueries.
GroupQueries == {
    All(<< Bgp(<< T("?x", "p", "?y"), T("?y", "p", "?z"), T("?x", "?e", "?z") >>) >>),
    All(<< Long >>),
    All(<< XpY, Nest("optional", << Bgp(<< T("?y", "p", "?z") >>), Filter(Not(Same("?x", "?z"))) >>) >>),
    All(<< Nest("optional", << XpY >>), Nest("optional", << Bgp(<< T("?x", "q", "?z") >>) >>), YpZ >>),
    All(<< XpY, Nest("minus", << Bgp(<< T("?y", "p", "?z"), T("?z", "p", "?y") >>) >>),
           Nest("minus", << Bgp(<< T("?u", "q", "?v") >>) >>) >>),
    All(<< Filter(IsBound("?z")), Nest("union", << XpY, Nest("group", << XpY, YpZ >>) >>),
           Bind("?u", Term("?z")) >>),
    All(<< Nest("union", << XpY, Bgp(<< T("?y", "q", "?z") >>) >>),
           Nest("union", << Bgp(<< T("?x", "q", "?z") >>), YpZ, XpY >>) >>),
    All(<< Values(<< [v \in {"?x", "?y"} |-> IF v = "?x" THEN "a" ELSE "b"], [v \in {"?y"} |-> "c"] >>),
           XpY, Values(<< [v \in {"?x"} |-> "b"], NoBinding >>) >>),
    All(<< Graph("?g", << XpY, Bgp(<< T("?x", "q", "_:n") >>) >>), Graph("g1", << XpY >>), XpY >>),
    All(<< XpY, Graph("?g", << Nest("optional", << Bgp(<< T("?x", "q", "?z") >>) >>) >>) >>),
    All(<< XpY, [Some(<< Col("?y"), As("?n", CountAll) >>, << YpZ >>)
                    EXCEPT !.group = << Key(Term("?y"), NoVariable) >>] >>),
    All(<< XpY, Service(<< YpZ, Filter(Not(Same("?x", "?z"))) >>) >>),
    [All(<< XpY, Graph("?g", << YpZ >>) >>) EXCEPT !.from = << "g1", MCDefault >>, !.fromNamed = << "g2", "g1" >>] }

\* Solutions that leave shared variables open, on either side of a hash join.
HalfBound == Values(<< [v \in {"?x", "?y"} |-> IF v = "?x" THEN "a" ELSE "b"], [v \in {"?y"} |-> "b"],
                      [v \in {"?x"} |-> "b"], [v \in {"?x", "?y"} |-> "a"], NoBinding >>)
Either == Nest("union", << XpY, Bgp(<< T("?x", "q", "?z") >>), Bgp(<< T("?z", "q", "?y") >>) >>)

JoinQueries == {
    All(<< Either, Nest("group", << HalfBound >>) >>),
    All(<< Nest("group", << HalfBound >>), Nest("group", << Either >>) >>),
    All(<< Either, Nest("optional", << HalfBound, Filter(Not(Same("?x", "?y"))) >>) >>),
    All(<< HalfBound, Nest("optional", << Either >>), Nest("optional", << YpZ >>) >>),
    All(<< Either, Nest("minus", << HalfBound, Filter(IsBound("?x")) >>) >>),
    All(<< HalfBound, Nest("minus", << Either >>) >>) }

\* Conditions that meet errors: ?z and ?u are bound in some solutions only.
ErrorQueries ==
    {All(<< XpY, Nest("optional", << Bgp(<< T("?y", "p", "?z") >>) >>), Nest("optional", << Bgp(<< T("?x", "q", "?u") >>) >>),
            Filter(condition) >>) :
        condition \in {AnyOf(Same("?z", "c"), Not(Same("?u", "c"))), Both(Same("?z", "c"), Not(Same("?u", "b"))),
                       Not(Both(Same("?z", "a"), Same("?u", "c"))), In("?z", << "?u", "c", "a" >>),
                       Not(In("?y", << "?z", "?u", "c" >>)),
                       If(Same("?z", "b"), IsBound("?u"), Same("?x", "a"))}}
    \cup {All(<< XpY, Nest("optional", << Bgp(<< T("?y", "p", "?z") >>) >>),
                 Bind("?v", Coalesce(<< Term("?u"), Term("?z"), Term("?x") >>)), Bind("?w", If(Same("?z", "?x"), Term("?z"), Term("?u"))) >>),
          All(<< XpY, Nest("optional", << YpZ, Filter(AnyOf(Same("?u", "a"), Exists(<< Bgp(<< T("?z", "?e", "?x") >>) >>))) >>) >>)}

NestedQueries == {
    All(<< Graph("?g", << XpY, Nest("optional", << Bgp(<< T("?y", "?e", "?z") >>) >>),
                          Nest("minus", << Bgp(<< T("?x", "q", "b") >>) >>) >>) >>),
    All(<< XpY, Service(<< Nest("union", << YpZ, Service(<< Bgp(<< T("?y", "q", "?z") >>) >>) >>) >>), YpZ >>),
    All(<< XpY, [Some(<< Col("?y") >>, << YpZ, Nest("minus", << Bgp(<< T("?y", "q", "?z") >>) >>) >>)
                    EXCEPT !.distinct = TRUE],
           Nest("optional", << Nest("optional", << YpZ >>), Bgp(<< T("?z", "q", "?u") >>) >>) >>),
    All(<< Graph("g1", << Nest("group", << XpY, Nest("group", << YpZ, Filter(IsBound("?x")) >>) >>) >>),
           Filter(Same("?x", "a")) >>),
    All(<< Bind("?x", Term("a")), Nest("union", << XpY, Nest("group", << Bind("?y", Term("?x")) >>) >>),
           Graph("?g", << Bgp(<< T("?x", "?e", "?y") >>) >>) >>),
    All(<< Bgp(<< T("?x", "?e", "?y"), T("?y", "p", "_:n") >>), Graph("?x", << YpZ >>) >>),
    [All(<< Graph("?g", << Some(<< Col("?x"), Col("?z") >>, << XpY, YpZ >>) >>) >>) EXCEPT !.fromNamed = << "g2", "g1" >>] }

\* Property paths.
Steps == Items("/", << Link("p"), Of("?", Link("q")) >>)
Paths == {Of("+", Link("p")), Of("*", Items("|", << Link("p"), Of("^", Link("q")) >>)), Steps,
          Of("+", Items("/", << Link("p"), Link("p") >>)), Negated({"q"}, {"p"}), Of("^", Of("*", Link("p"))),
          Of("*", Items("/", << Of("?", Link("q")), Items("|", << Link("p"), Link("q") >>) >>)), Negated({"p"}, {}) }
PathQueries ==
    {All(<< Bgp(<< TP(s, path, o) >>) >>) : path \in Paths, s \in {"?x", "a"}, o \in {"?y", "b"}}
    \cup {All(<< Bgp(<< TP("?x", path, "?x") >>) >>) : path \in Paths}
    \cup {All(<< Bgp(<< T("?x", "p", "?y"), TP("?y", Of("+", Link("p")), "c"), T("?x", "p", "?z") >>) >>)}

\* EXISTS in FILTER, BIND, OPTIONAL, and in the SELECT clauses.
ExistsQueries == {
    All(<< XpY, Filter(Exists(<< YpZ >>)) >>),
    All(<< Bgp(<< T("?x", "?e", "?y"), T("?y", "p", "?z") >>), Filter(Exists(<< Bgp(<< TP("?z", Steps, "?u") >>) >>)) >>),
    All(<< XpY, Filter(Exists(<< Bgp(<< TP("?y", Of("^", Of("*", Link("p"))), "?x") >>),
                                 Bgp(<< TP("?x", Negated({"q"}, {"p"}), "a") >>) >>)) >>),
    All(<< XpY, Filter(Not(Exists(<< YpZ, Filter(Not(Same("?x", "?z"))) >>))) >>),
    All(<< XpY, Filter(Exists(<< Graph("?g", << Bgp(<< T("?x", "p", "?y") >>) >>) >>)) >>),
    All(<< Graph("?g", << XpY, Filter(Exists(<< Bgp(<< T("?x", "q", "?z") >>) >>)) >>) >>),
    All(<< XpY, Nest("optional", << YpZ, Filter(Exists(<< Bgp(<< T("?z", "p", "?x") >>) >>)) >>) >>),
    All(<< XpY, Bind("?u", Exists(<< Nest("union", << YpZ, Bgp(<< T("?x", "q", "?z") >>) >>) >>)) >>),
    All(<< XpY, Filter(Exists(<< Bgp(<< T("?y", "p", "?z") >>), Nest("minus", << Bgp(<< T("?z", "p", "?u") >>) >>),
                                 Nest("optional", << Bgp(<< TP("?z", Of("+", Link("q")), "?v") >>) >>),
                                 Values(<< [v \in {"?z"} |-> "c"] >>), Bind("?w", Term("?z")) >>)) >>),
    All(<< XpY, Filter(Exists(<< Nest("group", << Graph("g1", << XpY >>),
                                 Some(<< Col("?y") >>, << XpY >>) >>) >>)) >>),
    All(<< XpY, Filter(Exists(<< Filter(Exists(<< Graph("?g", << XpY >>) >>)) >>)) >>),
    All(<< Graph("?g", << XpY, Filter(Exists(<< Graph("g2", << YpZ >>), Graph("?g", << XpY >>) >>)) >>) >>),
    All(<< XpY, Nest("minus", << YpZ, Filter(Exists(<< Bgp(<< T("?z", "p", "?u") >>) >>)) >>),
           Service(<< Bgp(<< T("?x", "?e", "?y") >>), Filter(Not(Exists(<< YpZ >>))) >>) >>),
    All(<< Nest("union", << Nest("group", << XpY, Filter(Exists(<< YpZ >>)) >>),
                            Nest("group", << XpY, Filter(Not(Exists(<< Nest("optional", << YpZ >>),
                                                                       Bgp(<< T("?z", "p", "?x") >>) >>))) >>) >>) >>),
    All(<< Some(<< Col("?x"), As("?u", Exists(<< Bgp(<< T("?x", "q", "?z") >>) >>)) >>,
                << XpY, Filter(Exists(<< YpZ >>)) >>), XpY >>),
    [Some(<< Col("?x"), As("?n", CountAll) >>, << XpY >>)
        EXCEPT !.group = << Key(Term("?x"), NoVariable) >>, !.having = << Exists(<< Bgp(<< T("?x", "p", "?x") >>) >>) >>],
    [All(<< XpY, Filter(Exists(<< Graph("?g", << XpY >>) >>)) >>) EXCEPT !.from = << MCDefault >>, !.fromNamed = << "g1" >>],
    [Some(<< Col("?x"), As("?u", Exists(<< Bgp(<< T("?x", "q", "?z") >>) >>)) >>, << XpY >>)
        EXCEPT !.distinct = TRUE] }

\* Solution modifiers.
Pipeline == Some(<< Col("?x"), Col("?y") >>, << Bgp(<< T("?x", "?e", "?y") >>) >>)
ModifierQueries == {
    [Pipeline EXCEPT !.columns = << Col("?x") >>, !.distinct = TRUE, !.limit = 2, !.offset = 1, !.order = << Desc("?x") >>],
    [Pipeline EXCEPT !.order = << Asc("?y"), Desc("?x") >>, !.limit = 2],
    [Pipeline EXCEPT !.limit = 0],
    [Some(<< Col("?x"), As("?n", CountAll), As("?u", Agg("min", FALSE, "?y")), As("?v", Agg("count", TRUE, "?y")) >>,
          << Bgp(<< T("?x", "?e", "?y") >>) >>)
        EXCEPT !.group = << Key(Term("?x"), NoVariable) >>, !.having = << Not(Same("?x", "b")) >>],
    Some(<< As("?n", CountAll), As("?u", Agg("max", FALSE, "?y")) >>, << Bgp(<< T("?x", "p", "a") >>),
          Nest("optional", << Bgp(<< T("?x", "q", "?y") >>) >>) >>),
    [Some(<< Col("?w"), As("?n", Agg("count", FALSE, "?y")) >>, << Nest("optional", << XpY >>) >>)
        EXCEPT !.group = << Key(IsBound("?z"), "?w"), Key(Term("?z"), NoVariable) >>],
    [Pipeline EXCEPT !.values = << [v \in {"?x"} |-> "a"], [v \in {"?x"} |-> "a"] >>],
    [Some(<< Col("?x"), As("?u", Term("?y")), As("?v", Term("?u")) >>, << Nest("optional", << Bgp(<< T("?x", "?e", "?y") >>) >>) >>)
        EXCEPT !.order = << Desc("?u"), Asc("?x") >>, !.distinct = TRUE, !.offset = 1],
    [All(<< Some(<< Col("?x"), Col("?y") >>, << Bgp(<< T("?x", "?e", "?y") >>) >>) >>) EXCEPT !.distinct = TRUE],
    [Some(<< Col("?y"), As("?n", Agg("count", TRUE, "?x")), As("?u", Agg("sample", FALSE, "?y")) >>,
          << Nest("union", << XpY, Bgp(<< T("?x", "q", "?z") >>) >>) >>)
        EXCEPT !.group = << Key(Term("?y"), NoVariable) >>, !.order = << Asc("?y") >>,
               !.values = << [v \in {"?x"} |-> "a"], [v \in {"?x", "?y"} |-> "b"] >>],
    [Query("construct", << Graph("?g", << XpY >>) >>)
        EXCEPT !.template = << T("?x", "?z", "?y"), T("?g", "p", "?y") >>, !.fromNamed = << "g1", "g2" >>],
    [Query("construct", << XpY, Nest("optional", << YpZ >>) >>)
        EXCEPT !.template = << T("?y", "q", "?x"), T("?x", "p", "?z") >>],
    Query("ask", << XpY, Filter(Same("?y", "a")) >>),
    [Query("describe", << XpY >>) EXCEPT !.described = << "c", "?x" >>],
    [Query("describe", << >>) EXCEPT !.described = << "b", "c", "a" >>],
    [Query("describe", << >>) EXCEPT !.described = << "a" >>, !.from = << "g1" >>] }

MCQueries == GroupQueries \cup JoinQueries \cup ErrorQueries \cup NestedQueries \cup PathQueries \cup ExistsQueries \cup ModifierQueries

\* GRAPH ?g inside a subquery: the first is the W3C's sq07.
SubqueryQueries == {Some(<< Col("?x") >>, << Nest("group", << All(<< Graph("?g", << Bgp(<< T("?x", "?e", "?y") >>) >>) >>) >>) >>),
                    All(<< XpY, All(<< Graph("?g", << XpY >>) >>) >>)}

\* The patterns of a group and of the groups nested in it.
Within(p) == IF p.type = "query" THEN p.where ELSE IF p.type \in Grouping THEN p.patterns ELSE <<>>
RECURSIVE AllWithin(_)
AllWithin(patterns) ==
    ToSet(patterns) \cup UNION {AllWithin(Within(patterns[k])) : k \in DOMAIN patterns}
MCPatterns == UNION {AllWithin(q.where) : q \in MCQueries \cup SubqueryQueries}

MCVariables == {"?x", "?y", "?z", "?u", "?v", "?w", "?e", "?g", "?n", "_:n"}
MCBlanks    == {"_:n"}
MCEstimators == {"baseline", "custom", "none"}
=============================================================================
