---------------------------- MODULE QueryMeaning -----------------------------
(***************************************************************************)
(* What an evaluation is held to: its answer is the one the algebra gives,  *)
(* and every query ends.                                                    *)
(***************************************************************************)
EXTENDS QueryEvaluation, SparqlAlgebra, PathLookups

HasExists(q) == ContainsExists(q.where) \/ PipelineNeedsExists(q)

Modified(q) ==
    \/ q.form # "select" \/ ~q.wildcard \/ q.order # <<>> \/ q.distinct
    \/ q.offset # NoBound \/ q.limit # NoBound \/ q.values # <<>>

Answered == phase = "done" /\ ~aborted

\* The answer is right for the store, which stayed the same.
RightAnswer == Answered /\ changes = 0 => Answers(answer, query, quads)

\* Whatever order the planner, an estimator of the caller or the query itself gives the
\* joins, and whether they nest loops or hash, a query without paths and EXISTS is
\* answered by the multiset of solutions its algebra means: nested groups, OPTIONAL,
\* MINUS, UNION, VALUES, BIND, GRAPH and subqueries, on the FROM dataset.
GroupsMeanTheAlgebra ==
    ~UsesPath(query.where) /\ ~HasExists(query) /\ ~Modified(query) => RightAnswer

\* The breadth-first walks of the path evaluator find the pairs of the path's relation,
\* from a constant, from every node of the graph, and back to where they began.
PathsMeanTheirRelation == UsesPath(query.where) /\ ~HasExists(query) => RightAnswer

\* The synchronous EXISTS evaluator, which threads the outer solution through the
\* pattern over a snapshot, decides what substituting the solution into it decides;
\* and the joins that probe that snapshot's index find what scans find.
ExistsMeansSubstitution == HasExists(query) => RightAnswer

\* Grouping, aggregates, HAVING, order, projection, duplicates and slice come in the
\* order SPARQL gives them; ASK, CONSTRUCT and DESCRIBE draw the same solutions.
ModifiersMeanTheAlgebra == Modified(query) /\ ~UsesPath(query.where) => RightAnswer

\* Every query is answered or cancelled, however its groups nest and wherever the
\* cancellation finds it.
QueryEnds == <>(phase \in {"done", "cancelled"})

\* The WHERE is one block of triples and paths, with conditions on its solutions.
IsBlockQuery(q) ==
    /\ FromClauses(q) = <<>> /\ Len(NonFilters(q.where)) = 1 /\ NonFilters(q.where)[1].type = "bgp"

\* However the lookups of a block are spread over a changing store, triple after triple
\* of a chain, lookup after lookup of a path, or with an index drained before the scans:
\* no solution is missing that the quads there all the while give, and none is found but
\* from quads that were there at some moment.  A chain and a path may see several.
JoinsLieBetweenMoments ==
    phase = "where" /\ IsBlockQuery(query) /\ Len(Top.todo) = Len(Filters(query.where))
    => LET block    == NonFilters(query.where)[1].triples
           Seen(m)  == ToSet(InGraph(moments[m], DefaultGraph))
           always   == {q \in Seen(1) : \A m \in DOMAIN moments : q \in Seen(m)}
           sometime == UNION {Seen(m) : m \in DOMAIN moments}
           Meant(S) == ToSet(BgpMeaning(block, Listed(S), NoBinding))
       IN  Meant(always) \subseteq ToSet(Top.rows) /\ ToSet(Top.rows) \subseteq Meant(sometime)

\* DESCRIBE awaits the arcs of one resource after the other: those of each resource are
\* the ones of one moment, and a resource read later is not described as of an earlier
\* moment; two resources may be of different moments.
DescribesEachAtOneMoment ==
    phase = "done" /\ OnlyDescribes(query) /\ FromClauses(query) = <<>>
    => LET Arcs(r, store) == {q \in ToSet(store) : q[1] = r}
           told == query.described
       IN  /\ \A q \in ToSet(answer) : q[1] \in ToSet(told)
           /\ \E at \in [DOMAIN told -> DOMAIN moments] :
                  \A i, j \in DOMAIN told : i <= j =>
                      at[i] <= at[j] /\ Arcs(told[i], answer) = Arcs(told[i], moments[at[i]])

\* GRAPH ?g enumerates every named graph in the store and binds ?g to each, as the
\* evaluator's comment says, wherever it stands.
GraphVariableSeesEveryGraph == RightAnswer
=============================================================================
