--------------------------- MODULE SelectPipeline ----------------------------
(***************************************************************************)
(* The solution modifiers of a SELECT (src/evaluator/select-*.ts,           *)
(* aggregate.ts) on solutions whose expressions are evaluated: aggregates   *)
(* and groups of values, the order of sort keys, duplicates and the slice.  *)
(* PatternEvaluation evaluates expressions and puts the clauses together.   *)
(* A value is a term, or Undef where evaluation fails.                      *)
(*                                                                          *)
(* A SELECT is a record: values (solutions), columns (records with a var    *)
(* and, for (e AS ?v), an expr), wildcard, group (records of an expr and    *)
(* its variable as, or NoVariable), having (expressions), order (records of *)
(* an expr and a flag descending), distinct, offset and limit (-1: none).   *)
(***************************************************************************)
EXTENDS Integers, TriplePatterns, TLC

CONSTANT Rank(_)   \* compareRdfTerms: terms compare as their ranks; Undef is lowest

Undef == "undef"
NoVariable == "no variable"
NoBound == -1

True == "true"
False == "false"
Zero == "0"

\* ebv: the effective boolean value, Undef for an error.  A term that is no literal is
\* true; the literals here are booleans and counts.
Ebv(value) == IF value = Undef THEN Undef ELSE IF value \in {False, Zero} THEN False ELSE True

Truth(value) == Ebv(value) = True

(***************************************************************************)
(* Aggregates                                                               *)
(***************************************************************************)
\* An aggregate is [op |-> "count" "min" "max" "sample", distinct, arg] or, for
\* COUNT( * ), [op |-> "count", distinct] without arg.
IsAggregate(e) == e.op \in {"count", "min", "max", "sample"}

Extreme(op, terms) ==
    FoldLeft(LAMBDA best, t : IF \/ op = "min" /\ Rank(t) < Rank(best)
                                 \/ op = "max" /\ Rank(t) > Rank(best)
                              THEN t ELSE best,
             Head(terms), Tail(terms))

\* values has the argument's value << v >> over each solution, << row, "*" >> for COUNT( * ).
AggregateValue(e, values) ==
    LET kept    == IF e.distinct THEN Deduplicated(values) ELSE values
        defined == SelectSeq(kept, LAMBDA v : Len(v) = 2 \/ v[1] # Undef)
        terms   == [k \in DOMAIN defined |-> defined[k][1]]
    IN  IF e.op = "count" THEN ToString(Len(defined))
        ELSE IF terms = <<>> THEN Undef
        ELSE IF e.op = "sample" THEN Head(terms)
        ELSE Extreme(e.op, terms)

(***************************************************************************)
(* Grouping.  A solution of the pipeline is [binding, group]; group is      *)
(* << rows >> for a grouped one and <<>> otherwise.                         *)
(***************************************************************************)
KeyVariable(entry) ==
    IF entry.as # NoVariable THEN entry.as
    ELSE IF entry.expr.op = "term" /\ entry.expr.t \in Variables THEN entry.expr.t
    ELSE NoVariable

\* A key variable is bound to the last value its group's key has for it, errors aside.
KeyBindings(key, grouping) ==
    LET bound    == {k \in DOMAIN key : key[k] # Undef /\ KeyVariable(grouping[k]) # NoVariable}
        Named(v) == {k \in bound : KeyVariable(grouping[k]) = v}
    IN  [v \in {KeyVariable(grouping[k]) : k \in bound} |-> key[Max(Named(v))]]

\* parts[i] are the values of the grouping expressions over rows[i].
GroupSolutions(rows, grouping, parts) ==
    LET keys     == Deduplicated(parts)
        With(key) == Picked(rows, Ascending({i \in DOMAIN rows : parts[i] = key}, rows))
    IN  [n \in DOMAIN keys |-> [binding |-> KeyBindings(keys[n], grouping), group |-> << With(keys[n]) >>]]

HasAggregates(query) ==
    \/ \E k \in DOMAIN query.columns : "expr" \in DOMAIN query.columns[k] /\ IsAggregate(query.columns[k].expr)
    \/ \E k \in DOMAIN query.order : IsAggregate(query.order[k].expr)
    \/ \E k \in DOMAIN query.having : IsAggregate(query.having[k])

(***************************************************************************)
(* Order, projection, duplicates, slice                                     *)
(***************************************************************************)
\* A bare variable in ORDER BY that names a projected expression stands for it.
OrderExpression(e, query) ==
    LET aliases == {k \in DOMAIN query.columns : /\ "expr" \in DOMAIN query.columns[k]
                                                 /\ e.op = "term" /\ e.t = query.columns[k].var}
    IN  IF aliases = {} THEN e ELSE query.columns[Max(aliases)].expr

\* The order of two keys: the first clause on which they differ decides.
Precedes(a, b, query) ==
    \E k \in DOMAIN query.order :
        /\ \A j \in 1..(k - 1) : a[j] = b[j]
        /\ IF query.order[k].descending THEN b[k] < a[k] ELSE a[k] < b[k]

\* Solutions whose keys do not differ stay in the order they had.
ComesBefore(i, j, query, key) ==
    \/ Precedes(key[i], key[j], query)
    \/ ~Precedes(key[j], key[i], query) /\ i < j

\* A stable sort by the keys of the solutions.
OrderBindings(solutions, query, key) ==
    LET Place(j) == Cardinality({i \in DOMAIN solutions : i = j \/ ComesBefore(i, j, query, key)})
    IN  [n \in DOMAIN solutions |-> solutions[CHOOSE j \in DOMAIN solutions : Place(j) = n]]

\* Mutant: the slice is taken before the duplicates are dropped.
DistinctAfterSlice(rows, query) ==
    LET sliced == SubSeq(rows, IF query.offset = NoBound THEN 1 ELSE query.offset + 1,
                         IF query.limit = NoBound THEN Len(rows)
                         ELSE Min({Len(rows), (IF query.offset = NoBound THEN 0 ELSE query.offset) + query.limit}))
    IN  IF query.distinct THEN Deduplicated(sliced) ELSE sliced

DistinctAndSlice(rows, query) ==
    LET unique == IF query.distinct THEN Deduplicated(rows) ELSE rows
        rest   == IF query.offset = NoBound THEN unique ELSE SubSeq(unique, query.offset + 1, Len(unique))
    IN  IF query.limit = NoBound THEN rest ELSE SubSeq(rest, 1, Min({Len(rest), query.limit}))

\* Variables written as blank nodes are dropped last, after duplicates were.
WithoutBlanks(b) == [v \in DOMAIN b \ BlankVariables |-> b[v]]
=============================================================================
