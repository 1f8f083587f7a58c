------------------------------- MODULE Joins --------------------------------
(***************************************************************************)
(* The binding algebra of src/evaluator/join-*.ts: the natural join, the    *)
(* OPTIONAL join and MINUS over arrays of solutions.  A solution is a       *)
(* function from the variables it binds to terms.  Above a number of pairs  *)
(* the joins look the partners of a left solution up in a hash index of the *)
(* right side instead of comparing it with every right solution; the index  *)
(* is modelled by the sets of positions its buckets hold.                   *)
(***************************************************************************)
EXTENDS Filtering, FiniteSets, SequencesExt

CONSTANT ProductThreshold   \* JOIN_PRODUCT_THRESHOLD: pairs up to which the joins nest loops

ASSUME ThresholdAssumption == ProductThreshold \in Nat

(***************************************************************************)
(* Solutions                                                                *)
(***************************************************************************)
Compatible(a, b) == \A v \in DOMAIN a \cap DOMAIN b : a[v] = b[v]

SharesVariable(a, b) == DOMAIN a \cap DOMAIN b # {}

\* { ...l, ...r }
Merge(l, r) == [v \in DOMAIN l \cup DOMAIN r |-> IF v \in DOMAIN r THEN r[v] ELSE l[v]]

BoundVariables(rows) == UNION {DOMAIN rows[i] : i \in DOMAIN rows}

SharedVars(left, right) == BoundVariables(left) \cap BoundVariables(right)

(***************************************************************************)
(* The hash index of the right side over the shared variables joinVars      *)
(***************************************************************************)
Total(b, joinVars) == joinVars \subseteq DOMAIN b

\* The key has null where b leaves a shared variable unbound: outside its domain here.
JoinKey(b, joinVars) == [v \in joinVars \cap DOMAIN b |-> b[v]]

ExactBucket(right, joinVars, key) ==
    {j \in DOMAIN right : Total(right[j], joinVars) /\ JoinKey(right[j], joinVars) = key}

Partials(right, joinVars) == {j \in DOMAIN right : ~Total(right[j], joinVars)}

VarBucket(right, v, term) == {j \in DOMAIN right : v \in DOMAIN right[j] /\ right[j][v] = term}

\* The shared variable l binds whose bucket is smallest; which one of several does
\* not matter to the candidates (the code takes the first in sorted order).
BestVar(l, joinVars, right) ==
    CHOOSE v \in joinVars \cap DOMAIN l :
        \A w \in joinVars \cap DOMAIN l :
            Cardinality(VarBucket(right, v, l[v])) <= Cardinality(VarBucket(right, w, l[w]))

\* The first part of the candidates of l: one bucket, verified where it must be.
Probed(l, joinVars, right) ==
    IF Total(l, joinVars) THEN ExactBucket(right, joinVars, JoinKey(l, joinVars))
    ELSE IF joinVars \cap DOMAIN l = {} THEN DOMAIN right
    ELSE LET v == BestVar(l, joinVars, right)
         IN  {j \in VarBucket(right, v, l[v]) : Compatible(l, right[j])}

\* Mutant: the partial rows already in the probed bucket are offered a second time.
WildcardsAgain(l, joinVars, right) ==
    {j \in Partials(right, joinVars) : joinVars \cap DOMAIN l # {} /\ Compatible(l, right[j])}

\* The second part: the right solutions that leave a shared variable open.
Wildcards(l, joinVars, right) ==
    IF Total(l, joinVars) THEN {j \in Partials(right, joinVars) : Compatible(l, right[j])}
    ELSE IF joinVars \cap DOMAIN l = {} THEN {}
    ELSE LET v == BestVar(l, joinVars, right)
         IN  {j \in Partials(right, joinVars) : v \notin DOMAIN right[j] /\ Compatible(l, right[j])}

(***************************************************************************)
(* The joins                                                                *)
(***************************************************************************)
Ascending(positions, right) == Kept([j \in DOMAIN right |-> j], positions)

Nested(left, right) ==
    \/ Len(left) * Len(right) <= ProductThreshold
    \/ SharedVars(left, right) = {}

\* The positions of the right solutions l is merged with, in the order they come.
Partners(l, left, right) ==
    IF Nested(left, right)
    THEN Ascending({j \in DOMAIN right : Compatible(l, right[j])}, right)
    ELSE LET joinVars == SharedVars(left, right)
         IN  Ascending(Probed(l, joinVars, right), right) \o Ascending(Wildcards(l, joinVars, right), right)

MergedAt(l, right, partners) == [k \in DOMAIN partners |-> Merge(l, right[partners[k]])]

Merged(l, left, right) == MergedAt(l, right, Partners(l, left, right))

InnerJoin(left, right) == FlattenSeq([i \in DOMAIN left |-> Merged(left[i], left, right)])

\* VALUES: always nested loops.
JoinValues(rows, data) ==
    FlattenSeq([i \in DOMAIN rows |-> FlattenSeq([j \in DOMAIN data |->
        IF Compatible(rows[i], data[j]) THEN << Merge(rows[i], data[j]) >> ELSE <<>>])])

Survives(l, left, right) ==
    LET partners == Partners(l, left, right)
    IN  \A k \in DOMAIN partners : ~SharesVariable(l, right[partners[k]])

Minus(left, right) == Kept(left, {l \in ToSet(left) : Survives(l, left, right)})
=============================================================================
