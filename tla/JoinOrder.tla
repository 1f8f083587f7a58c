------------------------------ MODULE JoinOrder ------------------------------
(***************************************************************************)
(* The join-order planner (src/planner): statistics of a pattern from its   *)
(* scanned candidates, the cost model, the search over subsets of patterns, *)
(* and the greedy choice for larger blocks.  An entry is a record of the    *)
(* Variables of a pattern and its statistics [vars, candidates, distinct],  *)
(* where distinct maps some variables to counts.  Costs are fractions       *)
(* << numerator, denominator >>; rounding of doubles is left out.           *)
(***************************************************************************)
EXTENDS Naturals, FiniteSets, FiniteSetsExt, SequencesExt

CONSTANTS DpMaxPatterns,       \* DP_MAX_PATTERNS: patterns up to which the subset search runs
          DistinctSampleCap    \* DISTINCT_SAMPLE_CAP: candidates a distinct count looks at

ASSUME PlannerAssumption == DpMaxPatterns \in Nat /\ DistinctSampleCap \in Nat \ {0}

(***************************************************************************)
(* Fractions                                                                *)
(***************************************************************************)
Whole(n)       == << n, 1 >>
Times(n, f)    == << n[1] * f[1], n[2] * f[2] >>
Plus(f, g)     == << f[1] * g[2] + g[1] * f[2], f[2] * g[2] >>
Less(f, g)     == f[1] * g[2] < g[1] * f[2]
EqualCost(f, g) == f[1] * g[2] = g[1] * f[2]

(***************************************************************************)
(* Statistics                                                               *)
(***************************************************************************)
CeilDiv(a, b) == (a + b - 1) \div b

\* Candidates looked at: all up to the cap, above it one every stride.
Sampled(n) ==
    LET stride == IF n <= DistinctSampleCap THEN 1 ELSE CeilDiv(n, DistinctSampleCap)
    IN  {i \in 1..n : (i - 1) % stride = 0}

\* positions maps every variable of the pattern to the position whose terms it takes.
FallbackStats(quads, positions) ==
    LET n         == Len(quads)
        sample    == Sampled(n)
        k         == Cardinality(sample)
        Seen(v)   == Cardinality({quads[i][positions[v]] : i \in sample})
        \* Math.round(Seen * n / k), and never more than n
        Scaled(v) == Min({n, (2 * Seen(v) * n + k) \div (2 * k)})
    IN  [candidates |-> n,
         distinct   |-> IF n = 0 THEN <<>> ELSE [v \in DOMAIN positions |-> Scaled(v)]]

\* An entry as the scans and FallbackStats deliver it.
IsEntry(e) == e.candidates \in Nat /\ \A v \in DOMAIN e.distinct : e.distinct[v] \in Nat

(***************************************************************************)
(* The cost model                                                           *)
(***************************************************************************)
\* Joining an entry after a plan with card solutions that bind the variables bound.
EstimatedJoinCost(entry, card, bound) ==
    LET known == {v \in entry.vars \cap bound \cap DOMAIN entry.distinct : entry.distinct[v] > 0}
        least == Min({entry.distinct[v] : v \in known})
    IN  IF known = {} THEN Times(card, Whole(entry.candidates))
        ELSE IF entry.candidates <= least THEN card
        ELSE Times(card, << entry.candidates, least >>)

\* The greedy estimate over the solutions rows: distinct values among them stand in
\* for a variable the statistics do not know.
GreedyJoinCost(entry, stats, rows) ==
    LET Values(v) == {rows[i][v] : i \in {j \in DOMAIN rows : v \in DOMAIN rows[j]}}
        bound     == {v \in entry.vars : Values(v) # {}}
        Count(v)  == IF v \in DOMAIN stats.distinct /\ stats.distinct[v] > 0
                     THEN stats.distinct[v] ELSE Cardinality(Values(v))
        least     == Min({Count(v) : v \in bound})
    IN  IF rows = <<>> THEN Whole(0)
        ELSE IF bound = {} THEN Whole(Len(rows) * stats.candidates)
        ELSE IF stats.candidates <= least THEN Whole(Len(rows))
        ELSE << Len(rows) * stats.candidates, least >>

(***************************************************************************)
(* The subset search                                                        *)
(***************************************************************************)
\* Extends the plan of some patterns by the entry number i.
Extend(plan, entries, i) ==
    LET marginal == EstimatedJoinCost(entries[i], plan.card, plan.bound)
    IN  [cost  |-> Plus(plan.cost, marginal), card |-> marginal,
         bound |-> plan.bound \cup entries[i].vars, order |-> Append(plan.order, i)]

\* Mutant: the output size of a set is that of the last plan tried, not of the plan kept.
CheapestWithOtherCard(plans) ==
    LET kept == CHOOSE p \in plans : \A q \in plans \ {p} :
                    \/ Less(p.cost, q.cost)
                    \/ EqualCost(p.cost, q.cost) /\ Last(p.order) > Last(q.order)
        last == CHOOSE p \in plans : \A q \in plans : Last(p.order) <= Last(q.order)
    IN  [kept EXCEPT !.card = last.card]

\* The first of the cheapest plans in the order the search meets them: sets of patterns
\* in the order of their bit masks, so that of equal plans the one that joins the
\* highest index last comes first.
CheapestOf(plans) ==
    CHOOSE p \in plans : \A q \in plans \ {p} :
        \/ Less(p.cost, q.cost)
        \/ EqualCost(p.cost, q.cost) /\ Last(p.order) > Last(q.order)

\* The plan before the first join: card solutions that bind the variables bound.
Start(card, bound) == [cost |-> Whole(0), card |-> Whole(card), bound |-> bound, order |-> <<>>]

\* The plan kept for every set of patterns: the cheapest way to append one of them to
\* the plan kept for the others.
Plans(entries, card, bound) ==
    LET plan[S \in SUBSET DOMAIN entries] ==
            IF S = {} THEN Start(card, bound)
            ELSE CheapestOf({Extend(plan[S \ {i}], entries, i) : i \in S})
    IN  plan

KeptPlan(entries, card, bound) == Plans(entries, card, bound)[DOMAIN entries]

SearchBestJoinOrder(entries, card, bound) == KeptPlan(entries, card, bound).order

\* What joining the entries in a given order costs under the model.
ReplayedPlan(entries, card, bound, order) ==
    LET after[k \in 0 .. Len(order)] ==
            IF k = 0 THEN Start(card, bound) ELSE Extend(after[k - 1], entries, order[k])
    IN  after[Len(order)]

\* The greedy loop: the first of the remaining entries whose estimate is lowest.  The
\* statistics are looked up by the position in remaining, also after entries before
\* it were taken out.
GreedyChoice(remaining, statsList, rows) ==
    CHOOSE k \in DOMAIN remaining :
        \A j \in DOMAIN remaining \ {k} :
            LET here  == GreedyJoinCost(remaining[k], statsList[k], rows)
                there == GreedyJoinCost(remaining[j], statsList[j], rows)
            IN  Less(here, there) \/ (EqualCost(here, there) /\ k < j)
=============================================================================
