----------------------------- MODULE JoinSearch ------------------------------
(***************************************************************************)
(* searchBestJoinOrder (src/planner/join-order-search.ts) as the loop it is: *)
(* bit masks in ascending order, every index tried on each, a table of the   *)
(* cheapest plan met so far for each mask, and the order read back from the  *)
(* parents.  Plans of JoinOrder says what the table ends up with.  A mask is *)
(* the set of its bits; an entry the code never reached is not in the table. *)
(***************************************************************************)
EXTENDS JoinOrder

CONSTANTS Blocks,    \* the blocks to plan: sequences of entries
          Cards,     \* numbers of solutions a block may start with
          Bounds     \* sets of variables those solutions may bind

ASSUME SearchAssumption ==
    /\ Cards \subseteq Nat
    /\ \A b \in Blocks : b \in Seq(Range(b)) /\ \A i \in DOMAIN b : IsEntry(b[i])

VARIABLES block,    \* the entries and their statistics
          initial,  \* the solutions to start with: [card, bound]
          phase,    \* "refused" | "search" | "trace" | "done"
          mask,     \* the set of patterns whose plan is extended, or traced
          index,    \* the pattern tried next
          table,    \* cost, card, bound and parent of the sets reached
          order     \* the order, from its end while it is traced

vars == << block, initial, phase, mask, index, table, order >>

All == DOMAIN block

\* The mask after S: its lowest missing bit set, the bits below it cleared.
NextMask(S) ==
    LET low == CHOOSE i \in All \ S : \A j \in All \ S : i <= j
    IN  {i \in S : i > low} \cup {low}

\* The plan for one more pattern.
Tried(plan, i) ==
    LET marginal == EstimatedJoinCost(block[i], plan.card, plan.bound)
    IN  [cost  |-> Plus(plan.cost, marginal), card |-> marginal,
         bound |-> plan.bound \cup block[i].vars, parent |-> i]

\* Mutant: a plan that costs the same replaces the one already kept.
ImprovesOrTies(plan, S) == S \notin DOMAIN table \/ ~Less(table[S].cost, plan.cost)

\* A set reached for the first time costs infinity before.
Improves(plan, S) == S \notin DOMAIN table \/ Less(plan.cost, table[S].cost)

\* Mutant: a cheaper plan replaces cost and parent of a set, but not its card.
RecordWithOldCard(plan, S) ==
    [T \in DOMAIN table \cup {S} |->
        IF T # S THEN table[T]
        ELSE IF S \in DOMAIN table THEN [plan EXCEPT !.card = table[S].card]
        ELSE plan]

Record(plan, S) == [T \in DOMAIN table \cup {S} |-> IF T = S THEN plan ELSE table[T]]
-----------------------------------------------------------------------------
Init ==
    /\ block \in Blocks /\ initial \in [card : Cards, bound : Bounds]
    /\ phase = IF block = <<>> THEN "done"
               ELSE IF Len(block) > DpMaxPatterns THEN "refused" ELSE "search"
    /\ mask = {} /\ index = 1 /\ order = <<>>
    /\ table = [S \in {{}} |-> [cost |-> Whole(0), card |-> Whole(initial.card),
                                bound |-> initial.bound, parent |-> 0]]

\* One turn of the inner loop.
TryIndex ==
    /\ phase = "search" /\ index <= Len(block)
    /\ LET next == mask \cup {index}
           plan == Tried(table[mask], index)
       IN  table' = IF index \notin mask /\ Improves(plan, next) THEN Record(plan, next) ELSE table
    /\ index' = index + 1
    /\ UNCHANGED << block, initial, phase, mask, order >>

\* One turn of the outer loop; after the last mask the order is traced from it.
AdvanceMask ==
    /\ phase = "search" /\ index > Len(block)
    /\ \/ /\ mask # All
          /\ mask' = NextMask(mask) /\ index' = 1 /\ UNCHANGED phase
       \/ /\ mask = All
          /\ phase' = "trace" /\ UNCHANGED << mask, index >>
    /\ UNCHANGED << block, initial, table, order >>

TraceParent ==
    /\ phase = "trace" /\ mask # {}
    /\ order' = Append(order, table[mask].parent)
    /\ mask' = mask \ {table[mask].parent}
    /\ UNCHANGED << block, initial, phase, index, table >>

\* Mutant: the order is returned as it was traced.
FinishUnreversed ==
    /\ phase = "trace" /\ mask = {}
    /\ phase' = "done"
    /\ UNCHANGED << block, initial, mask, index, table, order >>

Finish ==
    /\ phase = "trace" /\ mask = {}
    /\ order' = Reverse(order) /\ phase' = "done"
    /\ UNCHANGED << block, initial, mask, index, table >>

Next == TryIndex \/ AdvanceMask \/ TraceParent \/ Finish

Spec == Init /\ [][Next]_vars
-----------------------------------------------------------------------------
(***************************************************************************)
(* Properties                                                               *)
(***************************************************************************)
\* The search extends only plans that stay: cost, card and bound of every set reached
\* are those of the set without its parent, joined with the parent, also after that
\* set's own entry was replaced.
PlansFitTogether ==
    \A S \in DOMAIN table \ {{}} :
        LET i == table[S].parent
        IN  /\ i \in S /\ S \ {i} \in DOMAIN table
            /\ table[S] = Tried(table[S \ {i}], i)

\* The loop returns the order of the plan that KeptPlan describes: the cheapest last
\* join to the plan kept for the others, ties going to the highest index last.
OrderIsOfKeptPlan ==
    phase = "done" => order = SearchBestJoinOrder(block, initial.card, initial.bound)

\* The order joins every pattern once, and the cost the table claims for it is what its
\* joins cost one after the other under the model.
CostIsOfOrder ==
    phase = "done" /\ block # <<>> =>
        /\ ToSet(order) = All /\ Len(order) = Len(block)
        /\ EqualCost(table[All].cost,
                     ReplayedPlan(block, initial.card, initial.bound, order).cost)
=============================================================================
