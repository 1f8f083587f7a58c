-------------------------- MODULE JoinSearch_proofs --------------------------
(***************************************************************************)
(* Proofs about JoinSearch, for any blocks, statistics and starting         *)
(* solutions.  A set's parent is always the best last join among those      *)
(* tried, and what is tried for a mask is complete when the loop gets there *)
(* (TableInv), so the plans a plan was made from stay, the table is the     *)
(* function Plans when the loop is over, and the order traced is its order. *)
(***************************************************************************)
EXTENDS JoinSearch, Joins_proofs

(***************************************************************************)
(* Masks                                                                    *)
(***************************************************************************)
(* The bits above the highest in which S and T differ are the same, and    *)
(* that one belongs to T: as a number S is the smaller mask.               *)
Before(S, T) == \E i \in T \ S : \A j \in Nat : j > i => (j \in S <=> j \in T)

(* A proper subset is a smaller mask.                                      *)
LEMMA SubsetIsBefore ==
  ASSUME NEW n \in Nat, NEW T \in SUBSET (1 .. n), NEW S \in SUBSET T, S # T
  PROVE  Before(S, T)
<1>1. T \ S \in SUBSET (1 .. n) /\ T \ S # {}
  OBVIOUS
<1>2. PICK i \in T \ S : \A j \in T \ S : j <= i
  BY <1>1, GreatestOf
<1>3. QED
  BY <1>2 DEF Before

(* The mask that follows S is the next one: what is before it is S or      *)
(* before S.                                                               *)
LEMMA NextMaskFollows ==
  ASSUME NEW n \in Nat, All = 1 .. n, NEW S \in SUBSET All, S # All
  PROVE  /\ NextMask(S) \in SUBSET All /\ NextMask(S) # {}
         /\ \A U \in SUBSET All :
              Before(U, NextMask(S)) <=> U = S \/ Before(U, S)
<1> DEFINE low == CHOOSE i \in All \ S : \A j \in All \ S : i <= j
<1>1. low \in All \ S /\ \A j \in All \ S : low <= j
  <2>1. All \ S \in SUBSET Nat
    OBVIOUS
  <2>2. All \ S # {}
    BY Zenon
  <2>3. \E i \in All \ S : \A j \in All \ S : i <= j
    BY <2>1, <2>2, LeastNatural
  <2>4. QED
    BY <2>3
<1>2. NextMask(S) = {i \in S : i > low} \cup {low}
  BY DEF NextMask
<1> HIDE DEF low
<1>3. NextMask(S) \in SUBSET All /\ NextMask(S) # {}
  BY <1>1, <1>2
<1>4. ASSUME NEW U \in SUBSET All, U = S \/ Before(U, S)
      PROVE  Before(U, NextMask(S))
  <2>1. CASE U = S
    BY <1>1, <1>2, <2>1 DEF Before
  <2>2. CASE Before(U, S)
    <3>1. PICK i \in S \ U : \A j \in Nat : j > i => (j \in U <=> j \in S)
      BY <2>2 DEF Before
    <3>2. CASE i > low
      BY <1>1, <1>2, <3>1, <3>2 DEF Before
    <3>3. CASE i < low
      <4>1. low \notin U /\ \A j \in Nat : j > low => (j \in U <=> j \in S)
        BY <1>1, <3>1, <3>3
      <4>2. QED
        BY <1>1, <1>2, <4>1 DEF Before
    <3>4. QED
      BY <1>1, <3>1, <3>2, <3>3
  <2>3. QED
    BY <1>4, <2>1, <2>2
<1>5. ASSUME NEW U \in SUBSET All, Before(U, NextMask(S)), U # S
      PROVE  Before(U, S)
  <2>1. PICK i \in NextMask(S) \ U :
               \A j \in Nat : j > i => (j \in U <=> j \in NextMask(S))
    BY <1>5 DEF Before
  <2>2. CASE i # low
    <3>1. i \in S \ U /\ i > low
      BY <1>2, <2>1, <2>2
    <3>2. ASSUME NEW j \in Nat, j > i PROVE j \in U <=> j \in S
      BY <1>1, <1>2, <2>1, <3>1, <3>2
    <3>3. QED
      BY <3>1, <3>2 DEF Before
  <2>3. CASE i = low
    <3>1. \A j \in Nat : j > low => (j \in U <=> j \in S)
      BY <1>1, <1>2, <2>1, <2>3
    <3>2. U \in SUBSET S
      <4> SUFFICES ASSUME NEW j \in U PROVE j \in S
        OBVIOUS
      <4>1. j \in Nat /\ low \in Nat /\ j # low
        BY <1>1, <2>1, <2>3
      <4>2. QED
        BY <1>1, <3>1, <4>1
    <3>3. QED
      BY <1>5, <3>2, SubsetIsBefore
  <2>4. QED
    BY <2>2, <2>3
<1>6. QED
  BY <1>3, <1>4, <1>5

(***************************************************************************)
(* The table                                                                *)
(***************************************************************************)
(* The last joins of S that were tried: every one of them once the loop    *)
(* is over.                                                                *)
TriedLast(S) ==
    IF phase = "search"
    THEN {i \in S : Before(S \ {i}, mask) \/ (S \ {i} = mask /\ i < index)}
    ELSE S

(* What joining i last to the plan kept for the other patterns of S costs. *)
CostOfLast(S, i) == Tried(table[S \ {i}], i).cost

(* The parent of S was tried, its set has a plan, the entry is that plan   *)
(* joined with it, and no other join tried is better: dearer, or as dear   *)
(* and met later.                                                          *)
IsBest(S) ==
    LET i == table[S].parent
    IN  /\ i \in TriedLast(S) /\ S \ {i} \in DOMAIN table
        /\ table[S] = Tried(table[S \ {i}], i)
        /\ \A j \in TriedLast(S) \ {i} :
              \/ Less(table[S].cost, CostOfLast(S, j))
              \/ EqualCost(table[S].cost, CostOfLast(S, j)) /\ i > j

IsStart(entry) ==
    entry = [cost |-> Whole(0), card |-> Whole(initial.card), bound |-> initial.bound, parent |-> 0]

Controls ==
    /\ block \in Blocks /\ initial \in [card : Cards, bound : Bounds]
    /\ phase \in {"refused", "search", "trace", "done"}
    /\ mask \in SUBSET All /\ index \in Nat \ {0}
    /\ phase = "search" => block # <<>> /\ index <= Len(block) + 1

TableInv ==
    /\ DOMAIN table \in SUBSET SUBSET All /\ {} \in DOMAIN table
    /\ IsStart(table[{}])
    /\ \A S \in DOMAIN table : table[S].cost \in Fraction /\ table[S].card \in Fraction
    /\ \A S \in DOMAIN table \ {{}} : IsBest(S)
    /\ phase \in {"search", "trace"} \/ (phase = "done" /\ block # <<>>) =>
         \A S \in (SUBSET All) \ {{}} : S \in DOMAIN table <=> TriedLast(S) # {}
    /\ phase = "search" =>
         \A S \in SUBSET All : S = mask \/ Before(S, mask) => S \in DOMAIN table

LEMMA BlockIs ==
  ASSUME block \in Blocks
  PROVE  /\ Len(block) \in Nat /\ All = 1 .. Len(block)
         /\ IsFiniteSet(All) /\ Cardinality(All) = Len(block)
         /\ \A i \in All : IsEntry(block[i])
<1>1. block \in Seq(Range(block)) /\ \A i \in DOMAIN block : IsEntry(block[i])
  BY SearchAssumption
<1>2. Len(block) \in Nat /\ All = 1 .. Len(block)
  BY <1>1 DEF All
<1>3. IsFiniteSet(All) /\ Cardinality(All) = Len(block)
  BY <1>2, FS_Interval
<1>4. QED
  BY <1>1, <1>2, <1>3 DEF All

LEMMA TriedIs ==
  ASSUME NEW plan, NEW i, IsEntry(block[i]), plan.cost \in Fraction, plan.card \in Fraction
  PROVE  /\ Tried(plan, i).cost \in Fraction /\ Tried(plan, i).card \in Fraction
         /\ Tried(plan, i).parent = i
<1>1. EstimatedJoinCost(block[i], plan.card, plan.bound) \in Fraction
  BY JoinCostIsFraction
<1>2. QED
  BY <1>1, FractionsClosed DEF Tried

LEMMA SearchStarts == Init => Controls /\ TableInv
<1> SUFFICES ASSUME Init PROVE Controls /\ TableInv
  OBVIOUS
<1>1. Len(block) \in Nat /\ All = 1 .. Len(block)
  BY BlockIs DEF Init
<1>2. Controls
  BY <1>1, SMTT(20) DEF Init, Controls
<1>3. DOMAIN table = {{}} /\ IsStart(table[{}])
  BY DEF Init, IsStart
<1>4. table[{}].cost \in Fraction /\ table[{}].card \in Fraction
  <2>1. 0 \in Nat /\ initial.card \in Nat
    BY SearchAssumption DEF Init
  <2>2. QED
    BY <1>3, <2>1 DEF IsStart, Whole, Fraction
<1>5. ASSUME NEW S \in SUBSET All
      PROVE  ~Before(S, {})
  BY DEF Before
<1>6. phase = "search" =>
        \A S \in SUBSET All : S = mask \/ Before(S, mask) => S \in DOMAIN table
  BY <1>3, <1>5 DEF Init
<1>7. ASSUME NEW S \in (SUBSET All) \ {{}}, phase = "search"
      PROVE  TriedLast(S) = {}
  <2>1. mask = {} /\ index = 1
    BY DEF Init
  <2>2. \A i \in S : ~(i < 1) /\ ~Before(S \ {i}, {})
    BY <1>1, <1>5
  <2>3. QED
    BY <1>7, <2>1, <2>2 DEF TriedLast
<1>8. phase \in {"search", "trace"} \/ (phase = "done" /\ block # <<>>) => phase = "search"
  BY DEF Init
<1>9. QED
  BY <1>2, <1>3, <1>4, <1>6, <1>7, <1>8 DEF TableInv

(* A turn of the inner loop adds to what was tried for one set only, and   *)
(* only what is met later than the rest.                                   *)
LEMMA TryingIs ==
  ASSUME Controls, TryIndex
  PROVE  /\ index \in All /\ mask \cup {index} \in SUBSET All
         /\ \A S \in SUBSET All :
              /\ S # mask \cup {index} \/ index \in mask => TriedLast(S)' = TriedLast(S)
              /\ S = mask \cup {index} /\ index \notin mask =>
                   /\ TriedLast(S)' = TriedLast(S) \cup {index}
                   /\ \A j \in TriedLast(S) : j > index
         /\ index \notin mask => ~Before(mask \cup {index}, mask)
<1>1. /\ Len(block) \in Nat /\ All = 1 .. Len(block) /\ index \in All
      /\ mask \in SUBSET All /\ phase = "search"
      /\ index' = index + 1 /\ UNCHANGED << block, phase, mask >>
  BY BlockIs DEF Controls, TryIndex
<1>2. ASSUME NEW S \in SUBSET All, NEW i \in S
      PROVE  /\ i \in TriedLast(S) <=> Before(S \ {i}, mask) \/ (S \ {i} = mask /\ i < index)
             /\ i \in TriedLast(S)'
                  <=> Before(S \ {i}, mask) \/ (S \ {i} = mask /\ i < index + 1)
  BY <1>1 DEF TriedLast
<1>3. ASSUME NEW S \in SUBSET All
      PROVE  TriedLast(S) \in SUBSET S /\ TriedLast(S)' \in SUBSET S
  BY DEF TriedLast
<1>4. ASSUME NEW S \in SUBSET All, S # mask \cup {index} \/ index \in mask
      PROVE  TriedLast(S)' = TriedLast(S)
  <2>1. ASSUME NEW i \in S
        PROVE  i \in TriedLast(S) <=> i \in TriedLast(S)'
    <3>1. S \ {i} = mask => i # index
      BY <1>4
    <3>2. i < index + 1 /\ i # index => i < index
      BY <1>1
    <3>3. i < index => i < index + 1
      BY <1>1
    <3>4. QED
      BY <1>2, <3>1, <3>2, <3>3
  <2>2. QED
    BY <1>3, <2>1
<1>5. ASSUME index \notin mask, NEW S \in SUBSET All, S = mask \cup {index}
      PROVE  /\ TriedLast(S)' = TriedLast(S) \cup {index}
             /\ \A j \in TriedLast(S) : j > index
  <2>1. index \in S /\ S \ {index} = mask
    BY <1>5
  <2>2. index \in TriedLast(S)'
    BY <1>1, <1>2, <2>1
  <2>3. ASSUME NEW i \in S, i # index
        PROVE  i \in TriedLast(S) <=> i \in TriedLast(S)'
    <3>1. S \ {i} # mask
      BY <1>5, <2>3
    <3>2. QED
      BY <1>2, <3>1
  <2>4. ASSUME NEW j \in TriedLast(S)
        PROVE  j > index
    <3>1. j \in S /\ j # index
      <4>1. ~(index < index) /\ ~Before(mask, mask)
        BY <1>1 DEF Before
      <4>2. index \notin TriedLast(S)
        BY <1>2, <2>1, <4>1
      <4>3. QED
        BY <1>3, <2>4, <4>2
    <3>2. Before(S \ {j}, mask)
      <4>1. S \ {j} # mask
        BY <1>5, <3>1
      <4>2. QED
        BY <1>2, <2>4, <3>1, <4>1
    <3>3. PICK m \in mask \ (S \ {j}) :
                 \A k \in Nat : k > m => (k \in S \ {j} <=> k \in mask)
      BY <3>2 DEF Before
    <3>4. m = j
      BY <1>5, <3>3
    <3>5. ~(index > j)
      BY <1>1, <1>5, <2>1, <3>1, <3>3, <3>4
    <3>6. QED
      BY <1>1, <3>1, <3>5
  <2>5. QED
    BY <1>3, <2>2, <2>3, <2>4
<1>6. ~Before(mask \cup {index}, mask)
  BY DEF Before
<1>7. QED
  BY <1>1, <1>4, <1>5, <1>6

LEMMA TryingKeepsTable ==
  ASSUME Controls, TableInv, TryIndex
  PROVE  Controls' /\ TableInv'
<1>0. PICK i, next, plan :
             i = index /\ next = mask \cup {index} /\ plan = Tried(table[mask], index)
  OBVIOUS
<1>1. /\ phase = "search" /\ UNCHANGED << block, initial, phase, mask >> /\ index' = index + 1
      /\ table' = IF i \notin mask /\ Improves(plan, next)
                  THEN Record(plan, next) ELSE table
  BY <1>0 DEF TryIndex
<1>2. /\ Len(block) \in Nat /\ All = 1 .. Len(block) /\ All' = All
      /\ \A j \in All : IsEntry(block[j])
  BY <1>1, BlockIs DEF Controls, All
<1>3. Controls'
  BY <1>1, <1>2, SMTT(20) DEF Controls, TryIndex
<1>4. i \in All /\ next \in SUBSET All
  BY <1>0, TryingIs
<1>5. /\ DOMAIN table \in SUBSET SUBSET All /\ {} \in DOMAIN table /\ IsStart(table[{}])
      /\ \A S \in DOMAIN table : table[S].cost \in Fraction /\ table[S].card \in Fraction
      /\ \A S \in DOMAIN table \ {{}} : IsBest(S)
      /\ \A S \in (SUBSET All) \ {{}} : S \in DOMAIN table <=> TriedLast(S) # {}
      /\ \A S \in SUBSET All : S = mask \/ Before(S, mask) => S \in DOMAIN table
  BY <1>1 DEF TableInv
<1>6. ASSUME NEW S \in SUBSET All, NEW j \in TriedLast(S)
      PROVE  /\ j \in S /\ S \ {j} \in DOMAIN table
             /\ Tried(table[S \ {j}], j).cost \in Fraction
  <2>1. j \in S /\ S \ {j} \in SUBSET All
        /\ (Before(S \ {j}, mask) \/ S \ {j} = mask)
    BY <1>1, <1>6 DEF TriedLast
  <2>2. S \ {j} \in DOMAIN table
    BY <1>5, <2>1
  <2>3. QED
    BY <1>2, <1>5, <2>1, <2>2, TriedIs
<1>7. mask \in DOMAIN table
  BY <1>3, <1>5, <1>1, <1>2 DEF Controls
<1>8. plan.cost \in Fraction /\ plan.card \in Fraction /\ plan.parent = i
  BY <1>0, <1>2, <1>4, <1>5, <1>7, TriedIs
<1>9. CASE i \in mask
  <2>1. table' = table
    BY <1>1, <1>9
  <2>2. \A S \in SUBSET All : TriedLast(S)' = TriedLast(S)
    BY <1>0, <1>9, TryingIs
  <2>3. ASSUME NEW S \in DOMAIN table \ {{}} PROVE IsBest(S)'
    <3>1. IsBest(S) /\ TriedLast(S)' = TriedLast(S)
      BY <1>5, <2>2
    <3>2. QED
      BY <1>1, <2>1, <3>1 DEF IsBest, CostOfLast, Tried
  <2>4. IsStart(table[{}])'
    BY <1>1, <1>5, <2>1 DEF IsStart
  <2>5. QED
    BY <1>1, <1>2, <1>3, <1>5, <2>1, <2>2, <2>3, <2>4 DEF TableInv
<1>10. CASE i \notin mask
  <2>1. /\ \A S \in SUBSET All : S # next => TriedLast(S)' = TriedLast(S)
        /\ TriedLast(next)' = TriedLast(next) \cup {i}
        /\ \A j \in TriedLast(next) : j > i
        /\ ~Before(next, mask) /\ next # mask /\ next # {} /\ next \ {i} = mask
    BY <1>0, <1>4, <1>10, TryingIs
  <2>2. ASSUME NEW S \in SUBSET All, NEW j \in TriedLast(S)'
        PROVE  j \in S /\ S \ {j} # next /\ S \ {j} \in DOMAIN table
    <3>1. j \in S /\ (Before(S \ {j}, mask) \/ S \ {j} = mask)
      BY <1>1, <2>2 DEF TriedLast
    <3>2. QED
      BY <1>5, <2>1, <3>1
  <2>3. /\ DOMAIN table' \in SUBSET SUBSET All /\ DOMAIN table \in SUBSET DOMAIN table'
        /\ DOMAIN table' = DOMAIN table \cup {next}
        /\ \A S \in DOMAIN table : S # next => table'[S] = table[S]
    <3>1. CASE Improves(plan, next)
      BY <1>1, <1>4, <1>5, <1>10, <3>1 DEF Record
    <3>2. CASE ~Improves(plan, next)
      BY <1>1, <1>4, <1>5, <1>10, <3>2 DEF Improves
    <3>3. QED
      BY <3>1, <3>2
  <2>4. ASSUME NEW S \in SUBSET All, NEW j \in TriedLast(S)'
        PROVE  Tried(table[S \ {j}], j)' = Tried(table[S \ {j}], j)
    <3>1. table'[S \ {j}] = table[S \ {j}]
      BY <2>2, <2>3
    <3>2. QED
      BY <1>1, <3>1 DEF Tried
  <2>5. /\ table'[next].cost \in Fraction /\ table'[next].card \in Fraction
        /\ IsBest(next)'
    <3>1. CASE Improves(plan, next)
      <4>1. table'[next] = plan
        BY <1>1, <1>10, <3>1 DEF Record
      <4>2. plan = Tried(table[next \ {i}], i)
        BY <1>0, <2>1
      <4>3. ASSUME NEW j \in TriedLast(next)' \ {i}
            PROVE  Less(plan.cost, CostOfLast(next, j)')
        <5>1. j \in TriedLast(next) /\ CostOfLast(next, j)' = CostOfLast(next, j)
          BY <1>4, <2>1, <2>4, <4>3 DEF CostOfLast
        <5>2. next \in DOMAIN table /\ Less(plan.cost, table[next].cost)
          BY <1>4, <1>5, <2>1, <3>1, <5>1 DEF Improves
        <5>3. \/ Less(table[next].cost, CostOfLast(next, j))
              \/ EqualCost(table[next].cost, CostOfLast(next, j))
          <6>1. IsBest(next)
            BY <1>5, <2>1, <5>2
          <6>2. CASE j = table[next].parent
            BY <6>1, <6>2 DEF IsBest, CostOfLast, EqualCost
          <6>3. CASE j # table[next].parent
            BY <5>1, <6>1, <6>3 DEF IsBest
          <6>4. QED
            BY <6>2, <6>3
        <5>4. CostOfLast(next, j) \in Fraction /\ table[next].cost \in Fraction
          BY <1>4, <1>5, <1>6, <5>1, <5>2 DEF CostOfLast
        <5>5. QED
          BY <1>8, <5>1, <5>2, <5>3, <5>4, CostsTransitive
      <4>4. i \in TriedLast(next)' /\ next \ {i} \in DOMAIN table'
        BY <1>7, <2>1, <2>3
      <4>5. plan = Tried(table[next \ {i}], i)'
        BY <1>4, <2>4, <4>2, <4>4
      <4>6. QED
        BY <1>8, <4>1, <4>3, <4>4, <4>5 DEF IsBest
    <3>2. CASE ~Improves(plan, next)
      <4>1. /\ table' = table /\ next \in DOMAIN table
            /\ ~Less(plan.cost, table[next].cost) /\ table[next].cost \in Fraction
        BY <1>1, <1>5, <3>2 DEF Improves
      <4>2. IsBest(next)
        BY <1>5, <2>1, <4>1
      <4>3. \/ Less(table[next].cost, plan.cost)
            \/ EqualCost(table[next].cost, plan.cost)
        BY <1>8, <4>1, CostsTotal
      <4>4. table[next].parent > i
        BY <2>1, <4>2 DEF IsBest
      <4>5. CostOfLast(next, i)' = plan.cost
        BY <1>0, <1>4, <2>1, <2>4 DEF CostOfLast
      <4>6. ASSUME NEW j \in TriedLast(next)
            PROVE  CostOfLast(next, j)' = CostOfLast(next, j)
        BY <1>4, <2>1, <2>4 DEF CostOfLast
      <4>7. /\ table[next].parent \in TriedLast(next)
            /\ table[next] = Tried(table[next \ {table[next].parent}], table[next].parent)
            /\ next \ {table[next].parent} \in DOMAIN table
        BY <4>2 DEF IsBest
      <4>8. Tried(table[next \ {table[next].parent}], table[next].parent)'
              = Tried(table[next \ {table[next].parent}], table[next].parent)
        BY <1>1, <4>1 DEF Tried
      <4>9. ASSUME NEW j \in TriedLast(next)' \ {table[next].parent}
            PROVE  \/ Less(table[next].cost, CostOfLast(next, j)')
                   \/ EqualCost(table[next].cost, CostOfLast(next, j)') /\ table[next].parent > j
        <5>1. CASE j = i
          BY <4>3, <4>4, <4>5, <5>1
        <5>2. CASE j # i
          BY <2>1, <4>2, <4>6, <4>9, <5>2 DEF IsBest
        <5>3. QED
          BY <5>1, <5>2
      <4>10. table'[next].card \in Fraction
        BY <1>5, <4>1
      <4>11. QED
        BY <2>1, <4>1, <4>7, <4>8, <4>9, <4>10 DEF IsBest
    <3>3. QED
      BY <3>1, <3>2
  <2>6. ASSUME NEW S \in DOMAIN table \ {{}}, S # next
        PROVE  IsBest(S)'
    <3>1. /\ IsBest(S) /\ S \in SUBSET All /\ TriedLast(S)' = TriedLast(S)
          /\ table'[S] = table[S]
      BY <1>5, <2>1, <2>3, <2>6
    <3>2. \A j \in TriedLast(S) :
            /\ CostOfLast(S, j)' = CostOfLast(S, j)
            /\ Tried(table[S \ {j}], j)' = Tried(table[S \ {j}], j)
      BY <2>4, <3>1 DEF CostOfLast
    <3>3. PICK p : p = table[S].parent
      OBVIOUS
    <3>4. /\ p \in TriedLast(S) /\ S \ {p} \in DOMAIN table /\ table[S] = Tried(table[S \ {p}], p)
          /\ \A j \in TriedLast(S) \ {p} :
                \/ Less(table[S].cost, CostOfLast(S, j))
                \/ EqualCost(table[S].cost, CostOfLast(S, j)) /\ p > j
      BY <3>1, <3>3 DEF IsBest
    <3>5. table'[S].parent = p /\ S \ {p} \in DOMAIN table'
      BY <2>3, <3>1, <3>3, <3>4
    <3>6. IsBest(S)' <=>
            /\ p \in TriedLast(S)' /\ S \ {p} \in DOMAIN table'
            /\ table'[S] = Tried(table[S \ {p}], p)'
            /\ \A j \in TriedLast(S)' \ {p} :
                  \/ Less(table'[S].cost, CostOfLast(S, j)')
                  \/ EqualCost(table'[S].cost, CostOfLast(S, j)') /\ p > j
      BY <3>5, Zenon DEF IsBest
    <3>7. \A j \in TriedLast(S)' \ {p} :
             \/ Less(table'[S].cost, CostOfLast(S, j)')
             \/ EqualCost(table'[S].cost, CostOfLast(S, j)') /\ p > j
      BY <3>1, <3>2, <3>4
    <3>8. table'[S] = Tried(table[S \ {p}], p)'
      BY <3>1, <3>2, <3>4
    <3>9. QED
      BY <3>1, <3>4, <3>5, <3>6, <3>7, <3>8
  <2>7. IsStart(table[{}])'
    BY <1>1, <1>5, <2>1, <2>3 DEF IsStart
  <2>8. ASSUME NEW S \in (SUBSET All) \ {{}}
        PROVE  S \in DOMAIN table' <=> TriedLast(S)' # {}
    BY <1>5, <2>1, <2>3
  <2>9. \A S \in SUBSET All : S = mask \/ Before(S, mask) => S \in DOMAIN table'
    BY <1>5, <2>3
  <2>10. \A S \in DOMAIN table' : table'[S].cost \in Fraction /\ table'[S].card \in Fraction
    BY <1>5, <2>3, <2>5
  <2>11. \A S \in DOMAIN table' \ {{}} : IsBest(S)'
    BY <2>3, <2>5, <2>6
  <2>12. QED
    BY <1>1, <1>2, <1>3, <1>5, <2>3, <2>7, <2>8, <2>9, <2>10, <2>11 DEF TableInv
<1>11. QED
  BY <1>9, <1>10

(* Nothing happens to the table while what was tried for each set stays.   *)
LEMMA TableStays ==
  ASSUME Controls, TableInv, UNCHANGED << block, initial, table >>,
         \A S \in SUBSET All : TriedLast(S)' = TriedLast(S),
         phase \in {"search", "trace"}, phase' \in {"search", "trace", "done"},
         phase' = "search" =>
           \A S \in SUBSET All : S = mask' \/ Before(S, mask') => S \in DOMAIN table
  PROVE  TableInv'
<1>1. /\ DOMAIN table \in SUBSET SUBSET All /\ {} \in DOMAIN table /\ IsStart(table[{}])
      /\ \A S \in DOMAIN table : table[S].cost \in Fraction /\ table[S].card \in Fraction
      /\ \A S \in DOMAIN table \ {{}} : IsBest(S)
      /\ \A S \in (SUBSET All) \ {{}} : S \in DOMAIN table <=> TriedLast(S) # {}
  BY DEF TableInv
<1>2. ASSUME NEW S \in DOMAIN table \ {{}} PROVE IsBest(S)'
  <2>1. IsBest(S) /\ TriedLast(S)' = TriedLast(S)
    BY <1>1, <1>2
  <2>2. QED
    BY <2>1 DEF IsBest, CostOfLast, Tried
<1>3. IsStart(table[{}])' /\ All' = All
  BY <1>1 DEF IsStart, All
<1>4. QED
  BY <1>1, <1>2, <1>3 DEF TableInv

LEMMA AdvancingKeepsTable ==
  ASSUME Controls, TableInv, AdvanceMask
  PROVE  Controls' /\ TableInv'
<1>1. /\ Len(block) \in Nat /\ All = 1 .. Len(block) /\ mask \in SUBSET All
      /\ phase = "search" /\ index \in Nat /\ index > Len(block) /\ block # <<>>
      /\ UNCHANGED << block, initial, table >> /\ All' = All
  BY BlockIs, SMTT(20) DEF Controls, AdvanceMask, All
<1>2. ASSUME NEW S \in SUBSET All, NEW i \in S
      PROVE  i \in TriedLast(S) <=> S \ {i} = mask \/ Before(S \ {i}, mask)
  BY <1>1 DEF TriedLast
<1>3. CASE mask # All
  <2>1. mask' = NextMask(mask) /\ index' = 1 /\ phase' = phase
    BY <1>3 DEF AdvanceMask
  <2>2. /\ mask' \in SUBSET All /\ mask' # {}
        /\ \A U \in SUBSET All : Before(U, mask') <=> U = mask \/ Before(U, mask)
    BY <1>1, <1>3, <2>1, NextMaskFollows
  <2>3. ASSUME NEW S \in SUBSET All
        PROVE  TriedLast(S)' = TriedLast(S)
    <3>1. TriedLast(S) \in SUBSET S /\ TriedLast(S)' \in SUBSET S
      BY DEF TriedLast
    <3>2. ASSUME NEW i \in S
          PROVE  i \in TriedLast(S)' <=> S \ {i} = mask \/ Before(S \ {i}, mask)
      <4>1. ~(i < 1)
        BY <1>1
      <4>2. S \ {i} \in SUBSET All
        OBVIOUS
      <4>3. i \in TriedLast(S)' <=> Before(S \ {i}, mask')
        BY <1>1, <2>1, <4>1 DEF TriedLast
      <4>4. QED
        BY <2>2, <4>2, <4>3
    <3>3. QED
      BY <1>2, <3>1, <3>2
  <2>4. mask' \in DOMAIN table
    <3>1. PICK i \in mask' : TRUE
      BY <2>2
    <3>2. mask' \ {i} \in SUBSET mask' /\ mask' \ {i} # mask' /\ mask' \ {i} \in SUBSET All
      BY <2>2, <3>1
    <3>3. Before(mask' \ {i}, mask')
      BY <1>1, <2>2, <3>2, SubsetIsBefore
    <3>4. i \in TriedLast(mask')
      BY <1>2, <2>2, <3>1, <3>2, <3>3
    <3>5. QED
      BY <1>1, <2>2, <3>4 DEF TableInv
  <2>5. \A S \in SUBSET All : S = mask' \/ Before(S, mask') => S \in DOMAIN table
    BY <1>1, <2>2, <2>4 DEF TableInv
  <2>6. Controls'
    BY <1>1, <2>1, <2>2, SMTT(20) DEF Controls
  <2>7. QED
    BY <1>1, <2>1, <2>3, <2>5, <2>6, TableStays
<1>4. CASE mask = All
  <2>1. phase' = "trace" /\ UNCHANGED << mask, index >>
    BY <1>4 DEF AdvanceMask
  <2>2. ASSUME NEW S \in SUBSET All
        PROVE  TriedLast(S)' = TriedLast(S)
    <3>1. TriedLast(S) \in SUBSET S /\ TriedLast(S)' = S
      BY <2>1 DEF TriedLast
    <3>2. ASSUME NEW i \in S PROVE i \in TriedLast(S)
      <4>1. S \ {i} \in SUBSET All /\ S \ {i} # All
        OBVIOUS
      <4>2. Before(S \ {i}, All)
        BY <1>1, <4>1, SubsetIsBefore
      <4>3. QED
        BY <1>2, <1>4, <4>2
    <3>3. QED
      BY <3>1, <3>2
  <2>3. Controls'
    BY <1>1, <2>1 DEF Controls
  <2>4. QED
    BY <1>1, <2>1, <2>2, <2>3, TableStays
<1>5. QED
  BY <1>3, <1>4

LEMMA TracingKeepsTable ==
  ASSUME Controls, TableInv, TraceParent \/ Finish
  PROVE  Controls' /\ TableInv'
<1>1. /\ phase = "trace" /\ phase' \in {"trace", "done"} /\ All' = All
      /\ UNCHANGED << block, initial, index, table >> /\ mask' \in SUBSET mask
  BY DEF TraceParent, Finish, All
<1>2. \A S \in SUBSET All : TriedLast(S)' = TriedLast(S)
  BY <1>1 DEF TriedLast
<1>3. Controls'
  BY <1>1 DEF Controls
<1>4. QED
  BY <1>1, <1>2, <1>3, TableStays

LEMMA TableKept == Controls /\ TableInv /\ [Next]_vars => Controls' /\ TableInv'
<1> SUFFICES ASSUME Controls, TableInv, [Next]_vars PROVE Controls' /\ TableInv'
  OBVIOUS
<1>1. CASE UNCHANGED vars
  <2>1. \A S : TriedLast(S)' = TriedLast(S)
    BY <1>1 DEF vars, TriedLast
  <2>2. /\ DOMAIN table \in SUBSET SUBSET All /\ {} \in DOMAIN table /\ IsStart(table[{}])
        /\ \A S \in DOMAIN table \ {{}} : IsBest(S)
    BY DEF TableInv
  <2>3. ASSUME NEW S \in DOMAIN table \ {{}} PROVE IsBest(S)'
    BY <1>1, <2>1, <2>2, <2>3 DEF vars, IsBest, CostOfLast, Tried
  <2>4. IsStart(table[{}])' /\ All' = All
    BY <1>1, <2>2 DEF vars, IsStart, All
  <2>5. Controls'
    BY <1>1, <2>4 DEF vars, Controls
  <2>6. QED
    BY <1>1, <2>1, <2>3, <2>4, <2>5 DEF vars, TableInv
<1>2. QED
  BY <1>1, TryingKeepsTable, AdvancingKeepsTable, TracingKeepsTable DEF Next

(* The search extends only plans that stay.                                *)
THEOREM SearchFitsTogether == Spec => []PlansFitTogether
<1>1. TableInv => PlansFitTogether
  <2> SUFFICES ASSUME TableInv, NEW S \in DOMAIN table \ {{}}
               PROVE  LET i == table[S].parent
                      IN  /\ i \in S /\ S \ {i} \in DOMAIN table
                          /\ table[S] = Tried(table[S \ {i}], i)
    BY DEF PlansFitTogether
  <2>1. IsBest(S)
    BY DEF TableInv
  <2>2. TriedLast(S) \in SUBSET S
    BY DEF TriedLast
  <2>3. QED
    BY <2>1, <2>2 DEF IsBest
<1>2. QED
  BY <1>1, SearchStarts, TableKept, PTL DEF Spec

(***************************************************************************)
(* The table holds the plans                                                *)
(***************************************************************************)
Planned == Plans(block, initial.card, initial.bound)

(* What the table says of S is the plan kept for S, which joins each of    *)
(* its patterns once, the parent last.                                     *)
Describes(S) ==
    /\ Planned[S] = [cost |-> table[S].cost, card |-> table[S].card,
                     bound |-> table[S].bound, order |-> Planned[S].order]
    /\ Planned[S].order \in Seq(All) /\ ToSet(Planned[S].order) = S
    /\ Len(Planned[S].order) = Cardinality(S)
    /\ S # {} => /\ table[S].parent \in S
                 /\ Planned[S] = Extend(Planned[S \ {table[S].parent}], block, table[S].parent)

(* Joining i to the plan of the table and to the plan kept is the same.    *)
LEMMA ExtendIsTried ==
  ASSUME Controls, TableInv, NEW S \in SUBSET All, NEW i \in S,
         S \ {i} \in DOMAIN table, Describes(S \ {i})
  PROVE  LET e == Extend(Planned[S \ {i}], block, i)
             t == Tried(table[S \ {i}], i)
         IN  /\ e = [cost |-> t.cost, card |-> t.card, bound |-> t.bound, order |-> e.order]
             /\ e.order = Append(Planned[S \ {i}].order, i) /\ e.order \in Seq(All)
             /\ ToSet(e.order) = S /\ Len(e.order) = Cardinality(S)
             /\ e.cost \in Fraction /\ Last(e.order) = i /\ t.parent = i
<1> DEFINE T == S \ {i}
           o == Planned[T].order
           e == Extend(Planned[T], block, i)
           t == Tried(table[T], i)
<1>1. /\ Planned[T].cost = table[T].cost /\ Planned[T].card = table[T].card
      /\ Planned[T].bound = table[T].bound
      /\ o \in Seq(All) /\ ToSet(o) = T /\ Len(o) = Cardinality(T)
  <2>1. /\ Planned[T] = [cost |-> table[T].cost, card |-> table[T].card,
                         bound |-> table[T].bound, order |-> o]
        /\ o \in Seq(All) /\ ToSet(o) = T /\ Len(o) = Cardinality(T)
    BY Zenon DEF Describes
  <2> HIDE DEF o, T
  <2>2. QED
    BY <2>1
<1>2. /\ table[T].cost \in Fraction /\ table[T].card \in Fraction /\ IsEntry(block[i])
      /\ i \in All /\ i \in Nat
  BY BlockIs DEF Controls, TableInv
<1>3. t.cost \in Fraction /\ t.parent = i
  BY <1>2, TriedIs
<1>4. /\ e = [cost |-> t.cost, card |-> t.card, bound |-> t.bound, order |-> Append(o, i)]
      /\ e.order = Append(o, i)
  BY <1>1 DEF Extend, Tried
<1> HIDE DEF e, t, o
<1>5. Append(o, i) \in Seq(All) /\ ToSet(Append(o, i)) = S
  <2>1. Append(o, i) \in Seq(All) /\ ToSet(Append(o, i)) = ToSet(o) \cup {i}
    BY <1>1, <1>2, Appended
  <2>2. QED
    BY <1>1, <2>1
<1>6. Len(Append(o, i)) = Len(o) + 1 /\ Last(Append(o, i)) = i
  BY <1>1, <1>2 DEF Last
<1>7. Cardinality(S) = Cardinality(T) + 1
  <2>1. IsFiniteSet(S) /\ IsFiniteSet(T)
    BY BlockIs, FS_Subset DEF Controls
  <2>2. Cardinality(T) = Cardinality(S) - 1 /\ Cardinality(S) \in Nat
    BY <2>1, FS_RemoveElement, FS_CardinalityType
  <2>3. QED
    BY <2>2
<1>8. e.cost \in Fraction
  BY <1>3, <1>4
<1>9. QED
  BY <1>1, <1>3, <1>4, <1>5, <1>6, <1>7, <1>8 DEF e, t, o

LEMMA TableIsPlans ==
  ASSUME Controls, TableInv, phase = "trace" \/ phase = "done", block # <<>>
  PROVE  \A S \in SUBSET All : S \in DOMAIN table /\ Describes(S)
<1> DEFINE Bad == {n \in Nat : \E S \in SUBSET All : Cardinality(S) = n /\ ~Describes(S)}
<1>1. ASSUME NEW S \in SUBSET All
      PROVE  /\ S \in DOMAIN table /\ TriedLast(S) = S /\ IsFiniteSet(S)
             /\ Cardinality(S) \in Nat
             /\ \A i \in S : Cardinality(S \ {i}) = Cardinality(S) - 1
  <2>1. TriedLast(S) = S
    BY DEF TriedLast
  <2>2. S \in DOMAIN table
    BY <2>1 DEF TableInv
  <2>3. IsFiniteSet(S)
    BY BlockIs, FS_Subset DEF Controls
  <2>4. QED
    BY <2>1, <2>2, <2>3, FS_CardinalityType, FS_RemoveElement
<1>2. IsFiniteSet(DOMAIN block)
  BY BlockIs DEF Controls, All
<1>3. Planned[{}] = Start(initial.card, initial.bound)
  BY <1>2, PlansUnfold DEF Planned
<1>4. ASSUME NEW S \in (SUBSET All) \ {{}}
      PROVE  Planned[S] = CheapestOf({Extend(Planned[S \ {i}], block, i) : i \in S})
  <2>1. S \in (SUBSET DOMAIN block) \ {{}}
    BY DEF All
  <2>2. Planned[S] = CheapestOf(Joinings(Planned, block, S))
    BY <1>2, <2>1, PlansUnfold DEF Planned
  <2>3. QED
    BY <2>2 DEF Joinings
<1>5. Describes({})
  <2>1. IsStart(table[{}])
    BY DEF TableInv
  <2>2. /\ table[{}].cost = Whole(0) /\ table[{}].card = Whole(initial.card)
        /\ table[{}].bound = initial.bound
    BY <2>1 DEF IsStart
  <2>3. /\ Planned[{}] = [cost |-> Whole(0), card |-> Whole(initial.card),
                          bound |-> initial.bound, order |-> <<>>]
        /\ Planned[{}].order = <<>>
    BY <1>3 DEF Start
  <2>4. << >> \in Seq(All) /\ ToSet(<< >>) = {} /\ Len(<< >>) = Cardinality({})
    BY FS_EmptySet DEF ToSet
  <2>5. QED
    BY <2>2, <2>3, <2>4 DEF Describes
<1>6. ASSUME NEW S \in (SUBSET All) \ {{}}, \A i \in S : Describes(S \ {i})
      PROVE  Describes(S)
  <2> DEFINE e(i) == Extend(Planned[S \ {i}], block, i)
             t(i) == Tried(table[S \ {i}], i)
  <2>1. ASSUME NEW i \in S
        PROVE  /\ e(i) = [cost |-> t(i).cost, card |-> t(i).card, bound |-> t(i).bound,
                          order |-> e(i).order]
               /\ e(i).cost = t(i).cost
               /\ e(i).order \in Seq(All) /\ ToSet(e(i).order) = S
               /\ Len(e(i).order) = Cardinality(S)
               /\ e(i).cost \in Fraction /\ Last(e(i).order) = i /\ i \in Nat
    <3>1. S \ {i} \in DOMAIN table /\ i \in Nat
      BY <1>1, BlockIs DEF Controls
    <3>2. /\ e(i) = [cost |-> t(i).cost, card |-> t(i).card, bound |-> t(i).bound,
                     order |-> e(i).order]
          /\ e(i).order \in Seq(All) /\ ToSet(e(i).order) = S
          /\ Len(e(i).order) = Cardinality(S)
          /\ e(i).cost \in Fraction /\ Last(e(i).order) = i
      BY <1>6, <3>1, ExtendIsTried, Zenon
    <3> HIDE DEF e, t
    <3>3. e(i).cost = t(i).cost
      BY <3>2
    <3>4. QED
      BY <3>1, <3>2, <3>3
  <2>2. PICK p : p = table[S].parent
    OBVIOUS
  <2>3. /\ p \in S /\ table[S] = t(p)
        /\ \A j \in S \ {p} :
              \/ Less(t(p).cost, t(j).cost)
              \/ EqualCost(t(p).cost, t(j).cost) /\ p > j
    <3>1. IsBest(S) /\ TriedLast(S) = S
      BY <1>1, <1>6 DEF TableInv
    <3>2. /\ p \in S /\ table[S] = Tried(table[S \ {p}], p)
          /\ \A j \in S \ {p} :
                \/ Less(table[S].cost, CostOfLast(S, j))
                \/ EqualCost(table[S].cost, CostOfLast(S, j)) /\ p > j
      BY <2>2, <3>1, Zenon DEF IsBest
    <3>3. QED
      BY <3>2 DEF CostOfLast
  <2> DEFINE plans == {e(i) : i \in S}
  <2>4. CheapestOf(plans) = e(p)
    <3> HIDE DEF e, t
    <3>1. e(p) \in plans
      BY <2>3
    <3>2. \A q \in plans : q.cost \in Fraction /\ Last(q.order) \in Nat
      BY <2>1
    <3>3. ASSUME NEW q \in plans \ {e(p)}
          PROVE  \/ Less(e(p).cost, q.cost)
                 \/ EqualCost(e(p).cost, q.cost) /\ Last(e(p).order) > Last(q.order)
      <4>1. PICK j \in S : q = e(j)
        BY <3>3
      <4>2. j \in S \ {p}
        BY <3>3, <4>1
      <4>3. QED
        BY <2>1, <2>3, <4>1, <4>2
    <3> HIDE DEF plans
    <3>4. QED
      BY <3>1, <3>2, <3>3, CheapestIs
  <2>5. Planned[S] = e(p)
    BY <1>4, <1>6, <2>4
  <2>6. QED
    <3>1. /\ Planned[S] = [cost |-> table[S].cost, card |-> table[S].card,
                          bound |-> table[S].bound, order |-> Planned[S].order]
          /\ Planned[S].order \in Seq(All) /\ ToSet(Planned[S].order) = S
          /\ Len(Planned[S].order) = Cardinality(S)
      <4> HIDE DEF e, t
      <4>1. QED
        BY <2>1, <2>3, <2>5
    <3>2. QED
      BY <2>2, <2>3, <2>5, <3>1 DEF Describes
<1>7. Bad = {}
  <2> SUFFICES ASSUME Bad # {} PROVE FALSE
    OBVIOUS
  <2>1. Bad \in SUBSET Nat
    OBVIOUS
  <2>2. PICK n \in Bad : \A k \in Bad : n <= k
    <3> HIDE DEF Bad
    <3>1. QED
      BY <2>1, LeastNatural
  <2>3. PICK S \in SUBSET All : Cardinality(S) = n /\ ~Describes(S)
    BY <2>2
  <2>4. ASSUME NEW i \in S PROVE Describes(S \ {i})
    <3>1. S \ {i} \in SUBSET All /\ Cardinality(S \ {i}) = n - 1 /\ n - 1 \in Nat
      BY <1>1, <2>3
    <3>2. n - 1 \notin Bad
      BY <2>2, <3>1
    <3>3. QED
      BY <3>1, <3>2
  <2>5. QED
    BY <1>5, <1>6, <2>3, <2>4
<1>8. QED
  BY <1>1, <1>7

(***************************************************************************)
(* The order                                                                *)
(***************************************************************************)
Wanted == SearchBestJoinOrder(block, initial.card, initial.bound)

(* While the order is traced, what is left of the mask is planned like the *)
(* beginning of the order wanted, and its end is there, last pattern first. *)
OrderInv ==
    /\ phase = "search" => order = <<>>
    /\ phase = "trace" =>
         /\ block # <<>> /\ order \in Seq(All)
         /\ Len(order) + Cardinality(mask) = Len(block)
         /\ \A k \in 1 .. Len(order) : order[k] = Wanted[Len(block) + 1 - k]
         /\ \A k \in 1 .. Cardinality(mask) : Planned[mask].order[k] = Wanted[k]
    /\ phase = "done" => order = Wanted

SearchInv == Controls /\ TableInv /\ OrderInv

LEMMA WantedIs == Wanted = Planned[All].order
  BY DEF Wanted, Planned, All, SearchBestJoinOrder, KeptPlan

LEMMA OrderStarts == Init => OrderInv
<1> SUFFICES ASSUME Init, phase = "done" PROVE order = Wanted
  BY DEF Init, OrderInv
<1>1. block = <<>> /\ order = <<>>
  BY DEF Init
<1>2. All = {} /\ IsFiniteSet(DOMAIN block)
  BY <1>1, FS_EmptySet DEF All
<1>3. Planned[{}] = Start(initial.card, initial.bound)
  BY <1>2, PlansUnfold DEF Planned
<1>4. QED
  BY <1>1, <1>2, <1>3, WantedIs DEF Start

LEMMA OrderKept == SearchInv /\ Controls' /\ TableInv' /\ [Next]_vars => OrderInv'
<1> SUFFICES ASSUME SearchInv, Controls', TableInv', [Next]_vars PROVE OrderInv'
  OBVIOUS
<1>1. Controls /\ TableInv /\ OrderInv
  BY DEF SearchInv
<1>2. UNCHANGED << block, initial >>
  BY DEF Next, TryIndex, AdvanceMask, TraceParent, Finish, vars
<1>3. Planned' = Planned /\ Wanted' = Wanted /\ All' = All
  BY <1>2 DEF Planned, Wanted, All
<1>4. Len(block) \in Nat /\ All = 1 .. Len(block) /\ IsFiniteSet(All)
      /\ Cardinality(All) = Len(block) /\ mask \in SUBSET All
      /\ IsFiniteSet(mask) /\ Cardinality(mask) \in Nat
  BY <1>1, BlockIs, FS_Subset, FS_CardinalityType DEF Controls
<1>5. CASE UNCHANGED vars
  BY <1>1, <1>2, <1>3, <1>5 DEF vars, OrderInv
<1>6. CASE TryIndex
  BY <1>1, <1>6 DEF TryIndex, OrderInv
<1>7. CASE AdvanceMask
  <2>1. CASE mask # All
    BY <1>1, <1>7, <2>1 DEF AdvanceMask, OrderInv
  <2>2. CASE mask = All
    <3>1. /\ phase = "search" /\ phase' = "trace" /\ mask' = All /\ order' = <<>>
          /\ block # <<>> /\ block' = block
      BY <1>1, <1>7, <2>2 DEF AdvanceMask, OrderInv, Controls
    <3>2. << >> \in Seq(All) /\ Len(<< >>) = 0
      OBVIOUS
    <3>3. \A k \in 1 .. Cardinality(All) : Planned[All].order[k] = Wanted[k]
      BY WantedIs
    <3>4. QED
      BY <1>3, <1>4, <3>1, <3>2, <3>3 DEF OrderInv
  <2>3. QED
    BY <2>1, <2>2
<1>8. CASE TraceParent
  <2>1. PICK p : p = table[mask].parent
    OBVIOUS
  <2>2. /\ phase = "trace" /\ phase' = "trace" /\ mask # {} /\ order' = Append(order, p)
        /\ mask' = mask \ {p} /\ UNCHANGED << block, table >>
    BY <1>8, <2>1 DEF TraceParent
  <2>3. /\ block # <<>> /\ order \in Seq(All)
        /\ Len(order) + Cardinality(mask) = Len(block)
        /\ \A k \in 1 .. Len(order) : order[k] = Wanted[Len(block) + 1 - k]
        /\ \A k \in 1 .. Cardinality(mask) : Planned[mask].order[k] = Wanted[k]
    BY <1>1, <2>2 DEF OrderInv
  <2>4. /\ Describes(mask) /\ Describes(mask \ {p})
    BY <1>1, <1>4, <2>2, <2>3, TableIsPlans
  <2>5. /\ p \in mask /\ Planned[mask] = Extend(Planned[mask \ {p}], block, p)
    BY <2>1, <2>2, <2>4 DEF Describes
  <2>6. /\ Planned[mask \ {p}].order \in Seq(All)
        /\ Len(Planned[mask \ {p}].order) = Cardinality(mask \ {p})
    BY <2>4 DEF Describes
  <2>7. Planned[mask].order = Append(Planned[mask \ {p}].order, p)
    BY <2>5 DEF Extend
  <2>8. Cardinality(mask \ {p}) = Cardinality(mask) - 1 /\ Cardinality(mask) - 1 \in Nat
    <3>1. Cardinality(mask \ {p}) = Cardinality(mask) - 1
      BY <1>4, <2>5, FS_RemoveElement
    <3>2. Cardinality(mask \ {p}) \in Nat
      BY <1>4, FS_Subset, FS_CardinalityType
    <3>3. QED
      BY <3>1, <3>2
  <2>9. p = Wanted[Cardinality(mask)]
    <3>1. Planned[mask].order[Cardinality(mask)] = p
      BY <1>4, <2>6, <2>7, <2>8
    <3>2. Cardinality(mask) \in 1 .. Cardinality(mask)
      BY <1>4, <2>8
    <3>3. QED
      BY <2>3, <3>1, <3>2
  <2>10. \A k \in 1 .. Cardinality(mask \ {p}) : Planned[mask \ {p}].order[k] = Wanted[k]
    <3> SUFFICES ASSUME NEW k \in 1 .. Cardinality(mask \ {p})
                 PROVE  Planned[mask \ {p}].order[k] = Wanted[k]
      OBVIOUS
    <3>1. k \in 1 .. Cardinality(mask)
      BY <1>4, <2>8
    <3>2. Planned[mask].order[k] = Planned[mask \ {p}].order[k]
      BY <2>6, <2>7
    <3>3. QED
      BY <2>3, <3>1, <3>2
  <2>11. /\ order' \in Seq(All) /\ Len(order') = Len(order) + 1
         /\ \A k \in 1 .. Len(order) : order'[k] = order[k]
         /\ order'[Len(order) + 1] = p
    BY <1>4, <2>2, <2>3, <2>5
  <2>12. Len(order) \in Nat /\ Len(block) + 1 - (Len(order) + 1) = Cardinality(mask)
    BY <1>4, <2>3
  <2>13. \A k \in 1 .. Len(order') : order'[k] = Wanted[Len(block) + 1 - k]
    <3> SUFFICES ASSUME NEW k \in 1 .. Len(order')
                 PROVE  order'[k] = Wanted[Len(block) + 1 - k]
      OBVIOUS
    <3>1. CASE k = Len(order) + 1
      BY <2>9, <2>11, <2>12, <3>1
    <3>2. CASE k # Len(order) + 1
      BY <2>3, <2>11, <2>12, <3>2
    <3>3. QED
      BY <3>1, <3>2
  <2>14. Len(order') + Cardinality(mask \ {p}) = Len(block)
    BY <1>4, <2>3, <2>8, <2>11, <2>12
  <2>15. QED
    BY <1>3, <2>2, <2>3, <2>10, <2>11, <2>13, <2>14 DEF OrderInv
<1>9. CASE Finish
  <2>1. /\ phase = "trace" /\ mask = {} /\ phase' = "done" /\ order' = Reverse(order)
    BY <1>9 DEF Finish
  <2>2. /\ block # <<>> /\ order \in Seq(All) /\ Len(order) = Len(block)
        /\ \A k \in 1 .. Len(order) : order[k] = Wanted[Len(block) + 1 - k]
    BY <1>1, <1>4, <2>1, FS_EmptySet DEF OrderInv
  <2>3. Wanted \in Seq(All) /\ Len(Wanted) = Len(block)
    BY <1>1, <1>4, <2>1, <2>2, WantedIs, TableIsPlans DEF Describes
  <2>4. Wanted = [k \in 1 .. Len(block) |-> Wanted[k]]
    BY <2>3
  <2>5. order' = [k \in 1 .. Len(block) |-> order[Len(block) - k + 1]]
    BY <2>1, <2>2 DEF Reverse
  <2>6. ASSUME NEW k \in 1 .. Len(block)
        PROVE  order[Len(block) - k + 1] = Wanted[k]
    <3>1. Len(block) - k + 1 \in 1 .. Len(order) /\ Len(block) + 1 - (Len(block) - k + 1) = k
      BY <1>4, <2>2
    <3>2. QED
      BY <2>2, <3>1
  <2>7. order' = Wanted
    <3>1. order' = [k \in 1 .. Len(block) |-> Wanted[k]]
      BY <2>5, <2>6
    <3>2. QED
      BY <2>4, <3>1
  <2>8. QED
    BY <1>3, <2>1, <2>7 DEF OrderInv
<1>10. QED
  BY <1>5, <1>6, <1>7, <1>8, <1>9 DEF Next

LEMMA SearchInvariant == Spec => []SearchInv
<1>1. Init => SearchInv
  BY SearchStarts, OrderStarts DEF SearchInv
<1>2. SearchInv /\ [Next]_vars => SearchInv'
  BY TableKept, OrderKept DEF SearchInv
<1>3. QED
  BY <1>1, <1>2, PTL DEF Spec

(* The loop returns the order of the plan that KeptPlan describes.         *)
THEOREM SearchFindsKeptPlan == Spec => []OrderIsOfKeptPlan
<1>1. SearchInv => OrderIsOfKeptPlan
  BY DEF SearchInv, OrderInv, OrderIsOfKeptPlan, Wanted
<1>2. QED
  BY <1>1, SearchInvariant, PTL

(* The order joins every pattern once, and costs what the table claims.    *)
THEOREM SearchPricesItsOrder == Spec => []CostIsOfOrder
<1>1. SearchInv => CostIsOfOrder
  <2> SUFFICES ASSUME SearchInv, phase = "done", block # <<>>
               PROVE  /\ ToSet(order) = All /\ Len(order) = Len(block)
                      /\ EqualCost(table[All].cost,
                            ReplayedPlan(block, initial.card, initial.bound, order).cost)
    BY DEF CostIsOfOrder
  <2>1. Controls /\ TableInv /\ order = Planned[All].order
    BY WantedIs DEF SearchInv, OrderInv
  <2>2. Describes(All)
    BY <2>1, TableIsPlans
  <2>3. Planned[All].cost = table[All].cost
    <3>1. Planned[All] = [cost |-> table[All].cost, card |-> table[All].card,
                          bound |-> table[All].bound, order |-> Planned[All].order]
      BY <2>2 DEF Describes
    <3>2. QED
      BY <3>1
  <2>4. ReplayedPlan(block, initial.card, initial.bound, order) = Planned[All]
    <3>1. AreEntries(block) /\ initial.card \in Nat
      <4>1. block \in Blocks /\ initial.card \in Nat
        BY <2>1, SearchAssumption DEF Controls
      <4>2. QED
        BY <4>1, BlockIs DEF AreEntries, All
    <3>2. QED
      BY <2>1, <3>1, PlansReplay DEF Planned, All
  <2>5. Cardinality(All) = Len(block)
    BY <2>1, BlockIs DEF Controls
  <2>6. QED
    BY <2>1, <2>2, <2>3, <2>4, <2>5 DEF Describes, EqualCost
<1>2. QED
  BY <1>1, SearchInvariant, PTL
=============================================================================
