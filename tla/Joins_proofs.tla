---------------------------- MODULE Joins_proofs -----------------------------
(***************************************************************************)
(* What a query computes without waiting, for every input.  The hash join   *)
(* finds what the nested loop finds: the bucket that is probed and the      *)
(* wildcard rows together are the compatible right solutions, and no row is *)
(* in both; so a join is a rearrangement of the nested loop, and MINUS      *)
(* eliminates what SPARQL says it eliminates.  The subset search keeps      *)
(* plans that cost what they claim.  A block of triples means the same in   *)
(* every order of its joins.  The joins return sequences of solutions.  And *)
(* the walks of * and + paths find what can be reached, from either end.    *)
(***************************************************************************)
EXTENDS TriplePatterns, PathWalks, JoinOrder, Filtering_proofs, FiniteSetTheorems

\* The buckets of a variable are finite sets of positions.
LEMMA BucketSize ==
  ASSUME NEW S, NEW right \in Seq(S), NEW v, NEW t
  PROVE  Cardinality(VarBucket(right, v, t)) \in Nat
<1>1. IsFiniteSet(DOMAIN right)
  BY FS_Interval
<1>2. VarBucket(right, v, t) \in SUBSET DOMAIN right
  BY DEF VarBucket
<1> QED BY <1>1, <1>2, FS_Subset, FS_CardinalityType

\* A left solution that binds a shared variable has a most selective one.
LEMMA BestVarIsBound ==
  ASSUME NEW S, NEW right \in Seq(S), NEW l, NEW joinVars, joinVars \cap DOMAIN l # {}
  PROVE  BestVar(l, joinVars, right) \in joinVars \cap DOMAIN l
<1> DEFINE Size(v) == Cardinality(VarBucket(right, v, l[v]))
           Sizes   == {Size(v) : v \in joinVars \cap DOMAIN l}
<1>1. \A v \in joinVars \cap DOMAIN l : Size(v) \in Nat
  BY BucketSize
<1>2. Sizes \in SUBSET Nat /\ Sizes # {}
  BY <1>1
<1>3. PICK n \in Sizes : \A m \in Sizes : n <= m
  <2> HIDE DEF Sizes
  <2> QED BY <1>2, LeastNatural
<1>4. PICK v \in joinVars \cap DOMAIN l : n = Size(v)
  BY <1>3
<1>5. \A w \in joinVars \cap DOMAIN l : Size(v) <= Size(w)
  BY <1>3, <1>4
<1> QED BY <1>4, <1>5 DEF BestVar

\* When both rows bind every join variable, equal keys are agreement on them.
LEMMA KeysAgree ==
  ASSUME NEW l, NEW r, NEW joinVars, Total(l, joinVars), Total(r, joinVars),
         DOMAIN l \cap DOMAIN r \subseteq joinVars
  PROVE  JoinKey(r, joinVars) = JoinKey(l, joinVars) <=> Compatible(l, r)
<1>1. joinVars \cap DOMAIN l = joinVars /\ joinVars \cap DOMAIN r = joinVars
  BY DEF Total
<1>2. JoinKey(l, joinVars) = [v \in joinVars |-> l[v]]
  BY <1>1 DEF JoinKey
<1>3. JoinKey(r, joinVars) = [v \in joinVars |-> r[v]]
  BY <1>1 DEF JoinKey
<1>4. ASSUME JoinKey(r, joinVars) = JoinKey(l, joinVars), NEW v \in DOMAIN l \cap DOMAIN r
      PROVE  l[v] = r[v]
  <2>1. v \in joinVars
    OBVIOUS
  <2>2. [w \in joinVars |-> l[w]][v] = [w \in joinVars |-> r[w]][v]
    BY <1>2, <1>3, <1>4
  <2> QED BY <2>1, <2>2
<1>5. ASSUME Compatible(l, r) PROVE JoinKey(r, joinVars) = JoinKey(l, joinVars)
  <2>1. \A v \in joinVars : l[v] = r[v]
    BY <1>5 DEF Compatible, Total
  <2> QED BY <2>1, <1>2, <1>3
<1> QED BY <1>4, <1>5 DEF Compatible

(***************************************************************************)
(* The candidates of a left solution (join-hash-index.ts, compatible-       *)
(* Candidates) are the right solutions compatible with it, each offered     *)
(* once, whatever variables either side leaves unbound.                     *)
(***************************************************************************)
THEOREM HashFindsTheCompatible ==
  ASSUME NEW S, NEW left \in Seq(S), NEW right \in Seq(S), NEW i \in DOMAIN left,
         NEW joinVars, joinVars = SharedVars(left, right)
  PROVE  /\ Probed(left[i], joinVars, right) \cup Wildcards(left[i], joinVars, right)
                = {j \in DOMAIN right : Compatible(left[i], right[j])}
         /\ Probed(left[i], joinVars, right) \cap Wildcards(left[i], joinVars, right) = {}
<1> DEFINE l == left[i]
           Good == {j \in DOMAIN right : Compatible(l, right[j])}
<1>1. \A j \in DOMAIN right : DOMAIN l \cap DOMAIN right[j] \subseteq joinVars
  BY DEF SharedVars, BoundVariables
<1>2. CASE Total(l, joinVars)
  <2>1. Probed(l, joinVars, right) = {j \in Good : Total(right[j], joinVars)}
    <3>1. \A j \in DOMAIN right : Total(right[j], joinVars) =>
             (JoinKey(right[j], joinVars) = JoinKey(l, joinVars) <=> Compatible(l, right[j]))
      BY <1>1, <1>2, KeysAgree
    <3> QED BY <3>1, <1>2 DEF Probed, ExactBucket
  <2>2. Wildcards(l, joinVars, right) = {j \in Good : ~Total(right[j], joinVars)}
    BY <1>2 DEF Wildcards, Partials
  <2> QED BY <2>1, <2>2
<1>3. CASE ~Total(l, joinVars) /\ joinVars \cap DOMAIN l = {}
  <2>1. \A j \in DOMAIN right : Compatible(l, right[j])
    BY <1>1, <1>3 DEF Compatible
  <2> QED BY <2>1, <1>3 DEF Probed, Wildcards
<1>4. CASE ~Total(l, joinVars) /\ joinVars \cap DOMAIN l # {}
  <2> DEFINE v == BestVar(l, joinVars, right)
  <2>1. v \in joinVars /\ v \in DOMAIN l
    BY <1>4, BestVarIsBound
  <2> HIDE DEF v
  <2>2. Probed(l, joinVars, right) = {j \in Good : v \in DOMAIN right[j]}
    <3>1. \A j \in Good : v \in DOMAIN right[j] => right[j][v] = l[v]
      BY <2>1 DEF Compatible
    <3>2. Probed(l, joinVars, right) = {j \in VarBucket(right, v, l[v]) : Compatible(l, right[j])}
      BY <1>4 DEF Probed, v
    <3> QED BY <3>1, <3>2 DEF VarBucket
  <2>3. Wildcards(l, joinVars, right) = {j \in Good : v \notin DOMAIN right[j]}
    <3>1. Wildcards(l, joinVars, right)
            = {j \in Partials(right, joinVars) : v \notin DOMAIN right[j] /\ Compatible(l, right[j])}
      BY <1>4 DEF Wildcards, v
    <3>2. \A j \in Good : v \notin DOMAIN right[j] => j \in Partials(right, joinVars)
      BY <2>1 DEF Partials, Total
    <3> QED BY <3>1, <3>2 DEF Partials
  <2> QED BY <2>2, <2>3
<1> QED BY <1>2, <1>3, <1>4

(***************************************************************************)
(* Partners                                                                 *)
(***************************************************************************)
CompatibleWith(l, right) == {j \in DOMAIN right : Compatible(l, right[j])}

\* The positions of a set, in ascending order: each of them once.
LEMMA AscendingOnce ==
  ASSUME NEW S, NEW right \in Seq(S), NEW positions
  PROVE  /\ Ascending(positions, right) \in Seq(DOMAIN right)
         /\ ToSet(Ascending(positions, right)) = positions \cap DOMAIN right
         /\ IsInjective(Ascending(positions, right))
<1> DEFINE all == [j \in DOMAIN right |-> j]
<1>1. all \in Seq(DOMAIN right) /\ DOMAIN all = DOMAIN right
  OBVIOUS
<1>2. ToSet(all) = DOMAIN right /\ IsInjective(all)
  BY <1>1 DEF ToSet, IsInjective
<1>3. Ascending(positions, right) = Kept(all, positions)
  BY DEF Ascending
<1> HIDE DEF all
<1>4. /\ Kept(all, positions) \in Seq(DOMAIN right)
      /\ ToSet(Kept(all, positions)) = ToSet(all) \cap positions
      /\ IsInjective(all) => IsInjective(Kept(all, positions))
  BY <1>1, KeptIsSeq, KeptMembers
<1> QED BY <1>2, <1>3, <1>4

\* The parts of a concatenation.
LEMMA ConcatParts ==
  ASSUME NEW S, NEW s \in Seq(S), NEW t \in Seq(S)
  PROVE  /\ s \o t \in Seq(S)
         /\ Len(s) \in Nat /\ Len(t) \in Nat /\ Len(s \o t) = Len(s) + Len(t)
         /\ DOMAIN s = 1..Len(s) /\ DOMAIN t = 1..Len(t) /\ DOMAIN (s \o t) = 1..Len(s) + Len(t)
         /\ \A i \in 1..Len(s) : i \in 1..Len(s) + Len(t) /\ (s \o t)[i] = s[i]
         /\ \A i \in 1..Len(t) : Len(s) + i \in 1..Len(s) + Len(t) /\ (s \o t)[Len(s) + i] = t[i]
<1> DEFINE c == s \o t
<1>1. /\ c \in Seq(S) /\ Len(c) = Len(s) + Len(t)
      /\ Len(s) \in Nat /\ Len(t) \in Nat
      /\ DOMAIN s = 1..Len(s) /\ DOMAIN t = 1..Len(t) /\ DOMAIN c = 1..Len(s) + Len(t)
      /\ \A i \in 1..Len(s) + Len(t) : c[i] = IF i <= Len(s) THEN s[i] ELSE t[i - Len(s)]
  BY ConcatProperties
<1> HIDE DEF c
<1>2. ASSUME NEW i \in 1..Len(s) PROVE i \in 1..Len(s) + Len(t) /\ c[i] = s[i]
  BY <1>1
<1>3. ASSUME NEW i \in 1..Len(t) PROVE Len(s) + i \in 1..Len(s) + Len(t) /\ c[Len(s) + i] = t[i]
  <2>1. Len(s) + i \in 1..Len(s) + Len(t) /\ ~(Len(s) + i <= Len(s)) /\ Len(s) + i - Len(s) = i
    BY <1>1
  <2> QED BY <1>1, <2>1
<1> QED BY <1>1, <1>2, <1>3, Zenon DEF c

\* Two sequences without a common element, one after the other.
LEMMA Concatenated ==
  ASSUME NEW S, NEW s \in Seq(S), NEW t \in Seq(S)
  PROVE  /\ s \o t \in Seq(S)
         /\ ToSet(s \o t) = ToSet(s) \cup ToSet(t)
         /\ IsInjective(s) /\ IsInjective(t) /\ ToSet(s) \cap ToSet(t) = {} => IsInjective(s \o t)
<1> DEFINE c == s \o t
<1>1. /\ c \in Seq(S)
      /\ Len(s) \in Nat /\ Len(t) \in Nat
      /\ DOMAIN s = 1..Len(s) /\ DOMAIN t = 1..Len(t) /\ DOMAIN c = 1..Len(s) + Len(t)
  BY ConcatParts
<1>2. \A i \in 1..Len(s) : i \in DOMAIN c /\ c[i] = s[i]
  BY <1>1, ConcatParts
<1>3. \A i \in 1..Len(t) : Len(s) + i \in DOMAIN c /\ c[Len(s) + i] = t[i]
  BY <1>1, ConcatParts
<1> HIDE DEF c
<1>4. ASSUME NEW i \in DOMAIN c
      PROVE  \/ i \in 1..Len(s) /\ c[i] = s[i]
             \/ i - Len(s) \in 1..Len(t) /\ c[i] = t[i - Len(s)]
  <2>1. CASE i <= Len(s)
    BY <1>1, <1>2, <2>1
  <2>2. CASE ~(i <= Len(s))
    <3>1. i - Len(s) \in 1..Len(t) /\ Len(s) + (i - Len(s)) = i
      BY <1>1, <2>2
    <3> QED BY <1>3, <3>1
  <2> QED BY <2>1, <2>2
<1>5. ToSet(c) = ToSet(s) \cup ToSet(t)
  <2>1. ToSet(c) \subseteq ToSet(s) \cup ToSet(t)
    BY <1>1, <1>4 DEF ToSet
  <2>2. ToSet(s) \subseteq ToSet(c)
    BY <1>1, <1>2 DEF ToSet
  <2>3. ToSet(t) \subseteq ToSet(c)
    <3>1. ASSUME NEW i \in 1..Len(t) PROVE t[i] \in ToSet(c)
      BY <1>3, Zenon DEF ToSet
    <3> QED BY <1>1, <3>1 DEF ToSet
  <2> QED BY <2>1, <2>2, <2>3
<1>6. ASSUME IsInjective(s), IsInjective(t), ToSet(s) \cap ToSet(t) = {}
      PROVE  IsInjective(c)
  <2> SUFFICES ASSUME NEW i \in DOMAIN c, NEW j \in DOMAIN c, c[i] = c[j] PROVE i = j
    BY DEF IsInjective
  <2>1. CASE i \in 1..Len(s) /\ c[i] = s[i] /\ j \in 1..Len(s) /\ c[j] = s[j]
    BY <1>1, <1>6, <2>1 DEF IsInjective
  <2>2. CASE /\ i - Len(s) \in 1..Len(t) /\ c[i] = t[i - Len(s)]
             /\ j - Len(s) \in 1..Len(t) /\ c[j] = t[j - Len(s)]
    <3>1. i - Len(s) = j - Len(s)
      BY <1>1, <1>6, <2>2 DEF IsInjective
    <3> QED BY <1>1, <3>1
  <2>3. \A a \in 1..Len(s), b \in 1..Len(t) : s[a] # t[b]
    BY <1>1, <1>6 DEF ToSet
  <2> QED BY <1>4, <2>1, <2>2, <2>3
<1> QED BY <1>1, <1>5, <1>6 DEF c

(***************************************************************************)
(* innerJoin, leftJoin and minus meet every compatible right solution of a  *)
(* left one, and meet it once, nested or hashed.                            *)
(***************************************************************************)
THEOREM PartnersAreTheCompatible ==
  ASSUME NEW S, NEW left \in Seq(S), NEW right \in Seq(S), NEW i \in DOMAIN left
  PROVE  /\ Partners(left[i], left, right) \in Seq(DOMAIN right)
         /\ ToSet(Partners(left[i], left, right)) = CompatibleWith(left[i], right)
         /\ IsInjective(Partners(left[i], left, right))
<1> DEFINE l == left[i]
           joinVars == SharedVars(left, right)
           first  == Ascending(Probed(l, joinVars, right), right)
           second == Ascending(Wildcards(l, joinVars, right), right)
<1>1. CASE Nested(left, right)
  <2>1. Partners(l, left, right) = Ascending(CompatibleWith(l, right), right)
    BY <1>1 DEF Partners, CompatibleWith
  <2>2. CompatibleWith(l, right) \cap DOMAIN right = CompatibleWith(l, right)
    BY DEF CompatibleWith
  <2> QED BY <2>1, <2>2, AscendingOnce
<1>2. CASE ~Nested(left, right)
  <2>1. Partners(l, left, right) = first \o second
    BY <1>2 DEF Partners
  <2>2. /\ Probed(l, joinVars, right) \cup Wildcards(l, joinVars, right) = CompatibleWith(l, right)
        /\ Probed(l, joinVars, right) \cap Wildcards(l, joinVars, right) = {}
    BY HashFindsTheCompatible DEF CompatibleWith
  <2>3. CompatibleWith(l, right) \subseteq DOMAIN right
    BY DEF CompatibleWith
  <2>4. /\ first \in Seq(DOMAIN right) /\ IsInjective(first)
        /\ ToSet(first) = Probed(l, joinVars, right) \cap DOMAIN right
        /\ second \in Seq(DOMAIN right) /\ IsInjective(second)
        /\ ToSet(second) = Wildcards(l, joinVars, right) \cap DOMAIN right
    BY AscendingOnce
  <2> HIDE DEF l, joinVars, first, second
  <2>5. ToSet(first) \cap ToSet(second) = {} /\ ToSet(first) \cup ToSet(second) = CompatibleWith(l, right)
    BY <2>2, <2>3, <2>4
  <2>6. /\ first \o second \in Seq(DOMAIN right)
        /\ ToSet(first \o second) = ToSet(first) \cup ToSet(second)
        /\ IsInjective(first \o second)
    BY <2>4, <2>5, Concatenated
  <2> QED BY <2>1, <2>5, <2>6 DEF l
<1> QED BY <1>1, <1>2

(***************************************************************************)
(* MINUS: a left solution is eliminated exactly when some right solution    *)
(* shares a variable with it and is compatible (the comment of minus, and   *)
(* SPARQL 1.1, 18.2.2.9), also where the right side is probed by its hash.  *)
(***************************************************************************)
THEOREM MinusEliminatesTheCompatible ==
  ASSUME NEW S, NEW left \in Seq(S), NEW right \in Seq(S)
  PROVE  Minus(left, right)
            = Kept(left, {l \in ToSet(left) :
                             ~ \E j \in DOMAIN right : Compatible(l, right[j]) /\ SharesVariable(l, right[j])})
<1>1. ASSUME NEW l \in ToSet(left)
      PROVE  Survives(l, left, right)
                <=> ~ \E j \in DOMAIN right : Compatible(l, right[j]) /\ SharesVariable(l, right[j])
  <2>1. PICK i \in DOMAIN left : l = left[i]
    BY DEF ToSet
  <2> DEFINE partners == Partners(l, left, right)
  <2>2. ToSet(partners) = CompatibleWith(l, right)
    BY <2>1, PartnersAreTheCompatible
  <2>3. Survives(l, left, right) <=> \A k \in DOMAIN partners : ~SharesVariable(l, right[partners[k]])
    BY DEF Survives
  <2> HIDE DEF partners
  <2>4. Survives(l, left, right) <=> \A j \in ToSet(partners) : ~SharesVariable(l, right[j])
    BY <2>3 DEF ToSet
  <2> QED BY <2>2, <2>4 DEF CompatibleWith
<1>2. {l \in ToSet(left) : Survives(l, left, right)}
        = {l \in ToSet(left) :
             ~ \E j \in DOMAIN right : Compatible(l, right[j]) /\ SharesVariable(l, right[j])}
  BY <1>1
<1> QED BY <1>2, Zenon DEF Minus

(***************************************************************************)
(* Multisets of solutions                                                   *)
(***************************************************************************)
\* The same elements, each as often, in some order.
Rearranged(s, t) ==
    \E p \in [DOMAIN s -> DOMAIN t] :
        /\ IsInjective(p)
        /\ \A m \in DOMAIN t : \E k \in DOMAIN s : p[k] = m
        /\ \A k \in DOMAIN s : s[k] = t[p[k]]

\* Two lists of the same positions, each once, give the same merged solutions.
LEMMA MergedRearranged ==
  ASSUME NEW D, NEW some \in Seq(D), NEW other \in Seq(D), NEW l, NEW right,
         IsInjective(some), IsInjective(other), ToSet(some) = ToSet(other)
  PROVE  Rearranged(MergedAt(l, right, some), MergedAt(l, right, other))
<1> DEFINE p == [k \in DOMAIN some |-> CHOOSE m \in DOMAIN other : other[m] = some[k]]
<1>1. ASSUME NEW k \in DOMAIN some
      PROVE  p[k] \in DOMAIN other /\ other[p[k]] = some[k]
  <2>1. some[k] \in ToSet(other)
    BY DEF ToSet
  <2>2. \E m \in DOMAIN other : other[m] = some[k]
    BY <2>1 DEF ToSet
  <2> QED BY <2>2
<1>2. p \in [DOMAIN some -> DOMAIN other]
  BY <1>1
<1>3. DOMAIN p = DOMAIN some
  OBVIOUS
<1> HIDE DEF p
<1>4. IsInjective(p)
  BY <1>1, <1>3 DEF IsInjective
<1>5. ASSUME NEW m \in DOMAIN other PROVE \E k \in DOMAIN some : p[k] = m
  <2>1. other[m] \in ToSet(some)
    BY DEF ToSet
  <2>2. PICK k \in DOMAIN some : some[k] = other[m]
    BY <2>1 DEF ToSet
  <2>3. p[k] \in DOMAIN other /\ other[p[k]] = other[m]
    BY <1>1, <2>2
  <2>4. p[k] = m
    BY <2>3 DEF IsInjective
  <2> QED BY <2>4
<1>6. /\ DOMAIN MergedAt(l, right, some) = DOMAIN some
      /\ DOMAIN MergedAt(l, right, other) = DOMAIN other
      /\ \A k \in DOMAIN some : MergedAt(l, right, some)[k] = MergedAt(l, right, other)[p[k]]
  BY <1>1 DEF MergedAt
<1> QED BY <1>2, <1>4, <1>5, <1>6, Zenon DEF Rearranged

\* Rearranging two sequences rearranges one after the other.
LEMMA ConcatRearranged ==
  ASSUME NEW S, NEW a \in Seq(S), NEW b \in Seq(S), NEW c \in Seq(S), NEW d \in Seq(S),
         Rearranged(a, c), Rearranged(b, d), Len(a) = Len(c)
  PROVE  Rearranged(a \o b, c \o d)
<1>1. PICK p \in [DOMAIN a -> DOMAIN c] :
        /\ IsInjective(p)
        /\ \A m \in DOMAIN c : \E k \in DOMAIN a : p[k] = m
        /\ \A k \in DOMAIN a : a[k] = c[p[k]]
  BY DEF Rearranged
<1>2. PICK q \in [DOMAIN b -> DOMAIN d] :
        /\ IsInjective(q)
        /\ \A m \in DOMAIN d : \E k \in DOMAIN b : q[k] = m
        /\ \A k \in DOMAIN b : b[k] = d[q[k]]
  BY DEF Rearranged
<1> DEFINE n == Len(a)
           ab == a \o b
           cd == c \o d
           r == [k \in DOMAIN ab |-> IF k <= n THEN p[k] ELSE n + q[k - n]]
<1>3. /\ n \in Nat /\ Len(b) \in Nat /\ Len(d) \in Nat
      /\ DOMAIN a = 1..n /\ DOMAIN c = 1..n /\ DOMAIN b = 1..Len(b) /\ DOMAIN d = 1..Len(d)
      /\ DOMAIN ab = 1..n + Len(b) /\ DOMAIN cd = 1..n + Len(d)
  BY ConcatProperties
<1>4. /\ \A k \in 1..n : k \in DOMAIN ab /\ ab[k] = a[k]
      /\ \A k \in 1..Len(b) : n + k \in DOMAIN ab /\ ab[n + k] = b[k]
  <2>1. /\ \A k \in 1..Len(a) : k \in 1..Len(a) + Len(b) /\ (a \o b)[k] = a[k]
        /\ \A k \in 1..Len(b) : Len(a) + k \in 1..Len(a) + Len(b) /\ (a \o b)[Len(a) + k] = b[k]
    <3> HIDE DEF n, ab, cd, r
    <3> QED BY ConcatParts, SMTT(30)
  <2> HIDE DEF r
  <2>2. DOMAIN ab = 1..Len(a) + Len(b)
    BY <1>3 DEF n
  <2> QED BY <2>1, <2>2 DEF ab, n
<1>5. /\ \A k \in 1..n : k \in DOMAIN cd /\ cd[k] = c[k]
      /\ \A k \in 1..Len(d) : n + k \in DOMAIN cd /\ cd[n + k] = d[k]
  BY <1>3, ConcatParts
<1> HIDE DEF ab, cd, n
<1>6. ASSUME NEW k \in 1..n
      PROVE  k \in DOMAIN ab /\ r[k] = p[k] /\ r[k] \in 1..n /\ r[k] \in DOMAIN cd /\ ab[k] = cd[r[k]]
  <2>1. k <= n /\ p[k] \in 1..n /\ k \in DOMAIN ab
    BY <1>1, <1>3, <1>4
  <2>2. r[k] = p[k]
    BY <2>1
  <2>3. ab[k] = a[k] /\ cd[p[k]] = c[p[k]] /\ a[k] = c[p[k]]
    BY <1>1, <1>3, <1>4, <1>5, <2>1
  <2> QED BY <1>5, <2>1, <2>2, <2>3
<1>7. ASSUME NEW k \in 1..Len(b)
      PROVE  /\ n + k \in DOMAIN ab /\ r[n + k] = n + q[k] /\ q[k] \in 1..Len(d)
             /\ r[n + k] \in DOMAIN cd /\ ab[n + k] = cd[r[n + k]]
  <2>1. n + k \in DOMAIN ab /\ ~(n + k <= n) /\ n + k - n = k /\ q[k] \in 1..Len(d)
    BY <1>2, <1>3, <1>4
  <2>2. r[n + k] = n + q[k]
    BY <1>3, <2>1
  <2>3. ab[n + k] = b[k] /\ cd[n + q[k]] = d[q[k]] /\ b[k] = d[q[k]]
    BY <1>2, <1>3, <1>4, <1>5, <2>1, Zenon
  <2>4. n + q[k] \in DOMAIN cd
    BY <1>5, <2>1
  <2> QED BY <2>1, <2>2, <2>3, <2>4
<1>8. ASSUME NEW k \in DOMAIN ab
      PROVE  k \in 1..n \/ \E j \in 1..Len(b) : k = n + j
  <2>1. CASE k <= n
    BY <1>3, <2>1
  <2>2. CASE ~(k <= n)
    <3>1. k - n \in 1..Len(b) /\ k = n + (k - n)
      BY <1>3, <2>2
    <3> QED BY <3>1
  <2> QED BY <2>1, <2>2
<1>9. DOMAIN r = DOMAIN ab
  OBVIOUS
<1> HIDE DEF r
<1>10. r \in [DOMAIN ab -> DOMAIN cd] /\ \A k \in DOMAIN ab : ab[k] = cd[r[k]]
  <2>1. \A k \in DOMAIN ab : r[k] \in DOMAIN cd /\ ab[k] = cd[r[k]]
    BY <1>6, <1>7, <1>8
  <2>2. r = [k \in DOMAIN ab |-> r[k]]
    BY DEF r
  <2> QED BY <2>1, <2>2
<1>11. IsInjective(r)
  <2> SUFFICES ASSUME NEW i \in DOMAIN ab, NEW j \in DOMAIN ab, r[i] = r[j] PROVE i = j
    BY <1>9 DEF IsInjective
  <2>1. CASE i \in 1..n /\ j \in 1..n
    BY <1>1, <1>3, <1>6, <2>1 DEF IsInjective
  <2>2. ASSUME NEW x \in 1..Len(b), NEW y \in 1..Len(b), i = n + x, j = n + y PROVE i = j
    <3>1. n + q[x] = n + q[y] /\ q[x] \in 1..Len(d) /\ q[y] \in 1..Len(d)
      BY <1>7, <2>2
    <3>2. q[x] = q[y]
      BY <1>3, <3>1
    <3>3. x = y
      BY <1>2, <1>3, <3>2 DEF IsInjective
    <3> QED BY <2>2, <3>3
  <2>3. \A x \in 1..n, y \in 1..Len(b) : r[x] # r[n + y]
    <3> SUFFICES ASSUME NEW x \in 1..n, NEW y \in 1..Len(b) PROVE r[x] # r[n + y]
      OBVIOUS
    <3>1. r[x] \in 1..n
      BY <1>6
    <3>2. r[n + y] = n + q[y] /\ q[y] \in 1..Len(d)
      BY <1>7
    <3>3. \A u \in 1..n, v \in 1..Len(d) : u # n + v
      BY <1>3
    <3> QED BY <3>1, <3>2, <3>3, Zenon
  <2> QED BY <1>8, <2>1, <2>2, <2>3
<1>12. ASSUME NEW m \in DOMAIN cd PROVE \E k \in DOMAIN ab : r[k] = m
  <2>1. CASE m <= n
    <3>1. m \in DOMAIN c
      BY <1>3, <2>1
    <3>2. PICK k \in DOMAIN a : p[k] = m
      BY <1>1, <3>1
    <3> QED BY <1>3, <1>6, <3>2
  <2>2. CASE ~(m <= n)
    <3>1. m - n \in DOMAIN d /\ n + (m - n) = m
      BY <1>3, <2>2
    <3>2. PICK k \in DOMAIN b : q[k] = m - n
      BY <1>2, <3>1
    <3> QED BY <1>3, <1>7, <3>1, <3>2
  <2> QED BY <2>1, <2>2
<1>13. Rearranged(ab, cd)
  BY <1>10, <1>11, <1>12, Zenon DEF Rearranged
<1> QED BY <1>13 DEF ab, cd

\* f holds the first i sequences one after the other, for i up to m.
IsFlat(f, seqs, m) == f = [i \in 1..m |-> IF i = 1 THEN seqs[i] ELSE f[i - 1] \o seqs[i]]

LEMMA FlatExists ==
  ASSUME NEW seqs
  PROVE  \A m \in Nat : \E f : IsFlat(f, seqs, m)
<1> DEFINE Bad == {m \in Nat : ~ \E f : IsFlat(f, seqs, m)}
<1> SUFFICES ASSUME Bad # {} PROVE FALSE
  OBVIOUS
<1>1. PICK m \in Bad : \A k \in Bad : m <= k
  <2>1. Bad \in SUBSET Nat
    OBVIOUS
  <2> HIDE DEF Bad
  <2> QED BY <2>1, LeastNatural
<1>2. CASE m = 0
  <2> DEFINE g == [i \in 1..0 |-> <<>>]
  <2>1. g = [i \in 1..0 |-> IF i = 1 THEN seqs[i] ELSE g[i - 1] \o seqs[i]]
    OBVIOUS
  <2>2. IsFlat(g, seqs, 0)
    BY <2>1 DEF IsFlat
  <2> QED BY <1>1, <1>2, <2>2
<1>3. CASE m # 0
  <2>1. m \in Nat /\ m - 1 \in Nat /\ m - 1 \notin Bad
    BY <1>1, <1>3
  <2>2. PICK f : IsFlat(f, seqs, m - 1)
    BY <2>1
  <2> DEFINE then(h, i) == IF i = 1 THEN seqs[i] ELSE h[i - 1] \o seqs[i]
             g == [i \in 1..m |-> IF i = m THEN then(f, m) ELSE f[i]]
  <2>3. ASSUME NEW i \in 1..m PROVE g[i] = then(g, i)
    <3>1. i # 1 => g[i - 1] = f[i - 1]
      BY <2>1
    <3>2. CASE i = m
      BY <1>3, <2>1, <3>1, <3>2
    <3>3. CASE i # m
      <4>1. i \in 1..m - 1 /\ g[i] = f[i]
        BY <2>1, <3>3
      <4>2. f[i] = then(f, i)
        BY <2>2, <4>1 DEF IsFlat
      <4> QED BY <3>1, <4>1, <4>2
    <3> QED BY <3>2, <3>3
  <2>4. IsFlat(g, seqs, m)
    BY <2>3 DEF IsFlat
  <2> QED BY <1>1, <2>4
<1> QED BY <1>2, <1>3

LEMMA FlattenUnfold ==
  ASSUME NEW S, NEW seqs \in Seq(Seq(S)), Len(seqs) # 0
  PROVE  \E f : /\ f[1] = seqs[1]
                /\ \A i \in 2..Len(seqs) : f[i] = f[i - 1] \o seqs[i]
                /\ FlattenSeq(seqs) = f[Len(seqs)]
<1> DEFINE g == CHOOSE f : IsFlat(f, seqs, Len(seqs))
<1>1. Len(seqs) \in Nat
  OBVIOUS
<1>2. IsFlat(g, seqs, Len(seqs))
  BY <1>1, FlatExists
<1>3. FlattenSeq(seqs) = g[Len(seqs)]
  BY DEF FlattenSeq, IsFlat
<1> HIDE DEF g
<1>4. \A i \in 1..Len(seqs) : g[i] = IF i = 1 THEN seqs[i] ELSE g[i - 1] \o seqs[i]
  BY <1>2 DEF IsFlat
<1>5. g[1] = seqs[1] /\ \A i \in 2..Len(seqs) : g[i] = g[i - 1] \o seqs[i]
  <2>1. 1 \in 1..Len(seqs) /\ \A i \in 2..Len(seqs) : i \in 1..Len(seqs) /\ i # 1
    BY <1>1
  <2> QED BY <1>4, <2>1, Zenon
<1> QED BY <1>3, <1>5, Zenon

\* Rearranging each of several sequences rearranges all of them in a row.
LEMMA FlattenRearranged ==
  ASSUME NEW S, NEW a \in Seq(Seq(S)), NEW b \in Seq(Seq(S)), Len(a) = Len(b),
         \A i \in 1..Len(a) : Len(a[i]) = Len(b[i]) /\ Rearranged(a[i], b[i])
  PROVE  Rearranged(FlattenSeq(a), FlattenSeq(b))
<1> DEFINE n == Len(a)
<1>1. n \in Nat /\ \A i \in 1..n : a[i] \in Seq(S) /\ b[i] \in Seq(S)
  OBVIOUS
<1>2. CASE n = 0
  <2>1. FlattenSeq(a) = <<>> /\ FlattenSeq(b) = <<>>
    <3>1. Len(a) = 0 /\ Len(b) = 0
      BY <1>2, Zenon
    <3>2. a = <<>> /\ b = <<>>
      BY <3>1, EmptySeq
    <3> QED BY <3>1, <3>2, Zenon DEF FlattenSeq
  <2>2. Rearranged(<<>>, <<>>)
    <3> DEFINE p == [k \in {} |-> k]
    <3>1. DOMAIN <<>> = {} /\ DOMAIN p = {} /\ p \in [{} -> {}]
      OBVIOUS
    <3> HIDE DEF p
    <3>2. IsInjective(p)
      BY <3>1 DEF IsInjective
    <3> QED BY <3>1, <3>2, Zenon DEF Rearranged
  <2> QED BY <2>1, <2>2
<1>3. CASE n # 0
  <2>1. PICK f : /\ f[1] = a[1]
                 /\ \A i \in 2..n : f[i] = f[i - 1] \o a[i]
                 /\ FlattenSeq(a) = f[n]
    BY <1>3, FlattenUnfold
  <2>2. PICK g : /\ g[1] = b[1]
                 /\ \A i \in 2..n : g[i] = g[i - 1] \o b[i]
                 /\ FlattenSeq(b) = g[n]
    BY <1>3, FlattenUnfold
  <2> HIDE DEF n
  <2> DEFINE Good(i) == /\ f[i] \in Seq(S) /\ g[i] \in Seq(S)
                        /\ Len(f[i]) = Len(g[i]) /\ Rearranged(f[i], g[i])
             Bad == {i \in 1..n : ~Good(i)}
  <2>3. \A i \in 1..n : Len(a[i]) = Len(b[i]) /\ Rearranged(a[i], b[i])
    BY DEF n
  <2>4. Bad = {}
    <3> SUFFICES ASSUME Bad # {} PROVE FALSE
      OBVIOUS
    <3>1. PICK i \in Bad : \A k \in Bad : i <= k
      <4>1. Bad \in SUBSET Nat
        OBVIOUS
      <4> HIDE DEF Bad
      <4> QED BY <4>1, LeastNatural
    <3>2. i # 1
      <4>1. 1 \in 1..n
        BY <1>1, <1>3
      <4>2. Good(1)
        BY <1>1, <2>1, <2>2, <2>3, <4>1
      <4> HIDE DEF Good
      <4> QED BY <3>1, <4>2
    <3>3. i \in 2..n /\ i - 1 \in 1..n /\ i - 1 \notin Bad
      BY <1>1, <3>1, <3>2
    <3>4. Good(i - 1)
      BY <3>3
    <3>5. /\ f[i] = f[i - 1] \o a[i] /\ g[i] = g[i - 1] \o b[i]
          /\ a[i] \in Seq(S) /\ b[i] \in Seq(S)
          /\ Len(a[i]) = Len(b[i]) /\ Rearranged(a[i], b[i])
      BY <1>1, <2>1, <2>2, <2>3, <3>1, <3>3
    <3>6. /\ f[i] \in Seq(S) /\ Len(f[i]) = Len(f[i - 1]) + Len(a[i])
          /\ g[i] \in Seq(S) /\ Len(g[i]) = Len(g[i - 1]) + Len(b[i])
      <4> DEFINE before == f[i - 1]
                 there  == g[i - 1]
      <4>1. before \in Seq(S) /\ there \in Seq(S)
        BY <3>4
      <4>2. f[i] = before \o a[i] /\ g[i] = there \o b[i] /\ a[i] \in Seq(S) /\ b[i] \in Seq(S)
        BY <3>5
      <4> HIDE DEF before, there
      <4>3. f[i] \in Seq(S) /\ Len(f[i]) = Len(before) + Len(a[i])
        BY <4>1, <4>2, ConcatProperties
      <4>4. g[i] \in Seq(S) /\ Len(g[i]) = Len(there) + Len(b[i])
        BY <4>1, <4>2, ConcatProperties
      <4> QED BY <4>3, <4>4 DEF before, there
    <3>7. Rearranged(f[i], g[i])
      BY <3>4, <3>5, ConcatRearranged, Zenon
    <3>8. Good(i)
      BY <3>4, <3>5, <3>6, <3>7
    <3> HIDE DEF Good
    <3> QED BY <3>1, <3>8
  <2>5. n \in 1..n
    BY <1>1, <1>3
  <2>6. Good(n)
    <3> HIDE DEF Good
    <3> QED BY <2>4, <2>5
  <2> QED BY <2>1, <2>2, <2>6
<1> QED BY <1>2, <1>3

\* What the nested loop yields: every compatible pair, merged.
NestedLoop(left, right) ==
    FlattenSeq([i \in DOMAIN left |->
        MergedAt(left[i], right, Ascending(CompatibleWith(left[i], right), right))])

\* Two lists of the same elements, each once, are equally long.
LEMMA SameLength ==
  ASSUME NEW D, NEW some \in Seq(D), NEW other \in Seq(D),
         IsInjective(some), IsInjective(other), ToSet(some) = ToSet(other)
  PROVE  Len(some) = Len(other)
<1>1. ASSUME NEW s \in Seq(D), IsInjective(s)
      PROVE  Cardinality(ToSet(s)) = Len(s)
  <2>1. /\ Len(s) \in Nat /\ DOMAIN s = 1..Len(s)
        /\ s \in [1..Len(s) -> ToSet(s)]
    BY DEF ToSet
  <2>2. s \in Bijection(1..Len(s), ToSet(s))
    BY <1>1, <2>1 DEF Bijection, Injection, Surjection, ToSet
  <2>3. ExistsBijection(1..Len(s), ToSet(s))
    BY <2>2 DEF ExistsBijection
  <2> QED BY <2>1, <2>3, FS_CountingElements
<1> QED BY <1>1

(***************************************************************************)
(* A join above the threshold, which probes a hash index, answers the same  *)
(* multiset of solutions as the nested loop below it (inner-join.ts): the   *)
(* threshold decides the order of the rows and nothing else.                *)
(***************************************************************************)
THEOREM HashJoinIsNestedLoop ==
  ASSUME NEW S, NEW left \in Seq(S), NEW right \in Seq(S)
  PROVE  Rearranged(InnerJoin(left, right), NestedLoop(left, right))
<1> DEFINE here(i)  == Partners(left[i], left, right)
           there(i) == Ascending(CompatibleWith(left[i], right), right)
           R == {Merge(left[i], right[j]) : i \in DOMAIN left, j \in DOMAIN right}
           a == [i \in DOMAIN left |-> MergedAt(left[i], right, here(i))]
           b == [i \in DOMAIN left |-> MergedAt(left[i], right, there(i))]
<1>1. ASSUME NEW i \in DOMAIN left
      PROVE  /\ here(i) \in Seq(DOMAIN right) /\ there(i) \in Seq(DOMAIN right)
             /\ IsInjective(here(i)) /\ IsInjective(there(i))
             /\ ToSet(here(i)) = ToSet(there(i))
  <2>1. CompatibleWith(left[i], right) \cap DOMAIN right = CompatibleWith(left[i], right)
    BY DEF CompatibleWith
  <2>2. here(i) \in Seq(DOMAIN right) /\ IsInjective(here(i)) /\ ToSet(here(i)) = CompatibleWith(left[i], right)
    BY PartnersAreTheCompatible, Zenon
  <2>3. there(i) \in Seq(DOMAIN right) /\ IsInjective(there(i)) /\ ToSet(there(i)) = CompatibleWith(left[i], right)
    BY <2>1, AscendingOnce
  <2> QED BY <2>2, <2>3
<1> HIDE DEF here, there
<1>2. ASSUME NEW i \in DOMAIN left, NEW partners \in Seq(DOMAIN right)
      PROVE  /\ MergedAt(left[i], right, partners) \in Seq(R)
             /\ Len(MergedAt(left[i], right, partners)) = Len(partners)
  <2>1. \A k \in DOMAIN partners : Merge(left[i], right[partners[k]]) \in R
    OBVIOUS
  <2> DEFINE m == MergedAt(left[i], right, partners)
  <2>2. m = [k \in 1..Len(partners) |-> Merge(left[i], right[partners[k]])] /\ Len(partners) \in Nat
    BY DEF MergedAt
  <2> HIDE DEF R, m
  <2>3. m \in Seq(R) /\ Len(m) = Len(partners)
    BY <2>1, <2>2
  <2> QED BY <2>3 DEF m
<1>3. a \in Seq(Seq(R)) /\ b \in Seq(Seq(R)) /\ Len(a) = Len(left) /\ Len(b) = Len(left)
  <2>1. ASSUME NEW i \in DOMAIN left PROVE a[i] \in Seq(R) /\ b[i] \in Seq(R)
    <3>1. a[i] = MergedAt(left[i], right, here(i)) /\ b[i] = MergedAt(left[i], right, there(i))
      OBVIOUS
    <3>2. here(i) \in Seq(DOMAIN right) /\ there(i) \in Seq(DOMAIN right)
      BY <1>1
    <3> HIDE DEF a, b, R
    <3> QED BY <1>2, <3>1, <3>2
  <2>2. Len(left) \in Nat /\ DOMAIN left = 1..Len(left) /\ DOMAIN a = DOMAIN left /\ DOMAIN b = DOMAIN left
    OBVIOUS
  <2>3. a = [i \in 1..Len(left) |-> a[i]] /\ b = [i \in 1..Len(left) |-> b[i]]
    BY <2>2
  <2> HIDE DEF R, a, b
  <2> QED BY <2>1, <2>2, <2>3
<1>4. ASSUME NEW i \in 1..Len(left)
      PROVE  Len(a[i]) = Len(b[i]) /\ Rearranged(a[i], b[i])
  <2>1. a[i] = MergedAt(left[i], right, here(i)) /\ b[i] = MergedAt(left[i], right, there(i))
    OBVIOUS
  <2>2. Len(here(i)) = Len(there(i))
    BY <1>1, SameLength
  <2>3. i \in DOMAIN left
    OBVIOUS
  <2>4. Len(a[i]) = Len(b[i])
    <3>1. here(i) \in Seq(DOMAIN right) /\ there(i) \in Seq(DOMAIN right)
      BY <1>1, <2>3
    <3> HIDE DEF a, b, R
    <3> QED BY <1>2, <2>1, <2>2, <2>3, <3>1
  <2>5. Rearranged(MergedAt(left[i], right, here(i)), MergedAt(left[i], right, there(i)))
    BY <1>1, <2>3, MergedRearranged, Zenon
  <2> QED BY <2>1, <2>4, <2>5
<1>5. InnerJoin(left, right) = FlattenSeq(a) /\ NestedLoop(left, right) = FlattenSeq(b)
  BY DEF InnerJoin, NestedLoop, Merged, here, there
<1> HIDE DEF a, b, R
<1> QED BY <1>3, <1>4, <1>5, FlattenRearranged

(* A nonempty set of numbers up to a bound has a greatest.                 *)
LEMMA GreatestOf ==
  ASSUME NEW n \in Nat, NEW T \in SUBSET (1 .. n), T # {}
  PROVE  \E x \in T : \A y \in T : y <= x
<1> DEFINE gaps == {n - x : x \in T}
<1>1. gaps \in SUBSET Nat /\ gaps # {}
  <2>1. \A x \in T : n - x \in Nat
    OBVIOUS
  <2>2. QED
    BY <2>1
<1>2. PICK g \in gaps : \A k \in gaps : g <= k
  <2> HIDE DEF gaps
  <2>1. QED BY <1>1, LeastNatural
<1>3. PICK x \in T : g = n - x
  BY <1>2
<1>4. \A y \in T : n - x <= n - y
  BY <1>2, <1>3
<1>5. QED
  BY <1>4


(***************************************************************************)
(* Costs                                                                    *)
(***************************************************************************)
Fraction == Nat \X (Nat \ {0})

LEMMA ProductOrder ==
  ASSUME NEW a \in Nat, NEW b \in Nat, NEW c \in Nat \ {0}
  PROVE  /\ a * c \in Nat
         /\ a * c < b * c <=> a < b
         /\ a * c <= b * c <=> a <= b
         /\ a * c = b * c <=> a = b
  OBVIOUS

LEMMA FractionsClosed ==
  ASSUME NEW f \in Fraction, NEW g \in Fraction, NEW n \in Nat
  PROVE  Whole(n) \in Fraction /\ Times(f, g) \in Fraction /\ Plus(f, g) \in Fraction
<1>1. /\ f[1] \in Nat /\ f[2] \in Nat \ {0} /\ g[1] \in Nat /\ g[2] \in Nat \ {0}
  BY DEF Fraction
<1>2. ASSUME NEW a \in Nat, NEW b \in Nat PROVE a * b \in Nat /\ a + b \in Nat
  OBVIOUS
<1>3. ASSUME NEW a \in Nat \ {0}, NEW b \in Nat \ {0} PROVE a * b \in Nat \ {0}
  OBVIOUS
<1>4. Whole(n) \in Fraction
  BY DEF Fraction, Whole
<1>5. Times(f, g) \in Fraction
  BY <1>1, <1>2, <1>3 DEF Fraction, Times
<1>6. Plus(f, g) \in Fraction
  BY <1>1, <1>2, <1>3 DEF Fraction, Plus
<1>7. QED
  BY <1>4, <1>5, <1>6

LEMMA CostsTotal ==
  ASSUME NEW f \in Fraction, NEW g \in Fraction
  PROVE  /\ Less(f, g) \/ EqualCost(f, g) \/ Less(g, f)
         /\ ~(Less(f, g) /\ Less(g, f)) /\ ~(Less(f, g) /\ EqualCost(f, g))
         /\ EqualCost(f, g) <=> EqualCost(g, f)
<1>1. /\ f[1] \in Nat /\ f[2] \in Nat /\ g[1] \in Nat /\ g[2] \in Nat
  BY DEF Fraction
<1>2. f[1] * g[2] \in Nat /\ g[1] * f[2] \in Nat
  BY <1>1
<1>3. QED
  BY <1>2 DEF Less, EqualCost

LEMMA CostsTransitive ==
  ASSUME NEW f \in Fraction, NEW g \in Fraction, NEW h \in Fraction,
         Less(f, g), Less(g, h) \/ EqualCost(g, h)
  PROVE  Less(f, h)
<1>1. /\ f[1] \in Nat /\ f[2] \in Nat \ {0} /\ g[1] \in Nat /\ g[2] \in Nat \ {0}
      /\ h[1] \in Nat /\ h[2] \in Nat \ {0}
  BY DEF Fraction
<1>2. f[1] * g[2] \in Nat /\ g[1] * f[2] \in Nat /\ g[1] * h[2] \in Nat /\ h[1] * g[2] \in Nat
  BY <1>1
<1>3. (f[1] * g[2]) * h[2] < (g[1] * f[2]) * h[2]
  BY <1>1, <1>2, ProductOrder DEF Less
<1>4. (g[1] * h[2]) * f[2] <= (h[1] * g[2]) * f[2]
  BY <1>1, <1>2, ProductOrder DEF Less, EqualCost
<1>5. ASSUME NEW a \in Nat, NEW b \in Nat, NEW c \in Nat
      PROVE  (a * b) * c = (a * c) * b
  OBVIOUS
<1>6. f[1] * h[2] \in Nat /\ h[1] * f[2] \in Nat
  BY <1>1
<1>7. (f[1] * h[2]) * g[2] < (h[1] * f[2]) * g[2]
  <2>1. /\ (f[1] * g[2]) * h[2] = (f[1] * h[2]) * g[2]
        /\ (g[1] * f[2]) * h[2] = (g[1] * h[2]) * f[2]
        /\ (h[1] * g[2]) * f[2] = (h[1] * f[2]) * g[2]
    BY <1>1, <1>5
  <2>2. /\ (f[1] * h[2]) * g[2] \in Nat /\ (g[1] * h[2]) * f[2] \in Nat
        /\ (h[1] * f[2]) * g[2] \in Nat
    BY <1>1, <1>2, <1>6, ProductOrder
  <2>3. QED
    BY <1>3, <1>4, <2>1, <2>2
<1>8. QED
  BY <1>1, <1>6, <1>7, ProductOrder DEF Less

(* Joining an entry to a plan costs a fraction.                            *)
LEMMA JoinCostIsFraction ==
  ASSUME NEW e, IsEntry(e), NEW card \in Fraction, NEW bound
  PROVE  EstimatedJoinCost(e, card, bound) \in Fraction
<1> DEFINE known == {v \in e.vars \cap bound \cap DOMAIN e.distinct : e.distinct[v] > 0}
           counts == {e.distinct[v] : v \in known}
           least == Min(counts)
<1>1. known # {} => least \in Nat \ {0}
  <2> SUFFICES ASSUME known # {} PROVE least \in Nat \ {0}
    OBVIOUS
  <2>1. counts \in SUBSET (Nat \ {0}) /\ counts # {}
    BY DEF IsEntry
  <2> HIDE DEF counts
  <2>2. \E n \in counts : \A m \in counts : n <= m
    BY <2>1, LeastNatural
  <2>3. QED
    BY <2>1, <2>2 DEF Min
<1>2. e.candidates \in Nat
  BY DEF IsEntry
<1>3. Whole(e.candidates) \in Fraction
  BY <1>2 DEF Fraction, Whole
<1>4. known # {} => << e.candidates, least >> \in Fraction
  BY <1>1, <1>2 DEF Fraction
<1>5. EstimatedJoinCost(e, card, bound)
        = IF known = {} THEN Times(card, Whole(e.candidates))
          ELSE IF e.candidates <= least THEN card
          ELSE Times(card, << e.candidates, least >>)
  BY DEF EstimatedJoinCost
<1>6. QED
  <2> HIDE DEF known, least
  <2>1. CASE known = {}
    BY <1>3, <1>5, <2>1, FractionsClosed
  <2>2. CASE known # {}
    BY <1>4, <1>5, <2>2, FractionsClosed
  <2>3. QED
    BY <2>1, <2>2

(***************************************************************************)
(* The plans                                                                *)
(***************************************************************************)
(* f holds the plans kept for the sets of at most m entries.               *)
ArePlans(f, entries, card, bound, m) ==
  f = [S \in {T \in SUBSET DOMAIN entries : Cardinality(T) <= m} |->
         IF S = {} THEN Start(card, bound)
         ELSE CheapestOf({Extend(f[S \ {i}], entries, i) : i \in S})]

LEMMA PlansExist ==
  ASSUME NEW entries, NEW card, NEW bound, IsFiniteSet(DOMAIN entries)
  PROVE  \A m \in Nat : \E f : ArePlans(f, entries, card, bound, m)
<1> DEFINE Bad == {m \in Nat : ~ \E f : ArePlans(f, entries, card, bound, m)}
           Upto(m) == {T \in SUBSET DOMAIN entries : Cardinality(T) <= m}
           then(f, S) == IF S = {} THEN Start(card, bound)
                         ELSE CheapestOf({Extend(f[S \ {i}], entries, i) : i \in S})
<1> SUFFICES ASSUME Bad # {}
             PROVE  FALSE
  OBVIOUS
<1>1. PICK m \in Bad : \A k \in Bad : m <= k
  <2>1. Bad \in SUBSET Nat
    OBVIOUS
  <2> HIDE DEF Bad
  <2>2. QED
    BY <2>1, LeastNatural
<1>2. ASSUME NEW S \in SUBSET DOMAIN entries
      PROVE  /\ Cardinality(S) \in Nat /\ (Cardinality(S) = 0 <=> S = {})
             /\ \A i \in S : Cardinality(S \ {i}) = Cardinality(S) - 1
  <2>1. IsFiniteSet(S)
    BY FS_Subset
  <2>2. QED
    BY <2>1, FS_CardinalityType, FS_EmptySet, FS_RemoveElement
<1>3. CASE m = 0
  <2>1. Upto(0) = {{}}
    BY <1>2
  <2> DEFINE g == [S \in Upto(0) |-> Start(card, bound)]
  <2>2. g = [S \in Upto(0) |-> then(g, S)]
    BY <2>1
  <2>3. ArePlans(g, entries, card, bound, 0)
    BY <2>2 DEF ArePlans
  <2>4. QED
    BY <1>1, <1>3, <2>3
<1>4. CASE m # 0
  <2>1. m \in Nat /\ m - 1 \in Nat /\ m - 1 \notin Bad
    BY <1>1, <1>4
  <2>2. PICK f : ArePlans(f, entries, card, bound, m - 1)
    BY <2>1
  <2> DEFINE g == [S \in Upto(m) |-> IF S \in Upto(m - 1) THEN f[S] ELSE then(f, S)]
  <2>3. ASSUME NEW S \in Upto(m)
        PROVE  g[S] = then(g, S)
    <3>1. ASSUME NEW i \in S
          PROVE  g[S \ {i}] = f[S \ {i}]
      <4>1. S \ {i} \in Upto(m - 1) /\ S \ {i} \in Upto(m)
        BY <1>2, <2>1
      <4>2. QED
        BY <4>1
    <3>2. then(g, S) = then(f, S)
      <4>1. {Extend(g[S \ {i}], entries, i) : i \in S} = {Extend(f[S \ {i}], entries, i) : i \in S}
        BY <3>1
      <4>2. QED
        BY <4>1, Zenon
    <3>3. CASE S \in Upto(m - 1)
      <4>1. f[S] = then(f, S)
        BY <2>2, <3>3 DEF ArePlans
      <4>2. QED
        BY <3>2, <3>3, <4>1
    <3>4. CASE S \notin Upto(m - 1)
      BY <3>2, <3>4
    <3>5. QED
      BY <3>3, <3>4
  <2>4. ArePlans(g, entries, card, bound, m)
    <3>1. g = [S \in Upto(m) |-> g[S]]
      OBVIOUS
    <3>2. g = [S \in Upto(m) |-> then(g, S)]
      <4> HIDE DEF g
      <4>1. QED
        BY <2>3, <3>1
    <3>3. QED
      BY <3>2 DEF ArePlans
  <2>5. QED
    BY <1>1, <2>4
<1>5. QED
  BY <1>3, <1>4

(* The plans that join one of the entries of S last.                       *)
Joinings(f, entries, S) == {Extend(f[S \ {i}], entries, i) : i \in S}

LEMMA PlansUnfold ==
  ASSUME NEW entries, NEW card, NEW bound, IsFiniteSet(DOMAIN entries)
  PROVE  /\ Plans(entries, card, bound)[{}] = Start(card, bound)
         /\ \A S \in (SUBSET DOMAIN entries) \ {{}} :
              Plans(entries, card, bound)[S]
                = CheapestOf(Joinings(Plans(entries, card, bound), entries, S))
<1> DEFINE n == Cardinality(DOMAIN entries)
<1>1. n \in Nat /\ {T \in SUBSET DOMAIN entries : Cardinality(T) <= n} = SUBSET DOMAIN entries
  BY FS_Subset, FS_CardinalityType
<1>2. PICK f : ArePlans(f, entries, card, bound, n)
  BY <1>1, PlansExist
<1>3. f = [S \in SUBSET DOMAIN entries |->
             IF S = {} THEN Start(card, bound)
             ELSE CheapestOf({Extend(f[S \ {i}], entries, i) : i \in S})]
  BY <1>1, <1>2 DEF ArePlans
<1>4. Plans(entries, card, bound)
        = [S \in SUBSET DOMAIN entries |->
             IF S = {} THEN Start(card, bound)
             ELSE CheapestOf({Extend(Plans(entries, card, bound)[S \ {i}], entries, i) : i \in S})]
  BY <1>3, Zenon DEF Plans
<1> DEFINE p == Plans(entries, card, bound)
<1>5. p = [S \in SUBSET DOMAIN entries |->
             IF S = {} THEN Start(card, bound)
             ELSE CheapestOf({Extend(p[S \ {i}], entries, i) : i \in S})]
  BY <1>4, Zenon
<1> HIDE DEF p
<1>6. p[{}] = Start(card, bound)
  BY <1>5
<1>7. \A S \in (SUBSET DOMAIN entries) \ {{}} :
        p[S] = CheapestOf(Joinings(p, entries, S))
  BY <1>5 DEF Joinings
<1>8. QED
  BY <1>6, <1>7 DEF p

(* The plan that is better than each of the others is the cheapest.        *)
LEMMA CheapestIs ==
  ASSUME NEW plans, NEW p \in plans,
         \A q \in plans : q.cost \in Fraction /\ Last(q.order) \in Nat,
         \A q \in plans \ {p} :
            \/ Less(p.cost, q.cost)
            \/ EqualCost(p.cost, q.cost) /\ Last(p.order) > Last(q.order)
  PROVE  CheapestOf(plans) = p
<1> DEFINE better(r, q) == \/ Less(r.cost, q.cost)
                           \/ EqualCost(r.cost, q.cost) /\ Last(r.order) > Last(q.order)
<1>1. ASSUME NEW r \in plans, \A q \in plans \ {r} : better(r, q), r # p
      PROVE  FALSE
  <2>1. better(r, p) /\ better(p, r)
    BY <1>1
  <2>2. ~(Last(r.order) > Last(p.order) /\ Last(p.order) > Last(r.order))
    OBVIOUS
  <2>3. QED
    BY <2>1, <2>2, CostsTotal
<1>2. \A q \in plans \ {p} : better(p, q)
  OBVIOUS
<1>3. CheapestOf(plans) = CHOOSE r \in plans : \A q \in plans \ {r} : better(r, q)
  BY DEF CheapestOf
<1>4. QED
  <2> HIDE DEF better
  <2>1. QED
    BY <1>1, <1>2, <1>3

(* f holds the plans after each join of the order o.                       *)
IsReplay(f, entries, card, bound, o) ==
  f = [k \in 0 .. Len(o) |->
         IF k = 0 THEN Start(card, bound) ELSE Extend(f[k - 1], entries, o[k])]

LEMMA ReplayIs ==
  ASSUME NEW entries, NEW card, NEW bound, NEW o, Len(o) \in Nat,
         NEW f, IsReplay(f, entries, card, bound, o)
  PROVE  ReplayedPlan(entries, card, bound, o) = f[Len(o)]
<1>1. ASSUME NEW g, IsReplay(g, entries, card, bound, o)
      PROVE  \A k \in 0 .. Len(o) :
               g[k] = IF k = 0 THEN Start(card, bound) ELSE Extend(g[k - 1], entries, o[k])
  <2>1. g = [k \in 0 .. Len(o) |->
               IF k = 0 THEN Start(card, bound) ELSE Extend(g[k - 1], entries, o[k])]
    BY <1>1 DEF IsReplay
  <2>2. QED
    BY <2>1, Zenon
<1>2. ASSUME NEW g, IsReplay(g, entries, card, bound, o)
      PROVE  g[Len(o)] = f[Len(o)]
  <2> DEFINE Bad == {k \in 0 .. Len(o) : g[k] # f[k]}
  <2> SUFFICES ASSUME Bad # {} PROVE FALSE
    OBVIOUS
  <2>1. Bad \in SUBSET Nat
    OBVIOUS
  <2>2. PICK k \in Bad : \A j \in Bad : k <= j
    <3> HIDE DEF Bad
    <3>1. QED
      BY <2>1, LeastNatural
  <2>3. k # 0 => k - 1 \in 0 .. Len(o) /\ k - 1 \notin Bad
    BY <2>2
  <2>4. g[k] = IF k = 0 THEN Start(card, bound) ELSE Extend(g[k - 1], entries, o[k])
    BY <1>1, <1>2, <2>2
  <2>5. f[k] = IF k = 0 THEN Start(card, bound) ELSE Extend(f[k - 1], entries, o[k])
    BY <1>1, <2>2
  <2>6. QED
    BY <2>2, <2>3, <2>4, <2>5
<1>3. ReplayedPlan(entries, card, bound, o)
        = (CHOOSE g : IsReplay(g, entries, card, bound, o))[Len(o)]
  BY DEF ReplayedPlan, IsReplay
<1>4. QED
  BY <1>2, <1>3

(* A cost that equals another compares like it.                            *)
LEMMA CostsEqual ==
  ASSUME NEW f \in Fraction, NEW g \in Fraction, NEW h \in Fraction, EqualCost(f, g)
  PROVE  /\ Less(g, h) => Less(f, h)
         /\ EqualCost(g, h) => EqualCost(f, h)
<1>1. ASSUME Less(g, h) PROVE Less(f, h)
  <2>1. EqualCost(g, f) /\ ~Less(g, f)
    BY CostsTotal
  <2>2. ~EqualCost(f, h)
    <3> SUFFICES ASSUME EqualCost(f, h) PROVE FALSE
      OBVIOUS
    <3>1. EqualCost(h, f)
      BY CostsTotal
    <3>2. QED
      BY <1>1, <2>1, <3>1, CostsTransitive
  <2>3. ~Less(h, f)
    BY <1>1, <2>1, CostsTransitive
  <2>4. QED
    BY <2>2, <2>3, CostsTotal
<1>2. ASSUME EqualCost(g, h) PROVE EqualCost(f, h)
  <2>1. EqualCost(g, f) /\ EqualCost(h, g)
    BY <1>2, CostsTotal
  <2>2. ~Less(f, h)
    BY <2>1, CostsTotal, CostsTransitive
  <2>3. ~Less(h, f)
    <3> SUFFICES ASSUME Less(h, f) PROVE FALSE
      OBVIOUS
    <3>1. Less(h, g)
      BY CostsTransitive
    <3>2. QED
      BY <2>1, <3>1, CostsTotal
  <2>4. QED
    BY <2>2, <2>3, CostsTotal
<1>3. QED
  BY <1>1, <1>2

(* Of several numbered costs one is lower than every other, or as low and  *)
(* of a higher number.                                                     *)
LEMMA CheapestExists ==
  ASSUME NEW S \in SUBSET Nat, IsFiniteSet(S), S # {}, NEW c \in [S -> Fraction]
  PROVE  \E p \in S : \A q \in S \ {p} : Less(c[p], c[q]) \/ (EqualCost(c[p], c[q]) /\ p > q)
<1> DEFINE better(p, q) == Less(c[p], c[q]) \/ (EqualCost(c[p], c[q]) /\ p > q)
           Best(T) == \E p \in T : \A q \in T \ {p} : better(p, q)
           Bad == {n \in Nat : \E T \in SUBSET S : T # {} /\ Cardinality(T) = n /\ ~Best(T)}
<1>1. ASSUME NEW p \in S, NEW q \in S, NEW r \in S, better(p, q), better(q, r)
      PROVE  better(p, r)
  <2>1. c[p] \in Fraction /\ c[q] \in Fraction /\ c[r] \in Fraction
    OBVIOUS
  <2>2. CASE Less(c[p], c[q])
    BY <1>1, <2>1, <2>2, CostsTransitive
  <2>3. CASE EqualCost(c[p], c[q]) /\ p > q
    <3>1. CASE Less(c[q], c[r])
      BY <2>1, <2>3, <3>1, CostsEqual
    <3>2. CASE EqualCost(c[q], c[r]) /\ q > r
      <4>1. EqualCost(c[p], c[r])
        BY <2>1, <2>3, <3>2, CostsEqual
      <4>2. p > r
        BY <2>3, <3>2
      <4>3. QED
        BY <4>1, <4>2
    <3>3. QED
      BY <1>1, <3>1, <3>2
  <2>4. QED
    BY <1>1, <2>2, <2>3
<1>2. ASSUME NEW p \in S, NEW q \in S, p # q
      PROVE  better(p, q) \/ better(q, p)
  <2>1. c[p] \in Fraction /\ c[q] \in Fraction
    OBVIOUS
  <2>2. p > q \/ q > p
    BY <1>2
  <2>3. QED
    BY <2>1, <2>2, CostsTotal
<1> HIDE DEF better
<1>3. ASSUME NEW T \in SUBSET S, NEW x \in T, T \ {x} # {} => Best(T \ {x})
      PROVE  Best(T)
  <2>1. CASE T \ {x} = {}
    BY <2>1
  <2>2. CASE T \ {x} # {}
    <3>1. PICK p \in T \ {x} : \A q \in (T \ {x}) \ {p} : better(p, q)
      BY <1>3, <2>2
    <3>2. CASE better(p, x)
      BY <3>1, <3>2
    <3>3. CASE better(x, p)
      <4>1. ASSUME NEW q \in T \ {x} PROVE better(x, q)
        BY <1>1, <3>1, <3>3
      <4>2. QED
        BY <4>1
    <3>4. QED
      BY <1>2, <3>1, <3>2, <3>3
  <2>3. QED
    BY <2>1, <2>2
<1> HIDE DEF Best
<1>4. Bad = {}
  <2> SUFFICES ASSUME Bad # {} PROVE FALSE
    OBVIOUS
  <2>1. Bad \in SUBSET Nat
    OBVIOUS
  <2>2. PICK n \in Bad : \A k \in Bad : n <= k
    <3> HIDE DEF Bad
    <3>1. QED
      BY <2>1, LeastNatural
  <2>3. PICK T \in SUBSET S : T # {} /\ Cardinality(T) = n /\ ~Best(T)
    BY <2>2
  <2>4. PICK x \in T : TRUE
    BY <2>3
  <2>5. T \ {x} \in SUBSET S /\ Cardinality(T \ {x}) = n - 1 /\ n - 1 \in Nat
    <3>1. IsFiniteSet(T) /\ IsFiniteSet(T \ {x})
      BY FS_Subset
    <3>2. Cardinality(T \ {x}) = n - 1 /\ Cardinality(T \ {x}) \in Nat
      BY <2>3, <3>1, FS_RemoveElement, FS_CardinalityType
    <3>3. QED
      BY <3>2
  <2>6. n - 1 \notin Bad
    BY <2>2, <2>5
  <2>7. QED
    BY <1>3, <2>3, <2>5, <2>6
<1>5. Best(S)
  <2>1. Cardinality(S) \in Nat
    BY FS_CardinalityType
  <2>2. QED
    BY <1>4, <2>1
<1>6. QED
  BY <1>5 DEF Best, better

(* The plan kept for S joins each of its entries once, and no other of     *)
(* them joined last to the plan kept for the rest is cheaper.              *)
KeepsBest(plan, entries, S) ==
    /\ plan[S].cost \in Fraction /\ plan[S].card \in Fraction
    /\ plan[S].order \in Seq(DOMAIN entries) /\ ToSet(plan[S].order) = S
    /\ Len(plan[S].order) = Cardinality(S)
    /\ S # {} => \E p \in S : plan[S] = Extend(plan[S \ {p}], entries, p)
    /\ \A j \in S : ~Less(Extend(plan[S \ {j}], entries, j).cost, plan[S].cost)

(* Entries as the planner gets them: numbered, and with statistics.        *)
AreEntries(entries) ==
    /\ DOMAIN entries \in SUBSET Nat /\ IsFiniteSet(DOMAIN entries)
    /\ \A i \in DOMAIN entries : IsEntry(entries[i])

(* What joining i to a plan of costs gives.                                *)
LEMMA ExtendIs ==
  ASSUME NEW entries, NEW plan, NEW i \in DOMAIN entries, NEW e, AreEntries(entries),
         plan.cost \in Fraction, plan.card \in Fraction, plan.order \in Seq(DOMAIN entries),
         e = Extend(plan, entries, i)
  PROVE  /\ e.cost \in Fraction /\ e.card \in Fraction
         /\ e.order \in Seq(DOMAIN entries) /\ ToSet(e.order) = ToSet(plan.order) \cup {i}
         /\ Len(e.order) = Len(plan.order) + 1 /\ Last(e.order) = i
<1> DEFINE m == EstimatedJoinCost(entries[i], plan.card, plan.bound)
           o == Append(plan.order, i)
<1>1. m \in Fraction /\ Plus(plan.cost, m) \in Fraction
  <2>1. IsEntry(entries[i])
    BY DEF AreEntries
  <2>2. m \in Fraction
    BY <2>1, JoinCostIsFraction
  <2> HIDE DEF m
  <2>3. QED
    BY <2>2, FractionsClosed
<1>2. o \in Seq(DOMAIN entries) /\ ToSet(o) = ToSet(plan.order) \cup {i}
  BY Appended
<1>3. Len(o) = Len(plan.order) + 1 /\ Last(o) = i
  BY DEF Last
<1>4. e = [cost |-> Plus(plan.cost, m), card |-> m, bound |-> plan.bound \cup entries[i].vars,
           order |-> o]
  BY DEF Extend
<1> HIDE DEF m, o
<1>5. e.cost = Plus(plan.cost, m) /\ e.card = m /\ e.order = o
  BY <1>4
<1>6. QED
  BY <1>1, <1>2, <1>3, <1>5 DEF o

LEMMA PlansKeepBest ==
  ASSUME NEW entries, AreEntries(entries), NEW card \in Nat, NEW bound
  PROVE  \A S \in SUBSET DOMAIN entries : KeepsBest(Plans(entries, card, bound), entries, S)
<1>1. PICK plan : plan = Plans(entries, card, bound)
  OBVIOUS
<1>2. /\ plan[{}] = Start(card, bound)
      /\ \A S \in (SUBSET DOMAIN entries) \ {{}} :
           plan[S] = CheapestOf(Joinings(plan, entries, S))
  BY <1>1, PlansUnfold DEF AreEntries
<1> DEFINE Good(S) == KeepsBest(plan, entries, S)
           Bad == {n \in Nat : \E S \in SUBSET DOMAIN entries : Cardinality(S) = n /\ ~Good(S)}
<1>3. ASSUME NEW S \in SUBSET DOMAIN entries
      PROVE  /\ IsFiniteSet(S) /\ Cardinality(S) \in Nat /\ S \in SUBSET Nat
             /\ \A i \in S : Cardinality(S \ {i}) = Cardinality(S) - 1
  <2>1. IsFiniteSet(S)
    BY FS_Subset DEF AreEntries
  <2>2. QED
    BY <2>1, FS_CardinalityType, FS_RemoveElement DEF AreEntries
<1>4. Good({})
  <2>1. /\ plan[{}].cost = Whole(0) /\ plan[{}].card = Whole(card) /\ plan[{}].order = <<>>
    BY <1>2 DEF Start
  <2>2. Whole(0) \in Fraction /\ Whole(card) \in Fraction
    BY DEF Whole, Fraction
  <2>3. << >> \in Seq(DOMAIN entries) /\ ToSet(<< >>) = {} /\ Len(<< >>) = Cardinality({})
    BY FS_EmptySet DEF ToSet
  <2>4. QED
    BY <2>1, <2>2, <2>3 DEF KeepsBest
<1>5. ASSUME NEW S \in (SUBSET DOMAIN entries) \ {{}}, \A i \in S : Good(S \ {i})
      PROVE  Good(S)
  <2> DEFINE e(i) == Extend(plan[S \ {i}], entries, i)
             c == [i \in S |-> e(i).cost]
  <2>1. ASSUME NEW i \in S
        PROVE  /\ e(i).cost \in Fraction /\ e(i).card \in Fraction
               /\ e(i).order \in Seq(DOMAIN entries) /\ ToSet(e(i).order) = S
               /\ Len(e(i).order) = Cardinality(S) /\ Last(e(i).order) = i /\ i \in Nat
    <3>1. /\ plan[S \ {i}].cost \in Fraction /\ plan[S \ {i}].card \in Fraction
          /\ plan[S \ {i}].order \in Seq(DOMAIN entries) /\ ToSet(plan[S \ {i}].order) = S \ {i}
          /\ Len(plan[S \ {i}].order) = Cardinality(S \ {i})
      BY <1>5 DEF KeepsBest
    <3>2. i \in DOMAIN entries /\ i \in Nat
      BY <1>3
    <3>3. Cardinality(S \ {i}) + 1 = Cardinality(S)
      BY <1>3
    <3>4. /\ e(i).cost \in Fraction /\ e(i).card \in Fraction
          /\ e(i).order \in Seq(DOMAIN entries)
          /\ ToSet(e(i).order) = ToSet(plan[S \ {i}].order) \cup {i}
          /\ Len(e(i).order) = Len(plan[S \ {i}].order) + 1 /\ Last(e(i).order) = i
      <4>1. PICK before, f : before = plan[S \ {i}] /\ f = Extend(before, entries, i)
        OBVIOUS
      <4>2. /\ before.cost \in Fraction /\ before.card \in Fraction
            /\ before.order \in Seq(DOMAIN entries)
        BY <3>1, <4>1
      <4>3. /\ f.cost \in Fraction /\ f.card \in Fraction
            /\ f.order \in Seq(DOMAIN entries) /\ ToSet(f.order) = ToSet(before.order) \cup {i}
            /\ Len(f.order) = Len(before.order) + 1 /\ Last(f.order) = i
        <5>1. f = Extend(before, entries, i) /\ i \in DOMAIN entries
          BY <3>2, <4>1
        <5>2. QED
          BY ONLY AreEntries(entries), <4>2, <5>1, ExtendIs
      <4>4. QED
        BY <4>1, <4>3
    <3> HIDE DEF e
    <3>5. QED
      BY <3>1, <3>2, <3>3, <3>4
  <2> HIDE DEF e
  <2>2. c \in [S -> Fraction]
    BY <2>1
  <2>3. PICK p \in S : \A q \in S \ {p} : Less(c[p], c[q]) \/ (EqualCost(c[p], c[q]) /\ p > q)
    <3>1. IsFiniteSet(S) /\ S \in SUBSET Nat /\ S # {}
      BY <1>3
    <3> HIDE DEF c
    <3>2. QED
      BY <2>2, <3>1, CheapestExists
  <2> DEFINE plans == {e(i) : i \in S}
  <2>4. CheapestOf(plans) = e(p)
    <3>1. e(p) \in plans
      OBVIOUS
    <3>2. \A q \in plans : q.cost \in Fraction /\ Last(q.order) \in Nat
      BY <2>1
    <3>3. ASSUME NEW q \in plans \ {e(p)}
          PROVE  \/ Less(e(p).cost, q.cost)
                 \/ EqualCost(e(p).cost, q.cost) /\ Last(e(p).order) > Last(q.order)
      <4>1. PICK j \in S : q = e(j)
        BY <3>3
      <4>2. j \in S \ {p}
        BY <3>3, <4>1
      <4>3. QED
        BY <2>1, <2>3, <4>1, <4>2
    <3> HIDE DEF plans
    <3>4. QED
      BY <3>1, <3>2, <3>3, CheapestIs
  <2>5. plan[S] = e(p)
    BY <1>2, <2>4 DEF Joinings, e
  <2>6. ASSUME NEW j \in S PROVE ~Less(e(j).cost, e(p).cost)
    <3>1. CASE j = p
      BY <2>1, <3>1, CostsTotal
    <3>2. CASE j # p
      <4>1. Less(e(p).cost, e(j).cost) \/ EqualCost(e(p).cost, e(j).cost)
        BY <2>3, <3>2
      <4>2. EqualCost(e(j).cost, e(p).cost) <=> EqualCost(e(p).cost, e(j).cost)
        BY <2>1, CostsTotal
      <4>3. QED
        BY <2>1, <4>1, <4>2, CostsTotal
    <3>3. QED
      BY <3>1, <3>2
  <2>7. QED
    BY <2>1, <2>5, <2>6 DEF KeepsBest, e
<1>6. Bad = {}
  <2> SUFFICES ASSUME Bad # {} PROVE FALSE
    OBVIOUS
  <2> HIDE DEF Good
  <2>1. Bad \in SUBSET Nat
    OBVIOUS
  <2>2. PICK n \in Bad : \A k \in Bad : n <= k
    <3> HIDE DEF Bad
    <3>1. QED
      BY <2>1, LeastNatural
  <2>3. PICK S \in SUBSET DOMAIN entries : Cardinality(S) = n /\ ~Good(S)
    BY <2>2
  <2>4. ASSUME NEW i \in S PROVE Good(S \ {i})
    <3>1. S \ {i} \in SUBSET DOMAIN entries /\ Cardinality(S \ {i}) = n - 1 /\ n - 1 \in Nat
      <4>1. Cardinality(S \ {i}) = n - 1 /\ Cardinality(S \ {i}) \in Nat
        BY <1>3, <2>3
      <4>2. QED
        BY <4>1
    <3>2. n - 1 \notin Bad
      BY <2>2, <3>1
    <3>3. QED
      BY <3>1, <3>2
  <2>5. QED
    BY <1>4, <1>5, <2>3, <2>4
<1>7. QED
  BY <1>1, <1>3, <1>6

LEMMA PlansReplay ==
  ASSUME NEW entries, AreEntries(entries), NEW card \in Nat, NEW bound
  PROVE  \A S \in SUBSET DOMAIN entries :
           LET plan == Plans(entries, card, bound)[S]
           IN  ReplayedPlan(entries, card, bound, plan.order) = plan
<1>0. PICK plan : plan = Plans(entries, card, bound)
  OBVIOUS
<1> DEFINE All == DOMAIN entries
           Replays(f, o) == IsReplay(f, entries, card, bound, o)
           Good(S) == \E f : Replays(f, plan[S].order) /\ f[Len(plan[S].order)] = plan[S]
           Bad == {n \in Nat : \E S \in SUBSET All : Cardinality(S) = n /\ ~Good(S)}
<1>1. ASSUME NEW S \in SUBSET All
      PROVE  /\ KeepsBest(plan, entries, S) /\ Cardinality(S) \in Nat
             /\ plan[S].order \in Seq(All) /\ Len(plan[S].order) = Cardinality(S)
             /\ \A i \in S : Cardinality(S \ {i}) = Cardinality(S) - 1
  <2>1. IsFiniteSet(S)
    BY FS_Subset DEF AreEntries
  <2>2. KeepsBest(plan, entries, S)
    BY <1>0, PlansKeepBest
  <2>3. QED
    BY <2>1, <2>2, FS_CardinalityType, FS_RemoveElement DEF KeepsBest
<1>2. Good({})
  <2>1. IsFiniteSet(DOMAIN entries)
    BY DEF AreEntries
  <2>2. plan[{}] = Start(card, bound) /\ plan[{}].order = <<>>
    BY <1>0, <2>1, PlansUnfold DEF Start
  <2> DEFINE f == [k \in 0 .. 0 |-> Start(card, bound)]
  <2>3. Len(<< >>) = 0 /\ f[0] = Start(card, bound)
    OBVIOUS
  <2>4. Replays(f, << >>)
    BY <2>3 DEF IsReplay
  <2>5. QED
    <3> HIDE DEF f
    <3>1. QED
      BY <2>2, <2>3, <2>4
<1>3. ASSUME NEW S \in (SUBSET All) \ {{}}, \A i \in S : Good(S \ {i})
      PROVE  Good(S)
  <2>1. PICK p \in S : plan[S] = Extend(plan[S \ {p}], entries, p)
    BY <1>1, <1>3 DEF KeepsBest
  <2>2. PICK f : /\ Replays(f, plan[S \ {p}].order)
                 /\ f[Len(plan[S \ {p}].order)] = plan[S \ {p}]
    BY <1>3, <2>1
  <2>3. PICK o, n : o = plan[S \ {p}].order /\ n = Len(o)
    OBVIOUS
  <2>4. o \in Seq(All) /\ n \in Nat /\ p \in All
    BY <1>1, <2>1, <2>3
  <2>5. /\ plan[S].order = Append(o, p) /\ Len(Append(o, p)) = n + 1
        /\ Append(o, p)[n + 1] = p /\ \A k \in 1 .. n : Append(o, p)[k] = o[k]
    BY <2>1, <2>3, <2>4 DEF Extend
  <2>6. f = [k \in 0 .. n |-> IF k = 0 THEN Start(card, bound)
                            ELSE Extend(f[k - 1], entries, o[k])]
    BY <2>2, <2>3 DEF IsReplay
  <2> DEFINE g == [k \in 0 .. n + 1 |-> IF k = n + 1 THEN plan[S] ELSE f[k]]
  <2>7. ASSUME NEW k \in 0 .. n + 1
        PROVE  g[k] = IF k = 0 THEN Start(card, bound)
                      ELSE Extend(g[k - 1], entries, Append(o, p)[k])
    <3>1. CASE k = n + 1
      <4>1. k # 0 /\ k - 1 = n /\ g[k] = plan[S] /\ g[n] = f[n]
        BY <2>4, <3>1
      <4>2. f[n] = plan[S \ {p}]
        BY <2>2, <2>3
      <4> HIDE DEF g
      <4>3. QED
        BY <2>1, <2>5, <3>1, <4>1, <4>2
    <3>2. CASE k # n + 1
      <4>1. k \in 0 .. n /\ g[k] = f[k] /\ (k # 0 => g[k - 1] = f[k - 1] /\ k \in 1 .. n)
        BY <2>4, <3>2
      <4>2. f[k] = IF k = 0 THEN Start(card, bound)
                   ELSE Extend(f[k - 1], entries, o[k])
        BY <2>6, <4>1, Zenon
      <4> HIDE DEF g
      <4>3. QED
        BY <2>5, <4>1, <4>2
    <3>3. QED
      BY <3>1, <3>2
  <2>8. g = [k \in 0 .. n + 1 |-> g[k]] /\ g[n + 1] = plan[S]
    BY <2>4
  <2> HIDE DEF g
  <2>9. Replays(g, Append(o, p))
    BY <2>5, <2>7, <2>8 DEF IsReplay
  <2>10. QED
    BY <2>5, <2>8, <2>9
<1>4. Bad = {}
  <2> SUFFICES ASSUME Bad # {} PROVE FALSE
    OBVIOUS
  <2>1. Bad \in SUBSET Nat
    OBVIOUS
  <2>2. PICK n \in Bad : \A k \in Bad : n <= k
    <3> HIDE DEF Bad
    <3>1. QED
      BY <2>1, LeastNatural
  <2>3. PICK S \in SUBSET All : Cardinality(S) = n /\ ~Good(S)
    BY <2>2
  <2> HIDE DEF Good
  <2>4. ASSUME NEW i \in S PROVE Good(S \ {i})
    <3>1. S \ {i} \in SUBSET All /\ Cardinality(S \ {i}) = n - 1 /\ n - 1 \in Nat
      BY <1>1, <2>3
    <3>2. n - 1 \notin Bad
      BY <2>2, <3>1
    <3>3. QED
      BY <3>1, <3>2
  <2>5. QED
    BY <1>2, <1>3, <2>3, <2>4
<1>5. ASSUME NEW S \in SUBSET All
      PROVE  ReplayedPlan(entries, card, bound, plan[S].order) = plan[S]
  <2>1. Good(S)
    <3> HIDE DEF Good
    <3>1. QED
      BY <1>1, <1>4
  <2>2. PICK f : Replays(f, plan[S].order) /\ f[Len(plan[S].order)] = plan[S]
    BY <2>1
  <2>3. Len(plan[S].order) \in Nat
    BY <1>1
  <2>4. QED
    BY <2>2, <2>3, ReplayIs
<1>6. QED
  BY <1>0, <1>5

(* What two joins cost, in either order.                                   *)
LEMMA ReplayOfTwo ==
  ASSUME NEW entries, NEW card, NEW bound, NEW i, NEW j
  PROVE  ReplayedPlan(entries, card, bound, << i, j >>)
           = Extend(Extend(Start(card, bound), entries, i), entries, j)
<1> DEFINE first == Extend(Start(card, bound), entries, i)
           second == Extend(first, entries, j)
           f == [k \in 0 .. 2 |-> IF k = 0 THEN Start(card, bound)
                                  ELSE IF k = 1 THEN first ELSE second]
           then(k) == IF k = 0 THEN Start(card, bound)
                      ELSE Extend(f[k - 1], entries, << i, j >>[k])
<1>1. Len(<< i, j >>) = 2 /\ << i, j >>[1] = i /\ << i, j >>[2] = j
  OBVIOUS
<1>2. f[0] = Start(card, bound) /\ f[1] = first /\ f[2] = second
  OBVIOUS
<1>3. f[0] = then(0) /\ f[1] = then(1) /\ f[2] = then(2)
  <2> HIDE DEF f
  <2>1. QED
    BY <1>1, <1>2
<1>4. f = [k \in 0 .. 2 |-> f[k]]
  OBVIOUS
<1>5. ASSUME NEW k \in 0 .. 2 PROVE f[k] = then(k)
  <2> HIDE DEF f, then
  <2>1. k = 0 \/ k = 1 \/ k = 2
    OBVIOUS
  <2>2. QED
    BY <1>3, <2>1
<1>6. IsReplay(f, entries, card, bound, << i, j >>)
  <2> HIDE DEF f
  <2>1. f = [k \in 0 .. 2 |-> then(k)]
    <3> HIDE DEF then
    <3>1. QED
      BY <1>4, <1>5
  <2>2. QED
    BY <1>1, <2>1 DEF IsReplay
<1>7. Len(<< i, j >>) \in Nat
  BY <1>1
<1> HIDE DEF f
<1>8. QED
  BY <1>1, <1>2, <1>6, <1>7, ReplayIs

(***************************************************************************)
(* The subset search over any block: the plan kept joins every pattern once *)
(* and costs what replaying its joins under the model costs                 *)
(* (join-order-search.ts); of two patterns it joins them in an order that   *)
(* no other beats.                                                          *)
(***************************************************************************)
THEOREM KeptPlanCosts ==
  ASSUME NEW entries, AreEntries(entries), NEW card \in Nat, NEW bound
  PROVE  LET plan == KeptPlan(entries, card, bound)
         IN  /\ plan.order \in Seq(DOMAIN entries) /\ ToSet(plan.order) = DOMAIN entries
             /\ Len(plan.order) = Cardinality(DOMAIN entries)
             /\ ReplayedPlan(entries, card, bound, plan.order) = plan
             /\ \A i, j : DOMAIN entries = {i, j} /\ i # j =>
                  ~Less(ReplayedPlan(entries, card, bound, << i, j >>).cost, plan.cost)
<1>1. PICK plan : plan = Plans(entries, card, bound)
  OBVIOUS
<1>2. \A S \in SUBSET DOMAIN entries : KeepsBest(plan, entries, S)
  BY <1>1, PlansKeepBest
<1>3. KeptPlan(entries, card, bound) = plan[DOMAIN entries]
  BY <1>1 DEF KeptPlan
<1>4. ReplayedPlan(entries, card, bound, plan[DOMAIN entries].order) = plan[DOMAIN entries]
  BY <1>1, PlansReplay
<1>5. ASSUME NEW i, NEW j, DOMAIN entries = {i, j}, i # j
      PROVE  ~Less(ReplayedPlan(entries, card, bound, << i, j >>).cost, plan[DOMAIN entries].cost)
  <2>1. plan[{}] = Start(card, bound)
    BY <1>1, PlansUnfold DEF AreEntries
  <2>2. {i} \in SUBSET DOMAIN entries /\ {i} \ {i} = {} /\ DOMAIN entries \ {j} = {i}
    BY <1>5
  <2>3. KeepsBest(plan, entries, {i}) /\ KeepsBest(plan, entries, DOMAIN entries)
    BY <1>2, <2>2
  <2>4. plan[{i}] = Extend(plan[{}], entries, i)
    BY <2>2, <2>3 DEF KeepsBest
  <2>5. ~Less(Extend(plan[{i}], entries, j).cost, plan[DOMAIN entries].cost)
    BY <1>5, <2>2, <2>3 DEF KeepsBest
  <2>6. QED
    BY <2>1, <2>4, <2>5, ReplayOfTwo
<1>6. QED
  BY <1>2, <1>3, <1>4, <1>5 DEF KeepsBest

(***************************************************************************)
(* Sequences of solutions                                                   *)
(***************************************************************************)
IsRows(s) == s \in Seq(ToSet(s))

LEMMA RowsAre ==
  ASSUME NEW S, NEW s \in Seq(S)
  PROVE  IsRows(s) /\ Len(s) \in Nat /\ DOMAIN s = 1 .. Len(s) /\ ToSet(s) \subseteq S
<1>1. Len(s) \in Nat /\ DOMAIN s = 1 .. Len(s) /\ s = [i \in 1 .. Len(s) |-> s[i]]
  OBVIOUS
<1>2. ToSet(s) \subseteq S
  BY DEF ToSet
<1>3. \A i \in 1 .. Len(s) : s[i] \in ToSet(s)
  BY <1>1 DEF ToSet
<1>4. QED
  BY <1>1, <1>2, <1>3 DEF IsRows

LEMMA RowsLength ==
  ASSUME NEW s, IsRows(s)
  PROVE  /\ Len(s) \in Nat /\ DOMAIN s = 1 .. Len(s)
         /\ s # <<>> => Len(s) \in 1 .. Len(s) /\ Len(s) - 1 \in Nat
         /\ s = <<>> <=> Len(s) = 0
<1>1. s \in Seq(ToSet(s))
  BY DEF IsRows
<1>2. QED
  BY <1>1

(***************************************************************************)
(* The sequences of a sequence, one after the other                         *)
(***************************************************************************)
\* The elements of the first n sequences.
FirstSets(seqs, n) == UNION {ToSet(seqs[i]) : i \in 1 .. n}

LEMMA FlattenMembers ==
  ASSUME NEW S, NEW seqs \in Seq(Seq(S))
  PROVE  /\ FlattenSeq(seqs) \in Seq(S)
         /\ ToSet(FlattenSeq(seqs)) = UNION {ToSet(seqs[i]) : i \in DOMAIN seqs}
         /\ /\ \A i \in DOMAIN seqs : IsInjective(seqs[i])
            /\ \A i, j \in DOMAIN seqs : i # j => ToSet(seqs[i]) \cap ToSet(seqs[j]) = {}
            => IsInjective(FlattenSeq(seqs))
<1>1. PICK m : m = Len(seqs) /\ m \in Nat /\ DOMAIN seqs = 1 .. m /\ \A i \in 1 .. m : seqs[i] \in Seq(S)
  OBVIOUS
<1>2. CASE m = 0
  <2>1. seqs = <<>> /\ DOMAIN seqs = {}
    BY <1>1, <1>2
  <2>2. FlattenSeq(seqs) = <<>>
    BY <2>1 DEF FlattenSeq
  <2>3. <<>> \in Seq(S) /\ DOMAIN <<>> = {} /\ ToSet(<<>>) = {} /\ IsInjective(<<>>)
    BY DEF ToSet, IsInjective
  <2>4. UNION {ToSet(seqs[i]) : i \in DOMAIN seqs} = {}
    BY <2>1
  <2>5. QED
    BY <2>2, <2>3, <2>4
<1>3. CASE m # 0
  <2>1. PICK f : /\ f[1] = seqs[1]
                 /\ \A i \in 2 .. m : f[i] = f[i - 1] \o seqs[i]
                 /\ FlattenSeq(seqs) = f[m]
    BY <1>1, <1>3, FlattenUnfold
  <2> DEFINE Disjoint == /\ \A i \in DOMAIN seqs : IsInjective(seqs[i])
                         /\ \A i, j \in DOMAIN seqs : i # j => ToSet(seqs[i]) \cap ToSet(seqs[j]) = {}
             Good(n) == f[n] \in Seq(S) /\ ToSet(f[n]) = FirstSets(seqs, n) /\ (Disjoint => IsInjective(f[n]))
             Bad == {n \in 1 .. m : ~Good(n)}
  <2>2. Good(1)
    <3>1. 1 \in 1 .. m /\ 1 .. 1 = {1}
      BY <1>1, <1>3
    <3>2. FirstSets(seqs, 1) = ToSet(seqs[1])
      BY <3>1 DEF FirstSets
    <3>3. QED
      BY <1>1, <2>1, <3>1, <3>2
  <2>3. ASSUME NEW n \in 2 .. m, Good(n - 1)
        PROVE  Good(n)
    <3>1. n \in 1 .. m /\ n - 1 \in 1 .. m /\ 1 .. n = (1 .. n - 1) \cup {n} /\ n \notin 1 .. n - 1
          /\ 1 .. n - 1 \subseteq 1 .. m
      BY <1>1
    <3>2. f[n] = f[n - 1] \o seqs[n] /\ seqs[n] \in Seq(S) /\ f[n - 1] \in Seq(S)
      BY <1>1, <2>1, <2>3, <3>1
    <3>3. FirstSets(seqs, n) = FirstSets(seqs, n - 1) \cup ToSet(seqs[n])
      BY <3>1 DEF FirstSets
    <3>4. Disjoint => ToSet(f[n - 1]) \cap ToSet(seqs[n]) = {}
      <4>1. ASSUME Disjoint, NEW x \in ToSet(f[n - 1]) \cap ToSet(seqs[n])
            PROVE  FALSE
        <5>1. PICK i \in 1 .. n - 1 : x \in ToSet(seqs[i])
          BY <2>3, <4>1 DEF FirstSets
        <5>2. i \in DOMAIN seqs /\ n \in DOMAIN seqs /\ i # n
          BY <1>1, <3>1, <5>1
        <5>3. ToSet(seqs[i]) \cap ToSet(seqs[n]) = {}
          BY <4>1, <5>2
        <5>4. QED
          BY <4>1, <5>1, <5>3
      <4>2. QED
        BY <4>1
    <3>5. Disjoint => IsInjective(seqs[n])
      BY <1>1, <3>1
    <3> HIDE DEF Disjoint
    <3>6. QED
      BY <2>3, <3>2, <3>3, <3>4, <3>5, Concatenated
  <2>4. Bad = {}
    <3>1. Bad \in SUBSET Nat
      BY <1>1
    <3> HIDE DEF Good
    <3>2. SUFFICES ASSUME Bad # {} PROVE FALSE
      OBVIOUS
    <3>3. PICK n \in Bad : \A k \in Bad : n <= k
      <4> HIDE DEF Bad
      <4>1. QED
        BY <3>1, <3>2, LeastNatural
    <3>4. CASE n = 1
      BY <2>2, <3>3, <3>4
    <3>5. CASE n # 1
      <4>1. n \in 2 .. m /\ n - 1 \in 1 .. m /\ n - 1 \notin Bad
        BY <1>1, <3>3, <3>5
      <4>2. QED
        BY <2>3, <3>3, <4>1
    <3>6. QED
      BY <3>4, <3>5
  <2>5. Good(m)
    <3> HIDE DEF Good
    <3>1. m \in 1 .. m
      BY <1>1, <1>3
    <3>2. QED
      BY <2>4, <3>1
  <2>6. FirstSets(seqs, m) = UNION {ToSet(seqs[i]) : i \in DOMAIN seqs}
    BY <1>1 DEF FirstSets
  <2>7. QED
    BY <2>1, <2>5, <2>6
<1>4. QED
  BY <1>2, <1>3

(***************************************************************************)
(* One solution and one quad                                                *)
(***************************************************************************)
IsMapping(m) == m = [v \in DOMAIN m |-> m[v]]

\* The quad has the terms of the pattern.
HasTerms(q, triple) ==
    /\ triple.s \notin QueryVariables => q[1] = triple.s
    /\ triple.p \notin QueryVariables => q[2] = triple.p
    /\ triple.o \notin QueryVariables => q[3] = triple.o

\* m extends b to the variables of the pattern, so that it becomes the triple of the quad.
IsExtension(m, b, triple, q) ==
    /\ IsMapping(m) /\ DOMAIN m = DOMAIN b \cup TripleVars(triple)
    /\ \A v \in DOMAIN b : m[v] = b[v]
    /\ Instance(triple, m) = << q[1], q[2], q[3] >>

\* c is b with the variable position bound to term.
Binds(c, b, position, term) ==
    /\ IsMapping(c) /\ DOMAIN c = DOMAIN b \cup ({position} \cap QueryVariables)
    /\ \A v \in DOMAIN b : c[v] = b[v]
    /\ position \in QueryVariables => c[position] = term

LEMMA MatchedIs ==
  ASSUME NEW b, NEW position, NEW term, IsMapping(b)
  PROVE  \/ /\ Matched(<< b >>, position, term) = <<>>
            /\ position \in QueryVariables \cap DOMAIN b /\ b[position] # term
         \/ \E c : Matched(<< b >>, position, term) = << c >> /\ Binds(c, b, position, term)
<1>1. << b >> # <<>> /\ << b >>[1] = b
  OBVIOUS
<1>2. CASE position \notin QueryVariables
  <2>1. Matched(<< b >>, position, term) = << b >>
    BY <1>2 DEF Matched
  <2>2. Binds(b, b, position, term)
    BY <1>2 DEF Binds
  <2>3. QED
    BY <2>1, <2>2
<1>3. CASE position \in QueryVariables
  <2>1. Matched(<< b >>, position, term) = Bound(b, position, term)
    BY <1>1, <1>3 DEF Matched
  <2>2. CASE position \in DOMAIN b /\ b[position] = term
    <3>1. Bound(b, position, term) = << b >>
      BY <2>2 DEF Bound
    <3>2. Binds(b, b, position, term)
      BY <2>2 DEF Binds
    <3>3. QED
      BY <2>1, <3>1, <3>2
  <2>3. CASE position \in DOMAIN b /\ b[position] # term
    BY <1>3, <2>1, <2>3 DEF Bound
  <2>4. CASE position \notin DOMAIN b
    <3>1. PICK c : c = [v \in DOMAIN b \cup {position} |-> IF v = position THEN term ELSE b[v]]
      OBVIOUS
    <3>2. Bound(b, position, term) = << c >>
      BY <2>4, <3>1 DEF Bound
    <3>3. Binds(c, b, position, term)
      <4>1. DOMAIN c = DOMAIN b \cup {position} /\ c[position] = term
        BY <3>1
      <4>2. \A v \in DOMAIN b : c[v] = b[v]
        BY <2>4, <3>1
      <4>3. IsMapping(c)
        BY <3>1 DEF IsMapping
      <4>4. QED
        BY <1>3, <4>1, <4>2, <4>3 DEF Binds
    <3>4. QED
      BY <2>1, <3>2, <3>3
  <2>5. QED
    BY <2>2, <2>3, <2>4
<1>4. QED
  BY <1>2, <1>3

LEMMA MatchedNothing ==
  ASSUME NEW position, NEW term
  PROVE  Matched(<<>>, position, term) = <<>>
BY DEF Matched

\* What an extension gives the variables of a pattern.
LEMMA ExtensionBinds ==
  ASSUME NEW m, NEW b, NEW triple, NEW q, IsExtension(m, b, triple, q)
  PROVE  /\ triple.s \in QueryVariables => triple.s \in DOMAIN m /\ m[triple.s] = q[1]
         /\ triple.p \in QueryVariables => triple.p \in DOMAIN m /\ m[triple.p] = q[2]
         /\ triple.o \in QueryVariables => triple.o \in DOMAIN m /\ m[triple.o] = q[3]
<1>1. {triple.s, triple.p, triple.o} \cap QueryVariables \subseteq DOMAIN m
  BY DEF IsExtension, TripleVars
<1>2. /\ Resolve(triple.s, m) = q[1] /\ Resolve(triple.p, m) = q[2] /\ Resolve(triple.o, m) = q[3]
  BY DEF IsExtension, Instance
<1>3. QED
  BY <1>1, <1>2 DEF Resolve

LEMMA ExtensionsEqual ==
  ASSUME NEW m, NEW n, NEW b, NEW triple, NEW q,
         IsExtension(m, b, triple, q), IsExtension(n, b, triple, q)
  PROVE  m = n
<1>1. DOMAIN m = DOMAIN n /\ m = [v \in DOMAIN m |-> m[v]] /\ n = [v \in DOMAIN n |-> n[v]]
  BY DEF IsExtension, IsMapping
<1>2. ASSUME NEW v \in DOMAIN m PROVE m[v] = n[v]
  <2>1. CASE v \in DOMAIN b
    BY <2>1 DEF IsExtension
  <2>2. CASE v \in TripleVars(triple)
    BY <2>2, ExtensionBinds DEF TripleVars
  <2>3. QED
    BY <2>1, <2>2 DEF IsExtension
<1>3. QED
  BY <1>1, <1>2

LEMMA ExtendedIs ==
  ASSUME NEW b, NEW triple, NEW q, IsMapping(b), HasTerms(q, triple)
  PROVE  \/ Extended(b, triple, q) = <<>> /\ \A m : ~IsExtension(m, b, triple, q)
         \/ \E m : Extended(b, triple, q) = << m >> /\ IsExtension(m, b, triple, q)
<1>1. PICK one, two, three : /\ one = Matched(<< b >>, triple.s, q[1])
                             /\ two = Matched(one, triple.p, q[2])
                             /\ three = Matched(two, triple.o, q[3])
  OBVIOUS
<1>2. Extended(b, triple, q) = three
  BY <1>1 DEF Extended
<1>3. CASE one = <<>>
  <2>1. three = <<>> /\ triple.s \in QueryVariables \cap DOMAIN b /\ b[triple.s] # q[1]
    <3>1. three = <<>>
      BY <1>1, <1>3, MatchedNothing
    <3>2. QED
      BY <1>1, <1>3, <3>1, MatchedIs
  <2>2. ASSUME NEW m, IsExtension(m, b, triple, q) PROVE FALSE
    <3>1. m[triple.s] = q[1]
      BY <2>1, <2>2, ExtensionBinds
    <3>2. m[triple.s] = b[triple.s]
      BY <2>1, <2>2 DEF IsExtension
    <3>3. QED
      BY <2>1, <3>1, <3>2
  <2>3. QED
    BY <1>2, <2>1, <2>2
<1>4. CASE one # <<>>
  <2>1. PICK c : one = << c >> /\ Binds(c, b, triple.s, q[1])
    BY <1>1, <1>4, MatchedIs
  <2>2. ASSUME NEW m, IsExtension(m, b, triple, q) PROVE \A v \in DOMAIN c : m[v] = c[v]
    BY <2>1, <2>2, ExtensionBinds DEF IsExtension, Binds
  <2>3. IsMapping(c)
    BY <2>1 DEF Binds
  <2>4. CASE two = <<>>
    <3>1. three = <<>> /\ triple.p \in QueryVariables \cap DOMAIN c /\ c[triple.p] # q[2]
      <4>1. three = <<>>
        BY <1>1, <2>4, MatchedNothing
      <4>2. Matched(<< c >>, triple.p, q[2]) = <<>> /\ \A x : << x >> # <<>>
        BY <1>1, <2>1, <2>4
      <4>3. QED
        BY <2>3, <4>1, <4>2, MatchedIs
    <3>2. ASSUME NEW m, IsExtension(m, b, triple, q) PROVE FALSE
      BY <2>2, <3>1, <3>2, ExtensionBinds
    <3>3. QED
      BY <1>2, <3>1, <3>2
  <2>5. CASE two # <<>>
    <3>1. PICK d : two = << d >> /\ Binds(d, c, triple.p, q[2])
      <4>1. Matched(<< c >>, triple.p, q[2]) = two
        BY <1>1, <2>1
      <4>2. QED
        BY <2>3, <2>5, <4>1, MatchedIs
    <3>2. ASSUME NEW m, IsExtension(m, b, triple, q) PROVE \A v \in DOMAIN d : m[v] = d[v]
      BY <2>2, <3>1, <3>2, ExtensionBinds DEF Binds
    <3>3. IsMapping(d)
      BY <3>1 DEF Binds
    <3>4. CASE three = <<>>
      <4>1. triple.o \in QueryVariables \cap DOMAIN d /\ d[triple.o] # q[3]
        <5>1. Matched(<< d >>, triple.o, q[3]) = <<>> /\ \A x : << x >> # <<>>
          BY <1>1, <3>1, <3>4
        <5>2. QED
          BY <3>3, <5>1, MatchedIs
      <4>2. ASSUME NEW m, IsExtension(m, b, triple, q) PROVE FALSE
        BY <3>2, <4>1, <4>2, ExtensionBinds
      <4>3. QED
        BY <1>2, <3>4, <4>2
    <3>5. CASE three # <<>>
      <4>1. PICK e : three = << e >> /\ Binds(e, d, triple.o, q[3])
        <5>1. Matched(<< d >>, triple.o, q[3]) = three
          BY <1>1, <3>1
        <5>2. QED
          BY <3>3, <3>5, <5>1, MatchedIs
      <4>2. IsMapping(e) /\ DOMAIN e = DOMAIN b \cup TripleVars(triple)
        BY <2>1, <3>1, <4>1 DEF Binds, TripleVars
      <4>3. \A v \in DOMAIN b : e[v] = b[v]
        BY <2>1, <3>1, <4>1 DEF Binds
      <4>4. /\ triple.s \in QueryVariables => triple.s \in DOMAIN e /\ e[triple.s] = q[1]
            /\ triple.p \in QueryVariables => triple.p \in DOMAIN e /\ e[triple.p] = q[2]
            /\ triple.o \in QueryVariables => triple.o \in DOMAIN e /\ e[triple.o] = q[3]
        BY <2>1, <3>1, <4>1 DEF Binds
      <4>5. Resolve(triple.s, e) = q[1] /\ Resolve(triple.p, e) = q[2] /\ Resolve(triple.o, e) = q[3]
        BY <4>4 DEF HasTerms, Resolve
      <4>6. IsExtension(e, b, triple, q)
        BY <4>2, <4>3, <4>5 DEF IsExtension, Instance
      <4>7. QED
        BY <1>2, <4>1, <4>6
    <3>6. QED
      BY <3>4, <3>5
  <2>6. QED
    BY <2>4, <2>5
<1>5. QED
  BY <1>3, <1>4

(***************************************************************************)
(* One triple pattern                                                       *)
(***************************************************************************)
\* A graph of a store: no quad twice, and quads that differ do so in their triple.
IsGraph(quads) ==
    /\ IsRows(quads) /\ IsInjective(quads)
    /\ \A p, q \in ToSet(quads) : << p[1], p[2], p[3] >> = << q[1], q[2], q[3] >> => p = q

\* A pool of quads for the solution b: those that can extend it are among them.
IsPool(pool, b, triple, quads) ==
    /\ IsRows(pool) /\ IsInjective(pool)
    /\ \A q \in ToSet(pool) : q \in ToSet(quads) /\ HasTerms(q, triple)
    /\ \A m, q : q \in ToSet(quads) /\ IsExtension(m, b, triple, q) => q \in ToSet(pool)

LEMMA AgreeingIs ==
  ASSUME NEW quads, NEW triple, NEW b, NEW c, IsGraph(quads), IsClosed(triple),
         \A v \in DOMAIN c : v \in DOMAIN b /\ c[v] = b[v]
  PROVE  IsPool(Agreeing(quads, triple, c), b, triple, quads)
<1>1. PICK s, p, o : s = Resolve(triple.s, c) /\ p = Resolve(triple.p, c) /\ o = Resolve(triple.o, c)
  OBVIOUS
<1>2. PICK T : T = {q \in ToSet(quads) : /\ s = AnyTerm \/ q[1] = s
                                         /\ p = AnyTerm \/ q[2] = p
                                         /\ o = AnyTerm \/ q[3] = o}
  OBVIOUS
<1>3. Agreeing(quads, triple, c) = Kept(quads, T)
  BY <1>1, <1>2 DEF Agreeing, MatchQuads
<1>4. /\ IsRows(Kept(quads, T)) /\ ToSet(Kept(quads, T)) = T /\ IsInjective(Kept(quads, T))
  <2>1. quads \in Seq(ToSet(quads)) /\ IsInjective(quads)
    BY DEF IsGraph, IsRows
  <2>2. ToSet(quads) \cap T = T
    BY <1>2
  <2>3. QED
    BY <2>1, <2>2, KeptIsSeq, KeptMembers, RowsAre
<1>5. ASSUME NEW q \in T PROVE HasTerms(q, triple)
  <2>1. /\ triple.s \notin QueryVariables => s = triple.s /\ s # AnyTerm
        /\ triple.p \notin QueryVariables => p = triple.p /\ p # AnyTerm
        /\ triple.o \notin QueryVariables => o = triple.o /\ o # AnyTerm
    BY <1>1 DEF Resolve, IsClosed
  <2>2. QED
    BY <1>2, <1>5, <2>1 DEF HasTerms
<1>6. ASSUME NEW m, NEW q, q \in ToSet(quads), IsExtension(m, b, triple, q)
      PROVE  q \in T
  <2>1. Instance(triple, m) = << q[1], q[2], q[3] >> /\ \A v \in DOMAIN c : v \in DOMAIN m /\ m[v] = c[v]
    BY <1>6 DEF IsExtension
  <2>2. Resolve(triple.s, m) = q[1] /\ Resolve(triple.p, m) = q[2] /\ Resolve(triple.o, m) = q[3]
    BY <2>1 DEF Instance
  <2>3. (s = AnyTerm \/ q[1] = s) /\ (p = AnyTerm \/ q[2] = p) /\ (o = AnyTerm \/ q[3] = o)
    BY <1>1, <2>1, <2>2 DEF Resolve
  <2>4. QED
    BY <1>2, <1>6, <2>3
<1>7. QED
  BY <1>2, <1>3, <1>4, <1>5, <1>6 DEF IsPool

LEMMA PoolIs ==
  ASSUME NEW quads, NEW triple, NEW b, NEW prebuilt, IsGraph(quads), IsClosed(triple),
         prebuilt \in {<<>>, << quads >>}
  PROVE  IsPool(Pool(b, triple, Scan(quads, triple), prebuilt), b, triple, quads)
<1>1. IsPool(Scan(quads, triple), b, triple, quads)
  <2>1. DOMAIN NoBinding = {}
    BY DEF NoBinding
  <2>2. QED
    BY <2>1, AgreeingIs DEF Scan
<1>2. IsPool(Agreeing(quads, triple, b), b, triple, quads)
  BY AgreeingIs
<1>3. << quads >> # <<>> /\ << quads >>[1] = quads
  OBVIOUS
<1>4. QED
  BY <1>1, <1>2, <1>3 DEF Pool

LEMMA ExtendedByIs ==
  ASSUME NEW quads, NEW triple, NEW b, NEW pool, NEW rows, IsGraph(quads), IsMapping(b),
         IsPool(pool, b, triple, quads), rows = ExtendedBy(b, triple, pool)
  PROVE  /\ IsRows(rows) /\ IsInjective(rows)
         /\ \A m : m \in ToSet(rows) <=> \E q \in ToSet(quads) : IsExtension(m, b, triple, q)
<1>1. PICK parts : parts = [k \in DOMAIN pool |-> Extended(b, triple, pool[k])]
  OBVIOUS
<1>2. /\ Len(pool) \in Nat /\ DOMAIN pool = 1 .. Len(pool) /\ IsInjective(pool)
      /\ \A k \in DOMAIN pool : pool[k] \in ToSet(quads) /\ HasTerms(pool[k], triple)
      /\ \A m, q : q \in ToSet(quads) /\ IsExtension(m, b, triple, q) => \E k \in DOMAIN pool : q = pool[k]
  <2>1. pool \in Seq(ToSet(pool))
    BY DEF IsPool, IsRows
  <2>2. Len(pool) \in Nat /\ DOMAIN pool = 1 .. Len(pool)
    BY <2>1
  <2>3. QED
    BY <2>2 DEF IsPool, ToSet
<1>3. ASSUME NEW k \in DOMAIN pool
      PROVE  \/ parts[k] = <<>> /\ \A m : ~IsExtension(m, b, triple, pool[k])
             \/ \E m : parts[k] = << m >> /\ IsExtension(m, b, triple, pool[k])
  BY <1>1, <1>2, ExtendedIs
<1>4. ASSUME NEW k \in DOMAIN pool
      PROVE  /\ IsInjective(parts[k])
             /\ \A m : m \in ToSet(parts[k]) <=> IsExtension(m, b, triple, pool[k])
  <2>1. CASE parts[k] = <<>> /\ \A m : ~IsExtension(m, b, triple, pool[k])
    <3>1. IsInjective(<<>>) /\ ToSet(<<>>) = {}
      BY DEF IsInjective, ToSet
    <3>2. QED
      BY <2>1, <3>1
  <2>2. CASE \E m : parts[k] = << m >> /\ IsExtension(m, b, triple, pool[k])
    <3>1. PICK m : parts[k] = << m >> /\ IsExtension(m, b, triple, pool[k])
      BY <2>2
    <3>2. IsInjective(<< m >>) /\ ToSet(<< m >>) = {m}
      BY DEF IsInjective, ToSet
    <3>3. QED
      BY <3>1, <3>2, ExtensionsEqual
  <2>3. QED
    BY <1>3, <2>1, <2>2
<1>5. PICK R : R = {parts[k][1] : k \in DOMAIN pool}
  OBVIOUS
<1>6. parts \in Seq(Seq(R)) /\ DOMAIN parts = DOMAIN pool
  <2>1. ASSUME NEW k \in 1 .. Len(pool) PROVE parts[k] \in Seq(R)
    <3>1. k \in DOMAIN pool /\ (parts[k] = <<>> \/ \E m : parts[k] = << m >>)
      BY <1>2, <1>3
    <3>2. CASE parts[k] = <<>>
      BY <3>2
    <3>3. CASE \E m : parts[k] = << m >>
      <4>1. PICK m : parts[k] = << m >>
        BY <3>3
      <4>2. m = parts[k][1]
        BY <4>1
      <4>3. m \in R
        BY <1>5, <3>1, <4>2
      <4>4. QED
        BY <4>1, <4>3
    <3>4. QED
      BY <3>1, <3>2, <3>3
  <2>2. parts = [k \in 1 .. Len(pool) |-> parts[k]] /\ DOMAIN parts = 1 .. Len(pool)
    BY <1>1, <1>2
  <2>3. QED
    BY <1>2, <2>1, <2>2
<1>7. ASSUME NEW i \in DOMAIN pool, NEW j \in DOMAIN pool, i # j
      PROVE  ToSet(parts[i]) \cap ToSet(parts[j]) = {}
  <2>1. SUFFICES ASSUME NEW m, m \in ToSet(parts[i]), m \in ToSet(parts[j]) PROVE FALSE
    OBVIOUS
  <2>2. IsExtension(m, b, triple, pool[i]) /\ IsExtension(m, b, triple, pool[j])
    BY <1>4, <2>1
  <2>3. << pool[i][1], pool[i][2], pool[i][3] >> = << pool[j][1], pool[j][2], pool[j][3] >>
    BY <2>2 DEF IsExtension
  <2>4. pool[i] = pool[j]
    BY <1>2, <2>3 DEF IsGraph
  <2>5. QED
    BY <1>2, <1>7, <2>4 DEF IsInjective
<1>8. rows = FlattenSeq(parts)
  BY <1>1 DEF ExtendedBy
<1>9. /\ FlattenSeq(parts) \in Seq(R) /\ IsInjective(FlattenSeq(parts))
      /\ ToSet(FlattenSeq(parts)) = UNION {ToSet(parts[k]) : k \in DOMAIN parts}
  BY <1>4, <1>6, <1>7, FlattenMembers
<1>10. IsRows(rows) /\ IsInjective(rows)
  BY <1>8, <1>9, RowsAre
<1>11. ASSUME NEW m
       PROVE  m \in ToSet(rows) <=> \E q \in ToSet(quads) : IsExtension(m, b, triple, q)
  <2>1. m \in ToSet(rows) <=> \E k \in DOMAIN pool : m \in ToSet(parts[k])
    BY <1>6, <1>8, <1>9
  <2>2. m \in ToSet(rows) <=> \E k \in DOMAIN pool : IsExtension(m, b, triple, pool[k])
    BY <1>4, <2>1
  <2>3. QED
    BY <1>2, <2>2
<1>12. QED
  BY <1>10, <1>11

\* Solutions that bind the same variables, none of them twice.
AreSolutions(rows, vars) ==
    /\ IsRows(rows) /\ IsInjective(rows)
    /\ \A r \in ToSet(rows) : IsMapping(r) /\ DOMAIN r = vars

LEMMA JoinIs ==
  ASSUME NEW quads, NEW triple, NEW prebuilt, NEW rows, NEW vars, NEW joined,
         IsGraph(quads), IsClosed(triple), prebuilt \in {<<>>, << quads >>}, AreSolutions(rows, vars),
         joined = JoinTriplePattern(rows, triple, Scan(quads, triple), prebuilt)
  PROVE  /\ AreSolutions(joined, vars \cup TripleVars(triple))
         /\ \A m : m \in ToSet(joined)
                     <=> \E r \in ToSet(rows), q \in ToSet(quads) : IsExtension(m, r, triple, q)
<1>1. /\ Len(rows) \in Nat /\ DOMAIN rows = 1 .. Len(rows) /\ IsInjective(rows)
      /\ ToSet(rows) = {rows[i] : i \in DOMAIN rows}
      /\ \A i \in DOMAIN rows : IsMapping(rows[i]) /\ DOMAIN rows[i] = vars
  <2>1. rows \in Seq(ToSet(rows))
    BY DEF AreSolutions, IsRows
  <2>2. Len(rows) \in Nat /\ DOMAIN rows = 1 .. Len(rows)
    BY <2>1
  <2>3. QED
    BY <2>2 DEF AreSolutions, ToSet
<1>2. PICK parts : parts = [i \in DOMAIN rows |->
                      ExtendedBy(rows[i], triple, Pool(rows[i], triple, Scan(quads, triple), prebuilt))]
  OBVIOUS
<1>3. joined = FlattenSeq(parts)
  BY <1>2 DEF JoinTriplePattern
<1>4. ASSUME NEW i \in DOMAIN rows
      PROVE  /\ IsRows(parts[i]) /\ IsInjective(parts[i])
             /\ \A m : m \in ToSet(parts[i]) <=> \E q \in ToSet(quads) : IsExtension(m, rows[i], triple, q)
  <2>1. PICK pool, part : /\ pool = Pool(rows[i], triple, Scan(quads, triple), prebuilt)
                          /\ part = ExtendedBy(rows[i], triple, pool)
    OBVIOUS
  <2>2. IsPool(pool, rows[i], triple, quads) /\ IsMapping(rows[i]) /\ parts[i] = part
    BY <1>1, <1>2, <2>1, PoolIs
  <2>3. QED
    BY <2>1, <2>2, ExtendedByIs
<1>5. PICK R : R = UNION {ToSet(parts[i]) : i \in DOMAIN rows}
  OBVIOUS
<1>6. parts \in Seq(Seq(R)) /\ DOMAIN parts = DOMAIN rows
  <2>1. ASSUME NEW i \in 1 .. Len(rows) PROVE parts[i] \in Seq(R)
    <3>1. ToSet(parts[i]) \subseteq R /\ parts[i] \in Seq(ToSet(parts[i]))
      BY <1>1, <1>4, <1>5 DEF IsRows
    <3>2. QED
      BY <3>1
  <2>2. parts = [i \in 1 .. Len(rows) |-> parts[i]] /\ DOMAIN parts = 1 .. Len(rows)
    BY <1>1, <1>2
  <2>3. QED
    BY <1>1, <2>1, <2>2
<1>7. ASSUME NEW i \in DOMAIN rows, NEW j \in DOMAIN rows, i # j
      PROVE  ToSet(parts[i]) \cap ToSet(parts[j]) = {}
  <2>1. SUFFICES ASSUME NEW m, m \in ToSet(parts[i]), m \in ToSet(parts[j]) PROVE FALSE
    OBVIOUS
  <2>2. PICK p, q : IsExtension(m, rows[i], triple, p) /\ IsExtension(m, rows[j], triple, q)
    BY <1>4, <2>1
  <2>3. \A v \in vars : rows[i][v] = rows[j][v]
    BY <1>1, <2>2 DEF IsExtension
  <2>4. rows[i] = rows[j]
    BY <1>1, <2>3 DEF IsMapping
  <2>5. QED
    BY <1>1, <1>7, <2>4 DEF IsInjective
<1>8. /\ FlattenSeq(parts) \in Seq(R) /\ IsInjective(FlattenSeq(parts))
      /\ ToSet(FlattenSeq(parts)) = UNION {ToSet(parts[k]) : k \in DOMAIN parts}
  BY <1>4, <1>6, <1>7, FlattenMembers
<1>9. ASSUME NEW m
      PROVE  m \in ToSet(joined) <=> \E r \in ToSet(rows), q \in ToSet(quads) : IsExtension(m, r, triple, q)
  <2>1. m \in ToSet(joined) <=> \E i \in DOMAIN rows : m \in ToSet(parts[i])
    BY <1>3, <1>6, <1>8
  <2>2. m \in ToSet(joined)
          <=> \E i \in DOMAIN rows : \E q \in ToSet(quads) : IsExtension(m, rows[i], triple, q)
    BY <1>4, <2>1
  <2>3. QED
    BY <1>1, <2>2
<1>10. ASSUME NEW m \in ToSet(joined)
       PROVE  IsMapping(m) /\ DOMAIN m = vars \cup TripleVars(triple)
  <2>1. PICK r \in ToSet(rows), q \in ToSet(quads) : IsExtension(m, r, triple, q)
    BY <1>9
  <2>2. DOMAIN r = vars
    BY DEF AreSolutions
  <2>3. QED
    BY <2>1, <2>2 DEF IsExtension
<1>11. IsRows(joined) /\ IsInjective(joined)
  BY <1>3, <1>8, RowsAre
<1>12. QED
  BY <1>9, <1>10, <1>11 DEF AreSolutions

(***************************************************************************)
(* A block of triple patterns                                               *)
(***************************************************************************)
\* The solution m, less the variables outside vars.
LEMMA InstanceOfPart ==
  ASSUME NEW m, NEW r, NEW triple, TripleVars(triple) \subseteq DOMAIN r, DOMAIN r \subseteq DOMAIN m,
         \A v \in DOMAIN r : m[v] = r[v]
  PROVE  Instance(triple, m) = Instance(triple, r)
<1>1. ASSUME NEW t \in {triple.s, triple.p, triple.o} PROVE Resolve(t, m) = Resolve(t, r)
  <2>1. t \in QueryVariables => t \in DOMAIN r /\ t \in DOMAIN m /\ m[t] = r[t]
    BY DEF TripleVars
  <2>2. QED
    BY <2>1 DEF Resolve
<1>2. QED
  BY <1>1 DEF Instance

\* The values the solutions of a block may take.
ValuesOf(b, quads) == {b[v] : v \in DOMAIN b} \cup TermsOf(quads)

IsSolution(m, b, triples, joined, quads) ==
    /\ IsMapping(m) /\ DOMAIN m = DOMAIN b \cup BlockVars(triples, joined)
    /\ \A v \in DOMAIN m : m[v] \in ValuesOf(b, quads)
    /\ \A v \in DOMAIN b : m[v] = b[v]
    /\ \A k \in joined : \E q \in ToSet(quads) : Instance(triples[k], m) = << q[1], q[2], q[3] >>

LEMMA MappingsAre ==
  ASSUME NEW b, NEW triples, NEW joined, NEW quads, NEW m
  PROVE  m \in Mappings(b, triples, joined, quads) <=> IsSolution(m, b, triples, joined, quads)
<1>1. PICK D, V : D = DOMAIN b \cup BlockVars(triples, joined) /\ V = ValuesOf(b, quads)
  OBVIOUS
<1>2. m \in [D -> V] <=> IsMapping(m) /\ DOMAIN m = D /\ \A v \in DOMAIN m : m[v] \in V
  BY DEF IsMapping
<1>3. ASSUME NEW k \in joined
      PROVE  Instance(triples[k], m) \in Triples(quads)
                <=> \E q \in ToSet(quads) : Instance(triples[k], m) = << q[1], q[2], q[3] >>
  BY DEF Triples
<1>4. m \in Mappings(b, triples, joined, quads)
        <=> /\ m \in [D -> V]
            /\ \A v \in DOMAIN b : m[v] = b[v]
            /\ \A k \in joined : Instance(triples[k], m) \in Triples(quads)
  BY <1>1 DEF Mappings, ValuesOf
<1>5. QED
  BY <1>1, <1>2, <1>3, <1>4 DEF IsSolution

LEMMA MappingsStep ==
  ASSUME NEW b, NEW triples, NEW joined, NEW quads, NEW k, NEW m
  PROVE  m \in Mappings(b, triples, joined \cup {k}, quads)
         <=> \E r \in Mappings(b, triples, joined, quads), q \in ToSet(quads) :
               IsExtension(m, r, triples[k], q)
<1>1. PICK D : D = DOMAIN b \cup BlockVars(triples, joined)
  OBVIOUS
<1>2. DOMAIN b \cup BlockVars(triples, joined \cup {k}) = D \cup TripleVars(triples[k])
  BY <1>1 DEF BlockVars
<1>3. \A j \in joined : TripleVars(triples[j]) \subseteq D
  BY <1>1 DEF BlockVars
<1>4. ASSUME m \in Mappings(b, triples, joined \cup {k}, quads)
      PROVE  \E r \in Mappings(b, triples, joined, quads), q \in ToSet(quads) :
               IsExtension(m, r, triples[k], q)
  <2>1. /\ IsMapping(m) /\ DOMAIN m = D \cup TripleVars(triples[k])
        /\ \A v \in DOMAIN m : m[v] \in ValuesOf(b, quads)
        /\ \A v \in DOMAIN b : m[v] = b[v]
        /\ \A j \in joined \cup {k} : \E q \in ToSet(quads) : Instance(triples[j], m) = << q[1], q[2], q[3] >>
    <3>1. IsSolution(m, b, triples, joined \cup {k}, quads)
      BY <1>4, MappingsAre
    <3>2. QED
      BY <1>2, <3>1 DEF IsSolution
  <2>2. PICK r : r = [v \in D |-> m[v]]
    OBVIOUS
  <2>3. DOMAIN r = D /\ (\A v \in D : r[v] = m[v]) /\ IsMapping(r)
    BY <2>2 DEF IsMapping
  <2>4. \A j \in joined : Instance(triples[j], m) = Instance(triples[j], r)
    BY <1>3, <2>1, <2>3, InstanceOfPart
  <2>5. \A j \in joined : \E q \in ToSet(quads) : Instance(triples[j], r) = << q[1], q[2], q[3] >>
    BY <2>1, <2>4
  <2>6. DOMAIN b \subseteq D
    BY <1>1
  <2>7. (\A v \in DOMAIN r : r[v] \in ValuesOf(b, quads)) /\ (\A v \in DOMAIN b : r[v] = b[v])
    BY <2>1, <2>3, <2>6
  <2>8. r \in Mappings(b, triples, joined, quads)
    <3>1. IsSolution(r, b, triples, joined, quads)
      BY <1>1, <2>3, <2>5, <2>7 DEF IsSolution
    <3>2. QED
      BY <3>1, MappingsAre
  <2>9. PICK q \in ToSet(quads) : Instance(triples[k], m) = << q[1], q[2], q[3] >>
    BY <2>1
  <2>10. IsExtension(m, r, triples[k], q)
    BY <2>1, <2>3, <2>9 DEF IsExtension
  <2>11. QED
    BY <2>8, <2>10
<1>5. ASSUME NEW r \in Mappings(b, triples, joined, quads), NEW q \in ToSet(quads),
             IsExtension(m, r, triples[k], q)
      PROVE  m \in Mappings(b, triples, joined \cup {k}, quads)
  <2>1. /\ IsMapping(r) /\ DOMAIN r = D
        /\ \A v \in DOMAIN r : r[v] \in ValuesOf(b, quads)
        /\ \A v \in DOMAIN b : r[v] = b[v]
        /\ \A j \in joined : \E p \in ToSet(quads) : Instance(triples[j], r) = << p[1], p[2], p[3] >>
    <3>1. IsSolution(r, b, triples, joined, quads)
      BY MappingsAre
    <3>2. QED
      BY <1>1, <3>1 DEF IsSolution
  <2>2. /\ IsMapping(m) /\ DOMAIN m = D \cup TripleVars(triples[k])
        /\ \A v \in D : m[v] = r[v]
        /\ Instance(triples[k], m) = << q[1], q[2], q[3] >>
    BY <1>5, <2>1 DEF IsExtension
  <2>3. ASSUME NEW v \in DOMAIN m PROVE m[v] \in ValuesOf(b, quads)
    <3>1. CASE v \in D
      BY <2>1, <2>2, <3>1
    <3>2. CASE v \in TripleVars(triples[k])
      <4>1. m[v] \in {q[1], q[2], q[3]}
        BY <1>5, <3>2, ExtensionBinds DEF TripleVars
      <4>2. {q[1], q[2], q[3]} \subseteq TermsOf(quads)
        BY DEF TermsOf
      <4>3. QED
        BY <4>1, <4>2 DEF ValuesOf
    <3>3. QED
      BY <2>2, <3>1, <3>2
  <2>4. \A v \in DOMAIN b : m[v] = b[v]
    BY <1>1, <2>1, <2>2
  <2>5. \A j \in joined : Instance(triples[j], m) = Instance(triples[j], r)
    BY <1>3, <2>1, <2>2, InstanceOfPart
  <2>6. \A j \in joined \cup {k} : \E p \in ToSet(quads) : Instance(triples[j], m) = << p[1], p[2], p[3] >>
    BY <2>1, <2>2, <2>5
  <2>7. QED
    <3>1. IsSolution(m, b, triples, joined \cup {k}, quads)
      BY <1>2, <2>2, <2>3, <2>4, <2>6 DEF IsSolution
    <3>2. QED
      BY <3>1, MappingsAre
<1>6. QED
  BY <1>4, <1>5

\* f holds the solutions after the first n joins, for n up to m.
IsJoins(f, rows, triples, order, quads, prebuilt, m) ==
  f = [n \in 0 .. m |-> IF n = 0 THEN rows
                        ELSE JoinTriplePattern(f[n - 1], triples[order[n]],
                                               Scan(quads, triples[order[n]]), prebuilt)]

LEMMA JoinsExist ==
  ASSUME NEW rows, NEW triples, NEW order, NEW quads, NEW prebuilt
  PROVE  \A m \in Nat : \E f : IsJoins(f, rows, triples, order, quads, prebuilt, m)
<1> DEFINE Joins(f, m) == IsJoins(f, rows, triples, order, quads, prebuilt, m)
           Bad == {m \in Nat : ~ \E f : Joins(f, m)}
<1> SUFFICES ASSUME Bad # {}
             PROVE  FALSE
  OBVIOUS
<1>1. PICK m \in Bad : \A k \in Bad : m <= k
  <2>1. Bad \in SUBSET Nat
    OBVIOUS
  <2> HIDE DEF Bad
  <2>2. QED
    BY <2>1, LeastNatural
<1>2. CASE m = 0
  <2>1. Joins([n \in 0 .. 0 |-> rows], 0)
    BY DEF IsJoins
  <2>2. QED
    BY <1>1, <1>2, <2>1
<1>3. CASE m # 0
  <2>1. m \in Nat /\ m - 1 \in Nat /\ m - 1 \notin Bad
    BY <1>1, <1>3
  <2>2. PICK f : Joins(f, m - 1)
    BY <2>1
  <2> DEFINE then(g, n) == IF n = 0 THEN rows
                           ELSE JoinTriplePattern(g[n - 1], triples[order[n]],
                                                  Scan(quads, triples[order[n]]), prebuilt)
             g == [n \in 0 .. m |-> IF n = m THEN then(f, m) ELSE f[n]]
  <2>3. ASSUME NEW n \in 0 .. m
        PROVE  g[n] = then(g, n)
    <3>1. n # 0 => g[n - 1] = f[n - 1]
      BY <2>1
    <3>2. CASE n = m
      BY <1>3, <2>1, <3>1, <3>2
    <3>3. CASE n # m
      <4>1. n \in 0 .. m - 1 /\ g[n] = f[n]
        BY <2>1, <3>3
      <4>2. f[n] = then(f, n)
        BY <2>2, <4>1 DEF IsJoins
      <4>3. QED
        BY <3>1, <4>1, <4>2
    <3>4. QED
      BY <3>2, <3>3
  <2>4. Joins(g, m)
    BY <2>3 DEF IsJoins
  <2>5. QED
    BY <1>1, <2>4
<1>4. QED
  BY <1>2, <1>3

LEMMA JoinsUnfold ==
  ASSUME NEW rows, NEW triples, NEW order, NEW quads, NEW prebuilt, Len(order) \in Nat
  PROVE  /\ BlockJoins(rows, triples, order, quads, prebuilt)[0] = rows
         /\ \A n \in 1 .. Len(order) :
              BlockJoins(rows, triples, order, quads, prebuilt)[n]
                = JoinTriplePattern(BlockJoins(rows, triples, order, quads, prebuilt)[n - 1],
                                    triples[order[n]], Scan(quads, triples[order[n]]), prebuilt)
<1>1. PICK f : f = BlockJoins(rows, triples, order, quads, prebuilt)
  OBVIOUS
<1>2. f = CHOOSE g : IsJoins(g, rows, triples, order, quads, prebuilt, Len(order))
  BY <1>1 DEF BlockJoins, IsJoins
<1>3. IsJoins(f, rows, triples, order, quads, prebuilt, Len(order))
  BY <1>2, JoinsExist
<1>4. \A n \in 0 .. Len(order) :
        f[n] = IF n = 0 THEN rows
               ELSE JoinTriplePattern(f[n - 1], triples[order[n]], Scan(quads, triples[order[n]]), prebuilt)
  BY <1>3 DEF IsJoins
<1>5. f[0] = rows
  BY <1>4
<1>6. ASSUME NEW n \in 1 .. Len(order)
      PROVE  f[n] = JoinTriplePattern(f[n - 1], triples[order[n]], Scan(quads, triples[order[n]]), prebuilt)
  <2>1. n \in 0 .. Len(order) /\ n # 0
    OBVIOUS
  <2>2. QED
    BY <1>4, <2>1
<1>7. QED
  BY <1>1, <1>5, <1>6

\* Whatever the order of its joins, a block yields every solution that puts all its
\* triples into the graph, and none twice: neither the planner nor an index of a
\* snapshot changes what a basic graph pattern means (bgp-evaluator.ts:
\* evaluateWithReordering, join-triple-pattern.ts: joinTriplePattern).
THEOREM BlockMeansItsTriples ==
  ASSUME NEW b, NEW triples, NEW order, NEW quads, NEW prebuilt, NEW K, NEW rows,
         IsMapping(b), IsGraph(quads), prebuilt \in {<<>>, << quads >>},
         order \in Seq(K), ToSet(order) = K, \A k \in K : IsClosed(triples[k]),
         rows = JoinedInOrder(<< b >>, triples, order, quads, prebuilt)
  PROVE  IsInjective(rows) /\ ToSet(rows) = Mappings(b, triples, K, quads)
<1>1. PICK N, f : N = Len(order) /\ f = BlockJoins(<< b >>, triples, order, quads, prebuilt)
  OBVIOUS
<1>2. N \in Nat /\ DOMAIN order = 1 .. N /\ \A n \in 1 .. N : order[n] \in K
  BY <1>1
<1>3. /\ f[0] = << b >>
      /\ \A n \in 1 .. N : f[n] = JoinTriplePattern(f[n - 1], triples[order[n]],
                                                    Scan(quads, triples[order[n]]), prebuilt)
  BY <1>1, <1>2, JoinsUnfold
<1> DEFINE Joined(n) == {order[i] : i \in 1 .. n}
           Good(n) == /\ AreSolutions(f[n], DOMAIN b \cup BlockVars(triples, Joined(n)))
                      /\ \A m : m \in ToSet(f[n]) <=> m \in Mappings(b, triples, Joined(n), quads)
           Bad == {n \in 0 .. N : ~Good(n)}
<1>4. Good(0)
  <2>1. Joined(0) = {} /\ BlockVars(triples, Joined(0)) = {}
    BY DEF BlockVars
  <2>2. IsRows(<< b >>) /\ IsInjective(<< b >>) /\ ToSet(<< b >>) = {b}
    <3>1. << b >> \in Seq({b}) /\ ToSet(<< b >>) = {b}
      BY DEF ToSet
    <3>2. IsInjective(<< b >>)
      BY DEF IsInjective
    <3>3. QED
      BY <3>1, <3>2 DEF IsRows
  <2>3. ASSUME NEW m PROVE m = b <=> m \in Mappings(b, triples, Joined(0), quads)
    <3>1. m \in Mappings(b, triples, Joined(0), quads)
            <=> /\ IsMapping(m) /\ DOMAIN m = DOMAIN b
                /\ \A v \in DOMAIN m : m[v] \in ValuesOf(b, quads)
                /\ \A v \in DOMAIN b : m[v] = b[v]
      <4> HIDE DEF Joined
      <4>1. DOMAIN b \cup BlockVars(triples, Joined(0)) = DOMAIN b
        BY <2>1
      <4>2. m \in Mappings(b, triples, Joined(0), quads) <=> IsSolution(m, b, triples, Joined(0), quads)
        BY MappingsAre
      <4>3. QED
        BY <2>1, <4>1, <4>2 DEF IsSolution
    <3>2. \A v \in DOMAIN b : b[v] \in ValuesOf(b, quads)
      BY DEF ValuesOf
    <3>3. QED
      BY <3>1, <3>2 DEF IsMapping
  <2>4. QED
    BY <1>3, <2>1, <2>2, <2>3 DEF AreSolutions
<1>5. ASSUME NEW n \in 1 .. N, Good(n - 1)
      PROVE  Good(n)
  <2>1. PICK k : k = order[n] /\ k \in K
    BY <1>2
  <2>2. Joined(n) = Joined(n - 1) \cup {k}
    <3>1. 1 .. n = (1 .. n - 1) \cup {n}
      BY <1>2
    <3>2. QED
      BY <2>1, <3>1
  <2>3. PICK J, vars : J = Joined(n - 1) /\ vars = DOMAIN b \cup BlockVars(triples, J)
    OBVIOUS
  <2>4. DOMAIN b \cup BlockVars(triples, Joined(n)) = vars \cup TripleVars(triples[k])
    BY <2>2, <2>3 DEF BlockVars
  <2> HIDE DEF Joined
  <2>5. PICK before, after : before = f[n - 1] /\ after = f[n]
    OBVIOUS
  <2>6. /\ AreSolutions(before, vars)
        /\ after = JoinTriplePattern(before, triples[k], Scan(quads, triples[k]), prebuilt)
    BY <1>3, <1>5, <2>1, <2>3, <2>5
  <2>7. /\ AreSolutions(after, vars \cup TripleVars(triples[k]))
        /\ \A m : m \in ToSet(after)
                    <=> \E r \in ToSet(before), q \in ToSet(quads) : IsExtension(m, r, triples[k], q)
    BY <2>1, <2>6, JoinIs
  <2>8. \A r : r \in ToSet(before) <=> r \in Mappings(b, triples, J, quads)
    BY <1>5, <2>3, <2>5
  <2>9. ASSUME NEW m
        PROVE  m \in ToSet(after) <=> m \in Mappings(b, triples, J \cup {k}, quads)
    BY <2>7, <2>8, MappingsStep
  <2>10. QED
    BY <2>2, <2>3, <2>4, <2>5, <2>7, <2>9
<1>6. Bad = {}
  <2>1. Bad \in SUBSET Nat
    BY <1>2
  <2> HIDE DEF Good
  <2>2. SUFFICES ASSUME Bad # {} PROVE FALSE
    OBVIOUS
  <2>3. PICK n \in Bad : \A k \in Bad : n <= k
    <3> HIDE DEF Bad
    <3>1. QED
      BY <2>1, <2>2, LeastNatural
  <2>4. CASE n = 0
    BY <1>4, <2>3, <2>4
  <2>5. CASE n # 0
    <3>1. n \in 1 .. N /\ n - 1 \in 0 .. N /\ n - 1 \notin Bad
      BY <1>2, <2>3, <2>5
    <3>2. QED
      BY <1>5, <2>3, <3>1
  <2>6. QED
    BY <2>4, <2>5
<1>7. Good(N)
  <2> HIDE DEF Good
  <2>1. N \in 0 .. N
    BY <1>2
  <2>2. QED
    BY <1>6, <2>1
<1>8. Joined(N) = K
  BY <1>1, <1>2 DEF ToSet
<1>9. rows = f[N]
  BY <1>1 DEF JoinedInOrder
<1>10. IsInjective(f[N]) /\ \A m : m \in ToSet(f[N]) <=> m \in Mappings(b, triples, K, quads)
  BY <1>7, <1>8 DEF AreSolutions
<1>11. QED
  BY <1>9, <1>10

(***************************************************************************)
(* Statistics and the greedy choice                                         *)
(***************************************************************************)
\* What a function takes on finitely many arguments is finite.
LEMMA FiniteImage ==
  ASSUME NEW f, IsFiniteSet(DOMAIN f)
  PROVE  IsFiniteSet({f[i] : i \in DOMAIN f}) /\ Cardinality({f[i] : i \in DOMAIN f}) \in Nat
<1>1. PICK T, g : T = {f[i] : i \in DOMAIN f} /\ g = [i \in DOMAIN f |-> f[i]]
  OBVIOUS
<1>2. g \in Surjection(DOMAIN f, T)
  BY <1>1 DEF Surjection
<1>3. QED
  BY <1>1, <1>2, FS_Surjection, FS_CardinalityType

\* A count of one and more for every variable of a pattern that matched anything.
LEMMA StatsAreCounts ==
  ASSUME NEW quads, NEW positions, Len(quads) \in Nat
  PROVE  IsEntry(FallbackStats(quads, positions))
<1>1. PICK n, sample, k : n = Len(quads) /\ sample = Sampled(n) /\ k = Cardinality(sample)
  OBVIOUS
<1>2. PICK Seen : Seen = [v \in DOMAIN positions |-> Cardinality({quads[i][positions[v]] : i \in sample})]
  OBVIOUS
<1>3. IsFiniteSet(sample) /\ k \in Nat
  <2>1. sample \in SUBSET (1 .. n) /\ IsFiniteSet(1 .. n)
    BY <1>1, FS_Interval DEF Sampled
  <2>2. QED
    BY <1>1, <2>1, FS_Subset, FS_CardinalityType
<1>4. n # 0 => k # 0
  <2>1. SUFFICES ASSUME n # 0 PROVE k # 0
    OBVIOUS
  <2>2. PICK stride : stride = IF n <= DistinctSampleCap THEN 1 ELSE CeilDiv(n, DistinctSampleCap)
    OBVIOUS
  <2>3. stride \in Nat \ {0}
    <3>1. n \in Nat \ {0} /\ DistinctSampleCap \in Nat \ {0}
      BY <1>1, <2>1, PlannerAssumption
    <3>2. ASSUME NEW a \in Nat \ {0}, NEW c \in Nat \ {0} PROVE (a + c - 1) \div c \in Nat \ {0}
      OBVIOUS
    <3>3. QED
      BY <2>2, <3>1, <3>2 DEF CeilDiv
  <2>4. 1 \in sample
    <3>1. 1 \in 1 .. n /\ (1 - 1) % stride = 0
      BY <1>1, <2>1, <2>3
    <3>2. QED
      BY <1>1, <2>2, <3>1 DEF Sampled
  <2>5. QED
    BY <1>1, <1>3, <2>4, FS_EmptySet
<1>5. ASSUME NEW v \in DOMAIN positions
      PROVE  Seen[v] \in Nat
  <2>1. PICK f : f = [i \in sample |-> quads[i][positions[v]]]
    OBVIOUS
  <2>2. {f[i] : i \in DOMAIN f} = {quads[i][positions[v]] : i \in sample} /\ DOMAIN f = sample
    BY <2>1
  <2>3. QED
    BY <1>2, <1>3, <2>2, FiniteImage
<1>6. PICK stats : stats = FallbackStats(quads, positions)
  OBVIOUS
<1>7. stats.candidates = n
  BY <1>1, <1>6 DEF FallbackStats
<1>8. CASE n = 0
  <2>1. stats.distinct = <<>>
    BY <1>1, <1>6, <1>8 DEF FallbackStats
  <2>2. DOMAIN <<>> = {}
    OBVIOUS
  <2>3. QED
    BY <1>1, <1>6, <1>7, <2>1, <2>2 DEF IsEntry
<1>9. CASE n # 0
  <2>1. stats.distinct = [v \in DOMAIN positions |-> Min({n, (2 * Seen[v] * n + k) \div (2 * k)})]
    BY <1>1, <1>2, <1>6, <1>9 DEF FallbackStats
  <2>2. ASSUME NEW v \in DOMAIN positions
        PROVE  Min({n, (2 * Seen[v] * n + k) \div (2 * k)}) \in Nat
    <3>1. ASSUME NEW a \in Nat, NEW c \in Nat, NEW d \in Nat \ {0}
          PROVE  (2 * a * c + d) \div (2 * d) \in Nat
      <4>1. 2 * a * c + d \in Nat
        OBVIOUS
      <4>2. ASSUME NEW x \in Nat, NEW y \in Nat \ {0} PROVE x \div y \in Nat
        OBVIOUS
      <4>3. QED
        BY <4>1, <4>2
    <3>2. PICK x : x = (2 * Seen[v] * n + k) \div (2 * k)
      OBVIOUS
    <3>3. x \in Nat /\ n \in Nat
      BY <1>1, <1>3, <1>4, <1>5, <1>9, <3>1, <3>2
    <3>4. \E y \in {n, x} : \A z \in {n, x} : y <= z
      BY <3>3
    <3>5. Min({n, x}) \in {n, x}
      BY <3>4 DEF Min
    <3>6. QED
      BY <3>2, <3>3, <3>5
  <2>3. QED
    BY <1>1, <1>6, <1>7, <2>1, <2>2 DEF IsEntry
<1>10. QED
  BY <1>8, <1>9

LEMMA GreedyCostIsFraction ==
  ASSUME NEW entry, NEW stats, NEW rows, IsEntry(stats), Len(rows) \in Nat, DOMAIN rows = 1 .. Len(rows),
         rows # <<>> => Len(rows) # 0
  PROVE  GreedyJoinCost(entry, stats, rows) \in Fraction
<1> DEFINE Val(v) == {rows[i][v] : i \in {j \in DOMAIN rows : v \in DOMAIN rows[j]}}
           bound == {v \in entry.vars : Val(v) # {}}
           Count(v) == IF v \in DOMAIN stats.distinct /\ stats.distinct[v] > 0
                       THEN stats.distinct[v] ELSE Cardinality(Val(v))
           counts == {Count(v) : v \in bound}
           least == Min(counts)
<1>1. ASSUME NEW v \in bound PROVE Count(v) \in Nat \ {0}
  <2>1. CASE v \in DOMAIN stats.distinct /\ stats.distinct[v] > 0
    BY <2>1 DEF IsEntry
  <2>2. CASE ~(v \in DOMAIN stats.distinct /\ stats.distinct[v] > 0)
    <3>1. PICK f, D : D = {j \in DOMAIN rows : v \in DOMAIN rows[j]} /\ f = [i \in D |-> rows[i][v]]
      OBVIOUS
    <3>2. IsFiniteSet(D) /\ DOMAIN f = D
      <4>1. D \in SUBSET (1 .. Len(rows)) /\ IsFiniteSet(1 .. Len(rows))
        BY <3>1, FS_Interval
      <4>2. QED
        BY <3>1, <4>1, FS_Subset
    <3>3. {f[i] : i \in DOMAIN f} = Val(v)
      BY <3>1, <3>2
    <3>4. IsFiniteSet(Val(v)) /\ Cardinality(Val(v)) \in Nat /\ Val(v) # {}
      BY <3>2, <3>3, FiniteImage
    <3>5. Cardinality(Val(v)) \in Nat \ {0}
      <4> HIDE DEF Val
      <4>1. QED
        BY <3>4, FS_EmptySet
    <3>6. QED
      BY <2>2, <3>5
  <2>3. QED
    BY <2>1, <2>2
<1>2. bound # {} => least \in Nat \ {0}
  <2>1. counts \in SUBSET (Nat \ {0})
    BY <1>1
  <2>2. bound # {} => counts # {}
    <3>1. ASSUME NEW v \in bound PROVE Count(v) \in counts
      OBVIOUS
    <3> HIDE DEF bound, counts
    <3>2. QED
      BY <3>1
  <2> HIDE DEF counts, bound
  <2>3. ASSUME bound # {} PROVE least \in Nat \ {0}
    <3>1. PICK x \in counts : \A y \in counts : x <= y
      <4>1. counts \in SUBSET Nat /\ counts # {}
        BY <2>1, <2>2, <2>3
      <4>2. QED
        BY <4>1, LeastNatural
    <3>2. least \in counts
      BY <3>1 DEF Min
    <3>3. QED
      BY <2>1, <3>2
  <2>4. QED
    BY <2>3
<1>3. GreedyJoinCost(entry, stats, rows)
        = IF rows = <<>> THEN Whole(0)
          ELSE IF bound = {} THEN Whole(Len(rows) * stats.candidates)
          ELSE IF stats.candidates <= least THEN Whole(Len(rows))
          ELSE << Len(rows) * stats.candidates, least >>
  BY DEF GreedyJoinCost
<1> HIDE DEF bound, least
<1>4. stats.candidates \in Nat /\ Len(rows) \in Nat /\ Len(rows) * stats.candidates \in Nat
  <2>1. ASSUME NEW a \in Nat, NEW c \in Nat PROVE a * c \in Nat
    OBVIOUS
  <2>2. QED
    BY <2>1 DEF IsEntry
<1>5. QED
  BY <1>2, <1>3, <1>4 DEF Whole, Fraction

LEMMA GreedyChosen ==
  ASSUME NEW n \in Nat \ {0}, NEW remaining, NEW statsList, NEW rows, DOMAIN remaining = 1 .. n,
         \A k \in 1 .. n : IsEntry(statsList[k]),
         Len(rows) \in Nat, DOMAIN rows = 1 .. Len(rows), rows # <<>> => Len(rows) # 0
  PROVE  GreedyChoice(remaining, statsList, rows) \in 1 .. n
<1>1. PICK c : c = [k \in 1 .. n |-> GreedyJoinCost(remaining[k], statsList[k], rows)]
  OBVIOUS
<1>2. \A k \in 1 .. n : c[k] \in Fraction
  BY <1>1, GreedyCostIsFraction
<1>3. PICK d : d = [k \in 1 .. n |-> c[n + 1 - k]]
  OBVIOUS
<1>4. d \in [1 .. n -> Fraction] /\ \A k \in 1 .. n : n + 1 - k \in 1 .. n /\ n + 1 - (n + 1 - k) = k
  BY <1>2, <1>3
<1>5. 1 .. n \in SUBSET Nat /\ IsFiniteSet(1 .. n) /\ 1 .. n # {}
  <2>1. 1 \in 1 .. n /\ 1 \in Int /\ n \in Int
    OBVIOUS
  <2>2. IsFiniteSet(1 .. n)
    BY <2>1, FS_Interval
  <2>3. QED
    BY <2>1, <2>2
<1>6. PICK p \in 1 .. n : \A q \in (1 .. n) \ {p} : Less(d[p], d[q]) \/ (EqualCost(d[p], d[q]) /\ p > q)
  BY <1>4, <1>5, CheapestExists
<1>7. PICK k : k = n + 1 - p /\ k \in 1 .. n /\ d[p] = c[k]
  BY <1>3, <1>4
<1>8. ASSUME NEW j \in (1 .. n) \ {k}
      PROVE  Less(c[k], c[j]) \/ (EqualCost(c[k], c[j]) /\ k < j)
  <2>1. PICK q : q = n + 1 - j
    OBVIOUS
  <2>2. q \in (1 .. n) \ {p} /\ d[q] = c[j]
    BY <1>3, <1>4, <1>7, <2>1
  <2>3. p > q => k < j
    BY <1>7, <2>1, <2>2
  <2>4. QED
    BY <1>6, <1>7, <2>2, <2>3
<1>9. ASSUME NEW i \in 1 .. n PROVE GreedyJoinCost(remaining[i], statsList[i], rows) = c[i]
  BY <1>1
<1>10. \E i \in DOMAIN remaining :
         \A j \in DOMAIN remaining \ {i} :
            LET here  == GreedyJoinCost(remaining[i], statsList[i], rows)
                there == GreedyJoinCost(remaining[j], statsList[j], rows)
            IN  Less(here, there) \/ (EqualCost(here, there) /\ i < j)
  <2>1. k \in DOMAIN remaining
    BY <1>7
  <2>2. ASSUME NEW j \in DOMAIN remaining \ {k}
        PROVE  \/ Less(GreedyJoinCost(remaining[k], statsList[k], rows), GreedyJoinCost(remaining[j], statsList[j], rows))
               \/ /\ EqualCost(GreedyJoinCost(remaining[k], statsList[k], rows), GreedyJoinCost(remaining[j], statsList[j], rows))
                  /\ k < j
    <3>1. j \in (1 .. n) \ {k}
      BY <2>2
    <3>2. GreedyJoinCost(remaining[k], statsList[k], rows) = c[k] /\ GreedyJoinCost(remaining[j], statsList[j], rows) = c[j]
      BY <1>7, <1>9, <3>1
    <3>3. QED
      BY <1>8, <3>1, <3>2
  <2>3. QED
    BY <2>1, <2>2, Zenon
<1>11. GreedyChoice(remaining, statsList, rows) \in DOMAIN remaining
  BY <1>10 DEF GreedyChoice
<1>12. QED
  BY <1>11

(***************************************************************************)
(* The joins return sequences of solutions                                  *)
(***************************************************************************)
LEMMA SmallRows == IsRows(<<>>) /\ \A e : IsRows(<< e >>)
<1>1. <<>> \in Seq({})
  OBVIOUS
<1>2. ASSUME NEW e PROVE << e >> \in Seq({e})
  OBVIOUS
<1>3. QED
  BY <1>1, <1>2, RowsAre

LEMMA MappedIsRows ==
  ASSUME NEW s, NEW f, IsRows(s), DOMAIN f = DOMAIN s, f = [i \in DOMAIN f |-> f[i]]
  PROVE  IsRows(f)
<1>1. PICK S : S = {f[i] : i \in DOMAIN f}
  OBVIOUS
<1>2. Len(s) \in Nat /\ DOMAIN f = 1 .. Len(s)
  BY RowsLength
<1>3. \A i \in 1 .. Len(s) : f[i] \in S
  BY <1>1, <1>2
<1>4. f \in [1 .. Len(s) -> S]
  BY <1>2, <1>3
<1>5. f \in Seq(S)
  BY <1>2, <1>4
<1>6. QED
  BY <1>5, RowsAre

LEMMA ConcatIsRows ==
  ASSUME NEW s, NEW t, IsRows(s), IsRows(t)
  PROVE  IsRows(s \o t) /\ ToSet(s \o t) = ToSet(s) \cup ToSet(t)
<1>1. PICK S : S = ToSet(s) \cup ToSet(t)
  OBVIOUS
<1>2. s \in Seq(S) /\ t \in Seq(S)
  <2>1. s \in Seq(ToSet(s)) /\ t \in Seq(ToSet(t))
    BY DEF IsRows
  <2>2. QED
    BY <1>1, <2>1
<1>3. s \o t \in Seq(S) /\ ToSet(s \o t) = ToSet(s) \cup ToSet(t)
  BY <1>2, Concatenated
<1>4. QED
  BY <1>3, RowsAre

LEMMA FlattenIsRows ==
  ASSUME NEW seqs, IsRows(seqs), \A i \in DOMAIN seqs : IsRows(seqs[i])
  PROVE  IsRows(FlattenSeq(seqs))
<1>1. PICK S : S = UNION {ToSet(seqs[i]) : i \in DOMAIN seqs}
  OBVIOUS
<1>2. Len(seqs) \in Nat /\ DOMAIN seqs = 1 .. Len(seqs) /\ seqs = [i \in 1 .. Len(seqs) |-> seqs[i]]
  <2>1. seqs \in Seq(ToSet(seqs))
    BY DEF IsRows
  <2>2. QED
    BY <2>1
<1>3. ASSUME NEW i \in 1 .. Len(seqs) PROVE seqs[i] \in Seq(S)
  <2>1. seqs[i] \in Seq(ToSet(seqs[i])) /\ ToSet(seqs[i]) \subseteq S
    BY <1>1, <1>2 DEF IsRows
  <2>2. QED
    BY <2>1
<1>4. seqs \in Seq(Seq(S))
  BY <1>2, <1>3
<1>5. QED
  BY <1>4, FlattenMembers, RowsAre

LEMMA KeptIsRows ==
  ASSUME NEW s, NEW T, IsRows(s)
  PROVE  IsRows(Kept(s, T)) /\ ToSet(Kept(s, T)) = ToSet(s) \cap T
<1>1. s \in Seq(ToSet(s))
  BY DEF IsRows
<1>2. QED
  BY <1>1, KeptIsSeq, KeptMembers, RowsAre

LEMMA DeduplicatedIsRows ==
  ASSUME NEW s, IsRows(s)
  PROVE  IsRows(Deduplicated(s))
<1>1. PICK k, p, f : /\ k = [n \in DOMAIN s |-> n] /\ p = Firsts(s) /\ f = Deduplicated(s)
  OBVIOUS
<1>2. IsRows(k)
  BY <1>1, MappedIsRows
<1>3. IsRows(p)
  BY <1>1, <1>2, KeptIsRows DEF Firsts
<1>4. f = [n \in DOMAIN p |-> s[p[n]]]
  BY <1>1 DEF Deduplicated, Picked
<1>5. QED
  BY <1>1, <1>3, <1>4, MappedIsRows

LEMMA BoundIsRows ==
  ASSUME NEW b, NEW name, NEW term
  PROVE  IsRows(Bound(b, name, term))
BY SmallRows DEF Bound

LEMMA ExtendedIsRows ==
  ASSUME NEW b, NEW triple, NEW q
  PROVE  IsRows(Extended(b, triple, q))
<1>1. ASSUME NEW bs, NEW position, NEW term, IsRows(bs)
      PROVE  IsRows(Matched(bs, position, term))
  BY <1>1, BoundIsRows DEF Matched
<1>2. QED
  BY <1>1, SmallRows DEF Extended

\* The quads of a prebuilt index, if there is one.
IsIndex(s) == s = <<>> \/ IsRows(s[1])

LEMMA JoinIsRows ==
  ASSUME NEW rows, NEW triple, NEW candidates, NEW prebuilt,
         IsRows(rows), IsRows(candidates), IsIndex(prebuilt)
  PROVE  IsRows(JoinTriplePattern(rows, triple, candidates, prebuilt))
<1>1. PICK parts : parts = [i \in DOMAIN rows |->
                     ExtendedBy(rows[i], triple, Pool(rows[i], triple, candidates, prebuilt))]
  OBVIOUS
<1>2. ASSUME NEW i \in DOMAIN rows PROVE IsRows(parts[i])
  <2>1. PICK pool, b : b = rows[i] /\ pool = Pool(b, triple, candidates, prebuilt)
    OBVIOUS
  <2>2. IsRows(pool)
    BY <2>1, KeptIsRows DEF Pool, IsIndex, Agreeing, MatchQuads
  <2>3. PICK es : es = [k \in DOMAIN pool |-> Extended(b, triple, pool[k])]
    OBVIOUS
  <2>4. IsRows(es) /\ \A k \in DOMAIN es : IsRows(es[k])
    BY <2>2, <2>3, MappedIsRows, ExtendedIsRows
  <2>5. parts[i] = FlattenSeq(es)
    BY <1>1, <2>1, <2>3 DEF ExtendedBy
  <2>6. QED
    BY <2>4, <2>5, FlattenIsRows
<1>3. IsRows(parts) /\ DOMAIN parts = DOMAIN rows
  BY <1>1, MappedIsRows
<1>4. IsRows(FlattenSeq(parts))
  BY <1>2, <1>3, FlattenIsRows
<1>5. QED
  BY <1>1, <1>4 DEF JoinTriplePattern

LEMMA PathJoinIsRows ==
  ASSUME NEW rows, NEW pairs, NEW subject, NEW object, IsRows(rows), IsRows(pairs)
  PROVE  IsRows(JoinPathPattern(rows, pairs, subject, object))
<1> DEFINE Pair(i, k) == LET first == AtEnd(rows[i], subject, pairs[k][1])
                         IN  IF first = <<>> THEN <<>> ELSE AtEnd(first[1], object, pairs[k][2])
<1>1. ASSUME NEW i, NEW k PROVE IsRows(Pair(i, k))
  BY SmallRows, BoundIsRows DEF AtEnd
<1> HIDE DEF Pair
<1>2. ASSUME NEW i PROVE IsRows(FlattenSeq([k \in DOMAIN pairs |-> Pair(i, k)]))
  <2>1. PICK ps : ps = [k \in DOMAIN pairs |-> Pair(i, k)]
    OBVIOUS
  <2>2. IsRows(ps) /\ \A k \in DOMAIN ps : IsRows(ps[k])
    BY <1>1, <2>1, MappedIsRows
  <2>3. QED
    BY <2>1, <2>2, FlattenIsRows
<1>3. PICK parts : parts = [i \in DOMAIN rows |-> FlattenSeq([k \in DOMAIN pairs |-> Pair(i, k)])]
  OBVIOUS
<1>4. IsRows(parts) /\ \A i \in DOMAIN parts : IsRows(parts[i])
  BY <1>2, <1>3, MappedIsRows
<1>5. JoinPathPattern(rows, pairs, subject, object) = FlattenSeq(parts)
  BY <1>3 DEF JoinPathPattern, Pair
<1>6. QED
  BY <1>4, <1>5, FlattenIsRows

LEMMA JoinValuesIsRows ==
  ASSUME NEW rows, NEW data, IsRows(rows), IsRows(data)
  PROVE  IsRows(JoinValues(rows, data))
<1> DEFINE Pair(i, j) == IF Compatible(rows[i], data[j]) THEN << Merge(rows[i], data[j]) >> ELSE <<>>
<1>1. ASSUME NEW i, NEW j PROVE IsRows(Pair(i, j))
  BY SmallRows
<1> HIDE DEF Pair
<1>2. ASSUME NEW i PROVE IsRows(FlattenSeq([j \in DOMAIN data |-> Pair(i, j)]))
  <2>1. PICK ps : ps = [j \in DOMAIN data |-> Pair(i, j)]
    OBVIOUS
  <2>2. IsRows(ps) /\ \A j \in DOMAIN ps : IsRows(ps[j])
    BY <1>1, <2>1, MappedIsRows
  <2>3. QED
    BY <2>1, <2>2, FlattenIsRows
<1>3. PICK parts : parts = [i \in DOMAIN rows |-> FlattenSeq([j \in DOMAIN data |-> Pair(i, j)])]
  OBVIOUS
<1>4. IsRows(parts) /\ \A i \in DOMAIN parts : IsRows(parts[i])
  BY <1>2, <1>3, MappedIsRows
<1>5. JoinValues(rows, data) = FlattenSeq(parts)
  BY <1>3 DEF JoinValues, Pair
<1>6. QED
  BY <1>4, <1>5, FlattenIsRows

LEMMA InnerJoinIsRows ==
  ASSUME NEW left, NEW right, IsRows(left), IsRows(right)
  PROVE  IsRows(InnerJoin(left, right)) /\ IsRows(Minus(left, right))
<1>1. ASSUME NEW positions PROVE IsRows(Ascending(positions, right))
  <2>1. PICK k : k = [j \in DOMAIN right |-> j]
    OBVIOUS
  <2>2. IsRows(k)
    BY <2>1, MappedIsRows
  <2>3. QED
    BY <2>1, <2>2, KeptIsRows DEF Ascending
<1>2. ASSUME NEW l PROVE IsRows(Merged(l, left, right))
  <2>1. PICK ps : ps = Partners(l, left, right)
    OBVIOUS
  <2>2. IsRows(ps)
    BY <1>1, <2>1, ConcatIsRows DEF Partners
  <2>3. PICK ms : ms = [k \in DOMAIN ps |-> Merge(l, right[ps[k]])]
    OBVIOUS
  <2>4. IsRows(ms)
    BY <2>2, <2>3, MappedIsRows
  <2>5. QED
    BY <2>1, <2>3, <2>4 DEF Merged, MergedAt
<1>3. PICK parts : parts = [i \in DOMAIN left |-> Merged(left[i], left, right)]
  OBVIOUS
<1>4. IsRows(parts) /\ \A i \in DOMAIN parts : IsRows(parts[i])
  BY <1>2, <1>3, MappedIsRows
<1>5. IsRows(InnerJoin(left, right))
  BY <1>3, <1>4, FlattenIsRows DEF InnerJoin
<1>6. IsRows(Minus(left, right))
  BY KeptIsRows DEF Minus
<1>7. QED
  BY <1>5, <1>6

LEMMA BlockJoinIsRows ==
  ASSUME NEW rows, NEW triples, NEW order, NEW graph, NEW prebuilt, Len(order) \in Nat,
         IsRows(rows), IsRows(graph), IsIndex(prebuilt)
  PROVE  IsRows(JoinedInOrder(rows, triples, order, graph, prebuilt))
<1>1. PICK N, f : N = Len(order) /\ f = BlockJoins(rows, triples, order, graph, prebuilt)
  OBVIOUS
<1>2. /\ f[0] = rows
      /\ \A n \in 1 .. N : f[n] = JoinTriplePattern(f[n - 1], triples[order[n]],
                                                    Scan(graph, triples[order[n]]), prebuilt)
  BY <1>1, JoinsUnfold
<1>3. ASSUME NEW n \in 1 .. N, IsRows(f[n - 1]) PROVE IsRows(f[n])
  <2>1. IsRows(Scan(graph, triples[order[n]]))
    BY KeptIsRows DEF Scan, Agreeing, MatchQuads
  <2>2. QED
    BY <1>2, <1>3, <2>1, JoinIsRows
<1>4. PICK Bad : Bad = {n \in 0 .. N : ~IsRows(f[n])}
  OBVIOUS
<1>5. Bad = {}
  <2>1. Bad \in SUBSET Nat
    BY <1>1, <1>4
  <2>2. SUFFICES ASSUME Bad # {} PROVE FALSE
    OBVIOUS
  <2>3. PICK n \in Bad : \A k \in Bad : n <= k
    BY <2>1, <2>2, LeastNatural
  <2>4. n # 0
    BY <1>2, <1>4, <2>3
  <2>5. n \in 1 .. N /\ n - 1 \in 0 .. N /\ n - 1 \notin Bad
    BY <1>1, <1>4, <2>3, <2>4
  <2>6. QED
    BY <1>3, <1>4, <2>3, <2>5
<1>6. N \in 0 .. N
  BY <1>1
<1>7. QED
  BY <1>1, <1>4, <1>5, <1>6 DEF JoinedInOrder

(***************************************************************************)
(* The walks of * and + paths                                               *)
(***************************************************************************)
\* Deduplicating keeps the terms and leaves one occurrence of each.
LEMMA DeduplicatedOnce ==
  ASSUME NEW S, NEW s \in Seq(S)
  PROVE  /\ Deduplicated(s) \in Seq(S)
         /\ ToSet(Deduplicated(s)) = ToSet(s)
         /\ IsInjective(Deduplicated(s))
<1> DEFINE k == [n \in DOMAIN s |-> n]
           F == {n \in DOMAIN s : \A j \in 1 .. n - 1 : s[j] # s[n]}
<1>1. DOMAIN s = 1 .. Len(s) /\ Len(s) \in Nat
  OBVIOUS
<1>2. k \in Seq(DOMAIN s) /\ ToSet(k) = DOMAIN s /\ IsInjective(k)
  BY <1>1 DEF ToSet, IsInjective
<1>3. PICK p : p = Firsts(s)
  OBVIOUS
<1>4. /\ p \in Seq(DOMAIN s) /\ ToSet(p) = F /\ IsInjective(p)
  <2>1. p = Kept(k, F)
    BY <1>3 DEF Firsts
  <2>2. ToSet(k) \cap F = F
    BY <1>2
  <2> HIDE DEF k, F
  <2>3. QED
    BY <1>2, <2>1, <2>2, KeptIsSeq, KeptMembers
<1>5. DOMAIN p = 1 .. Len(p) /\ Len(p) \in Nat /\ \A n \in DOMAIN p : p[n] \in F /\ p[n] \in DOMAIN s
  BY <1>4 DEF ToSet
<1>6. PICK d : d = Deduplicated(s) /\ d = [n \in DOMAIN p |-> s[p[n]]]
  BY <1>3 DEF Deduplicated, Picked
<1>7. d \in Seq(S)
  BY <1>5, <1>6
<1>8. \A x, y \in F : s[x] = s[y] => x = y
  BY <1>1
<1>9. IsInjective(d)
  <2>1. \A i, j \in DOMAIN p : p[i] = p[j] => i = j
    BY <1>4 DEF IsInjective
  <2>2. ASSUME NEW i \in DOMAIN p, NEW j \in DOMAIN p, d[i] = d[j]
        PROVE  i = j
    <3>1. s[p[i]] = s[p[j]] /\ p[i] \in F /\ p[j] \in F
      BY <1>5, <1>6, <2>2
    <3>2. p[i] = p[j]
      BY <1>8, <3>1
    <3>3. QED
      BY <2>1, <3>2
  <2>3. DOMAIN d = DOMAIN p
    BY <1>6
  <2>4. QED
    BY <2>2, <2>3 DEF IsInjective
<1>10. ToSet(d) \subseteq ToSet(s)
  BY <1>5, <1>6 DEF ToSet
<1>11. ASSUME NEW e \in ToSet(s)
       PROVE  e \in ToSet(d)
  <2> DEFINE T == {n \in DOMAIN s : s[n] = e}
  <2>1. T \in SUBSET Nat /\ T # {}
    BY <1>1, <1>11 DEF ToSet
  <2>2. PICK n \in T : \A j \in T : n <= j
    <3> HIDE DEF T
    <3>1. QED
      BY <2>1, LeastNatural
  <2>3. n \in F
    BY <1>1, <2>2
  <2>4. PICK i \in DOMAIN p : p[i] = n
    BY <1>4, <2>3 DEF ToSet
  <2>5. QED
    BY <1>6, <2>2, <2>4 DEF ToSet
<1>12. QED
  BY <1>6, <1>7, <1>9, <1>10, <1>11

\* Two sequences of distinct elements that share none, one after the other.
LEMMA ConcatOnce ==
  ASSUME NEW S, NEW s \in Seq(S), NEW t \in Seq(S), IsInjective(s), IsInjective(t),
         ToSet(s) \cap ToSet(t) = {}
  PROVE  /\ s \o t \in Seq(S) /\ IsInjective(s \o t)
         /\ ToSet(s \o t) = ToSet(s) \cup ToSet(t)
<1>1. PICK m, n, u : m = Len(s) /\ n = Len(t) /\ u = s \o t
  OBVIOUS
<1>2. /\ m \in Nat /\ n \in Nat /\ DOMAIN s = 1 .. m /\ DOMAIN t = 1 .. n /\ DOMAIN u = 1 .. m + n
      /\ u \in Seq(S)
      /\ \A i \in 1 .. m + n : u[i] = IF i <= m THEN s[i] ELSE t[i - m]
  BY <1>1
<1>3. \A i \in 1 .. m : u[i] = s[i]
  BY <1>2
<1>4. \A i \in 1 .. n : i + m \in 1 .. m + n /\ u[i + m] = t[i]
  BY <1>2
<1>5. \A i \in 1 .. m + n : i \in 1 .. m \/ (i - m \in 1 .. n /\ u[i] = t[i - m])
  BY <1>2
<1>6. ToSet(u) = ToSet(s) \cup ToSet(t)
  <2>1. ToSet(s) \subseteq ToSet(u)
    BY <1>2, <1>3 DEF ToSet
  <2>2. ToSet(t) \subseteq ToSet(u)
    BY <1>2, <1>4 DEF ToSet
  <2>3. ToSet(u) \subseteq ToSet(s) \cup ToSet(t)
    BY <1>2, <1>3, <1>5 DEF ToSet
  <2>4. QED
    BY <2>1, <2>2, <2>3
<1>7. ASSUME NEW i \in 1 .. m + n, NEW j \in 1 .. m + n, u[i] = u[j]
      PROVE  i = j
  <2>1. CASE i \in 1 .. m /\ j \in 1 .. m
    BY <1>2, <1>3, <1>7, <2>1 DEF IsInjective
  <2>2. CASE i \notin 1 .. m /\ j \notin 1 .. m
    <3>1. i - m \in 1 .. n /\ j - m \in 1 .. n /\ t[i - m] = t[j - m]
      BY <1>5, <1>7, <2>2
    <3>2. i - m = j - m
      BY <1>2, <3>1 DEF IsInjective
    <3>3. QED
      BY <1>2, <3>2
  <2>3. CASE (i \in 1 .. m /\ j \notin 1 .. m) \/ (i \notin 1 .. m /\ j \in 1 .. m)
    BY <1>2, <1>3, <1>5, <1>7, <2>3 DEF ToSet
  <2>4. QED
    BY <2>1, <2>2, <2>3
<1>8. QED
  BY <1>1, <1>2, <1>6, <1>7 DEF IsInjective

\* The first of a queue of distinct terms is taken out.
LEMMA TailOnce ==
  ASSUME NEW S, NEW s \in Seq(S), IsInjective(s), s # <<>>
  PROVE  /\ Head(s) \in S /\ Head(s) \in ToSet(s)
         /\ Tail(s) \in Seq(S) /\ IsInjective(Tail(s))
         /\ ToSet(Tail(s)) = ToSet(s) \ {Head(s)}
<1>1. PICK n, h, t : n = Len(s) /\ h = Head(s) /\ t = Tail(s)
  OBVIOUS
<1>2. n \in Nat /\ n # 0 /\ DOMAIN s = 1 .. n /\ h = s[1] /\ Len(t) = n - 1 /\ DOMAIN t = 1 .. n - 1 /\ t \in Seq(S)
  BY <1>1
<1>3. \A k \in 1 .. n - 1 : t[k] = s[k + 1] /\ k + 1 \in 1 .. n
  BY <1>1, <1>2
<1>4. h \in S /\ h \in ToSet(s)
  BY <1>2 DEF ToSet
<1>5. \A i, j \in 1 .. n : s[i] = s[j] => i = j
  BY <1>2 DEF IsInjective
<1>6. IsInjective(t)
  <2>1. ASSUME NEW i \in 1 .. n - 1, NEW j \in 1 .. n - 1, t[i] = t[j]
        PROVE  i = j
    <3>1. i + 1 \in 1 .. n /\ j + 1 \in 1 .. n /\ s[i + 1] = s[j + 1]
      BY <1>3, <2>1
    <3>2. i + 1 = j + 1
      BY <1>5, <3>1
    <3>3. QED
      BY <3>2
  <2>2. QED
    BY <1>2, <2>1 DEF IsInjective
<1>7. ToSet(t) \subseteq ToSet(s) \ {h}
  <2>1. ASSUME NEW k \in 1 .. n - 1 PROVE t[k] # h /\ t[k] \in ToSet(s)
    <3>1. k + 1 # 1 /\ 1 \in 1 .. n
      BY <1>2
    <3>2. s[k + 1] # s[1]
      BY <1>3, <1>5, <3>1
    <3>3. QED
      BY <1>2, <1>3, <3>2 DEF ToSet
  <2>2. QED
    BY <1>2, <2>1 DEF ToSet
<1>8. ASSUME NEW e \in ToSet(s) \ {h} PROVE e \in ToSet(t)
  <2>1. PICK i \in 1 .. n : s[i] = e
    BY <1>2, <1>8 DEF ToSet
  <2>2. i # 1 /\ i - 1 \in 1 .. n - 1
    BY <1>2, <1>8, <2>1
  <2>3. t[i - 1] = s[(i - 1) + 1] /\ (i - 1) + 1 = i
    BY <1>3, <2>2
  <2>4. QED
    BY <1>2, <2>1, <2>2, <2>3 DEF ToSet
<1>9. QED
  BY <1>1, <1>2, <1>4, <1>6, <1>7, <1>8

(***************************************************************************)
(* The turns of a walk                                                      *)
(***************************************************************************)
\* A walk under way: everything but the queue has been expanded, one term a turn.
Seen(walk, start) == walk.visited \cup {start}
Done(walk, start) == Seen(walk, start) \ ToSet(walk.queue)

IsWalk(walk, next, start, n) ==
    LET D == DOMAIN next
    IN  /\ walk \in [queue : Seq(D), found : Seq(D), visited : SUBSET D]
        /\ IsInjective(walk.queue) /\ IsInjective(walk.found)
        /\ walk.visited = ToSet(walk.found)
        /\ ToSet(walk.queue) \subseteq Seen(walk, start)
        /\ \A t \in Done(walk, start) : ToSet(next[t]) \subseteq walk.visited
        /\ walk.queue # <<>> => Cardinality(Done(walk, start)) >= n

\* What one turn finds.
New(walk, next) == LET steps == next[Head(walk.queue)]
                   IN  Deduplicated(Kept(steps, ToSet(steps) \ walk.visited))

LEMMA NewIs ==
  ASSUME NEW walk, NEW next, NEW start, NEW n, next \in [DOMAIN next -> Seq(DOMAIN next)],
         IsWalk(walk, next, start, n), walk.queue # <<>>
  PROVE  /\ New(walk, next) \in Seq(DOMAIN next) /\ IsInjective(New(walk, next))
         /\ ToSet(New(walk, next)) = ToSet(next[Head(walk.queue)]) \ walk.visited
<1>1. PICK h, steps : h = Head(walk.queue) /\ steps = next[h]
  OBVIOUS
<1>2. walk.queue \in Seq(DOMAIN next) /\ IsInjective(walk.queue)
  BY DEF IsWalk
<1>3. h \in DOMAIN next /\ steps \in Seq(DOMAIN next)
  BY <1>1, <1>2, TailOnce
<1>4. PICK kept : kept = Kept(steps, ToSet(steps) \ walk.visited)
  OBVIOUS
<1>5. kept \in Seq(DOMAIN next) /\ ToSet(kept) = ToSet(steps) \ walk.visited
  BY <1>3, <1>4, KeptIsSeq, KeptMembers
<1>6. New(walk, next) = Deduplicated(kept)
  BY <1>1, <1>4 DEF New
<1>7. QED
  BY <1>1, <1>5, <1>6, DeduplicatedOnce

\* The parts of the walk after a turn, which expands h and finds new.
IsTurned(turned, walk, next, start, h, new) ==
    /\ turned \in [queue : Seq(DOMAIN next), found : Seq(DOMAIN next), visited : SUBSET DOMAIN next]
    /\ IsInjective(turned.queue) /\ IsInjective(turned.found)
    /\ ToSet(turned.queue) = (ToSet(walk.queue) \ {h}) \cup (new \ {start})
    /\ ToSet(turned.found) = ToSet(walk.found) \cup new
    /\ turned.visited = walk.visited \cup new
    /\ h \in ToSet(walk.queue)

LEMMA TurnIs ==
  ASSUME NEW walk, NEW next, NEW start \in DOMAIN next, NEW n,
         next \in [DOMAIN next -> Seq(DOMAIN next)],
         IsWalk(walk, next, start, n), walk.queue # <<>>
  PROVE  IsTurned(Expanded(walk, next, start), walk, next, start, Head(walk.queue),
                  ToSet(next[Head(walk.queue)]) \ walk.visited)
<1>0. PICK turned, h, new : /\ turned = Expanded(walk, next, start) /\ h = Head(walk.queue)
                            /\ new = ToSet(next[h]) \ walk.visited
  OBVIOUS
<1>1. PICK D, fresh, rest : /\ D = DOMAIN next /\ fresh = New(walk, next)
                            /\ rest = Kept(fresh, ToSet(fresh) \ {start})
  OBVIOUS
<1>2. fresh \in Seq(D) /\ IsInjective(fresh) /\ ToSet(fresh) = new
  BY <1>0, <1>1, NewIs
<1>3. rest \in Seq(D) /\ IsInjective(rest) /\ ToSet(rest) = new \ {start}
  BY <1>1, <1>2, KeptIsSeq, KeptMembers
<1>4. turned = [queue |-> Tail(walk.queue) \o rest, found |-> walk.found \o fresh,
                visited |-> walk.visited \cup new]
  BY <1>0, <1>1, <1>2 DEF Expanded, Widened, New
<1>5. /\ walk.queue \in Seq(D) /\ walk.found \in Seq(D) /\ walk.visited \subseteq D
      /\ IsInjective(walk.queue) /\ IsInjective(walk.found) /\ walk.visited = ToSet(walk.found)
      /\ ToSet(walk.queue) \subseteq walk.visited \cup {start}
  BY <1>1 DEF IsWalk, Seen
<1>6. PICK tail : tail = Tail(walk.queue)
  OBVIOUS
<1>7. /\ h \in ToSet(walk.queue) /\ tail \in Seq(D) /\ IsInjective(tail)
      /\ ToSet(tail) = ToSet(walk.queue) \ {h}
  BY <1>0, <1>1, <1>5, <1>6, TailOnce
<1>8. ToSet(tail) \cap ToSet(rest) = {}
  BY <1>0, <1>1, <1>3, <1>5, <1>7
<1>9. /\ tail \o rest \in Seq(D) /\ IsInjective(tail \o rest)
      /\ ToSet(tail \o rest) = (ToSet(walk.queue) \ {h}) \cup (new \ {start})
  BY <1>3, <1>7, <1>8, ConcatOnce
<1>10. ToSet(walk.found) \cap ToSet(fresh) = {}
  BY <1>0, <1>1, <1>2, <1>5
<1>11. /\ walk.found \o fresh \in Seq(D) /\ IsInjective(walk.found \o fresh)
       /\ ToSet(walk.found \o fresh) = ToSet(walk.found) \cup new
  BY <1>2, <1>5, <1>10, ConcatOnce
<1>12. new \subseteq D
  BY <1>2 DEF ToSet
<1>13. turned = [queue |-> tail \o rest, found |-> walk.found \o fresh,
                 visited |-> walk.visited \cup new]
  BY <1>4, <1>6
<1>14. /\ turned \in [queue : Seq(D), found : Seq(D), visited : SUBSET D]
       /\ turned.queue = tail \o rest /\ turned.found = walk.found \o fresh
       /\ turned.visited = walk.visited \cup new
  BY <1>5, <1>9, <1>11, <1>12, <1>13
<1>15. QED
  <2>1. IsTurned(turned, walk, next, start, h, new)
    BY <1>1, <1>7, <1>9, <1>11, <1>14 DEF IsTurned
  <2>2. QED
    BY <1>0, <2>1

LEMMA TurnKeepsWalk ==
  ASSUME NEW walk, NEW next, NEW start \in DOMAIN next, NEW n \in Nat, IsFiniteSet(DOMAIN next),
         next \in [DOMAIN next -> Seq(DOMAIN next)], IsWalk(walk, next, start, n)
  PROVE  IsWalk(Expanded(walk, next, start), next, start, n + 1)
<1>1. CASE walk.queue = <<>>
  <2>1. Expanded(walk, next, start) = walk
    BY <1>1 DEF Expanded
  <2>2. QED
    BY <1>1, <2>1 DEF IsWalk
<1>2. CASE walk.queue # <<>>
  <2>1. PICK turned, h, new : /\ turned = Expanded(walk, next, start) /\ h = Head(walk.queue)
                              /\ new = ToSet(next[h]) \ walk.visited
    OBVIOUS
  <2>2. /\ turned \in [queue : Seq(DOMAIN next), found : Seq(DOMAIN next), visited : SUBSET DOMAIN next]
        /\ IsInjective(turned.queue) /\ IsInjective(turned.found)
        /\ ToSet(turned.queue) = (ToSet(walk.queue) \ {h}) \cup (new \ {start})
        /\ ToSet(turned.found) = ToSet(walk.found) \cup new
        /\ turned.visited = walk.visited \cup new
        /\ h \in ToSet(walk.queue)
    <3>1. IsTurned(turned, walk, next, start, h, new)
      BY <1>2, <2>1, TurnIs
    <3>2. QED
      BY <3>1 DEF IsTurned
  <2>3. /\ walk.visited = ToSet(walk.found) /\ walk.visited \subseteq DOMAIN next
        /\ ToSet(walk.queue) \subseteq walk.visited \cup {start}
        /\ \A t \in Done(walk, start) : ToSet(next[t]) \subseteq walk.visited
        /\ Cardinality(Done(walk, start)) >= n
        /\ Done(walk, start) = (walk.visited \cup {start}) \ ToSet(walk.queue)
    BY <1>2 DEF IsWalk, Seen, Done
  <2>4. Done(turned, start) = Done(walk, start) \cup {h}
    <3>1. Done(turned, start) = (walk.visited \cup new \cup {start})
                                    \ ((ToSet(walk.queue) \ {h}) \cup (new \ {start}))
      BY <2>2 DEF Done, Seen
    <3>2. new \cap walk.visited = {}
      BY <2>1
    <3>3. QED
      BY <2>2, <2>3, <3>1, <3>2
  <2>5. h \notin Done(walk, start)
    BY <2>2, <2>3
  <2>6. Cardinality(Done(turned, start)) >= n + 1
    <3>1. IsFiniteSet(Done(walk, start))
      BY <2>3, FS_Subset
    <3>2. Cardinality(Done(turned, start)) = Cardinality(Done(walk, start)) + 1
      BY <2>4, <2>5, <3>1, FS_AddElement
    <3>3. Cardinality(Done(walk, start)) \in Nat
      BY <3>1, FS_CardinalityType
    <3>4. QED
      BY <2>3, <3>2, <3>3
  <2>7. ToSet(next[h]) \subseteq walk.visited \cup new
    BY <2>1
  <2>8. \A t \in Done(turned, start) : ToSet(next[t]) \subseteq turned.visited
    BY <2>2, <2>3, <2>4, <2>7
  <2>9. turned.visited = ToSet(turned.found) /\ ToSet(turned.queue) \subseteq Seen(turned, start)
    BY <2>2, <2>3 DEF Seen
  <2>10. QED
    BY <2>1, <2>2, <2>6, <2>8, <2>9 DEF IsWalk
<1>3. QED
  BY <1>1, <1>2

IsTurns(f, next, start, found, m) ==
  f = [n \in 0 .. m |-> IF n = 0 THEN WalkFrom(start, found) ELSE Expanded(f[n - 1], next, start)]

LEMMA WalkTurnsExist ==
  ASSUME NEW next, NEW start, NEW found
  PROVE  \A m \in Nat : \E f : IsTurns(f, next, start, found, m)
<1> DEFINE Walk(f, m) == IsTurns(f, next, start, found, m)
           Bad == {m \in Nat : ~ \E f : Walk(f, m)}
<1> SUFFICES ASSUME Bad # {}
             PROVE  FALSE
  OBVIOUS
<1>1. PICK m \in Bad : \A k \in Bad : m <= k
  <2>1. Bad \in SUBSET Nat
    OBVIOUS
  <2> HIDE DEF Bad
  <2>2. QED
    BY <2>1, LeastNatural
<1>2. CASE m = 0
  <2>1. Walk([n \in 0 .. 0 |-> WalkFrom(start, found)], 0)
    BY DEF IsTurns
  <2>2. QED
    BY <1>1, <1>2, <2>1
<1>3. CASE m # 0
  <2>1. m \in Nat /\ m - 1 \in Nat /\ m - 1 \notin Bad
    BY <1>1, <1>3
  <2>2. PICK f : Walk(f, m - 1)
    BY <2>1
  <2> DEFINE then(g, n) == IF n = 0 THEN WalkFrom(start, found) ELSE Expanded(g[n - 1], next, start)
             g == [n \in 0 .. m |-> IF n = m THEN then(f, m) ELSE f[n]]
  <2>3. ASSUME NEW n \in 0 .. m
        PROVE  g[n] = then(g, n)
    <3>1. n # 0 => g[n - 1] = f[n - 1]
      <4>1. n # 0 => n - 1 \in 0 .. m /\ n - 1 # m
        BY <2>1
      <4>2. QED
        BY <4>1
    <3>2. then(g, n) = then(f, n)
      BY <3>1
    <3>3. n # m => n \in 0 .. m - 1 /\ f[n] = then(f, n)
      <4>1. n # m => n \in 0 .. m - 1
        BY <2>1
      <4>2. \A k \in 0 .. m - 1 : f[k] = then(f, k)
        BY <2>2 DEF IsTurns
      <4>3. QED
        BY <4>1, <4>2
    <3>4. QED
      BY <3>2, <3>3
  <2>4. Walk(g, m)
    BY <2>3 DEF IsTurns
  <2>5. QED
    BY <1>1, <2>4
<1>4. QED
  BY <1>2, <1>3

LEMMA WalkTurnsUnfold ==
  ASSUME NEW next, NEW start, NEW found, Cardinality(DOMAIN next) \in Nat
  PROVE  /\ Turns(next, start, found)[0] = WalkFrom(start, found)
         /\ \A n \in 1 .. Cardinality(DOMAIN next) :
              Turns(next, start, found)[n] = Expanded(Turns(next, start, found)[n - 1], next, start)
<1>1. PICK f, size : f = Turns(next, start, found) /\ size = Cardinality(DOMAIN next)
  OBVIOUS
<1>2. f = CHOOSE g : IsTurns(g, next, start, found, size)
  BY <1>1 DEF Turns, IsTurns, WalkFrom
<1>3. IsTurns(f, next, start, found, size)
  BY <1>1, <1>2, WalkTurnsExist
<1>4. \A n \in 0 .. size : f[n] = IF n = 0 THEN WalkFrom(start, found) ELSE Expanded(f[n - 1], next, start)
  BY <1>3 DEF IsTurns
<1>5. f[0] = WalkFrom(start, found)
  BY <1>1, <1>4
<1>6. ASSUME NEW n \in 1 .. size
      PROVE  f[n] = Expanded(f[n - 1], next, start)
  <2>1. n \in 0 .. size /\ n # 0
    BY <1>1
  <2>2. QED
    BY <1>4, <2>1
<1>7. QED
  BY <1>1, <1>5, <1>6

\* A set of terms that no step from it or from the start leaves.
IsClosedUnder(P, next, start) == \A t \in P \cup {start} : t \in DOMAIN next => ToSet(next[t]) \subseteq P

\* A turn finds nothing outside a set that is closed under the steps.
LEMMA TurnStaysInside ==
  ASSUME NEW walk, NEW next, NEW start \in DOMAIN next, NEW n, NEW P,
         next \in [DOMAIN next -> Seq(DOMAIN next)], IsWalk(walk, next, start, n),
         IsClosedUnder(P, next, start), walk.visited \subseteq P
  PROVE  Expanded(walk, next, start).visited \subseteq P
<1>1. CASE walk.queue = <<>>
  BY <1>1 DEF Expanded
<1>2. CASE walk.queue # <<>>
  <2>1. PICK h : h = Head(walk.queue)
    OBVIOUS
  <2>2. IsTurned(Expanded(walk, next, start), walk, next, start, h, ToSet(next[h]) \ walk.visited)
    BY <1>2, <2>1, TurnIs
  <2>3. h \in walk.visited \cup {start} /\ h \in DOMAIN next
    BY <2>2 DEF IsTurned, IsWalk, Seen
  <2>4. ToSet(next[h]) \subseteq P
    BY <2>3 DEF IsClosedUnder
  <2>5. QED
    BY <2>2, <2>4 DEF IsTurned
<1>3. QED
  BY <1>1, <1>2

\* A walk ends with the least set that holds what was found at first and is closed.
LEMMA WalkedIsLeast ==
  ASSUME NEW next, NEW start \in DOMAIN next, NEW found \in {<<>>, << start >>},
         IsFiniteSet(DOMAIN next), next \in [DOMAIN next -> Seq(DOMAIN next)]
  PROVE  /\ Turns(next, start, found)[Cardinality(DOMAIN next)].queue = <<>>
         /\ Walked(next, start, found) \in Seq(DOMAIN next)
         /\ IsInjective(Walked(next, start, found))
         /\ ToSet(found) \subseteq ToSet(Walked(next, start, found))
         /\ IsClosedUnder(ToSet(Walked(next, start, found)), next, start)
         /\ \A P : ToSet(found) \subseteq P /\ IsClosedUnder(P, next, start)
                     => ToSet(Walked(next, start, found)) \subseteq P
<1>1. PICK D, f, size : D = DOMAIN next /\ f = Turns(next, start, found) /\ size = Cardinality(D)
  OBVIOUS
<1>2. size \in Nat
  BY <1>1, FS_CardinalityType
<1>3. f[0] = WalkFrom(start, found) /\ \A n \in 1 .. size : f[n] = Expanded(f[n - 1], next, start)
  BY <1>1, <1>2, WalkTurnsUnfold
<1> DEFINE Inside(walk) == /\ ToSet(found) \subseteq walk.visited
                           /\ \A P : ToSet(found) \subseteq P /\ IsClosedUnder(P, next, start)
                                       => walk.visited \subseteq P
           Good(n) == IsWalk(f[n], next, start, n) /\ Inside(f[n])
           Bad == {n \in 0 .. size : ~Good(n)}
<1>4. Good(0)
  <2>1. PICK walk : walk = WalkFrom(start, found)
    OBVIOUS
  <2>2. /\ << start >> \in Seq(D) /\ ToSet(<< start >>) = {start} /\ IsInjective(<< start >>)
        /\ <<>> \in Seq(D) /\ ToSet(<<>>) = {} /\ IsInjective(<<>>)
    BY <1>1 DEF ToSet, IsInjective
  <2>3. found \in Seq(D) /\ IsInjective(found) /\ ToSet(found) \subseteq {start}
    BY <2>2
  <2>4. /\ walk \in [queue : Seq(D), found : Seq(D), visited : SUBSET D]
        /\ walk.queue = << start >> /\ walk.found = found /\ walk.visited = ToSet(found)
    BY <1>1, <2>1, <2>2, <2>3 DEF WalkFrom
  <2>5. Done(walk, start) = {}
    BY <2>2, <2>3, <2>4 DEF Done, Seen
  <2>6. Cardinality(Done(walk, start)) >= 0
    BY <2>5, FS_EmptySet
  <2>7. IsWalk(walk, next, start, 0)
    BY <1>1, <2>2, <2>3, <2>4, <2>5, <2>6 DEF IsWalk, Seen
  <2>8. Inside(walk)
    BY <2>4
  <2>9. QED
    BY <1>3, <2>1, <2>7, <2>8
<1>5. ASSUME NEW n \in 1 .. size, Good(n - 1)
      PROVE  Good(n)
  <2>1. PICK k, walk : k = n - 1 /\ walk = f[k]
    OBVIOUS
  <2>2. k \in Nat /\ k + 1 = n
    BY <1>2, <2>1
  <2>3. f[n] = Expanded(walk, next, start) /\ IsWalk(walk, next, start, k) /\ Inside(walk)
    BY <1>3, <1>5, <2>1
  <2>4. IsWalk(f[n], next, start, n)
    BY <2>2, <2>3, TurnKeepsWalk
  <2>5. ToSet(found) \subseteq f[n].visited
    <3>1. CASE walk.queue = <<>>
      BY <2>3, <3>1 DEF Expanded
    <3>2. CASE walk.queue # <<>>
      <4>1. IsTurned(f[n], walk, next, start, Head(walk.queue), ToSet(next[Head(walk.queue)]) \ walk.visited)
        BY <2>3, <3>2, TurnIs
      <4>2. QED
        BY <2>3, <4>1 DEF IsTurned
    <3>3. QED
      BY <3>1, <3>2
  <2>6. ASSUME NEW P, ToSet(found) \subseteq P, IsClosedUnder(P, next, start)
        PROVE  f[n].visited \subseteq P
    <3>1. walk.visited \subseteq P
      BY <2>3, <2>6
    <3>2. QED
      BY <2>3, <2>6, <3>1, TurnStaysInside
  <2>7. QED
    BY <2>4, <2>5, <2>6
<1>6. Good(size)
  <2> HIDE DEF Good
  <2>1. SUFFICES ASSUME Bad # {}
                 PROVE  FALSE
    BY <1>2
  <2>2. PICK n \in Bad : \A k \in Bad : n <= k
    <3>1. Bad \in SUBSET Nat
      BY <1>2
    <3> HIDE DEF Bad
    <3>2. QED
      BY <2>1, <3>1, LeastNatural
  <2>3. n # 0
    BY <1>4, <2>2
  <2>4. n \in 1 .. size /\ n - 1 \in 0 .. size /\ n - 1 \notin Bad
    BY <1>2, <2>2, <2>3
  <2>5. QED
    BY <1>5, <2>2, <2>4
<1>7. PICK walk : walk = f[size]
  OBVIOUS
<1>8. IsWalk(walk, next, start, size) /\ Inside(walk)
  BY <1>6, <1>7
<1>9. /\ walk.queue \in Seq(D) /\ walk.found \in Seq(D) /\ walk.visited \subseteq D
      /\ IsInjective(walk.found) /\ walk.visited = ToSet(walk.found)
      /\ \A t \in Done(walk, start) : ToSet(next[t]) \subseteq walk.visited
      /\ ToSet(walk.queue) \subseteq walk.visited \cup {start}
      /\ IsInjective(walk.queue)
      /\ walk.queue # <<>> => Cardinality(Done(walk, start)) >= size
  BY <1>1, <1>8 DEF IsWalk, Seen
<1>10. walk.queue = <<>>
  <2> SUFFICES ASSUME walk.queue # <<>>
               PROVE  FALSE
    OBVIOUS
  <2>1. PICK h : h = Head(walk.queue)
    OBVIOUS
  <2>2. h \in D /\ h \in ToSet(walk.queue)
    BY <1>9, <2>1, TailOnce
  <2>3. Done(walk, start) \subseteq D \ {h}
    BY <1>1, <1>9, <2>2 DEF Done, Seen
  <2>4. IsFiniteSet(D \ {h}) /\ Cardinality(D \ {h}) = size - 1
    BY <1>1, <2>2, FS_RemoveElement
  <2>5. Cardinality(Done(walk, start)) <= size - 1 /\ Cardinality(Done(walk, start)) \in Nat
    BY <2>3, <2>4, FS_Subset, FS_CardinalityType
  <2>6. QED
    BY <1>2, <1>9, <2>5
<1>11. Done(walk, start) = walk.visited \cup {start}
  BY <1>10 DEF Done, Seen, ToSet
<1>12. IsClosedUnder(walk.visited, next, start)
  BY <1>9, <1>11 DEF IsClosedUnder
<1>13. Walked(next, start, found) = walk.found
  BY <1>1, <1>7 DEF Walked
<1>14. QED
  BY <1>1, <1>7, <1>8, <1>9, <1>10, <1>12, <1>13

(***************************************************************************)
(* What the walks find                                                      *)
(***************************************************************************)
\* f leads from start to end in n steps of the inner path.
IsChain(f, next, start, end, n) ==
    /\ f \in [0 .. n -> DOMAIN next] /\ f[0] = start /\ f[n] = end
    /\ \A i \in 1 .. n : f[i] \in ToSet(next[f[i - 1]])

\* The terms that some number of steps out of N leads to.
ReachedIn(next, start, N) == {end \in DOMAIN next : \E n \in N : \E f : IsChain(f, next, start, end, n)}

LEMMA ChainGoesOn ==
  ASSUME NEW next, NEW start, NEW t \in DOMAIN next, NEW end \in ToSet(next[t]), NEW n \in Nat, NEW f,
         next \in [DOMAIN next -> Seq(DOMAIN next)], IsChain(f, next, start, t, n)
  PROVE  end \in DOMAIN next /\ \E g : IsChain(g, next, start, end, n + 1)
<1> DEFINE g == [i \in 0 .. n + 1 |-> IF i = n + 1 THEN end ELSE f[i]]
<1>1. end \in DOMAIN next
  BY DEF ToSet
<1>2. f \in [0 .. n -> DOMAIN next] /\ f[0] = start /\ f[n] = t
  BY DEF IsChain
<1>3. \A i \in 0 .. n : i \in 0 .. n + 1 /\ g[i] = f[i]
  OBVIOUS
<1>4. \A i \in 0 .. n + 1 : i \in 0 .. n \/ i = n + 1
  OBVIOUS
<1>5. g[n + 1] = end /\ g[0] = start
  BY <1>2, <1>3
<1>6. g \in [0 .. n + 1 -> DOMAIN next]
  BY <1>1, <1>2
<1>7. ASSUME NEW i \in 1 .. n + 1
      PROVE  g[i] \in ToSet(next[g[i - 1]])
  <2>1. i - 1 \in 0 .. n /\ g[i - 1] = f[i - 1]
    BY <1>3
  <2>2. CASE i = n + 1
    BY <1>2, <1>5, <2>1, <2>2
  <2>3. CASE i # n + 1
    <3>1. i \in 1 .. n /\ g[i] = f[i]
      BY <2>3
    <3>2. QED
      BY <2>1, <3>1 DEF IsChain
  <2>4. QED
    BY <2>2, <2>3
<1>8. IsChain(g, next, start, end, n + 1)
  <2> HIDE DEF g
  <2>1. QED
    BY <1>5, <1>6, <1>7 DEF IsChain
<1>9. QED
  BY <1>1, <1>8

\* What is reached from the start is inside every set that no step leaves.
LEMMA ChainStaysInside ==
  ASSUME NEW next, NEW start \in DOMAIN next, NEW P, IsClosedUnder(P, next, start),
         NEW end, NEW n \in Nat \ {0}, NEW f, IsChain(f, next, start, end, n)
  PROVE  end \in P
<1> DEFINE Bad == {i \in 1 .. n : f[i] \notin P}
<1> SUFFICES ASSUME end \notin P
             PROVE  FALSE
  OBVIOUS
<1>1. n \in Bad
  BY DEF IsChain
<1>2. PICK i \in Bad : \A k \in Bad : i <= k
  <2>1. Bad \in SUBSET Nat
    OBVIOUS
  <2> HIDE DEF Bad
  <2>2. QED
    BY <1>1, <2>1, LeastNatural
<1>3. i \in 1 .. n /\ i - 1 \in 0 .. n /\ (i # 1 => i - 1 \in 1 .. n /\ i - 1 \notin Bad)
  BY <1>2
<1>4. f[i - 1] \in P \cup {start}
  <2>1. i = 1 => i - 1 = 0
    OBVIOUS
  <2>2. f[0] = start
    BY DEF IsChain
  <2>3. QED
    BY <1>3, <2>1, <2>2
<1>5. f[i - 1] \in DOMAIN next /\ f[i] \in ToSet(next[f[i - 1]])
  BY <1>3 DEF IsChain
<1>6. f[i] \in P
  BY <1>4, <1>5 DEF IsClosedUnder
<1>7. QED
  BY <1>2, <1>6

\* A + path yields every term that one or more steps of the inner path lead to, and a *
\* path those and the start; each comes once, the start of a + path exactly if a cycle
\* leads back to it.  No cycle keeps a walk from ending: after one turn for every term at
\* most, the queue is empty (path-steps.ts: pathSteps).
THEOREM WalksFindTheReachable ==
  ASSUME NEW next, NEW start \in DOMAIN next,
         IsFiniteSet(DOMAIN next), next \in [DOMAIN next -> Seq(DOMAIN next)]
  PROVE  /\ IsInjective(OneOrMore(next, start)) /\ IsInjective(ZeroOrMore(next, start))
         /\ ToSet(OneOrMore(next, start)) = ReachedIn(next, start, Nat \ {0})
         /\ ToSet(ZeroOrMore(next, start)) = ReachedIn(next, start, Nat)
         /\ \A found \in {<<>>, << start >>} :
              Turns(next, start, found)[Cardinality(DOMAIN next)].queue = <<>>
<1>1. PICK P, Q : P = ReachedIn(next, start, Nat \ {0}) /\ Q = ReachedIn(next, start, Nat)
  OBVIOUS
<1>2. start \in Q /\ \E f : IsChain(f, next, start, start, 0)
  <2>1. IsChain([i \in 0 .. 0 |-> start], next, start, start, 0)
    BY DEF IsChain
  <2>2. QED
    BY <1>1, <2>1 DEF ReachedIn
<1>3. P \subseteq Q
  BY <1>1 DEF ReachedIn
<1>4. \A t \in Q : ToSet(next[t]) \subseteq P
  <2>1. SUFFICES ASSUME NEW t \in Q, NEW end \in ToSet(next[t])
                 PROVE  end \in P
    OBVIOUS
  <2>2. PICK n \in Nat : \E f : IsChain(f, next, start, t, n)
    BY <1>1, <2>1 DEF ReachedIn
  <2>3. PICK f : IsChain(f, next, start, t, n)
    BY <2>2
  <2>4. t \in DOMAIN next
    BY <1>1, <2>1 DEF ReachedIn
  <2>5. end \in DOMAIN next /\ \E g : IsChain(g, next, start, end, n + 1)
    BY <2>1, <2>3, <2>4, ChainGoesOn
  <2>6. n + 1 \in Nat \ {0}
    OBVIOUS
  <2>7. QED
    BY <1>1, <2>5, <2>6 DEF ReachedIn
<1>5. IsClosedUnder(P, next, start) /\ IsClosedUnder(Q, next, start)
  BY <1>2, <1>3, <1>4 DEF IsClosedUnder
<1>6. \A R : IsClosedUnder(R, next, start) => P \subseteq R
  <2>1. SUFFICES ASSUME NEW R, IsClosedUnder(R, next, start), NEW end \in P
                 PROVE  end \in R
    OBVIOUS
  <2>2. PICK n \in Nat \ {0} : \E f : IsChain(f, next, start, end, n)
    BY <1>1, <2>1 DEF ReachedIn
  <2>3. QED
    BY <2>1, <2>2, ChainStaysInside
<1>7. Q \subseteq P \cup {start}
  <2>1. SUFFICES ASSUME NEW end \in Q, end \notin P
                 PROVE  end = start
    OBVIOUS
  <2>2. PICK n \in Nat : \E f : IsChain(f, next, start, end, n)
    BY <1>1, <2>1 DEF ReachedIn
  <2>3. n = 0
    <3>1. end \in DOMAIN next
      BY <1>1, <2>1 DEF ReachedIn
    <3>2. QED
      BY <1>1, <2>1, <2>2, <3>1 DEF ReachedIn
  <2>4. QED
    BY <2>2, <2>3 DEF IsChain
<1>8. IsInjective(OneOrMore(next, start)) /\ ToSet(OneOrMore(next, start)) = P
  <2>1. PICK w : w = Walked(next, start, <<>>)
    OBVIOUS
  <2>2. ToSet(<<>>) = {}
    BY DEF ToSet
  <2>3. /\ IsInjective(w) /\ IsClosedUnder(ToSet(w), next, start)
        /\ \A R : ToSet(<<>>) \subseteq R /\ IsClosedUnder(R, next, start) => ToSet(w) \subseteq R
    BY <2>1, WalkedIsLeast
  <2>4. ToSet(w) = P
    BY <1>5, <1>6, <2>2, <2>3
  <2>5. QED
    BY <2>1, <2>3, <2>4 DEF OneOrMore
<1>9. IsInjective(ZeroOrMore(next, start)) /\ ToSet(ZeroOrMore(next, start)) = Q
  <2>1. PICK w : w = Walked(next, start, << start >>)
    OBVIOUS
  <2>2. ToSet(<< start >>) = {start}
    BY DEF ToSet
  <2>3. /\ IsInjective(w) /\ IsClosedUnder(ToSet(w), next, start) /\ ToSet(<< start >>) \subseteq ToSet(w)
        /\ \A R : ToSet(<< start >>) \subseteq R /\ IsClosedUnder(R, next, start) => ToSet(w) \subseteq R
    BY <2>1, WalkedIsLeast
  <2>4. ToSet(w) = Q
    BY <1>2, <1>5, <1>6, <1>7, <2>2, <2>3
  <2>5. QED
    BY <2>1, <2>3, <2>4 DEF ZeroOrMore
<1>10. \A found \in {<<>>, << start >>} : Turns(next, start, found)[Cardinality(DOMAIN next)].queue = <<>>
  BY WalkedIsLeast
<1>11. QED
  BY <1>1, <1>8, <1>9, <1>10

\* A chain read from its end is a chain of the steps the other way.
LEMMA ChainReversed ==
  ASSUME NEW forward, NEW backward, DOMAIN backward = DOMAIN forward,
         \A x, y \in DOMAIN forward : y \in ToSet(forward[x]) => x \in ToSet(backward[y]),
         NEW x, NEW y, NEW n \in Nat, NEW f, IsChain(f, forward, x, y, n)
  PROVE  \E g : IsChain(g, backward, y, x, n)
<1> DEFINE g == [i \in 0 .. n |-> f[n - i]]
<1>1. f \in [0 .. n -> DOMAIN forward] /\ f[0] = x /\ f[n] = y
  BY DEF IsChain
<1>2. \A i \in 1 .. n : f[i] \in ToSet(forward[f[i - 1]])
  BY DEF IsChain
<1>3. \A i \in 0 .. n : n - i \in 0 .. n /\ g[i] = f[n - i]
  OBVIOUS
<1>4. g[0] = y /\ g[n] = x
  <2>1. 0 \in 0 .. n /\ n \in 0 .. n /\ n - 0 = n /\ n - n = 0
    OBVIOUS
  <2>2. QED
    BY <1>1, <1>3, <2>1
<1>5. g \in [0 .. n -> DOMAIN backward]
  BY <1>1
<1> HIDE DEF g
<1>6. ASSUME NEW i \in 1 .. n
      PROVE  g[i] \in ToSet(backward[g[i - 1]])
  <2>1. PICK k : k = n - i + 1
    OBVIOUS
  <2>2. k \in 1 .. n /\ i \in 0 .. n /\ i - 1 \in 0 .. n /\ n - i = k - 1 /\ n - (i - 1) = k
    BY <2>1
  <2>3. g[i] = f[k - 1] /\ g[i - 1] = f[k]
    BY <1>3, <2>2
  <2>4. f[k] \in DOMAIN forward /\ f[k - 1] \in DOMAIN forward
    <3>1. k \in 0 .. n /\ k - 1 \in 0 .. n
      BY <2>2
    <3>2. QED
      BY <1>1, <3>1
  <2>5. f[k] \in ToSet(forward[f[k - 1]])
    BY <1>2, <2>2
  <2>6. QED
    BY <2>3, <2>4, <2>5
<1>7. QED
  BY <1>4, <1>5, <1>6 DEF IsChain

\* Which end of a + or * path a query binds makes no difference to what it finds: y is
\* among the terms a walk from x yields exactly if x is among those the walk from y
\* yields, once the steps of the inner path are each other's converse.  ScanPathEntry
\* walks backward if only the object is a constant and forward otherwise (path-scan.ts).
THEOREM WalksAgreeFromEitherEnd ==
  ASSUME NEW D, IsFiniteSet(D), NEW forward \in [D -> Seq(D)], NEW backward \in [D -> Seq(D)],
         \A x, y \in D : y \in ToSet(forward[x]) <=> x \in ToSet(backward[y])
  PROVE  \A x, y \in D :
           /\ y \in ToSet(OneOrMore(forward, x)) <=> x \in ToSet(OneOrMore(backward, y))
           /\ y \in ToSet(ZeroOrMore(forward, x)) <=> x \in ToSet(ZeroOrMore(backward, y))
<1>1. DOMAIN forward = D /\ DOMAIN backward = D
  OBVIOUS
<1>2. ASSUME NEW x \in D, NEW y \in D, NEW N \in SUBSET Nat
      PROVE  y \in ReachedIn(forward, x, N) <=> x \in ReachedIn(backward, y, N)
  <2>1. \A n \in N : \A f : IsChain(f, forward, x, y, n) => \E g : IsChain(g, backward, y, x, n)
    BY <1>1, <1>2, ChainReversed
  <2>2. \A n \in N : \A f : IsChain(f, backward, y, x, n) => \E g : IsChain(g, forward, x, y, n)
    BY <1>1, <1>2, ChainReversed
  <2>3. QED
    BY <1>1, <1>2, <2>1, <2>2 DEF ReachedIn
<1>3. \A x \in D : /\ ToSet(OneOrMore(forward, x)) = ReachedIn(forward, x, Nat \ {0})
                   /\ ToSet(ZeroOrMore(forward, x)) = ReachedIn(forward, x, Nat)
                   /\ ToSet(OneOrMore(backward, x)) = ReachedIn(backward, x, Nat \ {0})
                   /\ ToSet(ZeroOrMore(backward, x)) = ReachedIn(backward, x, Nat)
  BY <1>1, WalksFindTheReachable
<1>4. Nat \in SUBSET Nat /\ Nat \ {0} \in SUBSET Nat
  OBVIOUS
<1>5. QED
  BY <1>2, <1>3, <1>4
=============================================================================
