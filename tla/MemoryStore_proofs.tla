-------------------------- MODULE MemoryStore_proofs -------------------------
(***************************************************************************)
(* Proofs about MemoryStore: the four indexes mirror the canonical map     *)
(* through any calls, so getQuads finds what a scan finds whichever bucket *)
(* it probes, in the same order, and the store is the set of quads that    *)
(* QuadSet promises.                                                       *)
(***************************************************************************)
EXTENDS MemoryStore, Filtering_proofs

-----------------------------------------------------------------------------
(* Sequences                                                               *)

LEMMA ContainsIsIn ==
  ASSUME NEW S, NEW s \in Seq(S), NEW e
  PROVE  Contains(s, e) <=> e \in ToSet(s)
BY DEF Contains, ToSet

(* Cutting one element out of a sequence.                                  *)
LEMMA Spliced ==
  ASSUME NEW S, NEW s \in Seq(S), NEW k \in 1 .. Len(s)
  PROVE  LET r == SubSeq(s, 1, k - 1) \o SubSeq(s, k + 1, Len(s))
         IN /\ r \in Seq(S)
            /\ Len(r) = Len(s) - 1
            /\ \A i \in 1 .. Len(s) - 1 : r[i] = IF i < k THEN s[i] ELSE s[i + 1]
<1> DEFINE A == SubSeq(s, 1, k - 1)
           B == SubSeq(s, k + 1, Len(s))
<1>1. /\ A \in Seq(S) /\ Len(A) = k - 1
      /\ \A i \in 1 .. k - 1 : A[i] = s[i]
  <2>1. /\ A \in Seq(S) /\ Len(A) = (IF 1 <= k - 1 THEN k - 1 - 1 + 1 ELSE 0)
        /\ \A i \in 1 .. k - 1 - 1 + 1 : A[i] = s[1 + i - 1]
    BY SubSeqProperties
  <2> HIDE DEF A
  <2>2. QED
    BY <2>1
<1>2. /\ B \in Seq(S) /\ Len(B) = Len(s) - k
      /\ \A i \in 1 .. Len(s) - k : B[i] = s[k + i]
  <2>1. /\ B \in Seq(S) /\ Len(B) = (IF k + 1 <= Len(s) THEN Len(s) - (k + 1) + 1 ELSE 0)
        /\ \A i \in 1 .. Len(s) - (k + 1) + 1 : B[i] = s[k + 1 + i - 1]
    BY SubSeqProperties
  <2> HIDE DEF B
  <2>2. Len(s) \in Nat /\ \A i \in 1 .. Len(s) - k : k + 1 + i - 1 = k + i
    OBVIOUS
  <2>3. Len(B) = Len(s) - k
    BY <2>1, <2>2
  <2>4. \A i \in 1 .. Len(s) - k : i \in 1 .. Len(s) - (k + 1) + 1
    BY <2>2
  <2>5. QED
    BY <2>1, <2>2, <2>3, <2>4
<1> HIDE DEF A, B
<1> DEFINE r == A \o B
<1>3. Len(s) \in Nat
  OBVIOUS
<1>4. /\ r \in Seq(S) /\ Len(r) = Len(A) + Len(B)
      /\ \A i \in 1 .. Len(A) + Len(B) :
           r[i] = IF i <= Len(A) THEN A[i] ELSE B[i - Len(A)]
  BY <1>1, <1>2, ConcatProperties, Zenon
<1> HIDE DEF r
<1>5. ASSUME NEW i \in 1 .. Len(s) - 1
      PROVE  r[i] = IF i < k THEN s[i] ELSE s[i + 1]
  <2>1. CASE i < k
    <3>1. i \in 1 .. Len(A) + Len(B) /\ i <= Len(A) /\ i \in 1 .. k - 1
      BY <1>1, <1>2, <1>3, <2>1
    <3>2. r[i] = A[i]
      BY <1>4, <3>1, Zenon
    <3>3. QED
      BY <1>1, <2>1, <3>1, <3>2
  <2>2. CASE ~(i < k)
    <3>1. /\ i \in 1 .. Len(A) + Len(B) /\ ~(i <= Len(A))
          /\ i - (k - 1) \in 1 .. Len(s) - k
      BY <1>1, <1>2, <1>3, <2>2
    <3>2. r[i] = B[i - Len(A)]
      BY <1>4, <3>1, Zenon
    <3>3. k + (i - (k - 1)) = i + 1
      BY <1>3
    <3>4. QED
      BY <1>1, <1>2, <2>2, <3>1, <3>2, <3>3
  <2>3. QED
    BY <2>1, <2>2
<1>6. Len(r) = Len(s) - 1
  BY <1>1, <1>2, <1>3, <1>4
<1>7. QED
  BY <1>4, <1>5, <1>6, Zenon DEF r, A, B

(* Taking out the first occurrence leaves the rest in its order.           *)
LEMMA RemovedAt ==
  ASSUME NEW S, NEW s \in Seq(S), NEW e, Contains(s, e)
  PROVE  \E k \in 1 .. Len(s) :
           /\ s[k] = e
           /\ RemoveFirst(s, e) \in Seq(S)
           /\ Len(RemoveFirst(s, e)) = Len(s) - 1
           /\ \A i \in 1 .. Len(s) - 1 :
                RemoveFirst(s, e)[i] = IF i < k THEN s[i] ELSE s[i + 1]
<1> DEFINE I == {i \in 1 .. Len(s) : s[i] = e}
<1>1. I \in SUBSET Nat /\ I # {}
  BY DEF Contains
<1>2. \E x \in I : \A y \in I : x <= y
  BY <1>1, LeastNatural
<1>3. Min(I) \in I
  BY <1>2, Zenon DEF Min
<1>4. RemoveFirst(s, e) = SubSeq(s, 1, Min(I) - 1) \o SubSeq(s, Min(I) + 1, Len(s))
  <2>1. \E i \in 1 .. Len(s) : s[i] = e
    BY DEF Contains
  <2>2. SelectInSeq(s, LAMBDA v : v = e) = IF I # {} THEN Min(I) ELSE 0
    BY Zenon DEF SelectInSeq
  <2>3. RemoveFirst(s, e) = RemoveAt(s, Min(I))
    BY <1>1, <2>1, <2>2, Zenon DEF RemoveFirst
  <2>4. QED
    BY <2>3, Zenon DEF RemoveAt
<1> DEFINE k == Min(I)
<1> HIDE DEF k
<1>5. k \in 1 .. Len(s) /\ s[k] = e
  BY <1>3 DEF k
<1>6. RemoveFirst(s, e) = SubSeq(s, 1, k - 1) \o SubSeq(s, k + 1, Len(s))
  BY <1>4 DEF k
<1>7. /\ RemoveFirst(s, e) \in Seq(S)
      /\ Len(RemoveFirst(s, e)) = Len(s) - 1
      /\ \A i \in 1 .. Len(s) - 1 :
           RemoveFirst(s, e)[i] = IF i < k THEN s[i] ELSE s[i + 1]
  <2> DEFINE r == SubSeq(s, 1, k - 1) \o SubSeq(s, k + 1, Len(s))
  <2>1. /\ r \in Seq(S)
        /\ Len(r) = Len(s) - 1
        /\ \A i \in 1 .. Len(s) - 1 : r[i] = IF i < k THEN s[i] ELSE s[i + 1]
    BY <1>5, Spliced
  <2>2. r = RemoveFirst(s, e)
    BY <1>6
  <2> HIDE DEF r
  <2>3. QED
    BY <2>1, <2>2
<1>8. QED
  BY <1>5, <1>7, Zenon

LEMMA Removed ==
  ASSUME NEW S, NEW s \in Seq(S), NEW e, Contains(s, e), IsInjective(s)
  PROVE  /\ RemoveFirst(s, e) \in Seq(S)
         /\ ToSet(RemoveFirst(s, e)) = ToSet(s) \ {e}
         /\ IsInjective(RemoveFirst(s, e))
         /\ s # <<e>> => ToSet(s) \ {e} # {}
<1> DEFINE r == RemoveFirst(s, e)
<1>1. PICK k \in 1 .. Len(s) :
         /\ s[k] = e
         /\ r \in Seq(S)
         /\ Len(r) = Len(s) - 1
         /\ \A i \in 1 .. Len(s) - 1 : r[i] = IF i < k THEN s[i] ELSE s[i + 1]
  BY RemovedAt
<1> HIDE DEF r
<1>2. ASSUME NEW i \in 1 .. Len(r) PROVE r[i] \in ToSet(s) \ {e}
  <2> DEFINE j == IF i < k THEN i ELSE i + 1
  <2>1. j \in 1 .. Len(s) /\ j # k /\ r[i] = s[j]
    BY <1>1
  <2>2. s[j] # e
    BY <1>1, <2>1 DEF IsInjective
  <2>3. QED
    BY <2>1, <2>2 DEF ToSet
<1>3. ASSUME NEW j \in 1 .. Len(s), s[j] # e PROVE s[j] \in ToSet(r)
  <2>1. CASE j < k
    BY <1>1, <2>1 DEF ToSet
  <2>2. CASE j > k
    <3>1. j - 1 \in 1 .. Len(r) /\ r[j - 1] = s[j]
      BY <1>1, <2>2
    <3>2. QED
      BY <1>1, <3>1 DEF ToSet
  <2>3. QED
    BY <1>1, <1>3, <2>1, <2>2
<1>4. ToSet(r) = ToSet(s) \ {e}
  BY <1>1, <1>2, <1>3 DEF ToSet
<1>5. IsInjective(r)
  <2> SUFFICES ASSUME NEW a \in 1 .. Len(r), NEW b \in 1 .. Len(r), r[a] = r[b] PROVE a = b
    BY <1>1 DEF IsInjective
  <2> DEFINE at(i) == IF i < k THEN i ELSE i + 1
  <2>1. at(a) \in 1 .. Len(s) /\ at(b) \in 1 .. Len(s) /\ s[at(a)] = s[at(b)]
    BY <1>1
  <2>2. at(a) = at(b)
    BY <2>1 DEF IsInjective
  <2>3. QED
    BY <2>2
<1>6. s # <<e>> => ToSet(s) \ {e} # {}
  <2> SUFFICES ASSUME s # <<e>> PROVE ToSet(s) \ {e} # {}
    OBVIOUS
  <2>1. Len(s) # 1
    BY <1>1
  <2>2. PICK j \in 1 .. Len(s) : j # k
    BY <1>1, <2>1
  <2>3. s[j] # e
    BY <1>1, <2>2 DEF IsInjective
  <2>4. QED
    BY <2>3 DEF ToSet
<1>7. QED
  BY <1>1, <1>4, <1>5, <1>6 DEF r
(* Removing an element from distinct ones keeps all others in their order. *)
LEMMA RemovedIsKept ==
  ASSUME NEW S, NEW s \in Seq(S), NEW e, Contains(s, e), IsInjective(s)
  PROVE  RemoveFirst(s, e) = Kept(s, S \ {e})
<1> DEFINE G == {l \in Seq(S) : Contains(l, e) /\ IsInjective(l) =>
                                  RemoveFirst(l, e) = Kept(l, S \ {e})}
<1>1. <<>> \in G
  BY DEF Contains
<1>2. ASSUME NEW l \in Seq(S), NEW x \in S, l \in G,
             Contains(Append(l, x), e), IsInjective(Append(l, x))
      PROVE  RemoveFirst(Append(l, x), e) = Kept(Append(l, x), S \ {e})
  <2> DEFINE m == Append(l, x)
  <2>1. /\ m \in Seq(S) /\ Len(m) = Len(l) + 1 /\ Len(l) \in Nat
        /\ m[Len(l) + 1] = x
        /\ \A i \in 1 .. Len(l) : m[i] = l[i]
    OBVIOUS
  <2>2. IsInjective(l)
    BY <1>2, <2>1 DEF IsInjective
  <2>3. PICK k \in 1 .. Len(m) :
          /\ m[k] = e
          /\ RemoveFirst(m, e) \in Seq(S)
          /\ Len(RemoveFirst(m, e)) = Len(m) - 1
          /\ \A i \in 1 .. Len(m) - 1 :
               RemoveFirst(m, e)[i] = IF i < k THEN m[i] ELSE m[i + 1]
    <3>1. Append(l, x) \in Seq(S) /\ Contains(Append(l, x), e)
      BY <1>2
    <3> HIDE DEF m
    <3>2. m \in Seq(S) /\ Contains(m, e)
      BY <3>1 DEF m
    <3>3. QED
      BY <3>2, RemovedAt
  <2>4. Kept(m, S \ {e}) = IF x \in S \ {e} THEN Append(Kept(l, S \ {e}), x)
                           ELSE Kept(l, S \ {e})
    BY KeptAppend
  <2> HIDE DEF m
  <2>5. CASE x = e
    <3>1. k = Len(m)
      <4>1. IsInjective(m) /\ DOMAIN m = 1 .. Len(m) /\ Len(m) \in 1 .. Len(m)
        BY <1>2, <2>1 DEF m
      <4>2. m[k] = m[Len(m)]
        BY <2>1, <2>3, <2>5
      <4>3. QED
        BY <2>3, <4>1, <4>2 DEF IsInjective
    <3>2. RemoveFirst(m, e) = l
      BY <2>1, <2>3, <3>1
    <3>3. ToSet(l) \subseteq S \ {e}
      <4>1. \A i \in 1 .. Len(l) : l[i] # e
        BY <1>2, <2>1, <2>3, <3>1 DEF IsInjective, m
      <4>2. QED
        BY <4>1 DEF ToSet
    <3>4. Kept(l, S \ {e}) = l
      BY <3>3, KeptAll
    <3>5. QED
      BY <2>4, <2>5, <3>2, <3>4 DEF m
  <2>6. CASE x # e
    <3>1. k \in 1 .. Len(l) /\ l[k] = e
      BY <2>1, <2>3, <2>6
    <3>2. Contains(l, e)
      BY <3>1 DEF Contains
    <3>3. PICK j \in 1 .. Len(l) :
            /\ l[j] = e
            /\ RemoveFirst(l, e) \in Seq(S)
            /\ Len(RemoveFirst(l, e)) = Len(l) - 1
            /\ \A i \in 1 .. Len(l) - 1 :
                 RemoveFirst(l, e)[i] = IF i < j THEN l[i] ELSE l[i + 1]
      BY <3>2, RemovedAt
    <3>4. j = k
      BY <2>2, <3>1, <3>3 DEF IsInjective
    <3>5. RemoveFirst(m, e) = Append(RemoveFirst(l, e), x)
      <4> DEFINE a == RemoveFirst(m, e)
                 b == Append(RemoveFirst(l, e), x)
      <4>1. /\ b \in Seq(S) /\ Len(b) = Len(l) /\ b[Len(l)] = x
            /\ \A i \in 1 .. Len(l) - 1 : b[i] = RemoveFirst(l, e)[i]
        BY <2>1, <3>3
      <4>2. a \in Seq(S) /\ Len(a) = Len(l)
        BY <2>1, <2>3
      <4>3. ASSUME NEW i \in 1 .. Len(l) PROVE a[i] = b[i]
        <5>1. a[i] = IF i < k THEN m[i] ELSE m[i + 1]
          BY <2>1, <2>3
        <5>2. CASE i = Len(l)
          BY <2>1, <3>1, <4>1, <5>1, <5>2
        <5>3. CASE i # Len(l)
          BY <2>1, <3>1, <3>3, <3>4, <4>1, <5>1, <5>3
        <5>4. QED
          BY <5>2, <5>3
      <4> HIDE DEF a, b
      <4>4. a = b
        BY <4>1, <4>2, <4>3
      <4>5. QED
        BY <4>4 DEF a, b
    <3>6. RemoveFirst(l, e) = Kept(l, S \ {e})
      BY <1>2, <2>2, <3>2
    <3>7. QED
      BY <2>4, <2>6, <3>5, <3>6 DEF m
  <2>7. QED
    BY <2>5, <2>6
<1>3. ASSUME NEW l \in Seq(S), NEW x \in S, l \in G PROVE Append(l, x) \in G
  <2>1. Append(l, x) \in Seq(S)
    OBVIOUS
  <2>2. QED
    BY <1>2, <1>3, <2>1
<1> HIDE DEF G
<1>4. Seq(S) \subseteq G
  BY <1>1, <1>3, EverySequence
<1>5. QED
  BY <1>4 DEF G

-----------------------------------------------------------------------------
(* What an index lists                                                     *)

(* The quads of the store that carry a term at a position.                 *)
Carriers(p, t) == {q \in ToSet(quads) : q[p] = t}

(* What IndexExact says of one bucket.                                     *)
BucketExact(p, t) ==
  IF index[p][t] = NoBucket THEN Carriers(p, t) = {}
  ELSE /\ ToSet(index[p][t]) = Carriers(p, t) /\ Carriers(p, t) # {}
       /\ IsInjective(index[p][t])

LEMMA BucketByBucket ==
  IndexExact <=> /\ IsInjective(quads)
                 /\ \A p \in Positions, t \in Terms : BucketExact(p, t)
BY Zenon DEF IndexExact, BucketExact, Carriers

LEMMA SetOfSeq ==
  ASSUME NEW S, NEW s \in Seq(S)
  PROVE  ToSet(s) \subseteq S
BY DEF ToSet

(* Some constrained position has the bucket that getQuads probes: a least  *)
(* one exists, since lengths and ranks are numbers.                        *)
LEMMA SomeBucketProbed ==
  ASSUME TypeOK, NEW pattern \in Patterns, Constrained(pattern) # {},
         \A p \in Constrained(pattern) : index[p][pattern[p]] # NoBucket
  PROVE  \E p \in Constrained(pattern) : Probed(pattern) = index[p][pattern[p]]
<1> DEFINE C == Constrained(pattern)
           bucket(p) == index[p][pattern[p]]
           size(p) == 5 * Len(bucket(p)) + Rank[p]
           Best(p) == \A o \in C : \/ Len(bucket(p)) < Len(bucket(o))
                                   \/ Len(bucket(p)) = Len(bucket(o)) /\ Rank[p] <= Rank[o]
<1>1. ASSUME NEW p \in C PROVE Len(bucket(p)) \in Nat /\ Rank[p] \in 1 .. 4
  <2>1. p \in Positions /\ pattern[p] \in Terms
    BY <1>1 DEF Constrained, Patterns
  <2>2. bucket(p) \in Seq(Quads)
    BY <1>1, <2>1 DEF TypeOK
  <2>3. Rank[p] \in 1 .. 4
    BY <2>1 DEF Positions, Rank
  <2>4. QED
    BY <2>2, <2>3
<1> HIDE DEF C, bucket
<1>2. {size(p) : p \in C} \in SUBSET Nat /\ {size(p) : p \in C} # {}
  <2>1. C # {}
    BY DEF C
  <2>2. QED
    BY <1>1, <2>1
<1>3. PICK p \in C : \A o \in C : size(p) <= size(o)
  <2>1. PICK x \in {size(p) : p \in C} : \A y \in {size(p) : p \in C} : x <= y
    BY <1>2, LeastNatural
  <2> HIDE DEF size
  <2>2. QED
    BY <2>1
<1>4. Best(p)
  <2> SUFFICES ASSUME NEW o \in C
               PROVE  \/ Len(bucket(p)) < Len(bucket(o))
                      \/ Len(bucket(p)) = Len(bucket(o)) /\ Rank[p] <= Rank[o]
    OBVIOUS
  <2>1. size(p) <= size(o)
    BY <1>3
  <2>2. QED
    BY <1>1, <2>1
<1> HIDE DEF Best
<1>5. (CHOOSE x \in C : Best(x)) \in C
  BY <1>4, Zenon
<1>6. Probed(pattern) = bucket(CHOOSE x \in C : Best(x))
  BY Zenon DEF Probed, C, bucket, Best
<1>7. QED
  BY <1>5, <1>6, Zenon DEF C, bucket

(* Whichever bucket is probed, getQuads finds the quads a scan finds.      *)
LEMMA FoundIsScan ==
  ASSUME TypeOK, IndexExact, NEW pattern \in Patterns
  PROVE  Found(pattern) = {q \in ToSet(quads) : Matches(q, pattern)}
<1>1. ASSUME NEW p \in Constrained(pattern)
      PROVE  /\ p \in Positions /\ pattern[p] \in Terms
             /\ BucketExact(p, pattern[p])
             /\ \A q \in ToSet(quads) : Matches(q, pattern) => q \in Carriers(p, pattern[p])
  <2>1. p \in Positions /\ pattern[p] \in Terms /\ pattern[p] # Wildcard
    BY <1>1 DEF Constrained, Patterns
  <2>2. BucketExact(p, pattern[p])
    BY <2>1, BucketByBucket
  <2>3. QED
    BY <2>1, <2>2 DEF Matches, Carriers
<1>2. CASE \E p \in Constrained(pattern) : index[p][pattern[p]] = NoBucket
  <2>1. ToSet(Candidates(pattern)) = {}
    BY <1>2 DEF Candidates, ToSet
  <2>2. QED
    BY <1>1, <1>2, <2>1 DEF Found, BucketExact
<1>3. CASE Constrained(pattern) = {}
  BY <1>3 DEF Found, Candidates
<1>4. CASE /\ Constrained(pattern) # {}
           /\ \A p \in Constrained(pattern) : index[p][pattern[p]] # NoBucket
  <2>1. PICK p \in Constrained(pattern) : Probed(pattern) = index[p][pattern[p]]
    BY <1>4, SomeBucketProbed
  <2>2. Candidates(pattern) = index[p][pattern[p]]
    BY <1>4, <2>1 DEF Candidates
  <2>3. ToSet(Candidates(pattern)) = Carriers(p, pattern[p])
    BY <1>1, <1>4, <2>2 DEF BucketExact
  <2>4. QED
    BY <1>1, <2>3 DEF Found, Carriers
<1>5. QED
  BY <1>2, <1>3, <1>4

-----------------------------------------------------------------------------
(* Steps                                                                   *)

Mirrored == TypeOK /\ IndexExact

LEMMA QuadTerms ==
  ASSUME NEW q \in Quads, NEW p \in Positions
  PROVE  q[p] \in Terms
BY QuadAssumption

LEMMA AddedTypes ==
  ASSUME TypeOK, NEW q \in Quads, AddQuad(q)
  PROVE  /\ quads' \in Seq(Quads)
         /\ index' \in [Positions -> [Terms -> Seq(Quads) \cup {NoBucket}]]
         /\ version' \in 0 .. MaxVersion
<1>1. version' \in 0 .. MaxVersion
  BY BoundAssumption DEF AddQuad, TypeOK
<1>2. CASE Contains(quads, q)
  BY <1>1, <1>2 DEF AddQuad, TypeOK
<1>3. CASE ~Contains(quads, q)
  <2>1. quads' \in Seq(Quads)
    BY <1>3 DEF AddQuad, TypeOK
  <2>2. ASSUME NEW p \in Positions
        PROVE  IndexPosition(index[p], q[p], q) \in [Terms -> Seq(Quads) \cup {NoBucket}]
    <3>1. ASSUME NEW b \in Seq(Quads) \cup {NoBucket}
          PROVE  (IF b = NoBucket THEN <<q>> ELSE Append(b, q)) \in Seq(Quads)
      OBVIOUS
    <3>2. index[p] \in [Terms -> Seq(Quads) \cup {NoBucket}]
      BY DEF TypeOK
    <3>3. QED
      BY <3>1, <3>2, QuadTerms DEF IndexPosition
  <2>3. index' = [p \in Positions |-> IndexPosition(index[p], q[p], q)]
    BY <1>3 DEF AddQuad
  <2>4. QED
    BY <1>1, <2>1, <2>2, <2>3
<1>4. QED
  BY <1>2, <1>3

LEMMA RemovedTypes ==
  ASSUME TypeOK, IndexExact, NEW q \in Quads, RemoveQuad(q)
  PROVE  /\ quads' \in Seq(Quads)
         /\ index' \in [Positions -> [Terms -> Seq(Quads) \cup {NoBucket}]]
         /\ version' \in 0 .. MaxVersion
<1>1. version' \in 0 .. MaxVersion
  BY BoundAssumption DEF RemoveQuad, TypeOK
<1>2. CASE ~Contains(quads, q)
  BY <1>1, <1>2 DEF RemoveQuad, TypeOK
<1>3. CASE Contains(quads, q)
  <2>1. quads \in Seq(Quads) /\ IsInjective(quads)
    BY DEF TypeOK, IndexExact
  <2>2. quads' \in Seq(Quads)
    BY <1>3, <2>1, Removed DEF RemoveQuad
  <2>3. ASSUME NEW p \in Positions
        PROVE  UnindexPosition(index[p], q[p], q) \in [Terms -> Seq(Quads) \cup {NoBucket}]
    <3>1. index[p] \in [Terms -> Seq(Quads) \cup {NoBucket}]
      BY DEF TypeOK
    <3>2. RemoveFirst(index[p][q[p]], q) \in Seq(Quads) \/ index[p][q[p]] = NoBucket
      <4> SUFFICES ASSUME index[p][q[p]] # NoBucket
                   PROVE  RemoveFirst(index[p][q[p]], q) \in Seq(Quads)
        OBVIOUS
      <4>1. BucketExact(p, q[p]) /\ index[p][q[p]] \in Seq(Quads)
        BY <3>1, QuadTerms, BucketByBucket
      <4>2. q \in ToSet(index[p][q[p]])
        BY <1>3, <2>1, <4>1, ContainsIsIn DEF BucketExact, Carriers
      <4>3. QED
        BY <4>1, <4>2, ContainsIsIn, Removed DEF BucketExact
    <3>3. QED
      BY <3>1, <3>2, QuadTerms DEF UnindexPosition
  <2>4. index' = [p \in Positions |-> UnindexPosition(index[p], q[p], q)]
    BY <1>3 DEF RemoveQuad
  <2>5. QED
    BY <1>1, <2>2, <2>3, <2>4
<1>4. QED
  BY <1>2, <1>3

(* addQuad keeps the indexes exact: the new quad is in no bucket yet.      *)
LEMMA AddedExact ==
  ASSUME TypeOK, IndexExact, NEW q \in Quads, AddQuad(q)
  PROVE  /\ IndexExact'
         /\ ToSet(quads') = ToSet(quads) \cup {q}
<1>1. quads \in Seq(Quads) /\ IsInjective(quads)
  BY DEF TypeOK, IndexExact
<1>2. CASE Contains(quads, q)
  <2>1. quads' = quads /\ index' = index
    BY <1>2 DEF AddQuad
  <2>2. q \in ToSet(quads)
    BY <1>1, <1>2, ContainsIsIn
  <2>3. QED
    BY <2>1, <2>2 DEF IndexExact
<1>3. CASE ~Contains(quads, q)
  <2>1. quads' = Append(quads, q) /\ q \notin ToSet(quads)
    BY <1>1, <1>3, ContainsIsIn DEF AddQuad
  <2>2. IsInjective(quads') /\ ToSet(quads') = ToSet(quads) \cup {q}
    BY <1>1, <1>3, <2>1, Appended
  <2>3. ASSUME NEW p \in Positions, NEW t \in Terms
        PROVE  BucketExact(p, t)'
    <3> DEFINE b == index[p][t]
    <3>1. BucketExact(p, t) /\ b \in Seq(Quads) \cup {NoBucket}
      BY BucketByBucket DEF TypeOK
    <3>2. index'[p][t] = IF t # q[p] THEN b
                         ELSE IF b = NoBucket THEN <<q>> ELSE Append(b, q)
      BY <1>3 DEF AddQuad, IndexPosition, TypeOK
    <3>3. Carriers(p, t)' = IF t = q[p] THEN Carriers(p, t) \cup {q} ELSE Carriers(p, t)
      BY <2>2 DEF Carriers
    <3>4. CASE t # q[p]
      BY <3>1, <3>2, <3>3, <3>4 DEF BucketExact
    <3>5. CASE t = q[p] /\ b = NoBucket
      <4>1. ToSet(<<q>>) = {q} /\ IsInjective(<<q>>) /\ <<q>> # NoBucket
        <5>1. DOMAIN <<q>> = {1} /\ <<q>>[1] = q /\ <<q>> \in Seq(Quads)
          OBVIOUS
        <5>2. ToSet(<<q>>) = {q}
          BY <5>1, Zenon DEF ToSet
        <5>3. IsInjective(<<q>>)
          BY <5>1, Zenon DEF IsInjective
        <5>4. QED
          BY <5>1, <5>2, <5>3, BucketAssumption, Zenon
      <4>2. Carriers(p, t)' = {q} /\ index'[p][t] = <<q>>
        BY <3>1, <3>2, <3>3, <3>5 DEF BucketExact
      <4>3. QED
        BY <4>1, <4>2, Zenon DEF BucketExact
    <3>6. CASE t = q[p] /\ b # NoBucket
      <4>1. b \in Seq(Quads) /\ ~Contains(b, q) /\ IsInjective(b)
        BY <2>1, <3>1, <3>6, ContainsIsIn DEF BucketExact, Carriers
      <4>2. /\ Append(b, q) \in Seq(Quads)
            /\ ToSet(Append(b, q)) = ToSet(b) \cup {q}
            /\ IsInjective(Append(b, q))
        BY <4>1, Appended
      <4>3. index'[p][t] = Append(b, q) /\ Append(b, q) # NoBucket
        BY <3>2, <3>6, <4>2, BucketAssumption
      <4>4. Carriers(p, t)' = ToSet(b) \cup {q}
        BY <3>1, <3>3, <3>6 DEF BucketExact
      <4>5. QED
        BY <4>2, <4>3, <4>4, Zenon DEF BucketExact
    <3>7. QED
      BY <3>4, <3>5, <3>6
  <2>4. IndexExact'
    BY <2>2, <2>3, Zenon DEF IndexExact, BucketExact, Carriers
  <2>5. QED
    BY <2>2, <2>4
<1>4. QED
  BY <1>2, <1>3

(* removeQuad keeps the indexes exact: the bucket of each of the quad's    *)
(* terms holds it once, and goes with its last quad.                       *)
LEMMA RemovedExact ==
  ASSUME TypeOK, IndexExact, NEW q \in Quads, RemoveQuad(q)
  PROVE  /\ IndexExact'
         /\ ToSet(quads') = ToSet(quads) \ {q}
<1>1. quads \in Seq(Quads) /\ IsInjective(quads)
  BY DEF TypeOK, IndexExact
<1>2. CASE ~Contains(quads, q)
  <2>1. quads' = quads /\ index' = index
    BY <1>2 DEF RemoveQuad
  <2>2. q \notin ToSet(quads)
    BY <1>1, <1>2, ContainsIsIn
  <2>3. QED
    BY <2>1, <2>2 DEF IndexExact
<1>3. CASE Contains(quads, q)
  <2>1. quads' = RemoveFirst(quads, q) /\ q \in ToSet(quads)
    BY <1>1, <1>3, ContainsIsIn DEF RemoveQuad
  <2>2. IsInjective(quads') /\ ToSet(quads') = ToSet(quads) \ {q}
    BY <1>1, <1>3, <2>1, Removed
  <2>3. ASSUME NEW p \in Positions, NEW t \in Terms
        PROVE  BucketExact(p, t)'
    <3> DEFINE b == index[p][t]
    <3>1. BucketExact(p, t) /\ b \in Seq(Quads) \cup {NoBucket}
      BY BucketByBucket DEF TypeOK
    <3>2. index'[p][t] = IF t # q[p] \/ b = NoBucket THEN b
                         ELSE IF b = <<q>> THEN NoBucket ELSE RemoveFirst(b, q)
      BY <1>3 DEF RemoveQuad, UnindexPosition, TypeOK
    <3>3. Carriers(p, t)' = IF t = q[p] THEN Carriers(p, t) \ {q} ELSE Carriers(p, t)
      BY <2>2 DEF Carriers
    <3>4. CASE t # q[p]
      BY <3>1, <3>2, <3>3, <3>4 DEF BucketExact
    <3>5. CASE t = q[p]
      <4>1. b \in Seq(Quads) /\ q \in ToSet(b) /\ IsInjective(b) /\ b # NoBucket
        BY <2>1, <3>1, <3>5 DEF BucketExact, Carriers
      <4>2. Carriers(p, t)' = ToSet(b) \ {q}
        BY <3>1, <3>3, <3>5, <4>1 DEF BucketExact
      <4>3. CASE b = <<q>>
        <5>1. ToSet(b) \ {q} = {}
          BY <4>3 DEF ToSet
        <5>2. index'[p][t] = NoBucket
          BY <3>2, <3>5, <4>1, <4>3
        <5>3. QED
          BY <4>2, <5>1, <5>2, Zenon DEF BucketExact
      <4>4. CASE b # <<q>>
        <5>1. Contains(b, q)
          BY <4>1, ContainsIsIn
        <5>2. /\ RemoveFirst(b, q) \in Seq(Quads)
              /\ ToSet(RemoveFirst(b, q)) = ToSet(b) \ {q}
              /\ IsInjective(RemoveFirst(b, q))
              /\ ToSet(b) \ {q} # {}
          BY <4>1, <4>4, <5>1, Removed
        <5>3. index'[p][t] = RemoveFirst(b, q) /\ RemoveFirst(b, q) # NoBucket
          BY <3>2, <3>5, <4>1, <4>4, <5>2, BucketAssumption
        <5>4. QED
          BY <4>2, <5>2, <5>3, Zenon DEF BucketExact
      <4>5. QED
        BY <4>3, <4>4
    <3>6. QED
      BY <3>4, <3>5
  <2>4. IndexExact'
    BY <2>2, <2>3, Zenon DEF IndexExact, BucketExact, Carriers
  <2>5. QED
    BY <2>2, <2>4
<1>4. QED
  BY <1>2, <1>3

LEMMA JobsOfStreams ==
  ASSUME TypeOK, NEW job \in Jobs
  PROVE  Append(streams, job) \in Seq(Jobs)
BY DEF TypeOK

LEMMA NextMirrored == Mirrored /\ [Next]_vars => Mirrored'
<1> SUFFICES ASSUME TypeOK, IndexExact, [Next]_vars PROVE TypeOK' /\ IndexExact'
  BY DEF Mirrored
<1>1. ASSUME NEW q \in Quads, AddOne(q) PROVE TypeOK' /\ IndexExact'
  <2>1. TypeOK'
    BY <1>1, AddedTypes DEF AddOne, TypeOK
  <2>2. QED
    BY <1>1, <2>1, AddedExact DEF AddOne
<1>2. ASSUME NEW q \in Quads, RemoveOne(q) PROVE TypeOK' /\ IndexExact'
  <2>1. TypeOK'
    BY <1>2, RemovedTypes DEF RemoveOne, TypeOK
  <2>2. QED
    BY <1>2, <2>1, RemovedExact DEF RemoveOne
<1>3. ASSUME NEW q \in Quads, Round(q) PROVE TypeOK' /\ IndexExact'
  <2>1. loop' \in Jobs /\ streams' \in Seq(Jobs)
    BY <1>3 DEF Round, TypeOK, Jobs
  <2>2. CASE loop.mode = "add"
    BY <1>3, <2>1, <2>2, AddedTypes, AddedExact DEF Round, TypeOK
  <2>3. CASE loop.mode # "add"
    BY <1>3, <2>1, <2>3, RemovedTypes, RemovedExact DEF Round, TypeOK
  <2>4. QED
    BY <2>2, <2>3
<1>4. ASSUME NEW pattern \in Patterns, RemoveMatches(pattern) \/ RemoveMatchStream(pattern)
      PROVE  TypeOK' /\ IndexExact'
  <2>1. Found(pattern) \in SUBSET Quads
    BY FoundIsScan, SetOfSeq DEF TypeOK
  <2>2. [mode |-> "remove", quads |-> Found(pattern)] \in Jobs
    BY <2>1 DEF Jobs
  <2>3. UNCHANGED <<quads, index, version>>
    BY <1>4 DEF RemoveMatches, RemoveMatchStream, Subscribe
  <2>4. loop' \in Jobs /\ streams' \in Seq(Jobs)
    BY <1>4, <2>2, JobsOfStreams DEF RemoveMatches, RemoveMatchStream, Subscribe, TypeOK
  <2>5. QED
    BY <2>3, <2>4 DEF TypeOK, IndexExact
<1>5. ASSUME NEW content \in Imports, Import(content) PROVE TypeOK' /\ IndexExact'
  <2>1. [mode |-> "add", quads |-> content] \in Jobs
    BY ImportAssumption DEF Jobs
  <2>2. streams' \in Seq(Jobs)
    BY <1>5, <2>1, JobsOfStreams DEF Import, Subscribe
  <2>3. QED
    BY <1>5, <2>2 DEF Import, Subscribe, TypeOK, IndexExact
<1>6. ASSUME Drain PROVE TypeOK' /\ IndexExact'
  BY <1>6 DEF Drain, TypeOK, IndexExact
<1>7. ASSUME UNCHANGED vars PROVE TypeOK' /\ IndexExact'
  BY <1>7 DEF vars, TypeOK, IndexExact
<1>8. QED
  BY <1>1, <1>2, <1>3, <1>4, <1>5, <1>6, <1>7 DEF Next

LEMMA InitMirrored == Init => Mirrored
<1> SUFFICES ASSUME Init PROVE Mirrored
  OBVIOUS
<1>1. TypeOK
  BY BoundAssumption DEF Init, TypeOK, Idle, Jobs
<1>2. ToSet(quads) = {} /\ IsInjective(quads)
  BY DEF Init, ToSet, IsInjective
<1>3. IndexExact
  BY <1>2 DEF Init, IndexExact
<1>4. QED
  BY <1>1, <1>3 DEF Mirrored

LEMMA AlwaysMirrored == Spec => []Mirrored
BY InitMirrored, NextMirrored, PTL DEF Spec

-----------------------------------------------------------------------------
(* The order of a bucket                                                   *)

(* The quads that carry a term at a position, in the store or not.         *)
Carrying(p, t) == {q \in Quads : q[p] = t}

(* A bucket lists its quads in the order of the canonical map.             *)
InOrder ==
  \A p \in Positions, t \in Terms :
    index[p][t] # NoBucket => index[p][t] = Kept(quads, Carrying(p, t))

LEMMA CarriersAreCarrying ==
  ASSUME TypeOK, NEW p \in Positions, NEW t \in Terms
  PROVE  Carriers(p, t) = ToSet(quads) \cap Carrying(p, t)
BY SetOfSeq DEF TypeOK, Carriers, Carrying

(* addQuad keeps the order: a new quad goes last everywhere.               *)
LEMMA AddedInOrder ==
  ASSUME TypeOK, IndexExact, InOrder, NEW q \in Quads, AddQuad(q)
  PROVE  InOrder'
<1>1. quads \in Seq(Quads)
  BY DEF TypeOK
<1>2. CASE Contains(quads, q)
  BY <1>2 DEF AddQuad, InOrder, Carrying
<1>3. CASE ~Contains(quads, q)
  <2> SUFFICES ASSUME NEW p \in Positions, NEW t \in Terms, index'[p][t] # NoBucket
               PROVE  index'[p][t] = Kept(quads', Carrying(p, t))
    BY DEF InOrder, Carrying
  <2> DEFINE b == index[p][t]
  <2>1. b # NoBucket => b = Kept(quads, Carrying(p, t))
    BY DEF InOrder
  <2>2. index'[p][t] = IF t # q[p] THEN b
                       ELSE IF b = NoBucket THEN <<q>> ELSE Append(b, q)
    BY <1>3 DEF AddQuad, IndexPosition, TypeOK
  <2>3. quads' = Append(quads, q)
    BY <1>3 DEF AddQuad
  <2>4. Kept(quads', Carrying(p, t)) = IF q[p] = t THEN Append(Kept(quads, Carrying(p, t)), q)
                                       ELSE Kept(quads, Carrying(p, t))
    <3>1. q \in Carrying(p, t) <=> q[p] = t
      BY DEF Carrying
    <3>2. QED
      BY <1>1, <2>3, <3>1, KeptAppend
  <2>5. CASE t # q[p]
    BY <2>1, <2>2, <2>4, <2>5
  <2>6. CASE t = q[p] /\ b = NoBucket
    <3>1. Carriers(p, t) = {}
      BY <2>6, BucketByBucket DEF BucketExact
    <3>2. Kept(quads, Carrying(p, t)) = <<>>
      BY <1>1, <3>1, CarriersAreCarrying, KeptNone
    <3>3. Append(<<>>, q) = <<q>>
      OBVIOUS
    <3>4. QED
      BY <2>2, <2>4, <2>6, <3>2, <3>3
  <2>7. CASE t = q[p] /\ b # NoBucket
    BY <2>1, <2>2, <2>4, <2>7
  <2>8. QED
    BY <2>5, <2>6, <2>7
<1>4. QED
  BY <1>2, <1>3

(* removeQuad keeps the order: the quad leaves its buckets as it leaves    *)
(* the canonical map.                                                      *)
LEMMA RemovedInOrder ==
  ASSUME TypeOK, IndexExact, InOrder, NEW q \in Quads, RemoveQuad(q)
  PROVE  InOrder'
<1>1. quads \in Seq(Quads) /\ IsInjective(quads)
  BY DEF TypeOK, IndexExact
<1>2. CASE ~Contains(quads, q)
  BY <1>2 DEF RemoveQuad, InOrder, Carrying
<1>3. CASE Contains(quads, q)
  <2> SUFFICES ASSUME NEW p \in Positions, NEW t \in Terms, index'[p][t] # NoBucket
               PROVE  index'[p][t] = Kept(quads', Carrying(p, t))
    BY DEF InOrder, Carrying
  <2> DEFINE b == index[p][t]
             others == Quads \ {q}
  <2>1. index'[p][t] = IF t # q[p] \/ b = NoBucket THEN b
                       ELSE IF b = <<q>> THEN NoBucket ELSE RemoveFirst(b, q)
    BY <1>3 DEF RemoveQuad, UnindexPosition, TypeOK
  <2>2. b # NoBucket /\ b = Kept(quads, Carrying(p, t))
    BY <2>1 DEF InOrder
  <2>3. quads' = Kept(quads, others)
    BY <1>1, <1>3, RemovedIsKept DEF RemoveQuad
  <2>4. Kept(quads', Carrying(p, t)) = Kept(quads, others \cap Carrying(p, t))
    BY <1>1, <2>3, KeptTwice
  <2>5. CASE t # q[p]
    <3>1. others \cap Carrying(p, t) = Carrying(p, t)
      BY <2>5 DEF Carrying
    <3>2. QED
      BY <2>1, <2>2, <2>4, <2>5, <3>1
  <2>6. CASE t = q[p]
    <3>1. /\ b \in Seq(Quads) /\ IsInjective(b) /\ q \in ToSet(b)
      <4>1. b \in Seq(Quads) /\ BucketExact(p, t)
        BY <2>2, BucketByBucket DEF TypeOK
      <4>2. q \in Carriers(p, t)
        BY <1>1, <1>3, <2>6, ContainsIsIn DEF Carriers
      <4>3. QED
        BY <2>2, <4>1, <4>2 DEF BucketExact
    <3>2. Contains(b, q)
      BY <3>1, ContainsIsIn
    <3>3. RemoveFirst(b, q) = Kept(b, others)
      BY <3>1, <3>2, RemovedIsKept
    <3>4. Kept(b, others) = Kept(quads, Carrying(p, t) \cap others)
      BY <1>1, <2>2, KeptTwice
    <3>5. Carrying(p, t) \cap others = others \cap Carrying(p, t)
      OBVIOUS
    <3>6. index'[p][t] = RemoveFirst(b, q)
      BY <2>1, <2>2, <2>6
    <3>7. QED
      BY <2>4, <3>3, <3>4, <3>5, <3>6
  <2>7. QED
    BY <2>5, <2>6
<1>4. QED
  BY <1>2, <1>3

LEMMA NextInOrder == Mirrored /\ InOrder /\ [Next]_vars => InOrder'
<1> SUFFICES ASSUME TypeOK, IndexExact, InOrder, [Next]_vars PROVE InOrder'
  BY DEF Mirrored
<1>1. ASSUME UNCHANGED <<quads, index>> PROVE InOrder'
  BY <1>1 DEF InOrder, Carrying
<1>2. ASSUME NEW q \in Quads, AddOne(q) \/ RemoveOne(q) \/ Round(q) PROVE InOrder'
  BY <1>2, AddedInOrder, RemovedInOrder DEF AddOne, RemoveOne, Round
<1>3. ASSUME NEW pattern \in Patterns, RemoveMatches(pattern) \/ RemoveMatchStream(pattern)
      PROVE  InOrder'
  BY <1>1, <1>3 DEF RemoveMatches, RemoveMatchStream, Subscribe
<1>4. ASSUME NEW content \in Imports, Import(content) PROVE InOrder'
  BY <1>1, <1>4 DEF Import, Subscribe
<1>5. ASSUME Drain \/ UNCHANGED vars PROVE InOrder'
  BY <1>1, <1>5 DEF Drain, vars
<1>6. QED
  BY <1>2, <1>3, <1>4, <1>5 DEF Next

LEMMA AlwaysInOrder == Spec => [](Mirrored /\ InOrder)
<1>1. Init => InOrder
  BY DEF Init, InOrder
<1>2. QED
  BY <1>1, NextInOrder, InitMirrored, NextMirrored, PTL DEF Spec

(* Exact indexes in the order of the canonical map answer as a scan does.  *)
LEMMA OrderedAnswer ==
  ASSUME TypeOK, IndexExact, InOrder, NEW pattern \in Patterns
  PROVE  GetQuads(pattern) = Kept(quads, Matching(pattern))
<1>1. quads \in Seq(Quads)
  BY DEF TypeOK
<1>2. ASSUME NEW p \in Constrained(pattern)
      PROVE  /\ p \in Positions /\ pattern[p] \in Terms
             /\ BucketExact(p, pattern[p])
             /\ Matching(pattern) \subseteq Carrying(p, pattern[p])
  <2>1. p \in Positions /\ pattern[p] \in Terms /\ pattern[p] # Wildcard
    BY <1>2 DEF Constrained, Patterns
  <2>2. QED
    BY <2>1, BucketByBucket DEF Matches, Matching, Carrying
<1>3. CASE \E p \in Constrained(pattern) : index[p][pattern[p]] = NoBucket
  <2>1. PICK p \in Constrained(pattern) : index[p][pattern[p]] = NoBucket
    BY <1>3
  <2>2. ToSet(quads) \cap Matching(pattern) = {}
    BY <1>2, <2>1, CarriersAreCarrying DEF BucketExact
  <2>3. Kept(quads, Matching(pattern)) = <<>>
    BY <1>1, <2>2, KeptNone
  <2>4. GetQuads(pattern) = <<>>
    BY <1>3, KeptEmpty DEF GetQuads, Candidates
  <2>5. QED
    BY <2>3, <2>4
<1>4. CASE Constrained(pattern) = {}
  BY <1>4 DEF GetQuads, Candidates
<1>5. CASE /\ Constrained(pattern) # {}
           /\ \A p \in Constrained(pattern) : index[p][pattern[p]] # NoBucket
  <2>1. PICK p \in Constrained(pattern) : Probed(pattern) = index[p][pattern[p]]
    BY <1>5, SomeBucketProbed
  <2>2. Candidates(pattern) = Kept(quads, Carrying(p, pattern[p]))
    BY <1>2, <1>5, <2>1 DEF Candidates, InOrder
  <2>3. GetQuads(pattern) = Kept(quads, Carrying(p, pattern[p]) \cap Matching(pattern))
    BY <1>1, <2>2, KeptTwice DEF GetQuads
  <2>4. Carrying(p, pattern[p]) \cap Matching(pattern) = Matching(pattern)
    BY <1>2
  <2>5. QED
    BY <2>3, <2>4
<1>6. QED
  BY <1>3, <1>4, <1>5

-----------------------------------------------------------------------------
(* The variables stay in their ranges: whatever getQuads probes, what      *)
(* removeMatches and remove(stream) take from it are quads.                *)
THEOREM TypesHold == Spec => []TypeOK
<1>1. Mirrored => TypeOK
  BY DEF Mirrored
<1>2. QED
  BY <1>1, AlwaysMirrored, PTL

(* Through any calls, loops and drained streams, the canonical map holds a *)
(* quad once, and the four indexes list exactly its quads: addQuad and     *)
(* removeQuad keep the five maps in step.                                  *)
THEOREM IndexesAreExact == Spec => []IndexExact
<1>1. Mirrored => IndexExact
  BY DEF Mirrored
<1>2. QED
  BY <1>1, AlwaysMirrored, PTL

(* Whichever bucket getQuads probes, it answers the matching quads in the  *)
(* order in which they were added, as a scan of the canonical map would    *)
(* (memory-store-equivalence.test.ts), after any calls and drained streams.*)
THEOREM AnswersAreScans == Spec => []AnswersLikeScan
<1>1. Mirrored /\ InOrder => AnswersLikeScan
  BY OrderedAnswer DEF Mirrored, AnswersLikeScan
<1>2. QED
  BY <1>1, AlwaysInOrder, PTL

(* Every step of a MemoryStore is a step of a set of quads, or changes     *)
(* nothing of it: a bulk removal takes every matching quad out at once,    *)
(* and streams take effect in the order they were given.                   *)
LEMMA StepsAreSetSteps ==
  Mirrored /\ [Next]_vars => [Promised!Next]_(Promised!vars)
<1> SUFFICES ASSUME TypeOK, IndexExact, [Next]_vars
             PROVE  Promised!Next \/ UNCHANGED Promised!vars
  BY DEF Mirrored
<1>1. ASSUME NEW q \in Quads, AddOne(q) PROVE Promised!Insert(q)
  <2>1. ToSet(quads') = ToSet(quads) \cup {q}
    BY <1>1, AddedExact DEF AddOne
  <2>2. QED
    BY <1>1, <2>1 DEF AddOne, Returned, Contents, Promised!Insert
<1>2. ASSUME NEW q \in Quads, RemoveOne(q) PROVE Promised!Delete(q)
  <2>1. ToSet(quads') = ToSet(quads) \ {q}
    BY <1>2, RemovedExact DEF RemoveOne
  <2>2. QED
    BY <1>2, <2>1 DEF RemoveOne, Returned, Contents, Promised!Delete
<1>3. ASSUME NEW q \in Quads, Round(q) PROVE UNCHANGED Promised!vars
  <2>1. /\ q \in loop.quads /\ streams' = streams
        /\ loop'.mode = loop.mode /\ loop'.quads = loop.quads \ {q}
    BY <1>3 DEF Round, TypeOK, Jobs
  <2>2. CASE loop.mode = "add"
    <3>1. ToSet(quads') = ToSet(quads) \cup {q}
      BY <1>3, <2>2, AddedExact DEF Round
    <3>2. QED
      BY <2>1, <2>2, <3>1 DEF Contents, Promised!vars
  <2>3. CASE loop.mode # "add"
    <3>1. ToSet(quads') = ToSet(quads) \ {q}
      BY <1>3, <2>3, RemovedExact DEF Round
    <3>2. QED
      BY <2>1, <2>3, <3>1 DEF Contents, Promised!vars
  <2>4. QED
    BY <2>2, <2>3
<1>4. ASSUME NEW pattern \in Patterns, RemoveMatches(pattern)
      PROVE  Promised!DeleteMatches(pattern)
  <2>1. /\ loop.quads = {} /\ loop'.mode = "remove" /\ loop'.quads = Found(pattern)
        /\ quads' = quads /\ streams' = streams
    BY <1>4 DEF RemoveMatches, Returned
  <2>2. Contents = ToSet(quads) /\ Contents' = ToSet(quads) \ Found(pattern)
    BY <2>1 DEF Contents
  <2>3. QED
    BY <2>1, <2>2, FoundIsScan DEF Promised!DeleteMatches
<1>5. ASSUME NEW mode \in {"add", "remove"}, NEW content \in SUBSET Quads,
             Subscribe(mode, content)
      PROVE  Promised!Subscribe(mode, content)
  BY <1>5 DEF Subscribe, Contents, Promised!Subscribe
<1>6. ASSUME NEW pattern \in Patterns, RemoveMatchStream(pattern) PROVE Promised!Next
  <2>1. Found(pattern) \in SUBSET Quads
    BY FoundIsScan, SetOfSeq DEF TypeOK
  <2>2. QED
    BY <1>5, <1>6, <2>1 DEF RemoveMatchStream, Promised!Next
<1>7. ASSUME NEW content \in Imports, Import(content) PROVE Promised!Next
  BY <1>5, <1>7, ImportAssumption DEF Import, Promised!Next
<1>8. ASSUME Drain PROVE Promised!Flow
  BY <1>8 DEF Drain, Returned, Contents, Promised!Flow
<1>9. ASSUME UNCHANGED vars PROVE UNCHANGED Promised!vars
  BY <1>9 DEF vars, Contents, Promised!vars
<1>10. QED
  BY <1>1, <1>2, <1>3, <1>4, <1>6, <1>7, <1>8, <1>9 DEF Next, Promised!Next

(* MemoryStore implements QuadSet, for any quads and any sequence of calls.*)
THEOREM StoreIsASet == Spec => ImplementsQuadSet
<1>1. Init => Promised!Init
  <2> SUFFICES ASSUME Init PROVE Contents = {} /\ streams = <<>>
    BY DEF Promised!Init
  <2>1. ToSet(quads) = {}
    BY DEF Init, ToSet
  <2>2. QED
    BY <2>1 DEF Init, Idle, Contents
<1>2. QED
  BY <1>1, AlwaysMirrored, StepsAreSetSteps, PTL DEF Spec, ImplementsQuadSet, Promised!Spec
=============================================================================
