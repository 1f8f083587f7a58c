--------------------------- MODULE Filtering_proofs --------------------------
(***************************************************************************)
(* What Kept returns.  The library's induction theorems take an operator   *)
(* for a parameter; here a property of all sequences is a set of sequences *)
(* and induction the absence of a shortest one outside it (EverySequence). *)
(***************************************************************************)
EXTENDS Filtering, SequencesExt, SequenceTheorems, WellFoundedInduction, TLAPS

(* A set of numbers has a least one.                                       *)
LEMMA LeastNatural ==
  ASSUME NEW T \in SUBSET Nat, T # {}
  PROVE  \E x \in T : \A y \in T : x <= y
<1>1. PICK x \in T : \A y \in T : ~(<<y, x>> \in OpToRel(<, Nat))
  BY NatLessThanWellFounded, WFMin
<1>2. \A y \in T : ~(y < x)
  BY <1>1 DEF OpToRel
<1>3. QED
  BY <1>2

(* Appending an element that was not there keeps the elements distinct.    *)
LEMMA Appended ==
  ASSUME NEW S, NEW s \in Seq(S), NEW e \in S
  PROVE  /\ Append(s, e) \in Seq(S)
         /\ ToSet(Append(s, e)) = ToSet(s) \cup {e}
         /\ IsInjective(s) /\ ~Contains(s, e) => IsInjective(Append(s, e))
<1>1. Append(s, e) \in Seq(S)
  OBVIOUS
<1>2. ToSet(Append(s, e)) = ToSet(s) \cup {e}
  <2>1. /\ Len(Append(s, e)) = Len(s) + 1 /\ Len(s) \in Nat
        /\ DOMAIN s = 1 .. Len(s) /\ DOMAIN Append(s, e) = 1 .. Len(s) + 1
        /\ \A i \in 1 .. Len(s) : Append(s, e)[i] = s[i]
        /\ Append(s, e)[Len(s) + 1] = e
    OBVIOUS
  <2>2. ASSUME NEW x \in ToSet(s) \cup {e} PROVE x \in ToSet(Append(s, e))
    BY <2>1, SMTT(20) DEF ToSet
  <2>3. ASSUME NEW x \in ToSet(Append(s, e)) PROVE x \in ToSet(s) \cup {e}
    BY <2>1, SMTT(20) DEF ToSet
  <2>4. QED
    BY <2>2, <2>3
<1>3. IsInjective(s) /\ ~Contains(s, e) => IsInjective(Append(s, e))
  BY DEF IsInjective, Contains
<1>4. QED
  BY <1>1, <1>2, <1>3

(* f holds what is kept of the first n elements, for n up to m.            *)
IsFirstKept(f, seq, kept, m) ==
  f = [n \in 0 .. m |-> IF n = 0 THEN <<>>
                        ELSE IF seq[n] \in kept THEN Append(f[n - 1], seq[n])
                        ELSE f[n - 1]]

LEMMA FirstKeptExists ==
  ASSUME NEW seq, NEW kept
  PROVE  \A m \in Nat : \E f : IsFirstKept(f, seq, kept, m)
<1> DEFINE Bad == {m \in Nat : ~ \E f : IsFirstKept(f, seq, kept, m)}
<1> SUFFICES ASSUME Bad # {}
             PROVE  FALSE
  OBVIOUS
<1>1. PICK m \in Bad : \A k \in Bad : m <= k
  <2>1. Bad \in SUBSET Nat
    OBVIOUS
  <2> HIDE DEF Bad
  <2>2. QED
    BY <2>1, LeastNatural
<1>2. CASE m = 0
  <2>1. IsFirstKept([n \in 0 .. 0 |-> <<>>], seq, kept, 0)
    BY DEF IsFirstKept
  <2>2. QED
    BY <1>1, <1>2, <2>1
<1>3. CASE m # 0
  <2>1. m \in Nat /\ m - 1 \in Nat /\ m - 1 \notin Bad
    BY <1>1, <1>3
  <2>2. PICK f : IsFirstKept(f, seq, kept, m - 1)
    BY <2>1
  <2> DEFINE then(g, n) == IF n = 0 THEN <<>>
                           ELSE IF seq[n] \in kept THEN Append(g[n - 1], seq[n])
                           ELSE g[n - 1]
             g == [n \in 0 .. m |-> IF n = m THEN then(f, m) ELSE f[n]]
  <2>3. ASSUME NEW n \in 0 .. m
        PROVE  g[n] = then(g, n)
    <3>1. n # 0 => g[n - 1] = f[n - 1]
      BY <2>1
    <3>2. CASE n = m
      BY <1>3, <2>1, <3>1, <3>2
    <3>3. CASE n # m
      <4>1. n \in 0 .. m - 1 /\ g[n] = f[n]
        BY <2>1, <3>3
      <4>2. f[n] = then(f, n)
        BY <2>2, <4>1 DEF IsFirstKept
      <4>3. QED
        BY <3>1, <4>1, <4>2
    <3>4. QED
      BY <3>2, <3>3
  <2>4. IsFirstKept(g, seq, kept, m)
    BY <2>3 DEF IsFirstKept
  <2>5. QED
    BY <1>1, <2>4
<1>4. QED
  BY <1>2, <1>3

LEMMA FirstKeptUnfold ==
  ASSUME NEW S, NEW s \in Seq(S), NEW T
  PROVE  /\ FirstKept(s, T)[0] = <<>>
         /\ \A n \in 1 .. Len(s) :
              FirstKept(s, T)[n] = IF s[n] \in T THEN Append(FirstKept(s, T)[n - 1], s[n])
                                   ELSE FirstKept(s, T)[n - 1]
<1>1. \E f : IsFirstKept(f, s, T, Len(s))
  <2>1. Len(s) \in Nat
    OBVIOUS
  <2>2. QED
    BY <2>1, FirstKeptExists
<1>2. FirstKept(s, T) = CHOOSE f : IsFirstKept(f, s, T, Len(s))
  BY DEF FirstKept, IsFirstKept
<1>3. IsFirstKept(FirstKept(s, T), s, T, Len(s))
  BY <1>1, <1>2
<1>4. ASSUME NEW f, IsFirstKept(f, s, T, Len(s))
      PROVE  /\ f[0] = <<>>
             /\ \A n \in 1 .. Len(s) :
                  f[n] = IF s[n] \in T THEN Append(f[n - 1], s[n]) ELSE f[n - 1]
  <2>1. Len(s) \in Nat
    OBVIOUS
  <2>2. \A n \in 0 .. Len(s) :
          f[n] = IF n = 0 THEN <<>>
                 ELSE IF s[n] \in T THEN Append(f[n - 1], s[n]) ELSE f[n - 1]
    BY <1>4 DEF IsFirstKept
  <2>3. QED
    BY <2>1, <2>2
<1>5. QED
  BY <1>3, <1>4

LEMMA KeptEmpty ==
  ASSUME NEW T
  PROVE  Kept(<<>>, T) = <<>>
<1>1. <<>> \in Seq(T) /\ Len(<<>>) = 0
  OBVIOUS
<1>2. QED
  BY <1>1, FirstKeptUnfold DEF Kept

(* Appending an element appends it to what is kept, or changes nothing.    *)
LEMMA KeptAppend ==
  ASSUME NEW S, NEW s \in Seq(S), NEW e \in S, NEW T
  PROVE  Kept(Append(s, e), T) = IF e \in T THEN Append(Kept(s, T), e) ELSE Kept(s, T)
<1> DEFINE l == Append(s, e)
<1>1. /\ l \in Seq(S) /\ Len(l) = Len(s) + 1 /\ Len(s) \in Nat
      /\ l[Len(s) + 1] = e
      /\ \A i \in 1 .. Len(s) : l[i] = s[i]
  OBVIOUS
<1> HIDE DEF l
<1> DEFINE Bad == {n \in 0 .. Len(s) : FirstKept(l, T)[n] # FirstKept(s, T)[n]}
<1>2. Bad = {}
  <2> SUFFICES ASSUME Bad # {}
               PROVE  FALSE
    OBVIOUS
  <2>1. PICK n \in Bad : \A k \in Bad : n <= k
    <3>1. Bad \in SUBSET Nat
      BY <1>1
    <3> HIDE DEF Bad
    <3>2. QED
      BY <3>1, LeastNatural
  <2>2. n # 0
    BY <1>1, <2>1, FirstKeptUnfold
  <2>3. n \in 1 .. Len(s) /\ n \in 1 .. Len(l) /\ n - 1 \in 0 .. Len(s) /\ n - 1 \notin Bad
    BY <1>1, <2>1, <2>2
  <2>4. FirstKept(l, T)[n - 1] = FirstKept(s, T)[n - 1] /\ l[n] = s[n]
    BY <1>1, <2>3
  <2>5. FirstKept(l, T)[n] = FirstKept(s, T)[n]
    BY <1>1, <2>3, <2>4, FirstKeptUnfold
  <2>6. QED
    BY <2>1, <2>5
<1>3. FirstKept(l, T)[Len(s)] = Kept(s, T)
  BY <1>1, <1>2 DEF Kept
<1>4. Len(l) \in 1 .. Len(l) /\ Len(l) - 1 = Len(s)
  BY <1>1
<1>5. FirstKept(l, T)[Len(l)] = IF l[Len(l)] \in T
                                THEN Append(FirstKept(l, T)[Len(l) - 1], l[Len(l)])
                                ELSE FirstKept(l, T)[Len(l) - 1]
  BY <1>1, <1>4, FirstKeptUnfold
<1>6. QED
  BY <1>1, <1>3, <1>4, <1>5 DEF Kept, l

(* What holds of the empty sequence and stays true of a sequence with one  *)
(* more element holds of every sequence.                                   *)
LEMMA EverySequence ==
  ASSUME NEW S, NEW G,
         <<>> \in G,
         \A s \in Seq(S), e \in S : s \in G => Append(s, e) \in G
  PROVE  Seq(S) \subseteq G
<1> SUFFICES ASSUME NEW bad \in Seq(S), bad \notin G
             PROVE  FALSE
  OBVIOUS
<1> DEFINE B == {s \in Seq(S) : s \notin G}
           L == {Len(s) : s \in B}
<1>1. PICK n \in L : \A k \in L : n <= k
  <2>1. L \in SUBSET Nat /\ L # {}
    OBVIOUS
  <2> HIDE DEF L
  <2>2. QED
    BY <2>1, LeastNatural
<1>2. PICK s \in B : Len(s) = n
  BY <1>1
<1>3. s # <<>>
  BY <1>2
<1> DEFINE f == SubSeq(s, 1, Len(s) - 1)
<1>4. f \in Seq(S) /\ Len(f) = Len(s) - 1 /\ s[Len(s)] \in S /\ s = Append(f, s[Len(s)])
  <2>1. s \in Seq(S) /\ Len(s) \in Nat /\ Len(s) # 0
    BY <1>2, <1>3
  <2>2. /\ f \in Seq(S) /\ Len(f) = Len(s) - 1
        /\ \A i \in 1 .. Len(s) - 1 : f[i] = s[i]
    <3>1. /\ f \in Seq(S)
          /\ Len(f) = (IF 1 <= Len(s) - 1 THEN Len(s) - 1 - 1 + 1 ELSE 0)
          /\ \A i \in 1 .. Len(s) - 1 - 1 + 1 : f[i] = s[1 + i - 1]
      BY <2>1, SubSeqProperties
    <3> HIDE DEF f
    <3>2. Len(s) - 1 - 1 + 1 = Len(s) - 1 /\ \A i \in 1 .. Len(s) - 1 : 1 + i - 1 = i
      BY <2>1
    <3>3. Len(f) = Len(s) - 1
      <4>1. CASE 1 <= Len(s) - 1
        BY <3>1, <3>2, <4>1, Zenon
      <4>2. CASE ~(1 <= Len(s) - 1)
        <5>1. Len(s) - 1 = 0
          <6> DEFINE m == Len(s)
          <6>1. m \in Nat /\ m # 0 /\ ~(1 <= m - 1)
            BY <2>1, <4>2, Zenon
          <6> HIDE DEF m
          <6>2. m - 1 = 0
            BY <6>1
          <6>3. QED
            BY <6>2 DEF m
        <5>2. Len(f) = 0
          BY <3>1, <4>2, Zenon
        <5>3. QED
          BY <5>1, <5>2
      <4>3. QED
        BY <4>1, <4>2
    <3>4. QED
      BY <3>1, <3>2, <3>3
  <2> HIDE DEF f
  <2>3. s[Len(s)] \in S
    BY <2>1
  <2>4. s = Append(f, s[Len(s)])
    <3> DEFINE a == Append(f, s[Len(s)])
    <3>1. /\ a \in Seq(S) /\ Len(a) = Len(f) + 1
          /\ a[Len(f) + 1] = s[Len(s)]
          /\ \A i \in 1 .. Len(f) : a[i] = f[i]
      BY <2>2, <2>3
    <3> HIDE DEF a
    <3>2. Len(a) = Len(s) /\ Len(f) + 1 = Len(s)
      BY <2>1, <2>2, <3>1
    <3>3. ASSUME NEW i \in 1 .. Len(s) PROVE a[i] = s[i]
      <4>1. CASE i = Len(s)
        BY <3>1, <3>2, <4>1, Zenon
      <4>2. CASE i # Len(s)
        <5>1. i \in 1 .. Len(s) - 1 /\ i \in 1 .. Len(f)
          BY <2>1, <2>2, <4>2
        <5>2. QED
          BY <2>2, <3>1, <5>1, Zenon
      <4>3. QED
        BY <4>1, <4>2
    <3>4. a = s
      BY <2>1, <3>1, <3>2, <3>3
    <3>5. QED
      BY <3>4 DEF a
  <2>5. QED
    BY <2>2, <2>3, <2>4
<1>5. f \notin G
  BY <1>2, <1>4
<1>6. Len(f) \in L /\ ~(n <= Len(f))
  <2>1. f \in B
    BY <1>4, <1>5
  <2>2. Len(s) \in Nat /\ Len(f) = n - 1
    BY <1>2, <1>4
  <2> HIDE DEF f, B
  <2>3. QED
    BY <1>2, <2>1, <2>2
<1>7. QED
  BY <1>1, <1>6

LEMMA KeptIsSeq ==
  ASSUME NEW S, NEW s \in Seq(S), NEW T
  PROVE  Kept(s, T) \in Seq(S)
<1> DEFINE G == {l \in Seq(S) : Kept(l, T) \in Seq(S)}
<1>1. <<>> \in G
  <2>1. <<>> \in Seq(S)
    OBVIOUS
  <2>2. QED
    BY <2>1, KeptEmpty
<1>2. ASSUME NEW l \in Seq(S), NEW e \in S, l \in G PROVE Append(l, e) \in G
  <2>1. Append(l, e) \in Seq(S) /\ Append(Kept(l, T), e) \in Seq(S)
    BY <1>2
  <2>2. Kept(Append(l, e), T) = IF e \in T THEN Append(Kept(l, T), e) ELSE Kept(l, T)
    BY KeptAppend
  <2>3. QED
    BY <1>2, <2>1, <2>2
<1> HIDE DEF G
<1>3. Seq(S) \subseteq G
  BY <1>1, <1>2, EverySequence
<1>4. QED
  BY <1>3 DEF G

(* Filtering twice keeps what both filters keep.                           *)
LEMMA KeptTwice ==
  ASSUME NEW S, NEW s \in Seq(S), NEW T, NEW U
  PROVE  Kept(Kept(s, T), U) = Kept(s, T \cap U)
<1> DEFINE G == {l \in Seq(S) : Kept(Kept(l, T), U) = Kept(l, T \cap U)}
<1>1. <<>> \in G
  <2>1. <<>> \in Seq(S)
    OBVIOUS
  <2>2. QED
    BY <2>1, KeptEmpty
<1>2. ASSUME NEW l \in Seq(S), NEW e \in S, l \in G PROVE Append(l, e) \in G
  <2>1. Kept(l, T) \in Seq(S)
    BY KeptIsSeq
  <2>2. Kept(Append(Kept(l, T), e), U) = IF e \in U THEN Append(Kept(Kept(l, T), U), e)
                                         ELSE Kept(Kept(l, T), U)
    BY <2>1, KeptAppend
  <2>3. Kept(Append(l, e), T) = IF e \in T THEN Append(Kept(l, T), e) ELSE Kept(l, T)
    BY KeptAppend
  <2>4. Kept(Append(l, e), T \cap U) = IF e \in T \cap U THEN Append(Kept(l, T \cap U), e)
                                       ELSE Kept(l, T \cap U)
    BY KeptAppend
  <2>5. Append(l, e) \in Seq(S) /\ Kept(Kept(l, T), U) = Kept(l, T \cap U)
    BY <1>2
  <2>6. Kept(Kept(Append(l, e), T), U) = Kept(Append(l, e), T \cap U)
    <3>1. CASE e \in T
      <4>1. e \in T \cap U <=> e \in U
        BY <3>1
      <4>2. Kept(Append(l, e), T) = Append(Kept(l, T), e)
        BY <2>3, <3>1
      <4>3. QED
        BY <2>2, <2>4, <2>5, <4>1, <4>2, Zenon
    <3>2. CASE e \notin T
      BY <2>3, <2>4, <2>5, <3>2
    <3>3. QED
      BY <3>1, <3>2
  <2>7. QED
    BY <2>5, <2>6
<1> HIDE DEF G
<1>3. Seq(S) \subseteq G
  BY <1>1, <1>2, EverySequence
<1>4. QED
  BY <1>3 DEF G

LEMMA KeptAll ==
  ASSUME NEW S, NEW s \in Seq(S), NEW T, ToSet(s) \subseteq T
  PROVE  Kept(s, T) = s
<1> DEFINE G == {l \in Seq(S) : ToSet(l) \subseteq T => Kept(l, T) = l}
<1>1. <<>> \in G
  <2>1. <<>> \in Seq(S)
    OBVIOUS
  <2>2. QED
    BY <2>1, KeptEmpty
<1>2. ASSUME NEW l \in Seq(S), NEW e \in S, l \in G PROVE Append(l, e) \in G
  BY <1>2, KeptAppend, Appended
<1> HIDE DEF G
<1>3. Seq(S) \subseteq G
  BY <1>1, <1>2, EverySequence
<1>4. QED
  BY <1>3 DEF G

LEMMA KeptNone ==
  ASSUME NEW S, NEW s \in Seq(S), NEW T, ToSet(s) \cap T = {}
  PROVE  Kept(s, T) = <<>>
<1> DEFINE G == {l \in Seq(S) : ToSet(l) \cap T = {} => Kept(l, T) = <<>>}
<1>1. <<>> \in G
  <2>1. <<>> \in Seq(S)
    OBVIOUS
  <2>2. QED
    BY <2>1, KeptEmpty
<1>2. ASSUME NEW l \in Seq(S), NEW e \in S, l \in G PROVE Append(l, e) \in G
  BY <1>2, KeptAppend, Appended
<1> HIDE DEF G
<1>3. Seq(S) \subseteq G
  BY <1>1, <1>2, EverySequence
<1>4. QED
  BY <1>3 DEF G

(* What is kept are the elements that pass, and distinct ones stay so.     *)
LEMMA KeptMembers ==
  ASSUME NEW S, NEW s \in Seq(S), NEW T
  PROVE  /\ ToSet(Kept(s, T)) = ToSet(s) \cap T
         /\ IsInjective(s) => IsInjective(Kept(s, T))
<1> DEFINE G == {l \in Seq(S) : /\ ToSet(Kept(l, T)) = ToSet(l) \cap T
                                /\ IsInjective(l) => IsInjective(Kept(l, T))}
<1>1. <<>> \in G
  <2>1. <<>> \in Seq(S) /\ ToSet(<<>>) = {}
    BY DEF ToSet
  <2>2. QED
    BY <2>1, KeptEmpty
<1>2. ASSUME NEW l \in Seq(S), NEW e \in S, l \in G PROVE Append(l, e) \in G
  <2>1. /\ Kept(l, T) \in Seq(S)
        /\ ToSet(Kept(l, T)) = ToSet(l) \cap T
        /\ IsInjective(l) => IsInjective(Kept(l, T))
    BY <1>2, KeptIsSeq
  <2>2. /\ Append(l, e) \in Seq(S)
        /\ ToSet(Append(l, e)) = ToSet(l) \cup {e}
    BY Appended
  <2>3. ASSUME IsInjective(Append(l, e)) PROVE IsInjective(l) /\ e \notin ToSet(l)
    <3>1. /\ Len(l) \in Nat /\ DOMAIN l = 1 .. Len(l) /\ DOMAIN Append(l, e) = 1 .. Len(l) + 1
          /\ \A i \in 1 .. Len(l) : Append(l, e)[i] = l[i]
          /\ Append(l, e)[Len(l) + 1] = e
      OBVIOUS
    <3>2. IsInjective(l)
      BY <2>3, <3>1 DEF IsInjective
    <3>3. ASSUME NEW i \in 1 .. Len(l) PROVE l[i] # e
      <4>1. i \in 1 .. Len(l) + 1 /\ Len(l) + 1 \in 1 .. Len(l) + 1 /\ i # Len(l) + 1
        BY <3>1
      <4>2. QED
        BY <2>3, <3>1, <4>1 DEF IsInjective
    <3>4. QED
      BY <3>1, <3>2, <3>3 DEF ToSet
  <2>4. CASE e \in T
    <3>1. Kept(Append(l, e), T) = Append(Kept(l, T), e)
      BY <2>4, KeptAppend
    <3>2. ToSet(Append(Kept(l, T), e)) = ToSet(Kept(l, T)) \cup {e}
      BY <2>1, Appended
    <3>3. ASSUME IsInjective(Append(l, e)) PROVE IsInjective(Append(Kept(l, T), e))
      <4>1. ~Contains(Kept(l, T), e) /\ IsInjective(Kept(l, T))
        <5>1. e \notin ToSet(Kept(l, T)) /\ IsInjective(Kept(l, T))
          BY <2>1, <2>3, <3>3
        <5>2. QED
          BY <2>1, <5>1 DEF Contains, ToSet
      <4>2. QED
        BY <2>1, <4>1, Appended
    <3>4. QED
      BY <2>1, <2>2, <2>4, <3>1, <3>2, <3>3
  <2>5. CASE e \notin T
    <3>1. Kept(Append(l, e), T) = Kept(l, T)
      BY <2>5, KeptAppend
    <3>2. QED
      BY <2>1, <2>2, <2>3, <2>5, <3>1
  <2>6. QED
    BY <2>4, <2>5
<1> HIDE DEF G
<1>3. Seq(S) \subseteq G
  BY <1>1, <1>2, EverySequence
<1>4. QED
  BY <1>3 DEF G
=============================================================================
