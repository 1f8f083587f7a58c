------------------------ MODULE ExistsSnapshot_proofs -----------------------
(* Proofs about ExistsSnapshot: its types, that the cache of snapshots is  *)
(* coherent however drains, queries and updates interleave, and that what  *)
(* the groups of a query hold are moments in the order of their nesting.   *)
EXTENDS ExistsSnapshot, TLAPS

USE DepthAssumption, VersionAssumption, NoneAssumption

LEMMA VersionsAreNumbers == Versions \subseteq Nat /\ None \notin Versions
  BY DEF Versions

LEMMA ResolveTypes ==
  ASSUME TypeOK, NEW q \in Queries, NEW copy \in Copies, Resolve(q, copy)
  PROVE  /\ phase' \in [Queries -> Phases]
         /\ group' \in [Queries -> 0 .. Depth]
         /\ held' \in [Queries -> [1 .. Depth -> Copies \cup {None}]]
<1>1. CASE group[q] = 0
  <2>1. 1 \in 0 .. Depth
    OBVIOUS
  <2>2. group' = [group EXCEPT ![q] = 1] /\ phase' = [phase EXCEPT ![q] = "prepare"]
        /\ held' = held
    BY <1>1 DEF Resolve
  <2>3. QED
    BY <2>1, <2>2 DEF TypeOK, Phases
<1>2. CASE group[q] # 0
  <2>1. group[q] \in 1 .. Depth
    BY <1>2 DEF TypeOK
  <2>2. held' = [held EXCEPT ![q] = [held[q] EXCEPT ![group[q]] = copy]]
    BY <1>2 DEF Resolve
  <2>3. [held[q] EXCEPT ![group[q]] = copy] \in [1 .. Depth -> Copies \cup {None}]
    BY <2>1 DEF TypeOK
  <2>4. QED
    BY <1>2, <2>2, <2>3 DEF TypeOK, Resolve, Phases
<1>3. QED
  BY <1>1, <1>2

(* Every variable stays in its range.                                      *)
LEMMA InitTypes == Init => TypeOK
<1> SUFFICES ASSUME Init
             PROVE  TypeOK
  OBVIOUS
<1>1. 0 \in Versions /\ 0 \in 0 .. Depth
  BY DEF Versions
<1>2. cache \in Copies
  BY <1>1 DEF Init, Copies
<1>3. held \in [Queries -> [1 .. Depth -> Copies \cup {None}]]
  BY DEF Init
<1>4. QED
  BY <1>1, <1>2, <1>3 DEF Init, TypeOK, Phases

LEMMA NextTypes == TypeOK /\ [Next]_vars => TypeOK'
<1> SUFFICES ASSUME TypeOK, [Next]_vars
             PROVE  TypeOK'
  OBVIOUS
<1>1. ASSUME NEW new \in Contents, Mutate(new)
      PROVE  TypeOK'
  BY <1>1 DEF TypeOK, Mutate, query, Versions, Copies
<1>2. ASSUME NEW q \in Queries, Begin(q)
      PROVE  TypeOK'
  BY <1>2 DEF TypeOK, Begin, store, Phases
<1>3. ASSUME NEW q \in Queries, Hit(q)
      PROVE  TypeOK'
  <2>1. cache \in Copies
    BY DEF TypeOK
  <2>2. QED
    BY <1>3, <2>1, ResolveTypes DEF TypeOK, Hit, store
<1>4. ASSUME NEW q \in Queries, Miss(q)
      PROVE  TypeOK'
  <2>1. [quads |-> contents, version |-> StoreVersion, asOf |-> version] \in Copies
    BY DEF TypeOK, Copies, StoreVersion
  <2>2. QED
    BY <1>4, <2>1 DEF TypeOK, Miss, store, Phases
<1>5. ASSUME NEW q \in Queries, DeliverLater(q)
      PROVE  TypeOK'
  <2>1. [drained[q] EXCEPT !.quads = contents, !.asOf = version] \in Copies
    BY DEF TypeOK, Copies
  <2>2. drained' = [drained EXCEPT ![q] =
                      [drained[q] EXCEPT !.quads = contents, !.asOf = version]]
    BY <1>5 DEF DeliverLater, TypeOK, Copies
  <2>3. drained' \in [Queries -> Copies]
    BY <2>1, <2>2 DEF TypeOK
  <2>4. QED
    BY <1>5, <2>3 DEF TypeOK, DeliverLater, store
<1>6. ASSUME NEW q \in Queries, Fill(q)
      PROVE  TypeOK'
  <2>1. drained[q] \in Copies
    BY DEF TypeOK
  <2>2. QED
    BY <1>6, <2>1, ResolveTypes DEF TypeOK, Fill, store
<1>7. ASSUME NEW q \in Queries, Enter(q)
      PROVE  TypeOK'
  BY <1>7 DEF TypeOK, Enter, store, Phases
<1>8. ASSUME NEW q \in Queries, Finish(q)
      PROVE  TypeOK'
  BY <1>8 DEF TypeOK, Finish, store, Phases
<1>9. CASE UNCHANGED vars
  BY <1>9 DEF TypeOK, vars, store, query
<1>10. QED
  BY <1>1, <1>2, <1>3, <1>4, <1>5, <1>6, <1>7, <1>8, <1>9 DEF Next

(* The variables of ExistsSnapshot stay in their ranges.                   *)
THEOREM TypesHold == Spec => []TypeOK
  BY InitTypes, NextTypes, PTL DEF Spec

-----------------------------------------------------------------------------
(* What makes the cache coherent: a copy was made no earlier than its      *)
(* version was read, and holds what the store held when it was made.       *)
Genuine(copy) ==
  /\ copy.asOf <= version
  /\ copy.quads = past[copy.asOf]
  /\ copy.version # None => copy.version <= copy.asOf

CopiesGenuine ==
  /\ past[version] = contents
  /\ filled => Genuine(cache)
  /\ \A q \in Queries : phase[q] = "drain" => Genuine(drained[q])

LEMMA CopyStaysGenuine ==
  ASSUME TypeOK, NEW new \in Contents, Mutate(new), NEW copy \in Copies, Genuine(copy)
  PROVE  Genuine(copy)'
  BY DEF TypeOK, Mutate, Genuine, Versions, Copies

LEMMA InitGenuine == Init => CopiesGenuine
  BY DEF Init, CopiesGenuine, Versions

LEMMA NextGenuine == TypeOK /\ CopiesGenuine /\ [Next]_vars => CopiesGenuine'
<1> SUFFICES ASSUME TypeOK, CopiesGenuine, [Next]_vars
             PROVE  CopiesGenuine'
  OBVIOUS
<1>1. ASSUME NEW new \in Contents, Mutate(new)
      PROVE  CopiesGenuine'
  <2>1. past'[version'] = contents'
    BY <1>1 DEF TypeOK, Mutate, Versions
  <2>2. filled' => Genuine(cache)'
    BY <1>1, CopyStaysGenuine DEF TypeOK, CopiesGenuine, Mutate
  <2>3. ASSUME NEW q \in Queries, phase'[q] = "drain"
        PROVE  Genuine(drained[q])'
    BY <1>1, <2>3, CopyStaysGenuine DEF TypeOK, CopiesGenuine, Mutate, query
  <2>4. QED
    BY <2>1, <2>2, <2>3 DEF CopiesGenuine
<1>2. ASSUME NEW q \in Queries, Begin(q)
      PROVE  CopiesGenuine'
  BY <1>2 DEF TypeOK, CopiesGenuine, Genuine, Begin, store
<1>3. ASSUME NEW q \in Queries, Hit(q)
      PROVE  CopiesGenuine'
  BY <1>3 DEF TypeOK, CopiesGenuine, Genuine, Hit, Resolve, store
<1>4. ASSUME NEW q \in Queries, Miss(q)
      PROVE  CopiesGenuine'
  BY <1>4 DEF TypeOK, CopiesGenuine, Genuine, Miss, StoreVersion, store, Versions
<1>5. ASSUME NEW q \in Queries, DeliverLater(q)
      PROVE  CopiesGenuine'
  <2>1. drained'[q].quads = contents /\ drained'[q].asOf = version
        /\ drained'[q].version = drained[q].version
    BY <1>5 DEF TypeOK, Copies, DeliverLater
  <2>2. drained[q].version # None => drained[q].version <= version
    <3>1. drained[q] \in Copies /\ Genuine(drained[q])
      BY <1>5 DEF TypeOK, CopiesGenuine, DeliverLater
    <3>2. QED
      BY <3>1 DEF TypeOK, Copies, Genuine, Versions
  <2>3. Genuine(drained[q])'
    BY <1>5, <2>1, <2>2 DEF DeliverLater, store, Genuine, CopiesGenuine, TypeOK, Versions
  <2>4. \A p \in Queries : p # q => drained'[p] = drained[p]
    BY <1>5 DEF TypeOK, DeliverLater
  <2>5. QED
    BY <1>5, <2>3, <2>4 DEF TypeOK, CopiesGenuine, Genuine, DeliverLater, store
<1>6. ASSUME NEW q \in Queries, Fill(q)
      PROVE  CopiesGenuine'
  BY <1>6 DEF TypeOK, CopiesGenuine, Genuine, Fill, Resolve, store
<1>7. ASSUME NEW q \in Queries, Enter(q)
      PROVE  CopiesGenuine'
  BY <1>7 DEF TypeOK, CopiesGenuine, Genuine, Enter, store
<1>8. ASSUME NEW q \in Queries, Finish(q)
      PROVE  CopiesGenuine'
  BY <1>8 DEF TypeOK, CopiesGenuine, Genuine, Finish, store
<1>9. CASE UNCHANGED vars
  BY <1>9 DEF CopiesGenuine, Genuine, vars, store, query
<1>10. QED
  BY <1>1, <1>2, <1>3, <1>4, <1>5, <1>6, <1>7, <1>8, <1>9 DEF Next

LEMMA GenuineIsCoherent == TypeOK /\ CopiesGenuine => CacheCoherent
  BY VersionsAreNumbers
     DEF TypeOK, CopiesGenuine, Genuine, CacheCoherent, Usable, StoreVersion, Copies, Versions

(* A snapshot prepareExistsIndex takes from the cache has the contents the *)
(* store has at that moment, for any store, queries and updates.           *)
THEOREM CacheIsCoherent == Spec => []CacheCoherent
<1>1. Init => TypeOK /\ CopiesGenuine
  BY InitTypes, InitGenuine
<1>2. TypeOK /\ CopiesGenuine /\ [Next]_vars => (TypeOK /\ CopiesGenuine)'
  BY NextTypes, NextGenuine
<1>3. QED
  BY <1>1, <1>2, GenuineIsCoherent, PTL DEF Spec

-----------------------------------------------------------------------------
(* What keeps the snapshots of nested groups in order: the groups up to    *)
(* the current one hold a copy, those further in do not, and whatever a    *)
(* query will hold next is no older than what it holds.                    *)
Holds(q, g) == held[q][g] # None

HeldUpTo(q) ==
  IF phase[q] \in {"idle", "prepare", "drain"} THEN group[q] - 1 ELSE group[q]

HeldInRange(q) ==
  \A g \in 1 .. Depth : Holds(q, g) =>
    /\ held[q][g].quads = past[held[q][g].asOf]
    /\ begun[q] <= held[q][g].asOf /\ held[q][g].asOf <= version
    /\ \A outer \in 1 .. g : Holds(q, outer) /\ held[q][outer].asOf <= held[q][g].asOf

HeldInOrder(q) ==
  /\ begun[q] <= version
  /\ HeldInRange(q)
  /\ phase[q] # "done" => \A g \in 1 .. Depth : Holds(q, g) <=> g <= HeldUpTo(q)
  /\ phase[q] = "evaluate" => group[q] # 0
  /\ phase[q] = "idle" => group[q] = 0
  /\ phase[q] = "drain" =>
       /\ begun[q] <= drained[q].asOf
       /\ \A g \in 1 .. Depth : Holds(q, g) => held[q][g].asOf <= drained[q].asOf

SnapInv == \A q \in Queries : HeldInOrder(q)

LEMMA InitSnap == Init => SnapInv
<1> SUFFICES ASSUME Init, NEW q \in Queries PROVE HeldInOrder(q)
  BY DEF SnapInv
<1>1. \A g \in 1 .. Depth : ~Holds(q, g)
  BY DEF Init, Holds
<1>2. QED
  BY <1>1 DEF Init, HeldInOrder, HeldInRange, HeldUpTo

(* A copy that is no older than the query and what it holds, and no newer  *)
(* than the store, may be resolved to.                                     *)
LEMMA ResolveInOrder ==
  ASSUME TypeOK, SnapInv, NEW q \in Queries, phase[q] \in {"prepare", "drain"},
         NEW copy \in Copies, Resolve(q, copy),
         copy.quads = past[copy.asOf], begun[q] <= copy.asOf, copy.asOf <= version,
         \A g \in 1 .. Depth : Holds(q, g) => held[q][g].asOf <= copy.asOf,
         UNCHANGED <<store, begun>>
  PROVE  HeldInOrder(q)'
<1> DEFINE k == group[q]
<1>0. HeldInOrder(q) /\ k \in 0 .. Depth /\ copy # None
  BY NoCopyAssumption DEF SnapInv, TypeOK
<1>1. CASE k = 0
  <2>1. held' = held /\ group'[q] = 1 /\ phase'[q] = "prepare"
    BY <1>1 DEF Resolve, TypeOK
  <2>2. HeldInRange(q)'
    BY <1>0, <2>1 DEF HeldInOrder, HeldInRange, Holds, store
  <2>3. \A g \in 1 .. Depth : ~Holds(q, g)
    BY <1>0, <1>1 DEF HeldInOrder, HeldUpTo
  <2>4. QED
    BY <1>0, <2>1, <2>2, <2>3 DEF HeldInOrder, HeldUpTo, Holds, store
<1>2. CASE k # 0
  <2>1. k \in 1 .. Depth
    BY <1>0, <1>2
  <2>2. group'[q] = k /\ phase'[q] = "evaluate"
    BY <1>2 DEF Resolve, TypeOK
  <2>3. held'[q][k] = copy /\ \A g \in (1 .. Depth) \ {k} : held'[q][g] = held[q][g]
    BY <1>2, <2>1 DEF Resolve, TypeOK
  <2>4. \A g \in 1 .. Depth : Holds(q, g) <=> g <= k - 1
    BY <1>0 DEF HeldInOrder, HeldUpTo
  <2>5. \A g \in 1 .. Depth : Holds(q, g)' <=> g <= k
    BY <1>0, <2>1, <2>3, <2>4 DEF Holds
  <2>6. ASSUME NEW g \in 1 .. Depth, Holds(q, g)'
        PROVE  /\ held'[q][g].quads = past'[held'[q][g].asOf]
               /\ begun'[q] <= held'[q][g].asOf /\ held'[q][g].asOf <= version'
               /\ \A outer \in 1 .. g : Holds(q, outer)' /\ held'[q][outer].asOf <= held'[q][g].asOf
    <3>1. g <= k
      BY <2>5, <2>6
    <3>2. CASE g = k
      <4>1. copy.asOf <= copy.asOf
        BY DEF Copies, Versions
      <4>2. \A outer \in 1 .. k : Holds(q, outer)' /\ held'[q][outer].asOf <= copy.asOf
        BY <2>1, <2>3, <2>4, <2>5, <4>1
      <4>3. QED
        BY <3>2, <2>3, <4>2 DEF store
    <3>3. CASE g # k
      <4>1. Holds(q, g) /\ k \notin 1 .. g
        BY <2>1, <2>4, <3>1, <3>3
      <4>2. \A outer \in 1 .. g : held'[q][outer] = held[q][outer] /\ Holds(q, outer)'
        BY <2>1, <2>3, <2>5, <3>1, <4>1
      <4>3. QED
        BY <1>0, <2>3, <4>1, <4>2 DEF HeldInOrder, HeldInRange, store
    <3>4. QED
      BY <3>2, <3>3
  <2>7. HeldInRange(q)'
    BY <2>6 DEF HeldInRange
  <2>8. QED
    BY <1>0, <1>2, <2>2, <2>5, <2>7 DEF HeldInOrder, HeldUpTo, store
<1>3. QED
  BY <1>1, <1>2

(* A step of one query leaves what is said of another as it was.           *)
LEMMA OthersInOrder ==
  ASSUME TypeOK, SnapInv, NEW p \in Queries,
         phase'[p] = phase[p], group'[p] = group[p], held'[p] = held[p],
         drained'[p] = drained[p], begun'[p] = begun[p], UNCHANGED store
  PROVE  HeldInOrder(p)'
<1>1. HeldInOrder(p)
  BY DEF SnapInv
<1>2. \A g \in 1 .. Depth : Holds(p, g)' <=> Holds(p, g)
  BY DEF Holds
<1>3. HeldUpTo(p)' = HeldUpTo(p)
  BY DEF HeldUpTo
<1>4. HeldInRange(p)'
  BY <1>1, <1>2 DEF HeldInOrder, HeldInRange, Holds, store
<1>5. QED
  BY <1>1, <1>2, <1>3, <1>4 DEF HeldInOrder, store

(* The store moves on: what is held was there before.                      *)
LEMMA MutateInOrder ==
  ASSUME TypeOK, SnapInv, NEW new \in Contents, Mutate(new)
  PROVE  SnapInv'
<1> SUFFICES ASSUME NEW q \in Queries PROVE HeldInOrder(q)'
  BY DEF SnapInv
<1>1. HeldInOrder(q) /\ UNCHANGED query
  BY DEF SnapInv, Mutate
<1>2. \A g \in 1 .. Depth : Holds(q, g)' <=> Holds(q, g)
  BY <1>1 DEF Holds, query
<1>3. ASSUME NEW g \in 1 .. Depth, Holds(q, g)
      PROVE  past'[held[q][g].asOf] = past[held[q][g].asOf] /\ held[q][g].asOf <= version'
  <2>1. held[q][g] \in Copies
    BY <1>3 DEF TypeOK, Holds
  <2>2. held[q][g].asOf \in Versions /\ held[q][g].asOf <= version
    BY <1>1, <1>3, <2>1 DEF HeldInOrder, HeldInRange, Copies
  <2>3. QED
    BY <2>2 DEF Mutate, TypeOK, Versions
<1>4. HeldInRange(q)'
  BY <1>1, <1>2, <1>3 DEF HeldInOrder, HeldInRange, query
<1>5. begun'[q] <= version'
  <2>1. begun[q] \in Versions /\ begun[q] <= version /\ begun' = begun
    BY <1>1 DEF TypeOK, HeldInOrder, query
  <2>2. QED
    BY <2>1 DEF Mutate, TypeOK, Versions
<1>6. QED
  BY <1>1, <1>2, <1>4, <1>5 DEF HeldInOrder, HeldUpTo, query

LEMMA NextSnap ==
  TypeOK /\ CopiesGenuine /\ SnapInv /\ [Next]_vars => SnapInv'
<1> SUFFICES ASSUME TypeOK, CopiesGenuine, SnapInv, [Next]_vars
             PROVE  SnapInv'
  OBVIOUS
<1>0. \A q \in Queries : HeldInOrder(q)
  BY DEF SnapInv
<1>1. ASSUME NEW new \in Contents, Mutate(new)
      PROVE  SnapInv'
  BY <1>1, MutateInOrder
<1>2. ASSUME NEW q \in Queries, Begin(q)
      PROVE  SnapInv'
  <2>1. ASSUME NEW p \in Queries, p # q PROVE HeldInOrder(p)'
    BY <1>2, <2>1, OthersInOrder DEF Begin, TypeOK
  <2>2. \A g \in 1 .. Depth : ~Holds(q, g) /\ ~Holds(q, g)'
    BY <1>0, <1>2 DEF Begin, HeldInOrder, HeldUpTo, Holds
  <2>3. version <= version
    BY DEF TypeOK, Versions
  <2>4. HeldInOrder(q)'
    BY <1>0, <1>2, <2>2, <2>3 DEF Begin, TypeOK, HeldInOrder, HeldInRange, HeldUpTo, store
  <2>5. QED
    BY <2>1, <2>4 DEF SnapInv
<1>3. ASSUME NEW q \in Queries, Hit(q)
      PROVE  SnapInv'
  <2>1. ASSUME NEW p \in Queries, p # q PROVE HeldInOrder(p)'
    BY <1>3, <2>1, OthersInOrder DEF Hit, Resolve, TypeOK
  <2>2. cache \in Copies /\ Genuine(cache) /\ cache.version # None /\ cache.version = version
    BY <1>3, VersionsAreNumbers DEF Hit, Usable, StoreVersion, TypeOK, CopiesGenuine
  <2>3. cache.asOf = version
    BY <2>2 DEF Genuine, Copies, TypeOK, Versions
  <2>4. begun[q] <= version /\ \A g \in 1 .. Depth : Holds(q, g) => held[q][g].asOf <= version
    BY <1>0 DEF HeldInOrder, HeldInRange
  <2>5. version <= version
    BY DEF TypeOK, Versions
  <2>6. HeldInOrder(q)'
    BY <1>3, <2>2, <2>3, <2>4, <2>5, ResolveInOrder DEF Hit, Genuine
  <2>7. QED
    BY <2>1, <2>6 DEF SnapInv
<1>4. ASSUME NEW q \in Queries, Miss(q)
      PROVE  SnapInv'
  <2>1. ASSUME NEW p \in Queries, p # q PROVE HeldInOrder(p)'
    BY <1>4, <2>1, OthersInOrder DEF Miss, TypeOK
  <2>2. drained'[q].asOf = version /\ phase[q] = "prepare" /\ phase'[q] = "drain"
        /\ UNCHANGED <<store, group, held, begun>>
    BY <1>4 DEF Miss, TypeOK
  <2>3. \A g \in 1 .. Depth : Holds(q, g) => held[q][g].asOf <= version
    BY <1>0 DEF HeldInOrder, HeldInRange
  <2>4. HeldInRange(q)'
    BY <1>0, <2>2 DEF HeldInOrder, HeldInRange, Holds, store
  <2>5. HeldUpTo(q)' = HeldUpTo(q)
    BY <2>2 DEF HeldUpTo
  <2>6. HeldInOrder(q)'
    BY <1>0, <2>2, <2>3, <2>4, <2>5 DEF HeldInOrder, Holds, store
  <2>7. QED
    BY <2>1, <2>6 DEF SnapInv
<1>5. ASSUME NEW q \in Queries, DeliverLater(q)
      PROVE  SnapInv'
  <2>1. ASSUME NEW p \in Queries, p # q PROVE HeldInOrder(p)'
    BY <1>5, <2>1, OthersInOrder DEF DeliverLater, TypeOK
  <2>2. drained'[q].asOf = version /\ UNCHANGED <<store, phase, group, held, begun>>
    BY <1>5 DEF DeliverLater, TypeOK, Copies
  <2>3. \A g \in 1 .. Depth : Holds(q, g) => held[q][g].asOf <= version
    BY <1>0 DEF HeldInOrder, HeldInRange
  <2>4. HeldInRange(q)'
    BY <1>0, <2>2 DEF HeldInOrder, HeldInRange, Holds, store
  <2>5. HeldInOrder(q)'
    BY <1>0, <2>2, <2>3, <2>4 DEF HeldInOrder, HeldUpTo, Holds, store
  <2>6. QED
    BY <2>1, <2>5 DEF SnapInv
<1>6. ASSUME NEW q \in Queries, Fill(q)
      PROVE  SnapInv'
  <2>1. ASSUME NEW p \in Queries, p # q PROVE HeldInOrder(p)'
    BY <1>6, <2>1, OthersInOrder DEF Fill, Resolve, TypeOK
  <2>2. drained[q] \in Copies /\ Genuine(drained[q])
    BY <1>6 DEF Fill, TypeOK, CopiesGenuine
  <2>3. /\ begun[q] <= drained[q].asOf
        /\ \A g \in 1 .. Depth : Holds(q, g) => held[q][g].asOf <= drained[q].asOf
    BY <1>0, <1>6 DEF Fill, HeldInOrder
  <2>4. HeldInOrder(q)'
    BY <1>6, <2>2, <2>3, ResolveInOrder DEF Fill, Genuine
  <2>5. QED
    BY <2>1, <2>4 DEF SnapInv
<1>7. ASSUME NEW q \in Queries, Enter(q)
      PROVE  SnapInv'
  <2>1. ASSUME NEW p \in Queries, p # q PROVE HeldInOrder(p)'
    BY <1>7, <2>1, OthersInOrder DEF Enter, TypeOK
  <2>2. group[q] \in 0 .. Depth /\ group'[q] = group[q] + 1 /\ phase[q] = "evaluate"
        /\ phase'[q] = "prepare" /\ UNCHANGED <<store, held, begun, drained>>
    BY <1>7 DEF Enter, TypeOK
  <2>3. HeldUpTo(q)' = HeldUpTo(q)
    BY <2>2 DEF HeldUpTo
  <2>4. HeldInRange(q)'
    BY <1>0, <2>2 DEF HeldInOrder, HeldInRange, Holds, store
  <2>5. HeldInOrder(q)'
    BY <1>0, <2>2, <2>3, <2>4 DEF HeldInOrder, Holds, store
  <2>6. QED
    BY <2>1, <2>5 DEF SnapInv
<1>8. ASSUME NEW q \in Queries, Finish(q)
      PROVE  SnapInv'
  <2>1. ASSUME NEW p \in Queries, p # q PROVE HeldInOrder(p)'
    BY <1>8, <2>1, OthersInOrder DEF Finish, TypeOK
  <2>2. phase'[q] = "done" /\ UNCHANGED <<store, held, begun>>
    BY <1>8 DEF Finish, TypeOK
  <2>3. HeldInRange(q)'
    BY <1>0, <2>2 DEF HeldInOrder, HeldInRange, Holds, store
  <2>4. HeldInOrder(q)'
    BY <1>0, <2>2, <2>3 DEF HeldInOrder, store
  <2>5. QED
    BY <2>1, <2>4 DEF SnapInv
<1>9. CASE UNCHANGED vars
  <2>1. ASSUME NEW p \in Queries PROVE HeldInOrder(p)'
    BY <1>9, OthersInOrder DEF vars, query
  <2>2. QED
    BY <2>1 DEF SnapInv
<1>10. QED
  BY <1>1, <1>2, <1>3, <1>4, <1>5, <1>6, <1>7, <1>8, <1>9 DEF Next

LEMMA OrderGivesOneMoment == TypeOK /\ SnapInv => SnapshotsOfOneMoment
<1> SUFFICES ASSUME TypeOK, SnapInv, NEW q \in Queries, NEW g \in 1 .. Depth, held[q][g] # None
             PROVE  /\ held[q][g].quads = past[held[q][g].asOf]
                    /\ held[q][g].asOf \in begun[q] .. version
                    /\ \A outer \in 1 .. g : held[q][outer].asOf <= held[q][g].asOf
  BY DEF SnapshotsOfOneMoment
<1>1. HeldInOrder(q) /\ Holds(q, g)
  BY DEF SnapInv, Holds
<1>2. held[q][g].asOf \in Nat /\ begun[q] \in Nat /\ version \in Nat
  BY DEF TypeOK, Copies, Versions
<1>3. QED
  BY <1>1, <1>2 DEF HeldInOrder, HeldInRange

(* Whatever a group holds is the store of one moment since the query began, *)
(* and never older than what the groups around it hold, however many       *)
(* groups nest and whatever queries and updates run beside it.             *)
THEOREM HeldSnapshotsAreMoments == Spec => []SnapshotsOfOneMoment
<1>1. Init => TypeOK /\ CopiesGenuine /\ SnapInv
  BY InitTypes, InitGenuine, InitSnap
<1>2. TypeOK /\ CopiesGenuine /\ SnapInv /\ [Next]_vars => (TypeOK /\ CopiesGenuine /\ SnapInv)'
  BY NextTypes, NextGenuine, NextSnap
<1>3. QED
  BY <1>1, <1>2, OrderGivesOneMoment, PTL DEF Spec
=============================================================================
