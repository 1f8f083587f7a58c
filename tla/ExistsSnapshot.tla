--------------------------- MODULE ExistsSnapshot ---------------------------
(***************************************************************************)
(* The EXISTS snapshot of BgpEvaluator: one drained, indexed copy of the   *)
(* store, cached across queries under the store's mutation version, and    *)
(* held by each group of patterns that contains an EXISTS for as long as   *)
(* the group is evaluated.  Queries and updates interleave at the awaits.  *)
(*                                                                         *)
(* asOf is a history variable: the version whose contents a copy has.  A   *)
(* MemoryStore is copied at once; another store streams its quads later    *)
(* than its version was read, or has no version at all.                    *)
(***************************************************************************)
EXTENDS Naturals

CONSTANTS
  Queries,     \* evaluateBgp calls of patterns that contain an EXISTS
  Depth,       \* groups with an EXISTS in a query, each inside the one before
  Contents,    \* what the store may hold
  None,
  MaxVersion   \* bound on mutations

ASSUME DepthAssumption == Depth \in Nat \ {0}
ASSUME VersionAssumption == MaxVersion \in Nat
ASSUME NoneAssumption == None \notin Nat

VARIABLES
  contents,   \* the store
  version,    \* its mutation counter
  kind,       \* "memory", or "stream" with or without a version
  past,       \* history: the contents at each version so far
  filled,     \* whether existsQuads, existsIndex and existsVersion are set
  cache,      \* those fields
  phase,      \* where a query is
  group,      \* the group it prepares or evaluates; 0: evaluateBgp itself
  drained,    \* the copy it waits for
  held,       \* the snapshot each of its groups holds
  begun       \* history: the version when it began

store == <<contents, version, kind, past>>
query == <<phase, group, drained, held, begun>>
vars == <<store, filled, cache, query>>

Kinds == {"memory", "stream", "unversioned"}
Phases == {"idle", "prepare", "drain", "evaluate", "done"}
Versions == 0 .. MaxVersion
Copies == [quads : Contents, version : Versions \cup {None}, asOf : Versions]

ASSUME NoCopyAssumption == None \notin Copies

Init ==
  /\ contents \in Contents
  /\ version = 0
  /\ kind \in Kinds
  /\ past = [v \in Versions |-> contents]
  /\ filled = FALSE
  /\ cache = [quads |-> contents, version |-> None, asOf |-> 0]
  /\ phase = [q \in Queries |-> "idle"]
  /\ group = [q \in Queries |-> 0]
  /\ drained = [q \in Queries |-> cache]
  /\ held = [q \in Queries |-> [g \in 1 .. Depth |-> None]]
  /\ begun = [q \in Queries |-> 0]

(* storeVersion: null for a store that does not count its mutations.       *)
StoreVersion == IF kind = "unversioned" THEN None ELSE version

(* A mutation by an update, by addQuad, removeQuad or a stream.            *)
Mutate(new) ==
  /\ version < MaxVersion
  /\ contents' = new
  /\ version' = version + 1
  /\ past' = [past EXCEPT ![version + 1] = new]
  /\ UNCHANGED <<kind, filled, cache, query>>

(* evaluateBgp is called; some pattern of the tree has an EXISTS.          *)
Begin(q) ==
  /\ phase[q] = "idle"
  /\ phase' = [phase EXCEPT ![q] = "prepare"]
  /\ begun' = [begun EXCEPT ![q] = version]
  /\ UNCHANGED <<store, filled, cache, group, drained, held>>

(* prepareExistsIndex resolves to copy.  evaluateBgp drops the one it      *)
(* asked for and goes on to its outermost group, which asks again.         *)
Resolve(q, copy) ==
  IF group[q] = 0
  THEN /\ group' = [group EXCEPT ![q] = 1]
       /\ phase' = [phase EXCEPT ![q] = "prepare"]
       /\ UNCHANGED held
  ELSE /\ held' = [held EXCEPT ![q][group[q]] = copy]
       /\ phase' = [phase EXCEPT ![q] = "evaluate"]
       /\ UNCHANGED group

(* Mutant: the cache is used whatever its version.                         *)
UsableWhenFilled == filled

(* Mutant: a store without a version is taken to be unchanged.             *)
UsableUnversioned == filled /\ cache.version = StoreVersion

Usable == filled /\ StoreVersion # None /\ cache.version = StoreVersion

(* prepareExistsIndex with a cached snapshot of the current version.       *)
Hit(q) ==
  /\ phase[q] = "prepare" /\ Usable
  /\ Resolve(q, cache)
  /\ UNCHANGED <<store, filled, cache, drained, begun>>

(* prepareExistsIndex otherwise: the version is read, the drain begins.    *)
Miss(q) ==
  /\ phase[q] = "prepare" /\ ~Usable
  /\ drained' = [drained EXCEPT ![q] =
       [quads |-> contents, version |-> StoreVersion, asOf |-> version]]
  /\ phase' = [phase EXCEPT ![q] = "drain"]
  /\ UNCHANGED <<store, filled, cache, group, held, begun>>

(* A store that streams may deliver what it holds later.                   *)
DeliverLater(q) ==
  /\ phase[q] = "drain" /\ kind # "memory"
  /\ drained' = [drained EXCEPT ![q].quads = contents, ![q].asOf = version]
  /\ UNCHANGED <<store, filled, cache, phase, group, held, begun>>

(* Mutant: the version is read after the drain.                            *)
FillWithVersionNow(q) ==
  /\ phase[q] = "drain"
  /\ filled' = TRUE
  /\ cache' = [drained[q] EXCEPT !.version = StoreVersion]
  /\ Resolve(q, drained[q])
  /\ UNCHANGED <<store, drained, begun>>

(* The drain ends: the copy is indexed, cached and returned.  A drain that *)
(* began earlier may end later and overwrite a newer cache.                *)
Fill(q) ==
  /\ phase[q] = "drain"
  /\ filled' = TRUE
  /\ cache' = drained[q]
  /\ Resolve(q, drained[q])
  /\ UNCHANGED <<store, drained, begun>>

(* Mutant: there is always a group further in.                             *)
EnterAlways(q) ==
  /\ phase[q] = "evaluate"
  /\ group' = [group EXCEPT ![q] = @ + 1]
  /\ phase' = [phase EXCEPT ![q] = "prepare"]
  /\ UNCHANGED <<store, filled, cache, drained, held, begun>>

(* The group goes on to a group inside it that has an EXISTS.              *)
Enter(q) ==
  /\ phase[q] = "evaluate" /\ group[q] < Depth
  /\ group' = [group EXCEPT ![q] = @ + 1]
  /\ phase' = [phase EXCEPT ![q] = "prepare"]
  /\ UNCHANGED <<store, filled, cache, drained, held, begun>>

(* The evaluation is over; or checkAborted throws, at the start of a group *)
(* or before a pattern, but never in a drain.                              *)
Finish(q) ==
  /\ phase[q] \in {"prepare", "evaluate"}
  /\ phase' = [phase EXCEPT ![q] = "done"]
  /\ UNCHANGED <<store, filled, cache, group, drained, held, begun>>

Next ==
  \/ \E new \in Contents : Mutate(new)
  \/ \E q \in Queries :
       \/ Begin(q) \/ Hit(q) \/ Miss(q) \/ DeliverLater(q) \/ Fill(q)
       \/ Enter(q) \/ Finish(q)

Spec == Init /\ [][Next]_vars

-----------------------------------------------------------------------------
TypeOK ==
  /\ contents \in Contents
  /\ version \in Versions
  /\ kind \in Kinds
  /\ past \in [Versions -> Contents]
  /\ filled \in BOOLEAN
  /\ cache \in Copies
  /\ phase \in [Queries -> Phases]
  /\ group \in [Queries -> 0 .. Depth]
  /\ drained \in [Queries -> Copies]
  /\ held \in [Queries -> [1 .. Depth -> Copies \cup {None}]]
  /\ begun \in [Queries -> Versions]

(* "Updates between queries never see stale data": a cached snapshot that  *)
(* prepareExistsIndex would hand out has the store's contents, although    *)
(* drains may finish in another order than they began and after updates.   *)
CacheCoherent == Usable => cache.quads = contents

(* Whatever a group holds are the contents of the store at one moment, not *)
(* before the query began, and not before what the groups around it hold.  *)
SnapshotsOfOneMoment ==
  \A q \in Queries, g \in 1 .. Depth :
    held[q][g] # None =>
      /\ held[q][g].quads = past[held[q][g].asOf]
      /\ held[q][g].asOf \in begun[q] .. version
      /\ \A outer \in 1 .. g : held[q][outer].asOf <= held[q][g].asOf
=============================================================================
