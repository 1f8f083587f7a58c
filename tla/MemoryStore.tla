----------------------------- MODULE MemoryStore ----------------------------
(***************************************************************************)
(* MemoryStore: the quads in a Map keyed by all four positions, mirrored   *)
(* into one index per position, and read through the smallest bucket.      *)
(*                                                                         *)
(* A quad is a function from the four positions to terms; two quads with   *)
(* the same dedup key are the same quad.  A call runs to its end before    *)
(* anything else happens, so the loop of a call that removes or adds many  *)
(* quads is a sequence of steps that nothing interrupts; the order of the  *)
(* quads in such a loop is left open.  A stream given to import or remove  *)
(* is drained by a microtask, when the code running has returned.          *)
(***************************************************************************)
EXTENDS Filtering, SequencesExt

CONSTANTS
  Terms,
  Wildcard,    \* an absent position of a pattern
  NoBucket,    \* what an index holds for a term without a bucket
  Quads,       \* the quads a caller may add
  Imports,     \* what a stream given to import may hold
  MaxVersion,  \* bound on the version counter
  MaxStreams   \* bound on the streams waiting to be drained

Positions == {"subject", "predicate", "object", "graph"}

(* The order in which getQuads considers the buckets.                      *)
Rank == [subject |-> 1, predicate |-> 2, object |-> 3, graph |-> 4]

ASSUME QuadAssumption == Quads \subseteq [Positions -> Terms] /\ Wildcard \notin Terms
ASSUME ImportAssumption == Imports \subseteq SUBSET Quads
ASSUME BucketAssumption == NoBucket \notin Seq(Quads)
ASSUME BoundAssumption == MaxVersion \in Nat /\ MaxStreams \in Nat

Patterns == [Positions -> Terms \cup {Wildcard}]

VARIABLES
  quads,    \* the canonical map, in insertion order
  index,    \* bySubject, byPredicate, byObject and byGraph
  version,
  streams,  \* streams with a data listener, waiting for their microtask
  loop      \* what the running call has still to add or remove

vars == <<quads, index, version, streams, loop>>

Jobs == [mode : {"add", "remove"}, quads : SUBSET Quads]
Idle == [mode |-> "add", quads |-> {}]

Matches(q, pattern) == \A p \in Positions : pattern[p] \in {Wildcard, q[p]}

(* indexPosition: append to the bucket of the term, or start one.          *)
IndexPosition(buckets, t, q) ==
  [buckets EXCEPT ![t] = IF @ = NoBucket THEN <<q>> ELSE Append(@, q)]

(* Mutant: an emptied bucket keeps its key.                                *)
UnindexKeepingKey(buckets, t, q) ==
  [buckets EXCEPT ![t] = IF @ = NoBucket THEN @ ELSE RemoveFirst(@, q)]

(* Mutant: the last quad of the bucket takes the place of the removed one. *)
UnindexSwapping(buckets, t, q) ==
  [buckets EXCEPT ![t] =
     CASE @ = NoBucket \/ ~Contains(@, q) -> @
       [] @ = <<q>> -> NoBucket
       [] OTHER -> [i \in 1 .. Len(@) - 1 |-> IF @[i] = q THEN Last(@) ELSE @[i]]]

(* unindexPosition: take the quad out, and the key once its bucket empties.*)
UnindexPosition(buckets, t, q) ==
  [buckets EXCEPT ![t] =
     CASE @ = NoBucket -> @
       [] @ = <<q>>    -> NoBucket
       [] OTHER        -> RemoveFirst(@, q)]

(* addQuad: a quad that is there already changes nothing but the version.  *)
AddQuad(q) ==
  /\ version < MaxVersion
  /\ IF Contains(quads, q)
     THEN UNCHANGED <<quads, index>>
     ELSE /\ quads' = Append(quads, q)
          /\ index' = [p \in Positions |-> IndexPosition(index[p], q[p], q)]
  /\ version' = version + 1

(* Mutant: the version follows the size of the store.                     *)
RemoveQuadCountingDown(q) ==
  /\ version < MaxVersion
  /\ IF Contains(quads, q)
     THEN /\ quads' = RemoveFirst(quads, q)
          /\ index' = [p \in Positions |-> UnindexPosition(index[p], q[p], q)]
     ELSE UNCHANGED <<quads, index>>
  /\ version' = version - 1

(* removeQuad.                                                             *)
RemoveQuad(q) ==
  /\ version < MaxVersion
  /\ IF Contains(quads, q)
     THEN /\ quads' = RemoveFirst(quads, q)
          /\ index' = [p \in Positions |-> UnindexPosition(index[p], q[p], q)]
     ELSE UNCHANGED <<quads, index>>
  /\ version' = version + 1

-----------------------------------------------------------------------------
(* getQuads.                                                               *)

Constrained(pattern) == {p \in Positions : pattern[p] # Wildcard}

(* The smallest bucket of the constrained positions, the first of several. *)
Probed(pattern) ==
  LET bucket(p) == index[p][pattern[p]]
  IN bucket(CHOOSE p \in Constrained(pattern) :
              \A o \in Constrained(pattern) :
                \/ Len(bucket(p)) < Len(bucket(o))
                \/ Len(bucket(p)) = Len(bucket(o)) /\ Rank[p] <= Rank[o])

(* What getQuads filters: nothing when a constrained term has no bucket,   *)
(* every quad when no position is constrained.                             *)
Candidates(pattern) ==
  IF \E p \in Constrained(pattern) : index[p][pattern[p]] = NoBucket THEN <<>>
  ELSE IF Constrained(pattern) = {} THEN quads
  ELSE Probed(pattern)

Matching(pattern) == {q \in Quads : Matches(q, pattern)}

GetQuads(pattern) == Kept(Candidates(pattern), Matching(pattern))

(* The quads of that answer.                                               *)
Found(pattern) == {q \in ToSet(Candidates(pattern)) : Matches(q, pattern)}

-----------------------------------------------------------------------------
Init ==
  /\ quads = <<>>
  /\ index = [p \in Positions |-> [t \in Terms |-> NoBucket]]
  /\ version = 0
  /\ streams = <<>>
  /\ loop = Idle

Returned == loop.quads = {}

AddOne(q) ==
  /\ Returned
  /\ AddQuad(q)
  /\ UNCHANGED <<streams, loop>>

RemoveOne(q) ==
  /\ Returned
  /\ RemoveQuad(q)
  /\ UNCHANGED <<streams, loop>>

(* removeMatches, and deleteGraph with a pattern of the graph alone: the   *)
(* answer of getQuads is removed quad by quad.                             *)
RemoveMatches(pattern) ==
  /\ Returned
  /\ loop' = [mode |-> "remove", quads |-> Found(pattern)]
  /\ UNCHANGED <<quads, index, version, streams>>

(* import(stream) and remove(stream): a data listener is attached.         *)
Subscribe(mode, content) ==
  /\ Returned
  /\ Len(streams) < MaxStreams
  /\ streams' = Append(streams, [mode |-> mode, quads |-> content])
  /\ UNCHANGED <<quads, index, version, loop>>

(* store.remove(store.match(pattern)).                                     *)
RemoveMatchStream(pattern) == Subscribe("remove", Found(pattern))

(* store.import(stream), of some other source.                             *)
Import(content) == Subscribe("add", content)

(* Mutant: the newest stream is drained first.                             *)
DrainNewestFirst ==
  /\ Returned
  /\ streams # <<>>
  /\ loop' = Last(streams)
  /\ streams' = Front(streams)
  /\ UNCHANGED <<quads, index, version>>

(* The microtask of the oldest stream begins to drain it.                  *)
Drain ==
  /\ Returned
  /\ streams # <<>>
  /\ loop' = Head(streams)
  /\ streams' = Tail(streams)
  /\ UNCHANGED <<quads, index, version>>

(* One round of the running loop.                                          *)
Round(q) ==
  /\ q \in loop.quads
  /\ IF loop.mode = "add" THEN AddQuad(q) ELSE RemoveQuad(q)
  /\ loop' = [loop EXCEPT !.quads = @ \ {q}]
  /\ UNCHANGED streams

Next ==
  \/ \E q \in Quads : AddOne(q) \/ RemoveOne(q) \/ Round(q)
  \/ \E pattern \in Patterns : RemoveMatches(pattern) \/ RemoveMatchStream(pattern)
  \/ \E content \in Imports : Import(content)
  \/ Drain

Spec == Init /\ [][Next]_vars

-----------------------------------------------------------------------------
TypeOK ==
  /\ quads \in Seq(Quads)
  /\ index \in [Positions -> [Terms -> Seq(Quads) \cup {NoBucket}]]
  /\ version \in 0 .. MaxVersion
  /\ streams \in Seq(Jobs)
  /\ loop \in Jobs

(* The canonical map holds a quad once, and each index lists exactly its   *)
(* quads: a term has a bucket if and only if some quad carries it there,   *)
(* and the bucket holds those quads, each once (addQuad, removeQuad and    *)
(* the note of getQuads that buckets are never empty).                     *)
IndexExact ==
  /\ IsInjective(quads)
  /\ \A p \in Positions, t \in Terms :
       LET carriers == {q \in ToSet(quads) : q[p] = t}
       IN IF index[p][t] = NoBucket THEN carriers = {}
          ELSE /\ ToSet(index[p][t]) = carriers /\ carriers # {}
               /\ IsInjective(index[p][t])

(* getQuads answers as a scan of the whole store in insertion order would, *)
(* whichever bucket it probes (memory-store-equivalence.test.ts).          *)
AnswersLikeScan ==
  \A pattern \in Patterns : GetQuads(pattern) = Kept(quads, Matching(pattern))

(* The store is a set of quads; a call takes effect when it begins.        *)
Contents ==
  IF loop.mode = "add" THEN ToSet(quads) \cup loop.quads ELSE ToSet(quads) \ loop.quads

Promised == INSTANCE QuadSet WITH contents <- Contents, pending <- streams

ImplementsQuadSet == Promised!Spec
=============================================================================
