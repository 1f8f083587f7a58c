------------------------------- MODULE QuadSet ------------------------------
(***************************************************************************)
(* What the engine relies on a MemoryStore to be: a set of quads.  Adding  *)
(* and removing are per quad, removeMatches takes every matching quad out  *)
(* at once, and a stream given to import or remove takes effect later, in  *)
(* one step, with the quads it had when it was given.                      *)
(***************************************************************************)
EXTENDS Sequences

CONSTANTS Quads, Patterns, Matches(_, _)

VARIABLES
  contents,  \* the quads of the store
  pending    \* the subscribed streams: what to do, with which quads

vars == <<contents, pending>>

Init ==
  /\ contents \in SUBSET Quads
  /\ pending = <<>>

Insert(q) ==
  /\ contents' = contents \cup {q}
  /\ UNCHANGED pending

Delete(q) ==
  /\ contents' = contents \ {q}
  /\ UNCHANGED pending

DeleteMatches(pattern) ==
  /\ contents' = {q \in contents : ~Matches(q, pattern)}
  /\ UNCHANGED pending

Subscribe(mode, quads) ==
  /\ pending' = Append(pending, [mode |-> mode, quads |-> quads])
  /\ UNCHANGED contents

(* The streams flow in the order they were given.                          *)
Flow ==
  /\ pending # <<>>
  /\ contents' = IF Head(pending).mode = "add"
                 THEN contents \cup Head(pending).quads
                 ELSE contents \ Head(pending).quads
  /\ pending' = Tail(pending)

Next ==
  \/ \E q \in Quads : Insert(q) \/ Delete(q)
  \/ \E pattern \in Patterns : DeleteMatches(pattern)
  \/ \E mode \in {"add", "remove"}, quads \in SUBSET Quads : Subscribe(mode, quads)
  \/ Flow

Spec == Init /\ [][Next]_vars
=============================================================================
