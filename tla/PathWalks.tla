------------------------------ MODULE PathWalks -------------------------------
(***************************************************************************)
(* The breadth-first walks of the * and + paths (src/evaluator/path-steps.ts *)
(* and path-steps-sync.ts): a queue of terms to expand, the terms found, in *)
(* order, and those already visited.  next maps every term to the sequence  *)
(* of terms one step of the inner path away; the walk that awaits the store  *)
(* at every turn (PathLookups) shares the turn, but has no such map.         *)
(***************************************************************************)
EXTENDS Filtering, FiniteSets, SequencesExt

\* Mutant: the start of a walk counts as visited whether it is found or not.
WalkFromVisited(start, found) == [queue |-> << start >>, found |-> found, visited |-> {start}]

\* A walk begins with the start in the queue, and visited if it counts as found.
WalkFrom(start, found) == [queue |-> << start >>, found |-> found, visited |-> ToSet(found)]

\* The first of the queue is expanded into the steps from it.  The start is in the queue
\* from the beginning and never put there again.
Widened(walk, steps, start) ==
    LET new == Deduplicated(Kept(steps, ToSet(steps) \ walk.visited))
    IN  [queue   |-> Tail(walk.queue) \o Kept(new, ToSet(new) \ {start}),
         found   |-> walk.found \o new,
         visited |-> walk.visited \cup ToSet(new)]

\* One turn of the loop.
Expanded(walk, next, start) ==
    IF walk.queue = <<>> THEN walk ELSE Widened(walk, next[Head(walk.queue)], start)

\* The walk after the first n turns, as a function of n.  It begins with the start
\* visited or not; every turn but idle ones takes one term from the queue for good.
Turns(next, start, found) ==
    LET walk[n \in 0 .. Cardinality(DOMAIN next)] ==
            IF n = 0 THEN WalkFrom(start, found)
            ELSE Expanded(walk[n - 1], next, start)
    IN  walk

Walked(next, start, found) == Turns(next, start, found)[Cardinality(DOMAIN next)].found

ZeroOrMore(next, start) == Walked(next, start, << start >>)

\* The start is found when a cycle leads back to it.
OneOrMore(next, start) == Walked(next, start, <<>>)
=============================================================================
