----------------------------- MODULE PathLookups ------------------------------
(***************************************************************************)
(* The path evaluator of src/evaluator/path-steps.ts and path-scan.ts, which *)
(* awaits one lookup after the other: the same steps as PropertyPaths has    *)
(* over a snapshot, each lookup answered by the store as it is then.  Where  *)
(* a walk stands is told by the answers it has had: run over them, it either *)
(* asks for one lookup more or has its pairs.                                *)
(***************************************************************************)
EXTENDS PropertyPaths

(***************************************************************************)
(* A walk: what its last step found, the answers ahead of it, and the       *)
(* pattern it waits for, << >> while it waits for none                      *)
(***************************************************************************)
Begun(answers) == [found |-> <<>>, ahead |-> answers, ask |-> <<>>]

\* await matchQuads: a walk that has no answer left waits, and finds nothing more.
Lookup(w, pattern) ==
    IF w.ahead # <<>> THEN [w EXCEPT !.found = Head(w.ahead), !.ahead = Tail(@)]
    ELSE [w EXCEPT !.found = <<>>, !.ask = IF @ = <<>> THEN << pattern >> ELSE @]

\* A loop with an await in its body: what its turns find, one after the other.
Each(nodes, Turn(_, _), w) ==
    FoldLeft(LAMBDA x, node :
                 IF x.ask # <<>> THEN x
                 ELSE LET y == Turn(node, x) IN [y EXCEPT !.found = x.found \o @],
             [w EXCEPT !.found = <<>>], nodes)

(***************************************************************************)
(* Steps                                                                    *)
(***************************************************************************)
EdgesFrom(dir, term, iri) ==
    IF dir = "forward" THEN << term, iri, AnyTerm >> ELSE << AnyTerm, iri, term >>

FarEnds(edges, dir) == Column(edges, IF dir = "forward" THEN 3 ELSE 1)

AwaitLink(iri, dir, term, w) ==
    LET x == Lookup(w, EdgesFrom(dir, term, iri)) IN [x EXCEPT !.found = FarEnds(@, dir)]

AwaitEdgesExcept(excluded, dir, term, w) ==
    IF excluded = {} THEN [w EXCEPT !.found = <<>>]
    ELSE LET x == Lookup(w, EdgesFrom(dir, term, AnyTerm))
         IN  [x EXCEPT !.found = FarEnds(SelectSeq(@, LAMBDA q : q[2] \notin excluded), dir)]

AwaitNegated(path, dir, term, w) ==
    LET x == AwaitEdgesExcept(path.direct, dir, term, w)
        y == AwaitEdgesExcept(path.inverse, Flip(dir), term, x)
    IN  [y EXCEPT !.found = Deduplicated(x.found \o @)]

RECURSIVE AwaitSteps(_, _, _, _), AwaitClosure(_, _, _, _, _)

\* The loop of a closure, one await for every term it takes from the queue.
AwaitClosure(path, dir, start, walk, w) ==
    IF walk.queue = <<>> \/ w.ask # <<>> THEN [w EXCEPT !.found = walk.found]
    ELSE LET x == AwaitSteps(path, dir, Head(walk.queue), w)
         IN  AwaitClosure(path, dir, start, Widened(walk, x.found, start), x)

\* Mutant: a sequence of paths is walked in written order also from its end.
AwaitSequenceAsWritten(items, dir, term, w) ==
    FoldLeft(LAMBDA x, item : Each(x.found, LAMBDA node, y : AwaitSteps(item, dir, node, y), x),
             [w EXCEPT !.found = << term >>], items)

AwaitSequence(items, dir, term, w) ==
    FoldLeft(LAMBDA x, item : Each(x.found, LAMBDA node, y : AwaitSteps(item, dir, node, y), x),
             [w EXCEPT !.found = << term >>],
             IF dir = "forward" THEN items ELSE Reverse(items))

AwaitSteps(path, dir, term, w) ==
    LET inner == AwaitSteps(path.of, dir, term, w)
        any   == Each(path.items, LAMBDA item, x : AwaitSteps(item, dir, term, x), w)
    IN  CASE path.kind = "link" -> AwaitLink(path.iri, dir, term, w)
          [] path.kind = "^"    -> AwaitSteps(path.of, Flip(dir), term, w)
          [] path.kind = "/"    -> AwaitSequence(path.items, dir, term, w)
          [] path.kind = "|"    -> [any EXCEPT !.found = Deduplicated(@)]
          [] path.kind = "?"    -> [inner EXCEPT !.found = << term >> \o SelectSeq(@, LAMBDA t : t # term)]
          [] path.kind = "*"    -> AwaitClosure(path.of, dir, term, WalkFrom(term, << term >>), w)
          [] path.kind = "+"    -> AwaitClosure(path.of, dir, term, WalkFrom(term, <<>>), w)
          [] path.kind = "!"    -> AwaitNegated(path, dir, term, w)

(***************************************************************************)
(* The pairs of a path pattern                                              *)
(***************************************************************************)
AwaitPairs(path, subject, object, w) ==
    LET Ahead(node, x) == LET y == AwaitSteps(path, "forward", node, x)
                          IN  [y EXCEPT !.found = Leading(node, @)]
        nodes == Lookup(w, << AnyTerm, AnyTerm, AnyTerm >>)
        back  == AwaitSteps(path, "backward", object, w)
    IN  IF subject \notin Variables THEN Ahead(subject, w)
        ELSE IF object \notin Variables THEN [back EXCEPT !.found = Reaching(@, object)]
        ELSE Each(GraphNodes(nodes.found), Ahead, nodes)

\* The walk of a path pattern after its first answers.
PathWalk(path, subject, object, answers) ==
    LET w == AwaitPairs(path, subject, object, Begun(answers))
    IN  [pairs |-> Counted(path, w.found), ask |-> w.ask]
=============================================================================
