---------------------------- MODULE PropertyPaths ----------------------------
(***************************************************************************)
(* Property paths over the quads of one graph (src/evaluator/path-*.ts):    *)
(* the steps from an anchor term in either direction and the pairs a path   *)
(* pattern scans.  A path is [kind |-> "link", iri], [kind |-> "^" "?" "*"  *)
(* "+", of] with one path, [kind |-> "/" "|", items] with a sequence of     *)
(* paths, or [kind |-> "!", direct, inverse] with the excluded predicates   *)
(* of either direction.                                                     *)
(***************************************************************************)
EXTENDS TriplePatterns, PathWalks

(***************************************************************************)
(* Steps                                                                    *)
(***************************************************************************)
Flip(dir) == IF dir = "forward" THEN "backward" ELSE "forward"

LinkSteps(quads, iri, dir, term) ==
    IF dir = "forward" THEN Column(MatchQuads(quads, term, iri, AnyTerm), 3)
                       ELSE Column(MatchQuads(quads, AnyTerm, iri, term), 1)

\* Edges in direction dir whose predicate is not excluded.
EdgesExcept(quads, excluded, dir, term) ==
    LET edges == IF dir = "forward" THEN MatchQuads(quads, term, AnyTerm, AnyTerm)
                                    ELSE MatchQuads(quads, AnyTerm, AnyTerm, term)
        open  == SelectSeq(edges, LAMBDA q : q[2] \notin excluded)
    IN  Column(open, IF dir = "forward" THEN 3 ELSE 1)

\* A direction without excluded predicates contributes no edges.
NegatedSteps(quads, path, dir, term) ==
    Deduplicated(
        (IF path.direct = {} THEN <<>> ELSE EdgesExcept(quads, path.direct, dir, term))
        \o (IF path.inverse = {} THEN <<>> ELSE EdgesExcept(quads, path.inverse, Flip(dir), term)))

GraphNodes(quads) ==
    Deduplicated(FlattenSeq([k \in DOMAIN quads |-> << quads[k][1], quads[k][3] >>]))

RECURSIVE PathSteps(_, _, _, _)

\* The steps of a path from every term a walk from a term may meet.
StepsFrom(quads, path, dir, term) ==
    [t \in ToSet(GraphNodes(quads)) \cup {term} |-> PathSteps(quads, path, dir, t)]

SequenceSteps(quads, items, dir, term) ==
    FoldLeft(LAMBDA current, item :
                 FlattenSeq([k \in DOMAIN current |-> PathSteps(quads, item, dir, current[k])]),
             << term >>,
             IF dir = "forward" THEN items ELSE Reverse(items))

PathSteps(quads, path, dir, term) ==
    CASE path.kind = "link" -> LinkSteps(quads, path.iri, dir, term)
      [] path.kind = "^"    -> PathSteps(quads, path.of, Flip(dir), term)
      [] path.kind = "/"    -> SequenceSteps(quads, path.items, dir, term)
      [] path.kind = "|"    -> Deduplicated(FlattenSeq(
                                   [k \in DOMAIN path.items |-> PathSteps(quads, path.items[k], dir, term)]))
      [] path.kind = "?"    -> << term >> \o SelectSeq(PathSteps(quads, path.of, dir, term),
                                                       LAMBDA t : t # term)
      [] path.kind = "*"    -> ZeroOrMore(StepsFrom(quads, path.of, dir, term), term)
      [] path.kind = "+"    -> OneOrMore(StepsFrom(quads, path.of, dir, term), term)
      [] path.kind = "!"    -> NegatedSteps(quads, path, dir, term)

(***************************************************************************)
(* The pairs of a path pattern                                              *)
(***************************************************************************)
RECURSIVE IsMultisetPath(_)
IsMultisetPath(path) ==
    CASE path.kind = "link"       -> TRUE
      [] path.kind = "^"          -> IsMultisetPath(path.of)
      [] path.kind \in {"/", "|"} -> \A k \in DOMAIN path.items : IsMultisetPath(path.items[k])
      [] OTHER                    -> FALSE

Leading(source, targets) == [k \in DOMAIN targets |-> << source, targets[k] >>]
Reaching(sources, target) == [k \in DOMAIN sources |-> << sources[k], target >>]

\* A blank node of the query is not a Variable here: the scan takes it for a constant.
PathPairs(quads, path, subject, object) ==
    IF subject \in Variables /\ object \notin Variables
    THEN Reaching(PathSteps(quads, path, "backward", object), object)
    ELSE LET sources == IF subject \in Variables THEN GraphNodes(quads) ELSE << subject >>
         IN  FlattenSeq([k \in DOMAIN sources |->
                 Leading(sources[k], PathSteps(quads, path, "forward", sources[k]))])

Counted(path, pairs) == IF IsMultisetPath(path) THEN pairs ELSE Deduplicated(pairs)

ScanPathEntry(quads, path, subject, object) ==
    Counted(path, PathPairs(quads, path, subject, object))
=============================================================================
