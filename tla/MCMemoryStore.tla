--------------------------- MODULE MCMemoryStore ----------------------------
(* A MemoryStore of four quads over two terms, for TLC.                    *)
EXTENDS MemoryStore

CONSTANTS a, b

Quad(s, p, o, g) == [subject |-> s, predicate |-> p, object |-> o, graph |-> g]

TwoTerms == {a, b}

(* Quads that share terms in some positions and not in others.             *)
FourQuads == {Quad(a, a, a, a), Quad(a, a, b, b), Quad(b, a, a, b), Quad(b, a, b, a)}

SomeImports == {{Quad(a, a, a, a), Quad(a, a, b, b)}}
=============================================================================
