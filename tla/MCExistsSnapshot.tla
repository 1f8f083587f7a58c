-------------------------- MODULE MCExistsSnapshot --------------------------
(* Two queries of two groups, for TLC.                                     *)
EXTENDS ExistsSnapshot, TLC

CONSTANTS q1, q2, c1, c2

TwoQueries == {q1, q2}
TwoContents == {c1, c2}
Interchangeable == Permutations(TwoQueries) \cup Permutations(TwoContents)
=============================================================================
