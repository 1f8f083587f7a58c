----------------------------- MODULE Filtering ------------------------------
(***************************************************************************)
(* Array.prototype.filter, as getQuads and the joins use it: the elements  *)
(* of a sequence that pass a test, in the order of the sequence.  The test *)
(* is the set of what passes, and the definition a recursive function, so  *)
(* that it can be reasoned about.                                          *)
(***************************************************************************)
EXTENDS Naturals, Sequences

(* What is kept of the first n elements, as a function of n.               *)
FirstKept(seq, kept) ==
  LET first[n \in 0 .. Len(seq)] ==
        IF n = 0 THEN <<>>
        ELSE IF seq[n] \in kept THEN Append(first[n - 1], seq[n])
        ELSE first[n - 1]
  IN first

Kept(seq, kept) == FirstKept(seq, kept)[Len(seq)]

(* The positions where an element occurs for the first time.               *)
Firsts(seq) ==
  Kept([k \in DOMAIN seq |-> k], {k \in DOMAIN seq : \A j \in 1 .. k - 1 : seq[j] # seq[k]})

Picked(seq, positions) == [n \in DOMAIN positions |-> seq[positions[n]]]

(* The first occurrence of every element: a loop that remembers in a Set   *)
(* what it has seen.                                                       *)
Deduplicated(seq) == Picked(seq, Firsts(seq))
=============================================================================
