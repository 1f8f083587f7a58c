---------------------------- MODULE MCJoinSearch -----------------------------
(***************************************************************************)
(* Blocks of up to three of six entries, and two of four and five entries,   *)
(* for the join-order search.                                                *)
(***************************************************************************)
EXTENDS JoinSearch, TLC

CONSTANTS x, y, z

Count(v, n) == (v :> n)

\* Statistics of scans: three quads with three subjects, seven with two, six apart from
\* the others, two that share a subject, none, and a fully ground pattern.
Three   == [vars |-> {x},    candidates |-> 3, distinct |-> Count(x, 3)]
Seven   == [vars |-> {x, y}, candidates |-> 7, distinct |-> Count(x, 2) @@ Count(y, 7)]
Apart   == [vars |-> {z},    candidates |-> 6, distinct |-> Count(z, 6)]
Sharing == [vars |-> {y, z}, candidates |-> 2, distinct |-> Count(y, 1) @@ Count(z, 2)]
Nothing == [vars |-> {y},    candidates |-> 0, distinct |-> <<>>]
Ground  == [vars |-> {},     candidates |-> 1, distinct |-> <<>>]

Entries == {Three, Seven, Apart, Sharing, Nothing, Ground}

MCBlocks ==
    UNION {[1 .. n -> Entries] : n \in 0 .. 3}
        \cup {<< Three, Seven, Apart, Ground >>, << Apart, Sharing, Three, Nothing >>,
              << Three, Apart, Three, Apart, Ground >>}
MCCards  == {0, 1, 2}
MCBounds == {{}, {x}}
=============================================================================
