--------------------------- MODULE MCUpdateMeaning --------------------------
(* One update request compared with its SPARQL meaning, for TLC.           *)
EXTENDS UpdateSemantics, MCUpdateOps

CONSTANT r1

OneRequest == {r1}

DirectStores ==
  {{G(t1, g1), G(t2, g1), G(t1, g2), G(t2, dg)}, {G(t2, g1)},
   {G(t1, g2), G(t2, g2), G(t1, dg)}}

(* Every pair of operations of any kind, but LOAD, which has its own       *)
(* outcome.                                                                *)
PairOps == {op \in EveryOp : op.kind # "load"}
Pairs == {<<a, b>> : a, b \in PairOps}
=============================================================================
