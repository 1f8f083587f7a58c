----------------------------- MODULE MCUpdateTx -----------------------------
(* Update requests through a transaction, for TLC.                         *)
EXTENDS MCUpdateOps

CONSTANTS r1, r2

TwoRequests == {r1, r2}
OneRequest == {r1}

TxStores == {{G(t1, g1), G(t2, g1), G(t1, g2), G(t2, dg)}}

(* Scripts of one and two operations; the second acts on what the first    *)
(* wrote.                                                                  *)
TxScripts ==
  {<<op>> : op \in EveryOp}
    \cup {<<Insert({}, {g1}), Copy(g1, g2)>>, <<Copy(g1, g2), Clear({g1})>>,
          <<Modify({g1}, <<g1>>, g2, {}), Move(g2, dg)>>}

LiveScripts ==
  {<<Insert({}, {g1}), Copy(g1, g2)>>, <<Load({G(t1, dg)}, {dg}, None, TRUE), Move(g1, g2)>>,
   <<Modify({g1}, <<g1, g2>>, VariableGraph, {})>>}

LabelScripts == {<<Insert({}, {g1})>>}
=============================================================================
