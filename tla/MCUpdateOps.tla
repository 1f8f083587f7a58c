---------------------------- MODULE MCUpdateOps -----------------------------
(* Values for the constants of UpdateRequests: two triples, the default    *)
(* graph and two named graphs, and the operations built on them.           *)
EXTENDS UpdateRequests

CONSTANTS t1, t2, dg, g1, g2

G(t, g) == [term |-> [value |-> t, minted |-> FALSE], graph |-> g]

Base == [kind |-> "create", quads |-> {}, fresh |-> {}, from |-> {}, del |-> <<>>,
         to |-> None, silent |-> FALSE]

Insert(quads, fresh) ==
  [Base EXCEPT !.kind = "insert", !.quads = quads, !.fresh = fresh]
Delete(quads) == [Base EXCEPT !.kind = "delete", !.quads = quads]
Clear(gs) == [Base EXCEPT !.kind = "clear", !.from = gs]
AddTo(g, h) == [Base EXCEPT !.kind = "add", !.from = {g}, !.to = h]
Copy(g, h) == [Base EXCEPT !.kind = "copy", !.from = {g}, !.to = h]
Move(g, h) == [Base EXCEPT !.kind = "move", !.from = {g}, !.to = h]
DeleteWhere(g) == [Base EXCEPT !.kind = "deletewhere", !.from = {g}, !.del = <<g>>]
Modify(gs, d, h, fresh) ==
  [Base EXCEPT !.kind = "insertdelete", !.from = gs, !.del = d, !.to = h,
               !.fresh = fresh]
Load(quads, fresh, h, silent) ==
  [Base EXCEPT !.kind = "load", !.quads = quads, !.fresh = fresh, !.to = h,
               !.silent = silent]

(* One operation of every kind, over the three graphs. *)
EveryOp ==
  {Insert({G(t1, dg), G(t2, g1)}, {}), Insert({}, {g1}), Delete({G(t1, g1)}),
   Clear({g1}), Clear({g1, g2}), Base, AddTo(g1, g2), Copy(g1, g2),
   Copy(g1, g1), Move(g1, g2), Move(g1, g1), DeleteWhere(g1),
   Modify({g1}, <<g1, g2>>, g2, {}), Modify({g1}, <<g1>>, g1, {}),
   Modify({g1, g2}, <<>>, g1, {g1}), Modify({g1}, <<g1>>, VariableGraph, {}),
   Load({G(t1, dg)}, {dg}, None, FALSE), Load({G(t1, dg)}, {}, g1, TRUE),
   Load({G(t2, g2)}, {}, g1, FALSE), [Base EXCEPT !.kind = "unsupported"]}

AllGraphs == {dg, g1, g2}
AllTriples == {t1, t2}
=============================================================================
