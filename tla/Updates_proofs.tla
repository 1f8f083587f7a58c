---------------------------- MODULE Updates_proofs ---------------------------
(***************************************************************************)
(* Proofs about updates.  Of UpdateRequests: its types, that every          *)
(* transaction ends exactly once, that minted labels are fresh, that a      *)
(* request buffers no write outside the graphs its operations name, and     *)
(* that with a transaction every behaviour is one of AtomicUpdates.  Of     *)
(* UpdateSemantics: a request that succeeds has the SPARQL meaning of its   *)
(* operations, and a cancelled one stops at a boundary.                     *)
(***************************************************************************)
EXTENDS UpdateSemantics, Filtering_proofs, FiniteSetTheorems

-----------------------------------------------------------------------------
(* Helpers.                                                                *)

LEMMA OpType ==
  ASSUME TypeOK, NEW r \in Requests, Busy(r)
  PROVE  Op(r) \in Ops
<1>1. script[r] \in Seq(Ops)
  BY ScriptAssumption DEF TypeOK
<1>2. at[r] \in 1 .. Len(script[r])
  BY <1>1 DEF TypeOK, Busy
<1>3. QED
  BY <1>1, <1>2 DEF Op

LEMMA QuadTypes ==
  /\ GroundQuads \subseteq Quads
  /\ \A t \in Terms, g \in Graphs : [term |-> t, graph |-> g] \in Quads
  /\ \A n \in Nat, g \in Graphs : Minted(n, g) \in Quads
  /\ \A q \in Quads : q.term \in Terms /\ q.graph \in Graphs
  BY DEF GroundQuads, Quads, Terms, GroundTerms, MintedTerms, Minted

LEMMA IntoTypes ==
  ASSUME NEW quads \in SUBSET Quads, NEW g \in Graphs
  PROVE  Into(quads, g) \in SUBSET Quads
  BY QuadTypes DEF Into

SinksTyped ==
  /\ store \subseteq Quads
  /\ patch \in [Requests -> [added : SUBSET Quads, deleted : SUBSET Quads]]

LEMMA SinkTypes ==
  ASSUME TypeOK, NEW r \in Requests, NEW adds \in SUBSET Quads,
         NEW dels \in SUBSET Quads, Sink(r, adds, dels)
  PROVE  SinksTyped'
<1>1. CASE Transactional
  <2>1. patch[r] \in [added : SUBSET Quads, deleted : SUBSET Quads]
    BY DEF TypeOK
  <2>2. patch' = [patch EXCEPT ![r] =
                    [added   |-> (patch[r].added \ dels) \cup adds,
                     deleted |-> (patch[r].deleted \cup dels) \ adds]]
        /\ store' = store
    BY <1>1 DEF Sink
  <2>3. QED
    BY <2>1, <2>2 DEF TypeOK, SinksTyped
<1>2. CASE ~Transactional
  BY <1>2 DEF Sink, TypeOK, SinksTyped
<1>3. QED
  BY <1>1, <1>2

(***************************************************************************)
(* The step index of a request is an index of its operation's steps.  The  *)
(* types do not follow without it: Now(r) would be anything.               *)
(***************************************************************************)
StepInRange ==
  \A r \in Requests : at[r] <= Len(script[r]) => step[r] \in DOMAIN Steps(Op(r))

(* What is counted or copied is finite. *)
SinksFinite ==
  /\ IsFiniteSet(store)
  /\ \A r \in Requests : IsFiniteSet(patch[r].added)

FiniteData ==
  /\ SinksFinite
  /\ \A r \in Requests : IsFiniteSet(source[r]) /\ IsFiniteSet(rows[r])

IInv == TypeOK /\ StepInRange /\ FiniteData

StepNames == {"addData", "removeData", "where", "scan", "removeMatched", "instantiate",
              "fetchTarget", "removeTarget", "fetchSource", "addSource",
              "addSourceRefetch", "request", "document", "unsupported", "skip"}

TemplateNames == {"where", "scan", "removeMatched", "instantiate"}

LEMMA TemplateStepsType ==
  ASSUME NEW op \in Ops
  PROVE  /\ TemplateSteps(op) \in Seq(TemplateNames)
         /\ Len(TemplateSteps(op)) >= 1
<1>1. 2 * Len(op.del) + 1 \in Nat /\ 2 * Len(op.del) + 1 >= 1
  BY DEF Ops, Records
<1>2. TemplateSteps(op) \in [1 .. 2 * Len(op.del) + 1 -> TemplateNames]
  BY DEF TemplateSteps, TemplateNames
<1>3. QED
  BY <1>1, <1>2

LEMMA StepsType ==
  ASSUME NEW op \in Ops
  PROVE  Steps(op) \in Seq(StepNames) /\ Len(Steps(op)) >= 1
<1>1. op.kind \in Kinds
  BY DEF Ops, Records
<1>2. CASE op.kind \in {"insertdelete", "deletewhere"}
  <2>1. TemplateNames \subseteq StepNames
    BY DEF TemplateNames, StepNames
  <2>2. TemplateSteps(op) \in Seq(StepNames) /\ Len(TemplateSteps(op)) >= 1
    BY <2>1, TemplateStepsType
  <2>3. Append(TemplateSteps(op), "instantiate") \in Seq(StepNames)
        /\ Len(Append(TemplateSteps(op), "instantiate")) >= 1
    BY <2>2 DEF StepNames
  <2>4. QED
    BY <1>2, <2>2, <2>3 DEF Steps
<1>3. CASE op.kind \notin {"insertdelete", "deletewhere"}
  <2>1. Steps(op) \in {<<"addData">>, <<"removeData">>, <<"fetchTarget", "removeTarget">>,
                       <<"fetchSource", "addSource">>,
                       <<"fetchSource", "fetchTarget", "removeTarget", "addSource">>,
                       <<"fetchSource", "fetchTarget", "removeTarget", "addSourceRefetch",
                         "removeTarget">>,
                       <<"request", "document">>, <<"unsupported">>, <<"skip">>}
    BY <1>1, <1>3 DEF Steps, Kinds
  <2> DEFINE Good(s) == s \in Seq(StepNames) /\ Len(s) >= 1
  <2>2. Good(<<"addData">>) /\ Good(<<"removeData">>)
        /\ Good(<<"unsupported">>) /\ Good(<<"skip">>)
    BY DEF StepNames
  <2>3. Good(<<"fetchTarget", "removeTarget">>) /\ Good(<<"fetchSource", "addSource">>)
        /\ Good(<<"request", "document">>)
    BY DEF StepNames
  <2>4. Good(<<"fetchSource", "fetchTarget", "removeTarget", "addSource">>)
    BY DEF StepNames
  <2>5. Good(<<"fetchSource", "fetchTarget", "removeTarget", "addSourceRefetch",
               "removeTarget">>)
    BY DEF StepNames
  <2> HIDE DEF Good
  <2>6. Good(Steps(op))
    BY <2>1, <2>2, <2>3, <2>4, <2>5, Zenon
  <2>7. QED
    BY <2>6 DEF Good
<1>4. QED
  BY <1>2, <1>3

LEMMA StepTellsKind ==
  ASSUME TypeOK, StepInRange, NEW r \in Requests, Busy(r)
  PROVE  /\ Now(r) \in {"addSource", "addSourceRefetch"} => Op(r).to \in Graphs
         /\ Now(r) = "document" => Op(r).to \in Graphs \cup {None}
<1> SUFFICES ASSUME Now(r) \in {"addSource", "addSourceRefetch", "document"}
             PROVE  /\ Now(r) \in {"addSource", "addSourceRefetch"} => Op(r).to \in Graphs
                    /\ Now(r) = "document" => Op(r).to \in Graphs \cup {None}
  OBVIOUS
<1> DEFINE op == Op(r)
<1>1. op \in Ops
  BY OpType
<1>2. step[r] \in DOMAIN Steps(op)
  BY DEF StepInRange, Busy
<1>3. op.kind \in Kinds
  BY <1>1 DEF Ops, Records
<1>4. op.kind \notin {"insertdelete", "deletewhere"}
  <2> SUFFICES ASSUME op.kind \in {"insertdelete", "deletewhere"}
               PROVE  FALSE
    OBVIOUS
  <2>1. TemplateSteps(op) \in Seq(TemplateNames)
    BY <1>1, TemplateStepsType
  <2>2. Append(TemplateSteps(op), "instantiate") \in Seq(TemplateNames)
    BY <2>1 DEF TemplateNames
  <2>3. Steps(op) \in Seq(TemplateNames)
    BY <2>1, <2>2 DEF Steps
  <2>4. Now(r) \in TemplateNames
    BY <1>2, <2>3 DEF Now
  <2>5. QED
    BY <2>4 DEF TemplateNames
<1>5. /\ Now(r) \in {"addSource", "addSourceRefetch"} => op.kind \in {"add", "copy", "move"}
      /\ Now(r) = "document" => op.kind = "load"
  BY <1>2, <1>3, <1>4 DEF Steps, Now, Kinds
<1>6. QED
  BY <1>1, <1>5 DEF Ops, Records

LEMMA AdvanceTypes ==
  ASSUME TypeOK, NEW r \in Requests, Advance(r)
  PROVE  at' \in [Requests -> Nat \ {0}] /\ step' \in [Requests -> Nat \ {0}]
<1>1. /\ at \in [Requests -> Nat \ {0}]
      /\ step \in [Requests -> Nat \ {0}]
  BY DEF TypeOK
<1>2. \/ step' = [step EXCEPT ![r] = step[r] + 1] /\ at' = at
      \/ step' = [step EXCEPT ![r] = 1] /\ at' = [at EXCEPT ![r] = at[r] + 1]
  BY Zenon DEF Advance, NextOp
<1>3. at[r] + 1 \in Nat \ {0} /\ step[r] + 1 \in Nat \ {0} /\ 1 \in Nat \ {0}
  BY <1>1
<1>4. QED
  BY <1>1, <1>2, <1>3, Zenon

(* An operation's step that writes through a sink. *)
LEMMA WriteTypes ==
  ASSUME TypeOK, NEW r \in Requests, NEW adds \in SUBSET Quads,
         NEW dels \in SUBSET Quads, Sink(r, adds, dels), Advance(r),
         nextLabel' \in Nat, UNCHANGED <<control, locals>>
  PROVE  TypeOK'
<1>1. SinksTyped'
  BY SinkTypes
<1>2. at' \in [Requests -> Nat \ {0}] /\ step' \in [Requests -> Nat \ {0}]
  BY AdvanceTypes
<1>3. QED
  BY <1>1, <1>2 DEF TypeOK, SinksTyped, control, locals

LEMMA FailTypes ==
  ASSUME TypeOK, NEW r \in Requests, Fail(r)
  PROVE  TypeOK'
  BY DEF TypeOK, Fail, Settle, locals, Phases, Fates, Outcomes

-----------------------------------------------------------------------------
(* Finiteness of the sets the operations build.                            *)

LEMMA ImageFinite ==
  ASSUME NEW S, IsFiniteSet(S), NEW f, f \in [S -> {f[x] : x \in S}]
  PROVE  IsFiniteSet({f[x] : x \in S})
<1>1. f \in Surjection(S, {f[x] : x \in S})
  BY DEF Surjection
<1>2. QED
  BY <1>1, FS_Surjection

LEMMA TermsFinite ==
  ASSUME NEW S, IsFiniteSet(S)
  PROVE  IsFiniteSet({q.term : q \in S})
<1> DEFINE f == [q \in S |-> q.term]
<1>1. IsFiniteSet({f[q] : q \in S})
  BY ImageFinite
<1>2. {f[q] : q \in S} = {q.term : q \in S}
  OBVIOUS
<1>3. QED
  BY <1>1, <1>2

LEMMA IntoFinite ==
  ASSUME NEW S, NEW g, IsFiniteSet(S)
  PROVE  IsFiniteSet(Into(S, g))
<1> DEFINE f == [q \in S |-> [term |-> q.term, graph |-> g]]
<1>1. IsFiniteSet({f[q] : q \in S})
  BY ImageFinite
<1>2. {f[q] : q \in S} = Into(S, g)
  BY DEF Into
<1>3. QED
  BY <1>1, <1>2

LEMMA MintedFinite ==
  ASSUME NEW S, IsFiniteSet(S)
  PROVE  /\ \A n : IsFiniteSet({Minted(n, g) : g \in S})
         /\ \A g : IsFiniteSet({Minted(n, g) : n \in S})
         /\ \A g : IsFiniteSet({[term |-> t, graph |-> g] : t \in S})
<1>1. ASSUME NEW n
      PROVE  IsFiniteSet({Minted(n, g) : g \in S})
  <2> DEFINE f == [g \in S |-> Minted(n, g)]
  <2>1. IsFiniteSet({f[g] : g \in S})
    BY ImageFinite
  <2>2. {f[g] : g \in S} = {Minted(n, g) : g \in S}
    OBVIOUS
  <2>3. QED
    BY <2>1, <2>2
<1>2. ASSUME NEW g
      PROVE  IsFiniteSet({Minted(n, g) : n \in S})
  <2> DEFINE f == [n \in S |-> Minted(n, g)]
  <2>1. IsFiniteSet({f[n] : n \in S})
    BY ImageFinite
  <2>2. {f[n] : n \in S} = {Minted(n, g) : n \in S}
    OBVIOUS
  <2>3. QED
    BY <2>1, <2>2
<1>3. ASSUME NEW g
      PROVE  IsFiniteSet({[term |-> t, graph |-> g] : t \in S})
  <2> DEFINE f == [t \in S |-> [term |-> t, graph |-> g]]
  <2>1. IsFiniteSet({f[t] : t \in S})
    BY ImageFinite
  <2>2. {f[t] : t \in S} = {[term |-> t, graph |-> g] : t \in S}
    OBVIOUS
  <2>3. QED
    BY <2>1, <2>2
<1>4. QED
  BY <1>1, <1>2, <1>3

(* The quads of a data block or a document, its blank node under a label.  *)
LEMMA DataFinite ==
  ASSUME TypeOK, NEW r \in Requests, Busy(r)
  PROVE  IsFiniteSet(Op(r).quads \cup {Minted(nextLabel, g) : g \in Op(r).fresh})
<1>1. Op(r).quads \in SUBSET GroundQuads /\ Op(r).fresh \in SUBSET Graphs
  BY OpType DEF Ops, Records
<1>2. IsFiniteSet(Op(r).quads) /\ IsFiniteSet(Op(r).fresh)
  BY <1>1, StoreAssumption, FS_Subset
<1>3. QED
  BY <1>2, MintedFinite, FS_Union

LEMMA SinkFinite ==
  ASSUME TypeOK, SinksFinite, NEW r \in Requests, NEW adds, NEW dels,
         IsFiniteSet(adds), Sink(r, adds, dels)
  PROVE  SinksFinite'
<1>1. CASE Transactional
  <2>1. /\ store' = store
        /\ patch' = [patch EXCEPT ![r] =
                       [added   |-> (patch[r].added \ dels) \cup adds,
                        deleted |-> (patch[r].deleted \cup dels) \ adds]]
    BY <1>1 DEF Sink
  <2>2. patch[r].added \ dels \in SUBSET patch[r].added
    OBVIOUS
  <2>3. IsFiniteSet((patch[r].added \ dels) \cup adds)
    BY <2>2, FS_Subset, FS_Union DEF SinksFinite
  <2>4. QED
    BY <2>1, <2>3 DEF SinksFinite, TypeOK
<1>2. CASE ~Transactional
  <2>1. store' = (store \ dels) \cup adds /\ patch' = patch
    BY <1>2 DEF Sink
  <2>2. IsFiniteSet((store \ dels) \cup adds)
    BY FS_Subset, FS_Union DEF SinksFinite
  <2>3. QED
    BY <2>1, <2>2 DEF SinksFinite
<1>3. QED
  BY <1>1, <1>2

-----------------------------------------------------------------------------
LEMMA InitTypes == Init => TypeOK
  BY StoreAssumption, ModeAssumption, QuadTypes
     DEF Init, TypeOK, Phases, Fates, Outcomes, EmptyPatch

LEMMA NextTypes == IInv /\ [Next]_vars => TypeOK'
<1> SUFFICES ASSUME TypeOK, StepInRange, FiniteData, [Next]_vars
             PROVE  TypeOK'
  BY DEF IInv
<1> USE DEF locals, control, AddAll, RemoveAll
<1>1. ASSUME NEW r \in Requests, Start(r)
      PROVE  TypeOK'
  BY <1>1 DEF TypeOK, Start, Phases, Fates, Outcomes
<1>2. ASSUME NEW r \in Requests, Refuse(r)
      PROVE  TypeOK'
  BY <1>2 DEF TypeOK, Refuse, Phases, Outcomes
<1>3. ASSUME NEW r \in Requests, Abort(r)
      PROVE  TypeOK'
  BY <1>3 DEF TypeOK, Abort, Outcomes
<1>4. ASSUME NEW r \in Requests, AddData(r)
      PROVE  TypeOK'
  <2>1. Op(r) \in Ops
    BY <1>4, OpType DEF AddData, At
  <2>2. Op(r).quads \cup {Minted(nextLabel, g) : g \in Op(r).fresh} \in SUBSET Quads
    BY <2>1, QuadTypes DEF Ops, Records, TypeOK
  <2>3. Sink(r, Op(r).quads \cup {Minted(nextLabel, g) : g \in Op(r).fresh}, {})
    BY <1>4 DEF AddData
  <2>4. nextLabel' \in Nat /\ Advance(r) /\ UNCHANGED <<control, locals>>
    BY <1>4 DEF AddData, TypeOK
  <2>5. QED
    BY <2>2, <2>3, <2>4, WriteTypes
<1>5. ASSUME NEW r \in Requests, RemoveData(r)
      PROVE  TypeOK'
  <2>1. Op(r) \in Ops
    BY <1>5, OpType DEF RemoveData, At
  <2>2. Op(r).quads \in SUBSET Quads
    BY <2>1, QuadTypes DEF Ops, Records
  <2>3. Sink(r, {}, Op(r).quads)
    BY <1>5 DEF RemoveData
  <2>4. nextLabel' \in Nat /\ Advance(r) /\ UNCHANGED <<control, locals>>
    BY <1>5 DEF RemoveData, TypeOK
  <2>5. QED
    BY <2>2, <2>3, <2>4, WriteTypes
<1>6. ASSUME NEW r \in Requests, FetchSource(r)
      PROVE  TypeOK'
  BY <1>6, AdvanceTypes DEF FetchSource, InGraphs, TypeOK
<1>7. ASSUME NEW r \in Requests, FetchTarget(r)
      PROVE  TypeOK'
  BY <1>7, AdvanceTypes DEF FetchTarget, InGraphs, TypeOK
<1>8. ASSUME NEW r \in Requests, RemoveTarget(r)
      PROVE  TypeOK'
  <2>1. target[r] \in SUBSET Quads
    BY DEF TypeOK
  <2>2. Sink(r, {}, target[r])
    BY <1>8 DEF RemoveTarget
  <2>3. nextLabel' \in Nat /\ Advance(r) /\ UNCHANGED <<control, locals>>
    BY <1>8 DEF RemoveTarget, TypeOK
  <2>4. QED
    BY <2>1, <2>2, <2>3, WriteTypes
<1>9. ASSUME NEW r \in Requests, AddSource(r)
      PROVE  TypeOK'
  <2>1. Op(r).to \in Graphs
    BY <1>9, StepTellsKind DEF AddSource, At
  <2>2. source[r] \in SUBSET Quads
    BY DEF TypeOK
  <2>3. Into(source[r], Op(r).to) \in SUBSET Quads
    BY <2>1, <2>2, IntoTypes
  <2>4. Sink(r, Into(source[r], Op(r).to), {})
    BY <1>9 DEF AddSource
  <2>5. nextLabel' \in Nat /\ Advance(r) /\ UNCHANGED <<control, locals>>
    BY <1>9 DEF AddSource, TypeOK
  <2>6. QED
    BY <2>3, <2>4, <2>5, WriteTypes
<1>10. ASSUME NEW r \in Requests, AddSourceRefetch(r)
       PROVE  TypeOK'
  <2>1. Op(r).to \in Graphs
    BY <1>10, StepTellsKind DEF AddSourceRefetch, At
  <2>2. source[r] \in SUBSET Quads
    BY DEF TypeOK
  <2>3. Into(source[r], Op(r).to) \in SUBSET Quads
    BY <2>1, <2>2, IntoTypes
  <2>4. SinksTyped'
    <3>1. Sink(r, Into(source[r], Op(r).to), {})
      BY <1>10 DEF AddSourceRefetch
    <3>2. QED
      BY <1>10, <2>3, <3>1, SinkTypes
  <2>5. target' \in [Requests -> SUBSET Quads]
    BY <1>10, <2>4 DEF AddSourceRefetch, TypeOK, SinksTyped
  <2>6. QED
    BY <1>10, <2>4, <2>5, AdvanceTypes DEF AddSourceRefetch, TypeOK, SinksTyped
<1>11. ASSUME NEW r \in Requests, Where(r)
       PROVE  TypeOK'
  <2>1. InGraphs(Op(r).from) \in SUBSET Quads
    BY DEF InGraphs, TypeOK
  <2>2. QED
    BY <1>11, <2>1, AdvanceTypes DEF Where, TypeOK
<1>12. ASSUME NEW r \in Requests, ScanTemplate(r)
       PROVE  TypeOK'
  BY <1>12, AdvanceTypes DEF ScanTemplate, InGraphs, TypeOK
<1>13. ASSUME NEW r \in Requests, RemoveMatched(r)
       PROVE  TypeOK'
  <2>1. {q \in target[r] : q.term \in BoundTerms(rows[r])} \in SUBSET Quads
    BY DEF TypeOK
  <2>2. Sink(r, {}, {q \in target[r] : q.term \in BoundTerms(rows[r])})
    BY <1>13 DEF RemoveMatched
  <2>3. nextLabel' \in Nat /\ Advance(r) /\ UNCHANGED <<control, locals>>
    BY <1>13 DEF RemoveMatched, TypeOK
  <2>4. QED
    BY <2>1, <2>2, <2>3, WriteTypes
<1>14. ASSUME NEW r \in Requests, Instantiate(r)
       PROVE  TypeOK'
  <2> DEFINE count == IF Op(r).fresh = {} THEN 0 ELSE Cardinality(rows[r])
             labels == {n \in nextLabel .. nextLabel + count : n < nextLabel + count}
             added == {[term |-> t, graph |-> Op(r).to] : t \in BoundTerms(rows[r])}
                        \cup {Minted(n, Op(r).to) : n \in labels}
  <2>1. CASE Op(r).to \in Graphs
    <3>1. count \in Nat /\ labels \subseteq Nat
      BY FS_CardinalityType DEF TypeOK, FiniteData
    <3>2. added \in SUBSET Quads
      <4>1. BoundTerms(rows[r]) \subseteq Terms
        BY QuadTypes DEF TypeOK, BoundTerms
      <4>2. QED
        BY <2>1, <3>1, <4>1, QuadTypes
    <3>3. Sink(r, added, {}) /\ nextLabel' = nextLabel + count
      BY <1>14, <2>1 DEF Instantiate
    <3>4. nextLabel' \in Nat
      BY <3>1, <3>3 DEF TypeOK
    <3>5. Advance(r) /\ UNCHANGED <<control, locals>>
      BY <1>14 DEF Instantiate
    <3> HIDE DEF count, labels, added
    <3>6. QED
      BY <1>14, <3>2, <3>3, <3>4, <3>5, WriteTypes
  <2>2. CASE Op(r).to \notin Graphs
    <3>1. Sink(r, {}, {}) /\ UNCHANGED nextLabel
      BY <1>14, <2>2 DEF Instantiate
    <3>2. nextLabel' \in Nat /\ Advance(r) /\ UNCHANGED <<control, locals>>
      BY <1>14, <3>1 DEF Instantiate, TypeOK
    <3>3. QED
      BY <3>1, <3>2, WriteTypes
  <2>3. QED
    BY <2>1, <2>2
<1>15. ASSUME NEW r \in Requests,
              \/ InstantiateFails(r) \/ UnsupportedFails(r) \/ UnresolvedFails(r)
              \/ StopAtCheckpoint(r) \/ CommitFails(r) \/ ReadFails(r)
       PROVE  TypeOK'
  BY <1>15, FailTypes
     DEF InstantiateFails, UnsupportedFails, UnresolvedFails,
         StopAtCheckpoint, CommitFails, ReadFails
<1>16. ASSUME NEW r \in Requests, Skip(r) \/ SendRequest(r)
       PROVE  TypeOK'
  BY <1>16, AdvanceTypes DEF Skip, SendRequest, TypeOK
<1>17. ASSUME NEW r \in Requests, DocumentArrives(r)
       PROVE  TypeOK'
  <2> DEFINE doc == Op(r).quads \cup {Minted(nextLabel, g) : g \in Op(r).fresh}
             added == IF Op(r).to = None THEN doc ELSE Into(doc, Op(r).to)
  <2>1. Op(r) \in Ops
    BY <1>17, OpType DEF DocumentArrives, At
  <2>2. doc \in SUBSET Quads
    BY <2>1, QuadTypes DEF Ops, Records, TypeOK
  <2>3. Op(r).to = None \/ Op(r).to \in Graphs
    BY <1>17, <2>1, StepTellsKind DEF DocumentArrives, At
  <2>4. added \in SUBSET Quads
    BY <2>2, <2>3, IntoTypes
  <2>5. Sink(r, added, {})
    BY <1>17 DEF DocumentArrives
  <2>6. nextLabel' \in Nat /\ Advance(r) /\ UNCHANGED <<control, locals>>
    BY <1>17 DEF DocumentArrives, TypeOK
  <2>7. QED
    BY <2>4, <2>5, <2>6, WriteTypes
<1>18. ASSUME NEW r \in Requests, DocumentFails(r)
       PROVE  TypeOK'
  <2>1. CASE Op(r).silent
    BY <1>18, <2>1, AdvanceTypes DEF DocumentFails, TypeOK
  <2>2. CASE ~Op(r).silent
    BY <1>18, <2>2, FailTypes DEF DocumentFails
  <2>3. QED
    BY <2>1, <2>2
<1>19. ASSUME NEW r \in Requests, CallCommit(r)
       PROVE  TypeOK'
  BY <1>19 DEF TypeOK, CallCommit, Phases
<1>20. ASSUME NEW r \in Requests, CommitApplies(r)
       PROVE  TypeOK'
  <2>1. Committed(r) \subseteq Quads
    BY DEF Committed, TypeOK
  <2>2. QED
    BY <1>20, <2>1 DEF TypeOK, CommitApplies, Fates
<1>21. ASSUME NEW r \in Requests, Return(r)
       PROVE  TypeOK'
  BY <1>21 DEF TypeOK, Return, Settle, Phases, Outcomes
<1>22. ASSUME Restart
       PROVE  TypeOK'
  BY <1>22, ModeAssumption DEF TypeOK, Restart, Phases, Fates, Outcomes
<1>23. CASE UNCHANGED vars
  BY <1>23 DEF TypeOK, vars
<1>24. QED
  BY <1>1, <1>2, <1>3, <1>4, <1>5, <1>6, <1>7, <1>8, <1>9, <1>10, <1>11, <1>12, <1>13,
     <1>14, <1>15, <1>16, <1>17, <1>18, <1>19, <1>20, <1>21, <1>22, <1>23
     DEF Next, Apply, Host

-----------------------------------------------------------------------------
LEMMA InitIInv == Init => IInv
<1> SUFFICES ASSUME Init
             PROVE  IInv
  OBVIOUS
<1>1. TypeOK
  BY InitTypes
<1>2. ASSUME NEW r \in Requests, at[r] <= Len(script[r])
      PROVE  step[r] \in DOMAIN Steps(Op(r))
  <2>1. at[r] = 1 /\ step[r] = 1 /\ script[r] \in Seq(Ops)
    BY ScriptAssumption DEF Init
  <2>2. Op(r) \in Ops
    BY <1>2, <2>1 DEF Op
  <2>3. QED
    BY <2>1, <2>2, StepsType
<1>3. FiniteData
  <2>1. IsFiniteSet(store)
    BY StoreAssumption, FS_Subset DEF Init
  <2>2. QED
    BY <2>1, FS_EmptySet DEF Init, FiniteData, SinksFinite, EmptyPatch
<1>4. QED
  BY <1>1, <1>2, <1>3 DEF IInv, StepInRange

LEMMA AdvanceRange ==
  ASSUME TypeOK, StepInRange, NEW r \in Requests, Busy(r), Advance(r),
         UNCHANGED script
  PROVE  StepInRange'
<1> SUFFICES ASSUME NEW s \in Requests, at'[s] <= Len(script[s])
             PROVE  step'[s] \in DOMAIN Steps(script[s][at'[s]])
  BY DEF StepInRange, Op
<1>1. /\ at \in [Requests -> Nat \ {0}]
      /\ step \in [Requests -> Nat \ {0}]
      /\ \A q \in Requests : script[q] \in Seq(Ops)
  BY ScriptAssumption DEF TypeOK
<1>2. CASE step[r] < Len(Steps(Op(r)))
  <2>1. step' = [step EXCEPT ![r] = step[r] + 1] /\ at' = at
    BY <1>2, Zenon DEF Advance
  <2>2. CASE s = r
    <3>1. Steps(Op(r)) \in Seq(StepNames)
      BY OpType, StepsType
    <3>2. step'[r] = step[r] + 1
      BY <1>1, <2>1
    <3>3. step[r] + 1 \in 1 .. Len(Steps(Op(r)))
      BY <1>1, <1>2, <3>1
    <3>4. step'[r] \in DOMAIN Steps(Op(r))
      BY <3>1, <3>2, <3>3
    <3>5. QED
      BY <2>1, <2>2, <3>4 DEF Op
  <2>3. CASE s # r
    <3>1. step'[s] = step[s] /\ at'[s] = at[s]
      BY <1>1, <2>1, <2>3
    <3>2. QED
      BY <3>1 DEF StepInRange, Op
  <2>4. QED
    BY <2>2, <2>3
<1>3. CASE ~(step[r] < Len(Steps(Op(r))))
  <2>1. step' = [step EXCEPT ![r] = 1] /\ at' = [at EXCEPT ![r] = at[r] + 1]
    BY <1>3, Zenon DEF Advance, NextOp
  <2>2. CASE s = r
    <3>1. step'[r] = 1 /\ at'[r] \in 1 .. Len(script[r])
      BY <1>1, <2>1, <2>2
    <3>2. script[r][at'[r]] \in Ops
      BY <1>1, <3>1
    <3>3. 1 \in DOMAIN Steps(script[r][at'[r]])
      BY <3>2, StepsType
    <3>4. QED
      BY <2>2, <3>1, <3>3
  <2>3. CASE s # r
    <3>1. step'[s] = step[s] /\ at'[s] = at[s]
      BY <1>1, <2>1, <2>3
    <3>2. QED
      BY <3>1 DEF StepInRange, Op
  <2>4. QED
    BY <2>2, <2>3
<1>4. QED
  BY <1>2, <1>3

LEMMA NextRange == IInv /\ [Next]_vars => StepInRange'
<1> SUFFICES ASSUME TypeOK, StepInRange, [Next]_vars
             PROVE  StepInRange'
  BY DEF IInv
<1>1. CASE UNCHANGED <<script, at, step>>
  BY <1>1 DEF StepInRange, Op
<1>2. ASSUME NEW r \in Requests, Busy(r), Advance(r), UNCHANGED script
      PROVE  StepInRange'
  BY <1>2, AdvanceRange
<1>3. ASSUME NEW r \in Requests,
             \/ AddData(r) \/ RemoveData(r) \/ FetchSource(r) \/ FetchTarget(r)
             \/ RemoveTarget(r) \/ AddSource(r) \/ AddSourceRefetch(r)
      PROVE  StepInRange'
  BY <1>2, <1>3
     DEF AddData, RemoveData, FetchSource, FetchTarget, RemoveTarget, AddSource,
         AddSourceRefetch, At, control
<1>4. ASSUME NEW r \in Requests,
             \/ Where(r) \/ ScanTemplate(r) \/ RemoveMatched(r) \/ Instantiate(r)
             \/ Skip(r) \/ SendRequest(r) \/ DocumentArrives(r)
      PROVE  StepInRange'
  BY <1>2, <1>4
     DEF Where, ScanTemplate, RemoveMatched, Instantiate, Skip, SendRequest,
         DocumentArrives, At, control
<1>5. ASSUME NEW r \in Requests, DocumentFails(r)
      PROVE  StepInRange'
  BY <1>1, <1>2, <1>5 DEF DocumentFails, At, control, Fail
<1>6. ASSUME NEW r \in Requests,
             \/ InstantiateFails(r) \/ UnsupportedFails(r) \/ UnresolvedFails(r)
             \/ StopAtCheckpoint(r) \/ CommitFails(r) \/ ReadFails(r)
      PROVE  StepInRange'
  BY <1>1, <1>6
     DEF InstantiateFails, UnsupportedFails, UnresolvedFails,
         StopAtCheckpoint, CommitFails, ReadFails, Fail
<1>7. ASSUME NEW r \in Requests,
             \/ Start(r) \/ Refuse(r) \/ Abort(r) \/ CallCommit(r) \/ CommitApplies(r)
             \/ Return(r)
      PROVE  StepInRange'
  BY <1>1, <1>7 DEF Start, Refuse, Abort, CallCommit, CommitApplies, Return
<1>8. CASE Restart \/ UNCHANGED vars
  BY <1>1, <1>8 DEF Restart, vars
<1>9. QED
  BY <1>3, <1>4, <1>5, <1>6, <1>7, <1>8 DEF Next, Apply, Host

LEMMA NextFinite == IInv /\ [Next]_vars => FiniteData'
<1> SUFFICES ASSUME TypeOK, StepInRange, FiniteData, [Next]_vars
             PROVE  FiniteData'
  BY DEF IInv
<1> USE DEF control, locals, AddAll, RemoveAll
<1>1. CASE UNCHANGED <<store, patch, source, rows>>
  BY <1>1 DEF FiniteData, SinksFinite
<1>2. ASSUME NEW r \in Requests, NEW adds, NEW dels, IsFiniteSet(adds),
             Sink(r, adds, dels), UNCHANGED <<source, rows>>
      PROVE  FiniteData'
  <2>1. SinksFinite'
    BY <1>2, SinkFinite DEF FiniteData
  <2>2. QED
    BY <1>2, <2>1 DEF FiniteData
<1>3. ASSUME NEW r \in Requests, AddData(r)
      PROVE  FiniteData'
  <2>1. IsFiniteSet(Op(r).quads \cup {Minted(nextLabel, g) : g \in Op(r).fresh})
    BY <1>3, DataFinite DEF AddData, At
  <2>2. Sink(r, Op(r).quads \cup {Minted(nextLabel, g) : g \in Op(r).fresh}, {})
        /\ UNCHANGED <<source, rows>>
    BY <1>3 DEF AddData
  <2>3. QED
    BY <1>2, <2>1, <2>2
<1>4. ASSUME NEW r \in Requests, RemoveData(r) \/ RemoveTarget(r) \/ RemoveMatched(r)
      PROVE  FiniteData'
  <2>1. PICK dels : Sink(r, {}, dels) /\ UNCHANGED <<source, rows>>
    BY <1>4 DEF RemoveData, RemoveTarget, RemoveMatched
  <2>2. QED
    BY <1>2, <2>1, FS_EmptySet
<1>5. ASSUME NEW r \in Requests, FetchSource(r)
      PROVE  FiniteData'
  <2>1. InGraphs(Op(r).from) \in SUBSET store
    BY DEF InGraphs
  <2>2. IsFiniteSet(InGraphs(Op(r).from))
    BY <2>1, FS_Subset DEF FiniteData, SinksFinite
  <2>3. source' = [source EXCEPT ![r] = InGraphs(Op(r).from)]
        /\ UNCHANGED <<store, patch, rows>>
    BY <1>5 DEF FetchSource
  <2>4. QED
    BY <2>2, <2>3 DEF FiniteData, SinksFinite, TypeOK
<1>6. ASSUME NEW r \in Requests, AddSource(r) \/ AddSourceRefetch(r)
      PROVE  FiniteData'
  <2>1. IsFiniteSet(Into(source[r], Op(r).to))
    BY IntoFinite DEF FiniteData
  <2>2. Sink(r, Into(source[r], Op(r).to), {}) /\ UNCHANGED <<source, rows>>
    BY <1>6 DEF AddSource, AddSourceRefetch
  <2>3. QED
    BY <1>2, <2>1, <2>2
<1>7. ASSUME NEW r \in Requests, Where(r)
      PROVE  FiniteData'
  <2>1. InGraphs(Op(r).from) \in SUBSET store
    BY DEF InGraphs
  <2>2. IsFiniteSet(InGraphs(Op(r).from))
    BY <2>1, FS_Subset DEF FiniteData, SinksFinite
  <2>3. rows' = [rows EXCEPT ![r] = InGraphs(Op(r).from)]
        /\ UNCHANGED <<store, patch, source>>
    BY <1>7 DEF Where
  <2>4. QED
    BY <2>2, <2>3 DEF FiniteData, SinksFinite, TypeOK
<1>8. ASSUME NEW r \in Requests, Instantiate(r)
      PROVE  FiniteData'
  <2> DEFINE count == IF Op(r).fresh = {} THEN 0 ELSE Cardinality(rows[r])
             labels == {n \in nextLabel .. nextLabel + count : n < nextLabel + count}
             added == {[term |-> t, graph |-> Op(r).to] : t \in BoundTerms(rows[r])}
                        \cup {Minted(n, Op(r).to) : n \in labels}
  <2>1. CASE Op(r).to \in Graphs
    <3>1. count \in Nat
      BY FS_CardinalityType DEF FiniteData
    <3>2. IsFiniteSet(nextLabel .. nextLabel + count)
      <4>1. nextLabel \in Int /\ nextLabel + count \in Int
        BY <3>1 DEF TypeOK
      <4> HIDE DEF count
      <4>2. QED
        BY <4>1, FS_Interval
    <3>3. IsFiniteSet(labels)
      BY <3>2, FS_Subset
    <3>4. IsFiniteSet(BoundTerms(rows[r]))
      BY TermsFinite DEF FiniteData, BoundTerms
    <3>5. IsFiniteSet({[term |-> t, graph |-> Op(r).to] : t \in BoundTerms(rows[r])})
      BY <3>4, MintedFinite
    <3>6. IsFiniteSet({Minted(n, Op(r).to) : n \in labels})
      BY <3>3, MintedFinite
    <3>7. IsFiniteSet(added)
      BY <3>5, <3>6, FS_Union
    <3>8. Sink(r, added, {}) /\ UNCHANGED <<source, rows>>
      BY <1>8, <2>1 DEF Instantiate
    <3> HIDE DEF count, labels, added
    <3>9. QED
      BY <1>2, <1>8, <3>7, <3>8
  <2>2. CASE Op(r).to \notin Graphs
    BY <1>2, <1>8, <2>2, FS_EmptySet DEF Instantiate
  <2>3. QED
    BY <2>1, <2>2
<1>9. ASSUME NEW r \in Requests, DocumentArrives(r)
      PROVE  FiniteData'
  <2> DEFINE doc == Op(r).quads \cup {Minted(nextLabel, g) : g \in Op(r).fresh}
             added == IF Op(r).to = None THEN doc ELSE Into(doc, Op(r).to)
  <2>1. IsFiniteSet(doc)
    BY <1>9, DataFinite DEF DocumentArrives, At
  <2>2. IsFiniteSet(added)
    BY <2>1, IntoFinite
  <2>3. Sink(r, added, {}) /\ UNCHANGED <<source, rows>>
    BY <1>9 DEF DocumentArrives
  <2> HIDE DEF added
  <2>4. QED
    BY <1>2, <1>9, <2>2, <2>3
<1>10. ASSUME NEW r \in Requests, CommitApplies(r)
       PROVE  FiniteData'
  <2>1. store \ patch[r].deleted \in SUBSET store
    OBVIOUS
  <2>2. IsFiniteSet(Committed(r))
    BY <1>10, <2>1, FS_Subset, FS_Union DEF Committed, FiniteData, SinksFinite
  <2>3. store' = Committed(r) /\ UNCHANGED <<patch, source, rows>>
    BY <1>10 DEF CommitApplies
  <2>4. QED
    BY <2>2, <2>3 DEF FiniteData, SinksFinite
<1>11. ASSUME NEW r \in Requests,
              \/ FetchTarget(r) \/ ScanTemplate(r) \/ Skip(r) \/ SendRequest(r)
              \/ DocumentFails(r)
       PROVE  FiniteData'
  BY <1>1, <1>11 DEF FetchTarget, ScanTemplate, Skip, SendRequest, DocumentFails, Fail
<1>12. ASSUME NEW r \in Requests,
              \/ InstantiateFails(r) \/ UnsupportedFails(r) \/ UnresolvedFails(r)
              \/ StopAtCheckpoint(r) \/ CommitFails(r) \/ ReadFails(r)
       PROVE  FiniteData'
  BY <1>1, <1>12
     DEF InstantiateFails, UnsupportedFails, UnresolvedFails,
         StopAtCheckpoint, CommitFails, ReadFails, Fail
<1>13. ASSUME NEW r \in Requests,
              \/ Start(r) \/ Refuse(r) \/ Abort(r) \/ CallCommit(r) \/ Return(r)
       PROVE  FiniteData'
  BY <1>1, <1>13 DEF Start, Refuse, Abort, CallCommit, Return
<1>14. CASE Restart \/ UNCHANGED vars
  BY <1>1, <1>14 DEF Restart, vars
<1>15. QED
  BY <1>3, <1>4, <1>5, <1>6, <1>7, <1>8, <1>9, <1>10, <1>11, <1>12, <1>13, <1>14
     DEF Next, Apply, Host

LEMMA IInvHolds == Spec => []IInv
<1>1. IInv /\ [Next]_vars => IInv'
  BY NextTypes, NextRange, NextFinite DEF IInv
<1>2. QED
  BY InitIInv, <1>1, PTL DEF Spec

(* Whatever the requests, the data and their interleaving, the variables   *)
(* keep their ranges: a request's step stays inside its operation          *)
(* (applyOperation), and every quad written is a quad of some graph.       *)
THEOREM TypesHold == Spec => []TypeOK
<1>1. IInv => TypeOK
  BY DEF IInv
<1>2. QED
  BY <1>1, IInvHolds, PTL

-----------------------------------------------------------------------------
(* Transactions end exactly once.                                          *)

TxVars == <<writer, phase, tx, client>>

(* A failing request still has its transaction open, so it was not yet     *)
(* reported as successful.                                                 *)
LEMMA FailOutcome ==
  ASSUME TypeOK, TransactionOutcome, NEW r \in Requests, Fail(r),
         phase[r] = "run" \/ tx[r] = "open"
  PROVE  TransactionOutcome'
  BY DEF TypeOK, TransactionOutcome, Transactional, Fail, Settle

LEMMA NextOutcome == TypeOK /\ TransactionOutcome /\ [Next]_vars => TransactionOutcome'
<1> SUFFICES ASSUME TypeOK, TransactionOutcome, [Next]_vars
             PROVE  TransactionOutcome'
  OBVIOUS
<1>1. CASE UNCHANGED TxVars
  BY <1>1 DEF TransactionOutcome, Transactional, TxVars
<1>2. ASSUME NEW r \in Requests, Start(r)
      PROVE  TransactionOutcome'
  BY <1>2 DEF TypeOK, TransactionOutcome, Transactional, Start
<1>3. ASSUME NEW r \in Requests, Refuse(r)
      PROVE  TransactionOutcome'
  BY <1>3 DEF TypeOK, TransactionOutcome, Transactional, Refuse
<1>4. ASSUME NEW r \in Requests, Abort(r)
      PROVE  TransactionOutcome'
  BY <1>4 DEF TypeOK, TransactionOutcome, Transactional, Abort
<1>5. ASSUME NEW r \in Requests,
             \/ InstantiateFails(r) \/ UnsupportedFails(r) \/ UnresolvedFails(r)
             \/ StopAtCheckpoint(r) \/ CommitFails(r) \/ ReadFails(r)
      PROVE  TransactionOutcome'
  BY <1>5, FailOutcome
     DEF InstantiateFails, UnsupportedFails, UnresolvedFails,
         StopAtCheckpoint, CommitFails, ReadFails, At, Busy
<1>6. ASSUME NEW r \in Requests, DocumentFails(r)
      PROVE  TransactionOutcome'
  BY <1>1, <1>6, FailOutcome DEF DocumentFails, At, Busy, control, TxVars
<1>7. ASSUME NEW r \in Requests, CallCommit(r)
      PROVE  TransactionOutcome'
  BY <1>7 DEF TypeOK, TransactionOutcome, Transactional, CallCommit
<1>8. ASSUME NEW r \in Requests, CommitApplies(r)
      PROVE  TransactionOutcome'
  BY <1>8 DEF TypeOK, TransactionOutcome, Transactional, CommitApplies
<1>9. ASSUME NEW r \in Requests, Return(r)
      PROVE  TransactionOutcome'
  BY <1>9 DEF TypeOK, TransactionOutcome, Transactional, Return, Settle
<1>10. ASSUME Restart
       PROVE  TransactionOutcome'
  BY <1>10 DEF TypeOK, TransactionOutcome, Transactional, Restart
<1>11. ASSUME NEW r \in Requests,
              \/ AddData(r) \/ RemoveData(r) \/ FetchSource(r) \/ FetchTarget(r)
              \/ RemoveTarget(r) \/ AddSource(r) \/ AddSourceRefetch(r)
       PROVE  TransactionOutcome'
  BY <1>1, <1>11
     DEF AddData, RemoveData, FetchSource, FetchTarget, RemoveTarget, AddSource,
         AddSourceRefetch, control, TxVars
<1>12. ASSUME NEW r \in Requests,
              \/ Where(r) \/ ScanTemplate(r) \/ RemoveMatched(r) \/ Instantiate(r)
              \/ Skip(r) \/ SendRequest(r) \/ DocumentArrives(r)
       PROVE  TransactionOutcome'
  BY <1>1, <1>12
     DEF Where, ScanTemplate, RemoveMatched, Instantiate, Skip, SendRequest,
         DocumentArrives, control, TxVars
<1>13. CASE UNCHANGED vars
  BY <1>1, <1>13 DEF vars, TxVars
<1>14. QED
  BY <1>2, <1>3, <1>4, <1>5, <1>6, <1>7, <1>8, <1>9, <1>10, <1>11, <1>12, <1>13
     DEF Next, Apply, Host

(* The transaction of an update request is ended exactly once, by commit   *)
(* or by rollback, when executeUpdate is done, wherever an error, an abort *)
(* or a restart strikes; success is reported only after a commit.          *)
THEOREM TransactionsEndOnce == Spec => []TransactionOutcome
<1>1. Init => TransactionOutcome
  BY DEF Init, TransactionOutcome
<1>2. QED
  BY <1>1, TypesHold, NextOutcome, PTL DEF Spec

-----------------------------------------------------------------------------
(* Minted labels are fresh.  A label can also hide in what a request has   *)
(* fetched and will write later, so the invariant covers that too.         *)

QuadsBelow(quads, n) == \A q \in quads : q.term.minted => q.term.value \in Nat /\ q.term.value < n

LabelInv ==
  restarts = 0 =>
    /\ QuadsBelow(store, nextLabel)
    /\ \A r \in Requests : /\ QuadsBelow(patch[r].added, nextLabel)
                           /\ QuadsBelow(source[r], nextLabel)
                           /\ QuadsBelow(rows[r], nextLabel)

LEMMA BelowGrows ==
  ASSUME NEW m \in Nat, NEW n \in Nat, m <= n
  PROVE  \A quads : QuadsBelow(quads, m) => QuadsBelow(quads, n)
  BY DEF QuadsBelow

LEMMA IntoBelow ==
  ASSUME NEW quads, NEW g, NEW n, QuadsBelow(quads, n)
  PROVE  QuadsBelow(Into(quads, g), n)
  BY DEF QuadsBelow, Into

(* A data block's quads are ground, and its blank node's label is used up. *)
LEMMA DataBelow ==
  ASSUME TypeOK, NEW r \in Requests, Busy(r),
         nextLabel' = IF Op(r).fresh = {} THEN nextLabel ELSE nextLabel + 1
  PROVE  /\ QuadsBelow(Op(r).quads \cup {Minted(nextLabel, g) : g \in Op(r).fresh}, nextLabel')
         /\ nextLabel' \in Nat /\ nextLabel <= nextLabel'
<1>1. \A q \in Op(r).quads : ~q.term.minted
  BY OpType DEF Ops, Records, GroundQuads, GroundTerms
<1>2. nextLabel \in Nat
  BY DEF TypeOK
<1>3. \A q \in {Minted(nextLabel, g) : g \in Op(r).fresh} : q.term.value = nextLabel
  BY DEF Minted
<1>4. Op(r).fresh # {} => nextLabel' = nextLabel + 1
  OBVIOUS
<1>5. QuadsBelow({Minted(nextLabel, g) : g \in Op(r).fresh}, nextLabel')
  BY <1>2, <1>3, <1>4 DEF QuadsBelow
<1>6. QED
  BY <1>1, <1>2, <1>5 DEF QuadsBelow

LEMMA WriteBelow ==
  ASSUME TypeOK, LabelInv, NEW r \in Requests, NEW adds, NEW dels, Sink(r, adds, dels),
         restarts = 0 => QuadsBelow(adds, nextLabel'),
         nextLabel' \in Nat, nextLabel <= nextLabel', UNCHANGED <<restarts, source, rows>>
  PROVE  LabelInv'
<1> SUFFICES ASSUME restarts = 0
             PROVE  LabelInv'
  BY DEF LabelInv
<1>1. /\ QuadsBelow(store, nextLabel')
      /\ \A s \in Requests : /\ QuadsBelow(patch[s].added, nextLabel')
                             /\ QuadsBelow(source[s], nextLabel')
                             /\ QuadsBelow(rows[s], nextLabel')
  <2>1. nextLabel \in Nat
    BY DEF TypeOK
  <2>2. QED
    BY <2>1, BelowGrows DEF LabelInv
<1>2. CASE Transactional
  <2>1. /\ store' = store
        /\ patch' = [patch EXCEPT ![r] =
                       [added   |-> (patch[r].added \ dels) \cup adds,
                        deleted |-> (patch[r].deleted \cup dels) \ adds]]
    BY <1>2 DEF Sink
  <2>2. QuadsBelow((patch[r].added \ dels) \cup adds, nextLabel')
    BY <1>1 DEF QuadsBelow
  <2>3. \A s \in Requests : QuadsBelow(patch'[s].added, nextLabel')
    BY <1>1, <2>1, <2>2 DEF TypeOK
  <2>4. QED
    BY <1>1, <2>1, <2>3 DEF LabelInv
<1>3. CASE ~Transactional
  <2>1. store' = (store \ dels) \cup adds /\ patch' = patch
    BY <1>3 DEF Sink
  <2>2. QuadsBelow(store', nextLabel')
    BY <1>1, <2>1 DEF QuadsBelow
  <2>3. QED
    BY <1>1, <2>1, <2>2 DEF LabelInv
<1>4. QED
  BY <1>2, <1>3

LEMMA InitLabels == Init => LabelInv
<1> SUFFICES ASSUME Init
             PROVE  LabelInv
  OBVIOUS
<1>1. \A q \in store : ~q.term.minted
  BY StoreAssumption DEF Init, GroundQuads, GroundTerms
<1>2. QED
  BY <1>1 DEF Init, LabelInv, QuadsBelow, EmptyPatch

LEMMA NextLabels == IInv /\ LabelInv /\ [Next]_vars => LabelInv'
<1> SUFFICES ASSUME TypeOK, StepInRange, FiniteData, LabelInv, [Next]_vars
             PROVE  LabelInv'
  BY DEF IInv
<1> USE DEF control, locals, AddAll, RemoveAll
<1>1. CASE UNCHANGED <<restarts, store, patch, source, rows, nextLabel>>
  BY <1>1 DEF LabelInv
<1>2. ASSUME NEW r \in Requests, NEW adds, NEW dels, Sink(r, adds, dels),
             restarts = 0 => QuadsBelow(adds, nextLabel),
             UNCHANGED <<restarts, source, rows, nextLabel>>
      PROVE  LabelInv'
  <2>1. nextLabel' \in Nat /\ nextLabel <= nextLabel'
    BY <1>2 DEF TypeOK
  <2>2. QED
    BY <1>2, <2>1, WriteBelow
<1>3. ASSUME NEW r \in Requests, AddData(r)
      PROVE  LabelInv'
  <2> DEFINE doc == Op(r).quads \cup {Minted(nextLabel, g) : g \in Op(r).fresh}
  <2>1. Busy(r) /\ nextLabel' = IF Op(r).fresh = {} THEN nextLabel ELSE nextLabel + 1
    BY <1>3 DEF AddData, At
  <2>2. QuadsBelow(doc, nextLabel') /\ nextLabel' \in Nat /\ nextLabel <= nextLabel'
    BY <1>3, <2>1, DataBelow
  <2>3. Sink(r, doc, {}) /\ UNCHANGED <<restarts, source, rows>>
    BY <1>3 DEF AddData
  <2> HIDE DEF doc
  <2>4. QED
    BY <1>3, <2>2, <2>3, WriteBelow
<1>4. ASSUME NEW r \in Requests, RemoveData(r) \/ RemoveTarget(r) \/ RemoveMatched(r)
      PROVE  LabelInv'
  <2>1. PICK dels : Sink(r, {}, dels) /\ UNCHANGED <<restarts, source, rows, nextLabel>>
    BY <1>4 DEF RemoveData, RemoveTarget, RemoveMatched
  <2>2. QuadsBelow({}, nextLabel)
    BY DEF QuadsBelow
  <2>3. QED
    BY <1>2, <1>4, <2>1, <2>2
<1>5. ASSUME NEW r \in Requests, FetchSource(r)
      PROVE  LabelInv'
  <2>1. source' = [source EXCEPT ![r] = InGraphs(Op(r).from)]
        /\ UNCHANGED <<restarts, store, patch, rows, nextLabel>>
    BY <1>5 DEF FetchSource
  <2>2. restarts = 0 => QuadsBelow(InGraphs(Op(r).from), nextLabel)
    BY DEF LabelInv, QuadsBelow, InGraphs
  <2>3. restarts = 0 => \A s \in Requests : QuadsBelow(source'[s], nextLabel)
    BY <2>1, <2>2 DEF LabelInv, TypeOK
  <2>4. QED
    BY <2>1, <2>3 DEF LabelInv
<1>6. ASSUME NEW r \in Requests, AddSource(r) \/ AddSourceRefetch(r)
      PROVE  LabelInv'
  <2>1. restarts = 0 => QuadsBelow(Into(source[r], Op(r).to), nextLabel)
    BY <1>6, IntoBelow DEF LabelInv
  <2>2. Sink(r, Into(source[r], Op(r).to), {})
        /\ UNCHANGED <<restarts, source, rows, nextLabel>>
    BY <1>6 DEF AddSource, AddSourceRefetch
  <2>3. QED
    BY <1>2, <1>6, <2>1, <2>2
<1>7. ASSUME NEW r \in Requests, Where(r)
      PROVE  LabelInv'
  <2>1. rows' = [rows EXCEPT ![r] = InGraphs(Op(r).from)]
        /\ UNCHANGED <<restarts, store, patch, source, nextLabel>>
    BY <1>7 DEF Where
  <2>2. restarts = 0 => QuadsBelow(InGraphs(Op(r).from), nextLabel)
    BY DEF LabelInv, QuadsBelow, InGraphs
  <2>3. restarts = 0 => \A s \in Requests : QuadsBelow(rows'[s], nextLabel)
    BY <2>1, <2>2 DEF LabelInv, TypeOK
  <2>4. QED
    BY <2>1, <2>3 DEF LabelInv
<1>8. ASSUME NEW r \in Requests, Instantiate(r)
      PROVE  LabelInv'
  <2> DEFINE count == IF Op(r).fresh = {} THEN 0 ELSE Cardinality(rows[r])
             labels == {n \in nextLabel .. nextLabel + count : n < nextLabel + count}
             bound == {[term |-> t, graph |-> Op(r).to] : t \in BoundTerms(rows[r])}
             minted == {Minted(n, Op(r).to) : n \in labels}
  <2>1. CASE Op(r).to \in Graphs
    <3>1. nextLabel \in Nat /\ count \in Nat
      BY FS_CardinalityType DEF FiniteData, TypeOK
    <3>2. Sink(r, bound \cup minted, {}) /\ nextLabel' = nextLabel + count
          /\ UNCHANGED <<restarts, source, rows>>
      BY <1>8, <2>1 DEF Instantiate
    <3>3. restarts = 0 => QuadsBelow(bound, nextLabel)
      BY <1>8 DEF LabelInv, QuadsBelow, BoundTerms
    <3>4. QuadsBelow(minted, nextLabel + count)
      <4> HIDE DEF count
      <4>1. QED
        BY <3>1 DEF QuadsBelow, Minted
    <3> HIDE DEF count, labels, bound, minted
    <3>5. nextLabel' \in Nat /\ nextLabel <= nextLabel'
      BY <3>1, <3>2
    <3>6. restarts = 0 => QuadsBelow(bound, nextLabel')
      BY <3>1, <3>3, <3>5, BelowGrows
    <3>7. restarts = 0 => QuadsBelow(bound \cup minted, nextLabel')
      BY <3>2, <3>4, <3>6 DEF QuadsBelow
    <3>8. QED
      BY <1>8, <3>2, <3>5, <3>7, WriteBelow
  <2>2. CASE Op(r).to \notin Graphs
    <3>1. Sink(r, {}, {}) /\ UNCHANGED <<restarts, source, rows, nextLabel>>
      BY <1>8, <2>2 DEF Instantiate
    <3>2. QuadsBelow({}, nextLabel)
      BY DEF QuadsBelow
    <3>3. QED
      BY <1>2, <1>8, <3>1, <3>2
  <2>3. QED
    BY <2>1, <2>2
<1>9. ASSUME NEW r \in Requests, DocumentArrives(r)
      PROVE  LabelInv'
  <2> DEFINE doc == Op(r).quads \cup {Minted(nextLabel, g) : g \in Op(r).fresh}
             added == IF Op(r).to = None THEN doc ELSE Into(doc, Op(r).to)
  <2>1. Busy(r) /\ nextLabel' = IF Op(r).fresh = {} THEN nextLabel ELSE nextLabel + 1
    BY <1>9 DEF DocumentArrives, At
  <2>2. QuadsBelow(doc, nextLabel') /\ nextLabel' \in Nat /\ nextLabel <= nextLabel'
    BY <1>9, <2>1, DataBelow
  <2>3. Sink(r, added, {}) /\ UNCHANGED <<restarts, source, rows>>
    BY <1>9 DEF DocumentArrives
  <2> HIDE DEF doc
  <2>4. QuadsBelow(added, nextLabel')
    BY <2>2, IntoBelow
  <2> HIDE DEF added
  <2>5. QED
    BY <1>9, <2>2, <2>3, <2>4, WriteBelow
<1>10. ASSUME NEW r \in Requests, CommitApplies(r)
       PROVE  LabelInv'
  <2>1. store' = Committed(r) /\ UNCHANGED <<restarts, patch, source, rows, nextLabel>>
    BY <1>10 DEF CommitApplies
  <2>2. restarts = 0 => QuadsBelow(Committed(r), nextLabel)
    BY <1>10 DEF Committed, LabelInv, QuadsBelow
  <2>3. QED
    BY <2>1, <2>2 DEF LabelInv
<1>11. ASSUME NEW r \in Requests,
              \/ FetchTarget(r) \/ ScanTemplate(r) \/ Skip(r) \/ SendRequest(r)
              \/ DocumentFails(r)
       PROVE  LabelInv'
  BY <1>1, <1>11 DEF FetchTarget, ScanTemplate, Skip, SendRequest, DocumentFails, Fail
<1>12. ASSUME NEW r \in Requests,
              \/ InstantiateFails(r) \/ UnsupportedFails(r) \/ UnresolvedFails(r)
              \/ StopAtCheckpoint(r) \/ CommitFails(r) \/ ReadFails(r)
       PROVE  LabelInv'
  BY <1>1, <1>12
     DEF InstantiateFails, UnsupportedFails, UnresolvedFails,
         StopAtCheckpoint, CommitFails, ReadFails, Fail
<1>13. ASSUME NEW r \in Requests,
              \/ Start(r) \/ Refuse(r) \/ Abort(r) \/ CallCommit(r) \/ Return(r)
       PROVE  LabelInv'
  BY <1>1, <1>13 DEF Start, Refuse, Abort, CallCommit, Return
<1>14. CASE Restart
  BY <1>14 DEF Restart, LabelInv, TypeOK
<1>15. CASE UNCHANGED vars
  BY <1>1, <1>15 DEF vars
<1>16. QED
  BY <1>3, <1>4, <1>5, <1>6, <1>7, <1>8, <1>9, <1>10, <1>11, <1>12, <1>13, <1>14, <1>15
     DEF Next, Apply, Host

(* UpdateEvaluator's counter never mints a label that is already in the    *)
(* store or in an open patch, for as long as the engine lives.             *)
THEOREM FreshLabels == Spec => []LabelsAreFresh
<1>1. TypeOK /\ LabelInv => LabelsAreFresh
  BY DEF LabelInv, LabelsAreFresh, CarriesAtLeast, QuadsBelow, TypeOK
<1>2. QED
  BY <1>1, InitLabels, IInvHolds, TypesHold, NextLabels, PTL DEF Spec
-----------------------------------------------------------------------------
(* A step tells the kind of its operation.                                 *)

LEMMA TemplateNow ==
  ASSUME NEW op \in Ops, NEW i \in DOMAIN TemplateSteps(op)
  PROVE  /\ TemplateSteps(op)[i] \in {"where", "scan", "removeMatched"}
         /\ TemplateSteps(op)[i] = "scan" => i \div 2 \in DOMAIN op.del
<1>1. Len(op.del) \in Nat /\ DOMAIN op.del = 1 .. Len(op.del)
  BY DEF Ops, Records
<1>2. i \in 1 .. 2 * Len(op.del) + 1
  BY DEF TemplateSteps
<1>3. TemplateSteps(op)[i] =
        IF i = 1 THEN "where" ELSE IF i % 2 = 0 THEN "scan" ELSE "removeMatched"
  BY <1>2 DEF TemplateSteps
<1>4. i % 2 = 0 => i \div 2 \in 1 .. Len(op.del)
  BY <1>1, <1>2
<1>5. QED
  BY <1>1, <1>3, <1>4

LEMMA TemplateLen ==
  ASSUME NEW op \in Ops
  PROVE  /\ Len(TemplateSteps(op)) \in Nat
         /\ DOMAIN TemplateSteps(op) = 1 .. Len(TemplateSteps(op))
         /\ DOMAIN Append(TemplateSteps(op), "instantiate") = 1 .. Len(TemplateSteps(op)) + 1
         /\ \A i \in 1 .. Len(TemplateSteps(op)) :
              Append(TemplateSteps(op), "instantiate")[i] = TemplateSteps(op)[i]
         /\ Append(TemplateSteps(op), "instantiate")[Len(TemplateSteps(op)) + 1] = "instantiate"
<1> DEFINE s == TemplateSteps(op)
<1>1. s \in Seq(TemplateNames)
  BY TemplateStepsType
<1> HIDE DEF s
<1>2. /\ Len(s) \in Nat /\ DOMAIN s = 1 .. Len(s)
      /\ DOMAIN Append(s, "instantiate") = 1 .. Len(s) + 1
      /\ \A i \in 1 .. Len(s) : Append(s, "instantiate")[i] = s[i]
      /\ Append(s, "instantiate")[Len(s) + 1] = "instantiate"
  BY <1>1 DEF TemplateNames
<1>3. QED
  BY <1>2 DEF s

LEMMA NowTellsKind ==
  ASSUME TypeOK, StepInRange, NEW r \in Requests, Busy(r)
  PROVE  /\ Now(r) = "addData" => Op(r).kind = "insert"
         /\ Now(r) = "removeData" => Op(r).kind = "delete"
         /\ Now(r) = "addSource" => Op(r).kind \in {"add", "copy"}
         /\ Now(r) = "addSourceRefetch" => Op(r).kind = "move"
         /\ Now(r) = "fetchTarget" => Op(r).kind \in {"clear", "copy", "move"}
         /\ Now(r) = "scan" => /\ Op(r).kind \in {"insertdelete", "deletewhere"}
                               /\ step[r] \div 2 \in DOMAIN Op(r).del
         /\ Now(r) = "instantiate" => Op(r).kind = "insertdelete"
         /\ Now(r) = "document" => Op(r).kind = "load"
<1> DEFINE op == Op(r)
           i == step[r]
<1>1. op \in Ops /\ op.kind \in Kinds
  BY OpType DEF Ops, Records
<1>2. i \in DOMAIN Steps(op) /\ Now(r) = Steps(op)[i]
  BY DEF StepInRange, Busy, Now
<1> HIDE DEF op, i
<1>3. CASE op.kind \in {"insertdelete", "deletewhere"}
  <2>1. CASE i \in DOMAIN TemplateSteps(op)
    <3>1. Now(r) = TemplateSteps(op)[i]
      BY <1>1, <1>2, <1>3, <2>1, TemplateLen DEF Steps
    <3>2. QED
      BY <1>1, <1>3, <2>1, <3>1, TemplateNow DEF op, i
  <2>2. CASE i \notin DOMAIN TemplateSteps(op)
    <3>1. op.kind = "insertdelete" /\ Steps(op) = Append(TemplateSteps(op), "instantiate")
      BY <1>2, <1>3, <2>2 DEF Steps
    <3>2. i = Len(TemplateSteps(op)) + 1
      BY <1>1, <1>2, <2>2, <3>1, TemplateLen
    <3>3. Now(r) = "instantiate"
      BY <1>1, <1>2, <3>1, <3>2, TemplateLen
    <3>4. QED
      BY <3>1, <3>3 DEF op
  <2>3. QED
    BY <2>1, <2>2
<1>4. CASE op.kind \notin {"insertdelete", "deletewhere"}
  <2>1. /\ Now(r) = "addData" => op.kind = "insert"
        /\ Now(r) = "removeData" => op.kind = "delete"
        /\ Now(r) = "addSource" => op.kind \in {"add", "copy"}
        /\ Now(r) = "addSourceRefetch" => op.kind = "move"
        /\ Now(r) = "fetchTarget" => op.kind \in {"clear", "copy", "move"}
        /\ Now(r) \notin {"scan", "instantiate"}
        /\ Now(r) = "document" => op.kind = "load"
    BY <1>1, <1>2, <1>4 DEF Steps, Kinds
  <2>2. QED
    BY <2>1 DEF op
<1>5. QED
  BY <1>3, <1>4

(* The graphs of the operation under way are in the footprint.             *)
LEMMA WrittenInFootprint ==
  ASSUME TypeOK, NEW r \in Requests, Busy(r)
  PROVE  Written(Op(r)) \subseteq Footprint(r)
<1>1. script[r] \in Seq(Ops)
  BY ScriptAssumption DEF TypeOK
<1>2. at[r] \in DOMAIN script[r]
  BY <1>1 DEF TypeOK, Busy
<1>3. QED
  BY <1>2 DEF Footprint, Op

-----------------------------------------------------------------------------
(* The footprint.  What a request removes in a later step it has fetched   *)
(* in an earlier one, so the invariant bounds that as well.                *)

Within(quads, r) == \A q \in quads : q.graph \in Footprint(r)

FootprintInv ==
  /\ PatchInFootprint
  /\ \A r \in Requests : Within(target[r], r)

LEMMA SinkWithin ==
  ASSUME TypeOK, FootprintInv, NEW r \in Requests, NEW adds, NEW dels, Sink(r, adds, dels),
         Within(adds, r), Within(dels, r), script' = script
  PROVE  PatchInFootprint'
<1>1. \A s \in Requests : Footprint(s)' = Footprint(s)
  BY DEF Footprint
<1>2. CASE Transactional
  <2>1. patch' = [patch EXCEPT ![r] =
                    [added   |-> (patch[r].added \ dels) \cup adds,
                     deleted |-> (patch[r].deleted \cup dels) \ adds]]
    BY <1>2 DEF Sink
  <2>2. \A q \in patch'[r].added \cup patch'[r].deleted : q.graph \in Footprint(r)
    BY <2>1 DEF TypeOK, FootprintInv, PatchInFootprint, Within
  <2>3. \A s \in Requests : s # r => patch'[s] = patch[s]
    BY <2>1 DEF TypeOK
  <2>4. QED
    BY <1>1, <2>2, <2>3 DEF FootprintInv, PatchInFootprint
<1>3. CASE ~Transactional
  BY <1>1, <1>3 DEF Sink, FootprintInv, PatchInFootprint
<1>4. QED
  BY <1>2, <1>3

LEMMA WriteWithin ==
  ASSUME TypeOK, FootprintInv, NEW r \in Requests, NEW adds, NEW dels, Sink(r, adds, dels),
         Within(adds, r), Within(dels, r), script' = script, target' = target
  PROVE  FootprintInv'
<1>1. PatchInFootprint'
  BY SinkWithin
<1>2. QED
  BY <1>1 DEF FootprintInv, Within, Footprint

LEMMA FetchWithin ==
  ASSUME TypeOK, FootprintInv, NEW r \in Requests, NEW quads,
         target' = [target EXCEPT ![r] = quads], Within(quads, r), script' = script,
         PatchInFootprint'
  PROVE  FootprintInv'
<1>1. \A s \in Requests : target'[s] = IF s = r THEN quads ELSE target[s]
  BY DEF TypeOK
<1>2. QED
  BY <1>1 DEF FootprintInv, Within, Footprint

LEMMA IntoWithin ==
  ASSUME NEW r, NEW quads, NEW g \in Footprint(r)
  PROVE  Within(Into(quads, g), r)
BY DEF Within, Into

LEMMA NextFootprint == IInv /\ FootprintInv /\ [Next]_vars => FootprintInv'
<1> SUFFICES ASSUME TypeOK, StepInRange, FootprintInv, [Next]_vars
             PROVE  FootprintInv'
  BY DEF IInv
<1> USE DEF control, locals, AddAll, RemoveAll
<1>1. CASE UNCHANGED <<script, patch, target>>
  BY <1>1 DEF FootprintInv, PatchInFootprint, Within, Footprint
<1>2. \A r \in Requests : Within({}, r)
  BY DEF Within
<1>3. ASSUME NEW r \in Requests, AddData(r)
      PROVE  FootprintInv'
  <2> DEFINE doc == Op(r).quads \cup {Minted(nextLabel, g) : g \in Op(r).fresh}
  <2>1. Busy(r) /\ Now(r) = "addData"
    BY <1>3 DEF AddData, At
  <2>2. \A q \in doc : q.graph \in Written(Op(r))
    BY <2>1, NowTellsKind DEF Written, Minted
  <2>3. Within(doc, r)
    BY <2>1, <2>2, WrittenInFootprint DEF Within
  <2>4. Sink(r, doc, {}) /\ script' = script /\ target' = target
    BY <1>3 DEF AddData
  <2> HIDE DEF doc
  <2>5. QED
    BY <1>2, <2>3, <2>4, WriteWithin
<1>4. ASSUME NEW r \in Requests, RemoveData(r)
      PROVE  FootprintInv'
  <2>1. Busy(r) /\ Now(r) = "removeData"
    BY <1>4 DEF RemoveData, At
  <2>2. \A q \in Op(r).quads : q.graph \in Written(Op(r))
    BY <2>1, NowTellsKind DEF Written
  <2>3. Within(Op(r).quads, r)
    BY <2>1, <2>2, WrittenInFootprint DEF Within
  <2>4. Sink(r, {}, Op(r).quads) /\ script' = script /\ target' = target
    BY <1>4 DEF RemoveData
  <2>5. QED
    BY <1>2, <2>3, <2>4, WriteWithin
<1>5. ASSUME NEW r \in Requests, FetchTarget(r)
      PROVE  FootprintInv'
  <2>1. Busy(r) /\ Now(r) = "fetchTarget"
    BY <1>5 DEF FetchTarget, At
  <2>2. Cleared(Op(r)) \subseteq Written(Op(r))
    BY <2>1, NowTellsKind DEF Cleared, Written
  <2>3. Within(InGraphs(Cleared(Op(r))), r)
    BY <2>1, <2>2, WrittenInFootprint DEF Within, InGraphs
  <2>4. /\ target' = [target EXCEPT ![r] = InGraphs(Cleared(Op(r)))]
        /\ script' = script /\ patch' = patch
    BY <1>5 DEF FetchTarget
  <2>5. PatchInFootprint'
    BY <2>4 DEF FootprintInv, PatchInFootprint, Footprint
  <2>6. QED
    BY <2>3, <2>4, <2>5, FetchWithin
<1>6. ASSUME NEW r \in Requests, RemoveTarget(r) \/ RemoveMatched(r)
      PROVE  FootprintInv'
  <2>1. PICK dels \in SUBSET target[r] :
          Sink(r, {}, dels) /\ script' = script /\ target' = target
    BY <1>6 DEF RemoveTarget, RemoveMatched
  <2>2. Within(dels, r)
    BY DEF FootprintInv, Within
  <2>3. QED
    BY <1>2, <2>1, <2>2, WriteWithin
<1>7. ASSUME NEW r \in Requests, AddSource(r)
      PROVE  FootprintInv'
  <2>1. Busy(r) /\ Now(r) = "addSource"
    BY <1>7 DEF AddSource, At
  <2>2. Op(r).to \in Footprint(r)
    BY <2>1, NowTellsKind, WrittenInFootprint DEF Written
  <2>3. Within(Into(source[r], Op(r).to), r)
    BY <2>2, IntoWithin
  <2>4. Sink(r, Into(source[r], Op(r).to), {}) /\ script' = script /\ target' = target
    BY <1>7 DEF AddSource
  <2>5. QED
    BY <1>2, <2>3, <2>4, WriteWithin
<1>8. ASSUME NEW r \in Requests, AddSourceRefetch(r)
      PROVE  FootprintInv'
  <2>1. Busy(r) /\ Now(r) = "addSourceRefetch"
    BY <1>8 DEF AddSourceRefetch, At
  <2>2. Op(r).to \in Footprint(r) /\ Op(r).from \subseteq Footprint(r)
    BY <2>1, NowTellsKind, WrittenInFootprint DEF Written
  <2>3. Within(Into(source[r], Op(r).to), r)
    BY <2>2, IntoWithin
  <2>4. /\ Sink(r, Into(source[r], Op(r).to), {}) /\ script' = script
        /\ target' = [target EXCEPT ![r] = {q \in store' : q.graph \in Op(r).from}]
    BY <1>8 DEF AddSourceRefetch
  <2>5. PatchInFootprint'
    BY <1>2, <2>3, <2>4, SinkWithin
  <2>6. Within({q \in store' : q.graph \in Op(r).from}, r)
    BY <2>2 DEF Within
  <2>7. QED
    BY <2>4, <2>5, <2>6, FetchWithin
<1>9. ASSUME NEW r \in Requests, ScanTemplate(r)
      PROVE  FootprintInv'
  <2> DEFINE read == IF rows[r] = {} THEN {} ELSE InGraphs({Op(r).del[step[r] \div 2]})
  <2>1. Busy(r) /\ Now(r) = "scan"
    BY <1>9 DEF ScanTemplate, At
  <2>2. Op(r).del[step[r] \div 2] \in Written(Op(r))
    BY <2>1, NowTellsKind DEF Written
  <2>3. Within(read, r)
    BY <2>1, <2>2, WrittenInFootprint DEF Within, InGraphs
  <2>4. target' = [target EXCEPT ![r] = read] /\ script' = script /\ patch' = patch
    BY <1>9 DEF ScanTemplate
  <2>5. PatchInFootprint'
    BY <2>4 DEF FootprintInv, PatchInFootprint, Footprint
  <2> HIDE DEF read
  <2>6. QED
    BY <2>3, <2>4, <2>5, FetchWithin
<1>10. ASSUME NEW r \in Requests, Instantiate(r)
       PROVE  FootprintInv'
  <2>1. Busy(r) /\ Now(r) = "instantiate"
    BY <1>10 DEF Instantiate, At
  <2>2. PICK adds : /\ Sink(r, adds, {}) /\ script' = script /\ target' = target
                    /\ \A q \in adds : Op(r).to \in Graphs /\ q.graph = Op(r).to
    BY <1>10 DEF Instantiate, Minted
  <2>3. Op(r).to \in Graphs => Op(r).to \in Footprint(r)
    BY <2>1, NowTellsKind, WrittenInFootprint DEF Written
  <2>4. Within(adds, r)
    BY <2>2, <2>3 DEF Within
  <2>5. QED
    BY <1>2, <2>2, <2>4, WriteWithin
<1>11. ASSUME NEW r \in Requests, DocumentArrives(r)
       PROVE  FootprintInv'
  <2> DEFINE doc == Op(r).quads \cup {Minted(nextLabel, g) : g \in Op(r).fresh}
             added == IF Op(r).to = None THEN doc ELSE Into(doc, Op(r).to)
  <2>1. Busy(r) /\ Now(r) = "document"
    BY <1>11 DEF DocumentArrives, At
  <2>2. \A q \in added : q.graph \in Written(Op(r))
    BY <2>1, NowTellsKind DEF Written, Minted, Into
  <2>3. Within(added, r)
    BY <2>1, <2>2, WrittenInFootprint DEF Within
  <2>4. Sink(r, added, {}) /\ script' = script /\ target' = target
    BY <1>11 DEF DocumentArrives
  <2> HIDE DEF added
  <2>5. QED
    BY <1>2, <2>3, <2>4, WriteWithin
<1>12. ASSUME NEW r \in Requests,
              \/ FetchSource(r) \/ Where(r) \/ Skip(r) \/ SendRequest(r) \/ DocumentFails(r)
       PROVE  FootprintInv'
  BY <1>1, <1>12 DEF FetchSource, Where, Skip, SendRequest, DocumentFails, Fail
<1>13. ASSUME NEW r \in Requests,
              \/ InstantiateFails(r) \/ UnsupportedFails(r) \/ UnresolvedFails(r)
              \/ StopAtCheckpoint(r) \/ CommitFails(r) \/ ReadFails(r)
       PROVE  FootprintInv'
  BY <1>1, <1>13
     DEF InstantiateFails, UnsupportedFails, UnresolvedFails,
         StopAtCheckpoint, CommitFails, ReadFails, Fail
<1>14. ASSUME NEW r \in Requests,
              \/ Start(r) \/ Refuse(r) \/ Abort(r) \/ CallCommit(r) \/ Return(r)
              \/ CommitApplies(r)
       PROVE  FootprintInv'
  BY <1>1, <1>14 DEF Start, Refuse, Abort, CallCommit, Return, CommitApplies
<1>15. CASE Restart
  BY <1>1, <1>15 DEF Restart
<1>16. CASE UNCHANGED vars
  BY <1>1, <1>16 DEF vars
<1>17. QED
  BY <1>3, <1>4, <1>5, <1>6, <1>7, <1>8, <1>9, <1>10, <1>11, <1>12, <1>13, <1>14, <1>15, <1>16
     DEF Next, Apply, Host

LEMMA FootprintHolds == Spec => []FootprintInv
<1>1. Init => FootprintInv
  BY DEF Init, FootprintInv, PatchInFootprint, Within, EmptyPatch
<1>2. QED
  BY <1>1, IInvHolds, NextFootprint, PTL DEF Spec

(* The transaction of a request never holds a write to a graph that none   *)
(* of the request's operations names: what COPY, MOVE, CLEAR or a DELETE   *)
(* template fetched at one await and applies at a later one stays there.   *)
THEOREM WritesStayInside == Spec => []PatchInFootprint
<1>1. FootprintInv => PatchInFootprint
  BY DEF FootprintInv
<1>2. QED
  BY <1>1, FootprintHolds, PTL

-----------------------------------------------------------------------------
(* Atomicity.  A request not begun has neither a transaction nor an        *)
(* answer, and a store that is not writable is never written to.           *)

Begins ==
  \A r \in Requests : phase[r] = "idle" => tx[r] = "none" /\ client[r] = "none"

Hosted ==
  /\ writer # "memory"
  /\ writer = "other" => \A r \in Requests : phase[r] \in {"idle", "done"}

AtomicInv == IInv /\ TransactionOutcome /\ FootprintInv /\ Begins /\ Hosted

LEMMA NextBegins == TypeOK /\ Begins /\ Hosted /\ [Next]_vars => Begins' /\ Hosted'
<1> SUFFICES ASSUME TypeOK, Begins, Hosted, [Next]_vars
             PROVE  Begins' /\ Hosted'
  OBVIOUS
<1>1. CASE UNCHANGED TxVars
  BY <1>1 DEF Begins, Hosted, TxVars
<1>2. ASSUME NEW r \in Requests, phase[r] # "idle", phase' = [phase EXCEPT ![r] = "done"],
             \A s \in Requests : s # r => tx'[s] = tx[s] /\ client'[s] = client[s],
             writer' = writer
      PROVE  Begins' /\ Hosted'
  BY <1>2 DEF TypeOK, Begins, Hosted
<1>3. ASSUME NEW r \in Requests, Fail(r), phase[r] # "idle"
      PROVE  Begins' /\ Hosted'
  BY <1>2, <1>3 DEF Fail, Settle, TypeOK
<1>4. ASSUME NEW r \in Requests, Start(r)
      PROVE  Begins' /\ Hosted'
  BY <1>4 DEF TypeOK, Begins, Hosted, Start
<1>5. ASSUME NEW r \in Requests, Refuse(r)
      PROVE  Begins' /\ Hosted'
  BY <1>5 DEF TypeOK, Begins, Hosted, Refuse
<1>6. ASSUME NEW r \in Requests, Abort(r)
      PROVE  Begins' /\ Hosted'
  BY <1>6 DEF TypeOK, Begins, Hosted, Abort
<1>7. ASSUME NEW r \in Requests,
             \/ InstantiateFails(r) \/ UnsupportedFails(r) \/ UnresolvedFails(r)
             \/ StopAtCheckpoint(r) \/ CommitFails(r) \/ ReadFails(r)
      PROVE  Begins' /\ Hosted'
  BY <1>3, <1>7
     DEF InstantiateFails, UnsupportedFails, UnresolvedFails,
         StopAtCheckpoint, CommitFails, ReadFails, At, Busy
<1>8. ASSUME NEW r \in Requests, DocumentFails(r)
      PROVE  Begins' /\ Hosted'
  BY <1>1, <1>3, <1>8 DEF DocumentFails, At, Busy, control, TxVars
<1>9. ASSUME NEW r \in Requests, CallCommit(r)
      PROVE  Begins' /\ Hosted'
  BY <1>9 DEF TypeOK, Begins, Hosted, CallCommit, Transactional
<1>10. ASSUME NEW r \in Requests, CommitApplies(r)
       PROVE  Begins' /\ Hosted'
  BY <1>10 DEF TypeOK, Begins, Hosted, CommitApplies
<1>11. ASSUME NEW r \in Requests, Return(r)
       PROVE  Begins' /\ Hosted'
  BY <1>2, <1>11 DEF Return, Settle, TypeOK
<1>12. CASE Restart
  BY <1>12 DEF Restart, Transactional, TypeOK, Begins, Hosted
<1>13. ASSUME NEW r \in Requests,
              \/ AddData(r) \/ RemoveData(r) \/ FetchSource(r) \/ FetchTarget(r)
              \/ RemoveTarget(r) \/ AddSource(r) \/ AddSourceRefetch(r)
       PROVE  Begins' /\ Hosted'
  BY <1>1, <1>13
     DEF AddData, RemoveData, FetchSource, FetchTarget, RemoveTarget, AddSource,
         AddSourceRefetch, control, TxVars
<1>14. ASSUME NEW r \in Requests,
              \/ Where(r) \/ ScanTemplate(r) \/ RemoveMatched(r) \/ Instantiate(r)
              \/ Skip(r) \/ SendRequest(r) \/ DocumentArrives(r)
       PROVE  Begins' /\ Hosted'
  BY <1>1, <1>14
     DEF Where, ScanTemplate, RemoveMatched, Instantiate, Skip, SendRequest,
         DocumentArrives, control, TxVars
<1>15. CASE UNCHANGED vars
  BY <1>1, <1>15 DEF vars, TxVars
<1>16. QED
  BY <1>4, <1>5, <1>6, <1>7, <1>8, <1>9, <1>10, <1>11, <1>12, <1>13, <1>14, <1>15
     DEF Next, Apply, Host

LEMMA FootprintInGraphs ==
  ASSUME TypeOK, NEW r \in Requests
  PROVE  Footprint(r) \subseteq Graphs
<1>1. ASSUME NEW op \in Ops PROVE Written(op) \subseteq Graphs
  <2>1. /\ op.quads \subseteq GroundQuads /\ op.fresh \subseteq Graphs
        /\ op.from \subseteq Graphs /\ op.to \in Graphs \cup {None, VariableGraph}
        /\ \A i \in DOMAIN op.del : op.del[i] \in Graphs
        /\ op.kind \in {"add", "copy", "move"} => op.to \in Graphs
        /\ op.to = VariableGraph => op.kind = "insertdelete"
    BY <1>1 DEF Ops, Records
  <2>2. \A q \in op.quads : q.graph \in Graphs
    BY <2>1 DEF GroundQuads
  <2>3. QED
    BY <2>1, <2>2 DEF Written
<1>2. script[r] \in Seq(Ops)
  BY ScriptAssumption DEF TypeOK
<1>3. QED
  BY <1>1, <1>2 DEF Footprint

fates == [r \in Requests |-> Fate(r)]
tolds == [r \in Requests |-> Told(r)]
footprints == [r \in Requests |-> Footprint(r)]

(* Requests whose transaction ends without effect, and callers that are    *)
(* told of a failure.                                                      *)
LEMMA GivingUp ==
  ASSUME TypeOK, NEW dropped \in SUBSET Requests, NEW failed \in SUBSET Requests,
         \A r \in dropped : Fate(r) = "undecided" /\ Fate(r)' = "dropped",
         \A r \in Requests \ dropped : Fate(r)' = Fate(r),
         \A r \in failed : Told(r) = "nothing" /\ Told(r)' = "failure",
         \A r \in Requests \ failed : Told(r)' = Told(r),
         store' = store, script' = script
  PROVE  Atomic!Next
<1>1. \A r \in dropped : fates[r] = "undecided"
  BY DEF fates
<1>2. \A r \in failed : tolds[r] = "nothing"
  BY DEF tolds
<1>3. fates' = [r \in Requests |-> IF r \in dropped THEN "dropped" ELSE fates[r]]
  BY DEF fates
<1>4. tolds' = [r \in Requests |-> IF r \in failed THEN "failure" ELSE tolds[r]]
  BY DEF tolds
<1>5. footprints' = footprints
  BY DEF footprints, Footprint
<1>6. Atomic!GiveUp(dropped, failed)
  BY <1>1, <1>2, <1>3, <1>4, <1>5 DEF Atomic!GiveUp, fates, tolds, footprints
<1>7. QED
  BY <1>6 DEF Atomic!Next

LEMMA FailGivesUp ==
  ASSUME TypeOK, NEW r \in Requests, Fail(r), Transactional, tx[r] = "open"
  PROVE  Atomic!Next
<1> DEFINE failed == {s \in {r} : client[s] = "pending"}
<1>1. /\ tx' = [tx EXCEPT ![r] = "rolledBack"] /\ store' = store /\ script' = script
      /\ client' = [client EXCEPT ![r] = IF client[r] = "pending" THEN "rejected" ELSE client[r]]
  BY DEF Fail, Settle
<1>2. \A s \in {r} : Fate(s) = "undecided" /\ Fate(s)' = "dropped"
  BY <1>1 DEF TypeOK, Fate
<1>3. \A s \in Requests \ {r} : Fate(s)' = Fate(s)
  BY <1>1 DEF TypeOK, Fate
<1>4. \A s \in failed : Told(s) = "nothing" /\ Told(s)' = "failure"
  BY <1>1 DEF TypeOK, Told
<1>5. \A s \in Requests \ failed : Told(s)' = Told(s)
  BY <1>1 DEF TypeOK, Told
<1>6. {r} \in SUBSET Requests /\ failed \in SUBSET Requests
  OBVIOUS
<1> HIDE DEF failed
<1>7. QED
  BY <1>1, <1>2, <1>3, <1>4, <1>5, <1>6, GivingUp

(* What a transaction persists changes no graph outside the footprint.     *)
LEMMA CommitTakesEffect ==
  ASSUME TypeOK, FootprintInv, NEW r \in Requests, CommitApplies(r)
  PROVE  Atomic!Next
<1>1. /\ tx[r] = "open" /\ tx' = [tx EXCEPT ![r] = "committed"]
      /\ store' = (store \ patch[r].deleted) \cup patch[r].added
      /\ script' = script /\ client' = client
  BY DEF CommitApplies, Committed
<1>2. store' \in SUBSET Quads
  BY <1>1 DEF TypeOK
<1>3. {q \in store' : q.graph \notin Footprint(r)} = {q \in store : q.graph \notin Footprint(r)}
  BY <1>1 DEF FootprintInv, PatchInFootprint
<1>4. fates[r] = "undecided" /\ fates' = [fates EXCEPT ![r] = "applied"]
  BY <1>1 DEF TypeOK, fates, Fate
<1>5. tolds' = tolds /\ footprints' = footprints
  BY <1>1 DEF tolds, Told, footprints, Footprint
<1>6. footprints[r] = Footprint(r)
  BY DEF footprints
<1>7. Atomic!TakeEffect(r)
  BY <1>2, <1>3, <1>4, <1>5, <1>6
     DEF Atomic!TakeEffect, Atomic!OutsideOf, fates, tolds, footprints
<1>8. QED
  BY <1>7 DEF Atomic!Next

LEMMA StepsAreAtomic ==
  AtomicInv /\ [Next]_vars => [Atomic!Next]_(Atomic!vars)
<1> SUFFICES ASSUME TypeOK, TransactionOutcome, FootprintInv, Begins, Hosted, [Next]_vars
             PROVE  Atomic!Next \/ UNCHANGED Atomic!vars
  BY DEF AtomicInv, IInv
<1>1. CASE UNCHANGED <<store, tx, client, script>>
  BY <1>1 DEF Atomic!vars, Fate, Told, Footprint
<1>2. ASSUME NEW r \in Requests, phase[r] \in {"run", "commit"}
      PROVE  Transactional /\ (phase[r] = "run" => tx[r] = "open")
  BY <1>2, ModeAssumption DEF Hosted, TypeOK, Transactional, TransactionOutcome
<1>3. ASSUME NEW r \in Requests, Start(r)
      PROVE  Atomic!Next
  <2> DEFINE failed == {s \in {r} : client'[s] = "rejected"}
  <2>1. tx[r] = "none" /\ client[r] = "none" /\ store' = store /\ script' = script
    BY <1>3 DEF Start, Begins
  <2>2. \A s \in Requests : Fate(s)' = Fate(s)
    BY <1>3, <2>1 DEF Start, TypeOK, Fate
  <2>3. \A s \in failed : Told(s) = "nothing" /\ Told(s)' = "failure"
    BY <2>1 DEF Told
  <2>4. \A s \in Requests \ failed : Told(s)' = Told(s)
    BY <1>3, <2>1 DEF Start, TypeOK, Told
  <2>5. {} \in SUBSET Requests /\ failed \in SUBSET Requests
    OBVIOUS
  <2> HIDE DEF failed
  <2>6. QED
    BY <2>1, <2>2, <2>3, <2>4, <2>5, GivingUp
<1>4. ASSUME NEW r \in Requests, Refuse(r) \/ Abort(r)
      PROVE  Atomic!Next
  <2>1. client[r] \in {"none", "pending"} /\ client' \in [Requests -> Outcomes]
        /\ client'[r] \in {"rejected", "unsupported"}
        /\ UNCHANGED <<tx, store, script>>
        /\ \A s \in Requests : s # r => client'[s] = client[s]
    BY <1>4 DEF Refuse, Abort, Begins, TypeOK, Outcomes
  <2>2. \A s \in Requests : Fate(s)' = Fate(s)
    BY <2>1 DEF Fate
  <2>3. \A s \in {r} : Told(s) = "nothing" /\ Told(s)' = "failure"
    BY <2>1 DEF Told
  <2>4. \A s \in Requests \ {r} : Told(s)' = Told(s)
    BY <2>1 DEF Told
  <2>5. {} \in SUBSET Requests /\ {r} \in SUBSET Requests
    OBVIOUS
  <2>6. QED
    BY <2>1, <2>2, <2>3, <2>4, <2>5, GivingUp
<1>5. ASSUME NEW r \in Requests,
             \/ InstantiateFails(r) \/ UnsupportedFails(r) \/ UnresolvedFails(r)
             \/ StopAtCheckpoint(r) \/ CommitFails(r) \/ ReadFails(r)
      PROVE  Atomic!Next
  <2>1. Fail(r) /\ phase[r] \in {"run", "commit"} /\ (phase[r] = "run" \/ tx[r] = "open")
    BY <1>5
       DEF InstantiateFails, UnsupportedFails, UnresolvedFails,
           StopAtCheckpoint, CommitFails, ReadFails, At, Busy
  <2>2. QED
    BY <1>2, <1>5, <2>1, FailGivesUp
<1>6. ASSUME NEW r \in Requests, DocumentFails(r)
      PROVE  Atomic!Next \/ UNCHANGED Atomic!vars
  <2>1. phase[r] = "run" /\ (Fail(r) \/ UNCHANGED <<store, tx, client, script>>)
    BY <1>6 DEF DocumentFails, At, Busy, control
  <2>2. QED
    BY <1>1, <1>2, <1>6, <2>1, FailGivesUp
<1>7. ASSUME NEW r \in Requests, CommitApplies(r)
      PROVE  Atomic!Next
  BY <1>7, CommitTakesEffect
<1>8. ASSUME NEW r \in Requests, Return(r)
      PROVE  Atomic!Next \/ UNCHANGED Atomic!vars
  <2>1. /\ phase[r] = "commit" /\ tx[r] = "committed"
        /\ client' = [client EXCEPT ![r] = IF client[r] = "pending" THEN "resolved" ELSE client[r]]
        /\ UNCHANGED <<store, tx, script>>
    BY <1>2, <1>8 DEF Return, Settle
  <2>2. CASE client[r] = "pending"
    <3>1. fates[r] = "applied" /\ tolds[r] = "nothing" /\ fates' = fates
      BY <2>1, <2>2 DEF fates, Fate, tolds, Told
    <3>2. tolds' = [tolds EXCEPT ![r] = "success"]
      BY <2>1, <2>2 DEF TypeOK, tolds, Told
    <3>3. footprints' = footprints
      BY <2>1 DEF footprints, Footprint
    <3>4. Atomic!ReportSuccess(r)
      BY <2>1, <3>1, <3>2, <3>3 DEF Atomic!ReportSuccess, fates, tolds, footprints
    <3>5. QED
      BY <3>4 DEF Atomic!Next
  <2>3. CASE client[r] # "pending"
    <3>1. client' = client
      BY <2>1, <2>3 DEF TypeOK
    <3>2. QED
      BY <1>1, <2>1, <3>1
  <2>4. QED
    BY <2>2, <2>3
<1>9. CASE Restart
  <2> DEFINE dropped == {r \in Requests : tx[r] = "open"}
             failed == {r \in Requests : client[r] = "pending"}
  <2>1. /\ tx' = [r \in Requests |-> IF tx[r] = "open" THEN "lost" ELSE tx[r]]
        /\ client' = [r \in Requests |-> IF client[r] = "pending" THEN "lost" ELSE client[r]]
        /\ store' = store /\ script' = script
    BY <1>9 DEF Restart
  <2>2. \A r \in dropped : Fate(r) = "undecided" /\ Fate(r)' = "dropped"
    BY <2>1 DEF Fate
  <2>3. \A r \in Requests \ dropped : Fate(r)' = Fate(r)
    BY <2>1 DEF Fate
  <2>4. \A r \in failed : Told(r) = "nothing" /\ Told(r)' = "failure"
    BY <2>1 DEF Told
  <2>5. \A r \in Requests \ failed : Told(r)' = Told(r)
    BY <2>1 DEF Told
  <2>6. dropped \in SUBSET Requests /\ failed \in SUBSET Requests
    OBVIOUS
  <2> HIDE DEF dropped, failed
  <2>7. QED
    BY <2>1, <2>2, <2>3, <2>4, <2>5, <2>6, GivingUp
<1>10. ASSUME NEW r \in Requests,
              \/ AddData(r) \/ RemoveData(r) \/ RemoveTarget(r) \/ AddSource(r)
              \/ AddSourceRefetch(r) \/ RemoveMatched(r) \/ Instantiate(r) \/ DocumentArrives(r)
       PROVE  Atomic!Next \/ UNCHANGED Atomic!vars
  <2>1. phase[r] = "run" /\ UNCHANGED <<tx, client, script>>
    BY <1>10
       DEF AddData, RemoveData, RemoveTarget, AddSource, AddSourceRefetch, RemoveMatched,
           Instantiate, DocumentArrives, At, Busy, control
  <2>2. \E adds, dels : Sink(r, adds, dels)
    BY <1>10, Zenon
       DEF AddData, RemoveData, RemoveTarget, AddSource, AddSourceRefetch, RemoveMatched,
           Instantiate, DocumentArrives, AddAll, RemoveAll
  <2>3. store' = store
    BY <1>2, <1>10, <2>1, <2>2 DEF Sink
  <2>4. QED
    BY <1>1, <2>1, <2>3
<1>11. ASSUME NEW r \in Requests,
              \/ FetchSource(r) \/ FetchTarget(r) \/ Where(r) \/ ScanTemplate(r)
              \/ Skip(r) \/ SendRequest(r) \/ CallCommit(r)
       PROVE  Atomic!Next \/ UNCHANGED Atomic!vars
  BY <1>1, <1>11
     DEF FetchSource, FetchTarget, Where, ScanTemplate, Skip, SendRequest, CallCommit, control
<1>12. CASE UNCHANGED vars
  BY <1>1, <1>12 DEF vars
<1>13. QED
  BY <1>3, <1>4, <1>5, <1>6, <1>7, <1>8, <1>9, <1>10, <1>11, <1>12 DEF Next, Apply, Host

(* With a transaction, update requests are atomic, whatever they consist   *)
(* of and however they interleave, fail, are aborted or interrupted by a   *)
(* restart: the path implements AtomicUpdates.  Without one, on a          *)
(* MemoryStore, it does not.                                               *)
THEOREM UpdatesAreAtomic == Spec /\ writer # "memory" => ImplementsAtomicUpdates
<1>1. Init => Atomic!Init
  <2> SUFFICES ASSUME Init PROVE Atomic!Init
    OBVIOUS
  <2>1. TypeOK
    BY InitTypes
  <2>2. store \in SUBSET Quads
    BY <2>1 DEF TypeOK
  <2>3. footprints \in [Requests -> SUBSET Graphs]
    BY <2>1, FootprintInGraphs DEF footprints
  <2>4. fates = [r \in Requests |-> "undecided"] /\ tolds = [r \in Requests |-> "nothing"]
    BY DEF Init, fates, Fate, tolds, Told
  <2>5. QED
    BY <2>2, <2>3, <2>4 DEF Atomic!Init, fates, tolds, footprints
<1>2. Init /\ writer # "memory" => Begins /\ Hosted
  BY DEF Init, Begins, Hosted
<1>3. Spec => [](TypeOK /\ IInv /\ TransactionOutcome /\ FootprintInv)
  BY TypesHold, IInvHolds, TransactionsEndOnce, FootprintHolds, PTL
<1>4. Spec /\ writer # "memory" => [](Begins /\ Hosted)
  BY <1>2, <1>3, NextBegins, PTL DEF Spec
<1>5. Spec /\ writer # "memory" => []AtomicInv
  BY <1>3, <1>4, PTL DEF AtomicInv
<1>6. QED
  BY <1>1, <1>5, StepsAreAtomic, PTL DEF Spec, ImplementsAtomicUpdates, Atomic!Spec

-----------------------------------------------------------------------------
(* The meaning of a sequence of operations, stage by stage.                *)

(* f holds the stages of the first n operations. *)
IsStages(f, ops, quads, n) ==
  f = [i \in 0 .. n |-> IF i = 0 THEN <<quads, 0>> ELSE Then(f[i - 1], ops[i])]

LEMMA StagesExist ==
  ASSUME NEW ops, NEW quads
  PROVE  \A n \in Nat : \E f : IsStages(f, ops, quads, n)
<1> DEFINE Bad == {n \in Nat : ~ \E f : IsStages(f, ops, quads, n)}
<1> SUFFICES ASSUME Bad # {}
             PROVE  FALSE
  OBVIOUS
<1>1. PICK n \in Bad : \A m \in Bad : n <= m
  <2>1. Bad \in SUBSET Nat
    OBVIOUS
  <2> HIDE DEF Bad
  <2>2. QED
    BY <2>1, LeastNatural
<1>2. CASE n = 0
  <2>1. IsStages([i \in 0 .. 0 |-> <<quads, 0>>], ops, quads, 0)
    BY DEF IsStages
  <2>2. QED
    BY <1>2, <2>1
<1>3. CASE n # 0
  <2>1. n \in Nat /\ n - 1 \in Nat /\ n - 1 \notin Bad
    BY <1>1, <1>3
  <2>2. PICK f : IsStages(f, ops, quads, n - 1)
    BY <2>1
  <2> DEFINE g == [i \in 0 .. n |-> IF i = n THEN Then(f[n - 1], ops[n]) ELSE f[i]]
  <2>3. ASSUME NEW i \in 0 .. n
        PROVE  g[i] = IF i = 0 THEN <<quads, 0>> ELSE Then(g[i - 1], ops[i])
    <3>1. CASE i = n
      BY <1>3, <2>1, <3>1
    <3>2. CASE i # n
      <4>1. i \in 0 .. n - 1 /\ g[i] = f[i]
        BY <2>1, <3>2
      <4>2. f[i] = IF i = 0 THEN <<quads, 0>> ELSE Then(f[i - 1], ops[i])
        BY <2>2, <4>1 DEF IsStages
      <4>3. i # 0 => g[i - 1] = f[i - 1]
        BY <2>1, <3>2
      <4>4. QED
        BY <4>1, <4>2, <4>3
    <3>3. QED
      BY <3>1, <3>2
  <2>4. IsStages(g, ops, quads, n)
    BY <2>3 DEF IsStages
  <2>5. QED
    BY <2>4
<1>4. QED
  BY <1>2, <1>3

(* The first stage is the store a request began with, and each operation   *)
(* leads from one stage to the next.                                       *)
LEMMA StagesUnfold ==
  ASSUME NEW S, NEW ops \in Seq(S), NEW quads
  PROVE  /\ Stages(ops, quads)[0] = <<quads, 0>>
         /\ \A i \in 1 .. Len(ops) :
              Stages(ops, quads)[i] = Then(Stages(ops, quads)[i - 1], ops[i])
<1>1. \E f : IsStages(f, ops, quads, Len(ops))
  <2>1. Len(ops) \in Nat
    OBVIOUS
  <2>2. QED
    BY <2>1, StagesExist
<1>2. Stages(ops, quads) = CHOOSE f : IsStages(f, ops, quads, Len(ops))
  BY DEF Stages, IsStages
<1>3. IsStages(Stages(ops, quads), ops, quads, Len(ops))
  BY <1>1, <1>2
<1>4. ASSUME NEW f, IsStages(f, ops, quads, Len(ops))
      PROVE  /\ f[0] = <<quads, 0>>
             /\ \A i \in 1 .. Len(ops) : f[i] = Then(f[i - 1], ops[i])
  <2>1. Len(ops) \in Nat
    OBVIOUS
  <2>2. \A i \in 0 .. Len(ops) : f[i] = IF i = 0 THEN <<quads, 0>> ELSE Then(f[i - 1], ops[i])
    BY <1>4 DEF IsStages
  <2>3. QED
    BY <2>1, <2>2
<1>5. QED
  BY <1>3, <1>4

(* Two sequences with the same first m operations share their first m      *)
(* stages.                                                                 *)
LEMMA StagesAgree ==
  ASSUME NEW S, NEW ops \in Seq(S), NEW more \in Seq(S), NEW quads,
         NEW m \in 0 .. Len(ops), m <= Len(more),
         \A i \in 1 .. m : ops[i] = more[i]
  PROVE  Stages(ops, quads)[m] = Stages(more, quads)[m]
<1> DEFINE Bad == {n \in 0 .. m : Stages(ops, quads)[n] # Stages(more, quads)[n]}
<1> SUFFICES ASSUME Bad # {}
             PROVE  FALSE
  OBVIOUS
<1>1. PICK n \in Bad : \A k \in Bad : n <= k
  <2>1. Bad \in SUBSET Nat
    OBVIOUS
  <2> HIDE DEF Bad
  <2>2. QED
    BY <2>1, LeastNatural
<1>2. n # 0
  <2>1. Stages(ops, quads)[0] = <<quads, 0>> /\ Stages(more, quads)[0] = <<quads, 0>>
    BY StagesUnfold
  <2>2. QED
    BY <1>1, <2>1
<1>3. n - 1 \in 0 .. m /\ n - 1 \notin Bad
  BY <1>1, <1>2
<1>4. /\ Stages(ops, quads)[n] = Then(Stages(ops, quads)[n - 1], ops[n])
      /\ Stages(more, quads)[n] = Then(Stages(more, quads)[n - 1], more[n])
  BY <1>1, <1>2, StagesUnfold
<1>5. QED
  BY <1>1, <1>2, <1>3, <1>4

-----------------------------------------------------------------------------
(* Where each step stands in its operation.                                *)

Templated(op) == op.kind \in {"insertdelete", "deletewhere"}

LEMMA TemplatePlaces ==
  ASSUME NEW op \in Ops, Templated(op), NEW k \in DOMAIN Steps(op)
  PROVE  /\ Len(op.del) \in Nat /\ DOMAIN op.del = 1 .. Len(op.del)
         /\ Len(Steps(op)) = 2 * Len(op.del) + (IF op.kind = "insertdelete" THEN 2 ELSE 1)
         /\ k \in 1 .. Len(Steps(op))
         /\ Steps(op)[k] = IF k = 2 * Len(op.del) + 2 THEN "instantiate"
                           ELSE IF k = 1 THEN "where"
                           ELSE IF k % 2 = 0 THEN "scan" ELSE "removeMatched"
<1>1. Len(op.del) \in Nat /\ DOMAIN op.del = 1 .. Len(op.del)
  BY DEF Ops, Records
<1>2. /\ Len(TemplateSteps(op)) = 2 * Len(op.del) + 1
      /\ \A i \in 1 .. 2 * Len(op.del) + 1 :
           TemplateSteps(op)[i] =
             IF i = 1 THEN "where" ELSE IF i % 2 = 0 THEN "scan" ELSE "removeMatched"
  BY <1>1 DEF TemplateSteps
<1>3. Steps(op) = IF op.kind = "insertdelete" THEN Append(TemplateSteps(op), "instantiate")
                  ELSE TemplateSteps(op)
  BY DEF Steps, Templated
<1>4. TemplateSteps(op) \in Seq(TemplateNames)
  BY TemplateStepsType
<1>5. /\ Len(Steps(op)) = 2 * Len(op.del) + (IF op.kind = "insertdelete" THEN 2 ELSE 1)
      /\ DOMAIN Steps(op) = 1 .. Len(Steps(op))
  <2>1. CASE op.kind = "insertdelete"
    <3>1. Steps(op) = Append(TemplateSteps(op), "instantiate")
      BY <1>3, <2>1
    <3>2. DOMAIN Steps(op) = 1 .. Len(TemplateSteps(op)) + 1
      BY <3>1, TemplateLen
    <3>3. Len(Steps(op)) = Len(TemplateSteps(op)) + 1
      BY <1>4, <3>1 DEF TemplateNames
    <3>4. QED
      BY <1>1, <1>2, <2>1, <3>2, <3>3
  <2>2. CASE op.kind # "insertdelete"
    BY <1>1, <1>2, <1>3, <2>2, TemplateLen
  <2>3. QED
    BY <2>1, <2>2
<1>9. /\ op.kind = "insertdelete" => Len(Steps(op)) = 2 * Len(op.del) + 2
      /\ op.kind # "insertdelete" => Len(Steps(op)) = 2 * Len(op.del) + 1
      /\ k \in 1 .. Len(Steps(op))
  BY <1>1, <1>5
<1>6. CASE k = 2 * Len(op.del) + 2
  <2>1. op.kind = "insertdelete"
    BY <1>1, <1>9, <1>6
  <2>2. k = Len(TemplateSteps(op)) + 1
    BY <1>1, <1>2, <1>6
  <2>3. Steps(op)[k] = "instantiate"
    BY <1>3, <2>1, <2>2, TemplateLen
  <2>4. QED
    BY <1>1, <1>5, <1>6, <2>3
<1>7. CASE k # 2 * Len(op.del) + 2
  <2>1. k \in 1 .. 2 * Len(op.del) + 1
    BY <1>1, <1>9, <1>7
  <2>2. Steps(op)[k] = TemplateSteps(op)[k]
    BY <1>2, <1>3, <2>1, TemplateLen
  <2>3. QED
    BY <1>1, <1>2, <1>5, <1>7, <2>1, <2>2
<1>8. QED
  BY <1>6, <1>7

LEMMA PlainPlaces ==
  ASSUME NEW op \in Ops, ~Templated(op), NEW k \in DOMAIN Steps(op)
  PROVE  LET s == Steps(op)[k]
             n == Len(Steps(op)) IN
         /\ k \in 1 .. n
         /\ s = "addData" => op.kind = "insert" /\ k = n /\ k = 1
         /\ s = "removeData" => op.kind = "delete" /\ k = n /\ k = 1
         /\ s = "fetchSource" => op.kind \in {"add", "copy", "move"} /\ k < n /\ k = 1
         /\ s = "fetchTarget" =>
              k < n /\ ((op.kind = "clear" /\ k = 1) \/ (op.kind \in {"copy", "move"} /\ k = 2))
         /\ s = "removeTarget" =>
              \/ op.kind = "clear" /\ k = n /\ k = 2
              \/ op.kind \in {"copy", "move"} /\ k < n /\ k = 3
              \/ op.kind = "move" /\ op.from # {op.to} /\ k = n /\ k = 5
         /\ s = "addSource" =>
              k = n /\ ((op.kind = "add" /\ k = 2) \/ (op.kind = "copy" /\ k = 4))
         /\ s = "addSourceRefetch" => op.kind = "move" /\ op.from # {op.to} /\ k < n /\ k = 4
         /\ s = "skip" => k = n /\ k = 1
              /\ (op.kind = "create" \/ (op.kind = "move" /\ op.from = {op.to}))
         /\ s = "unsupported" => k = 1
         /\ s \in {"request", "document"} => op.kind = "load"
         /\ s \notin {"where", "scan", "removeMatched", "instantiate"}
<1>1. op.kind \in Kinds
  BY DEF Ops, Records
<1>2. CASE op.kind \in {"insert", "delete", "create", "unsupported"}
  <2>1. Steps(op) \in {<<"addData">>, <<"removeData">>, <<"skip">>, <<"unsupported">>}
    BY <1>2 DEF Steps
  <2>2. k = 1 /\ Len(Steps(op)) = 1
    BY <2>1
  <2>3. QED
    BY <1>2, <2>2 DEF Steps
<1>3. CASE op.kind \in {"clear", "add", "load"}
  <2>1. /\ op.kind = "clear" => Steps(op) = <<"fetchTarget", "removeTarget">>
        /\ op.kind = "add" => Steps(op) = <<"fetchSource", "addSource">>
        /\ op.kind = "load" => Steps(op) = <<"request", "document">>
    BY DEF Steps
  <2>2. Len(Steps(op)) = 2 /\ k \in 1 .. 2
    BY <1>3, <2>1
  <2>3. QED
    BY <1>3, <2>1, <2>2
<1>7. CASE op.kind = "copy"
  <2>1. Steps(op) = <<"fetchSource", "fetchTarget", "removeTarget", "addSource">>
    BY <1>7 DEF Steps
  <2>2. Len(Steps(op)) = 4 /\ k \in 1 .. 4
    BY <2>1
  <2>3. /\ Steps(op)[1] = "fetchSource" /\ Steps(op)[2] = "fetchTarget"
        /\ Steps(op)[3] = "removeTarget" /\ Steps(op)[4] = "addSource"
    BY <2>1
  <2>4. QED
    BY <1>7, <2>2, <2>3
<1>4. CASE op.kind = "move" /\ op.from = {op.to}
  BY <1>1, <1>4 DEF Steps
<1>5. CASE op.kind = "move" /\ op.from # {op.to}
  BY <1>1, <1>5 DEF Steps
<1>6. QED
  BY <1>1, <1>2, <1>3, <1>7, <1>4, <1>5 DEF Kinds, Templated

-----------------------------------------------------------------------------
(* Half-way through an operation: what the store holds, and what has been  *)
(* fetched, before step k of an operation that began on the quads s0.      *)

Matched(op, quads) == BoundTerms(OfGraphs(quads, op.from))

(* The first k DELETE templates instantiated.                              *)
Cut(op, quads, k) ==
  {q \in quads : ~(q.graph \in {op.del[i] : i \in 1 .. k} /\ q.term \in Matched(op, quads))}

Halfway(op, k, s0, quads, src, tgt, bindings) ==
  /\ k = 1 => quads = s0
  /\ k # 1 /\ op.kind = "clear" => quads = s0 /\ tgt = OfGraphs(s0, op.from)
  /\ k # 1 /\ op.kind = "add" => quads = s0 /\ src = OfGraphs(s0, op.from)
  /\ k # 1 /\ op.kind \in {"copy", "move"} =>
       /\ src = OfGraphs(s0, op.from)
       /\ k \in {2, 3} => quads = s0
       /\ k = 3 => tgt = OfGraphs(s0, {op.to})
       /\ k = 4 => quads = s0 \ OfGraphs(s0, {op.to})
       /\ k = 5 => /\ quads = (s0 \ OfGraphs(s0, {op.to})) \cup Into(src, op.to)
                   /\ tgt = OfGraphs(quads, op.from)
  /\ k # 1 /\ Templated(op) =>
       /\ bindings = OfGraphs(s0, op.from)
       /\ quads = Cut(op, s0, (k - 2) \div 2)
       /\ k % 2 = 1 => tgt = IF bindings = {} THEN {} ELSE OfGraphs(quads, {op.del[k \div 2]})

(* What a request has done so far is what its operations before this one   *)
(* mean, and half of this one.                                             *)
Underway(r) ==
  LET now == Stages(script[r], base)[at[r] - 1] IN
  /\ at[r] \in 1 .. Len(script[r]) + 1
  /\ nextLabel = now[2]
  /\ IF at[r] <= Len(script[r])
     THEN Halfway(Op(r), step[r], now[1], store, source[r], target[r], rows[r])
     ELSE store = now[1]

Untouched(r) ==
  /\ store = base /\ nextLabel = 0
  /\ at[r] = 1 /\ step[r] = 1 /\ client[r] = "none"

MeaningInv(r) ==
  /\ phase[r] \in {"idle", "run", "done"}
  /\ phase[r] = "idle" => Untouched(r)
  /\ phase[r] = "run" => Underway(r)
  /\ Succeeded(r) => phase[r] = "done" /\ store = Meaning(script[r], base)

-----------------------------------------------------------------------------
(* Each step of an operation leads half-way to the next step, and the last *)
(* one to the operation's effect.                                          *)

Leads(op, k, s0, n, quads, src, tgt, bindings, count) ==
  IF k < Len(Steps(op))
  THEN Halfway(op, k + 1, s0, quads, src, tgt, bindings) /\ count = n
  ELSE quads = Effect(op, s0, n) /\ count = n + Labels(op, s0)

LEMMA NoLabels ==
  ASSUME NEW op \in Ops, NEW quads, NEW n \in Nat,
         op.kind \notin {"insert", "insertdelete", "load"}
  PROVE  n = n + Labels(op, quads)
<1>1. op.fresh = {}
  BY DEF Ops
<1>2. QED
  BY <1>1 DEF Labels

LEMMA DataLeads ==
  ASSUME NEW op \in Ops, NEW k \in DOMAIN Steps(op), NEW s0, NEW n \in Nat,
         NEW quads, NEW src, NEW tgt, NEW bindings,
         Halfway(op, k, s0, quads, src, tgt, bindings)
  PROVE  /\ Steps(op)[k] = "addData" =>
              Leads(op, k, s0, n, quads \cup (op.quads \cup {Minted(n, g) : g \in op.fresh}),
                    src, tgt, bindings, IF op.fresh = {} THEN n ELSE n + 1)
         /\ Steps(op)[k] = "removeData" =>
              Leads(op, k, s0, n, quads \ op.quads, src, tgt, bindings, n)
         /\ Steps(op)[k] = "skip" => Leads(op, k, s0, n, quads, src, tgt, bindings, n)
<1> SUFFICES ASSUME Steps(op)[k] \in {"addData", "removeData", "skip"}
             PROVE  /\ Steps(op)[k] = "addData" =>
                         Leads(op, k, s0, n,
                               quads \cup (op.quads \cup {Minted(n, g) : g \in op.fresh}),
                               src, tgt, bindings, IF op.fresh = {} THEN n ELSE n + 1)
                    /\ Steps(op)[k] = "removeData" =>
                         Leads(op, k, s0, n, quads \ op.quads, src, tgt, bindings, n)
                    /\ Steps(op)[k] = "skip" => Leads(op, k, s0, n, quads, src, tgt, bindings, n)
  OBVIOUS
<1>1. ~Templated(op)
  BY TemplatePlaces
<1>2. k = Len(Steps(op)) /\ k = 1
  BY <1>1, PlainPlaces
<1>3. quads = s0
  BY <1>2 DEF Halfway
<1>4. CASE Steps(op)[k] = "addData"
  <2>1. op.kind = "insert"
    BY <1>1, <1>4, PlainPlaces
  <2>2. Effect(op, s0, n) = s0 \cup op.quads \cup {Minted(n, g) : g \in op.fresh}
    BY <2>1 DEF Effect
  <2>3. Labels(op, s0) = IF op.fresh = {} THEN 0 ELSE 1
    BY <2>1 DEF Labels
  <2>4. QED
    BY <1>2, <1>3, <1>4, <2>2, <2>3 DEF Leads
<1>5. CASE Steps(op)[k] = "removeData"
  <2>1. op.kind = "delete"
    BY <1>1, <1>5, PlainPlaces
  <2>2. Effect(op, s0, n) = s0 \ op.quads
    BY <2>1 DEF Effect
  <2>3. n = n + Labels(op, s0)
    BY <2>1, NoLabels
  <2>4. QED
    BY <1>2, <1>3, <1>5, <2>2, <2>3 DEF Leads
<1>6. CASE Steps(op)[k] = "skip"
  <2>1. op.kind = "create" \/ (op.kind = "move" /\ op.from = {op.to})
    BY <1>1, <1>6, PlainPlaces
  <2>2. Effect(op, s0, n) = s0
    BY <2>1 DEF Effect
  <2>3. n = n + Labels(op, s0)
    BY <2>1, NoLabels
  <2>4. QED
    BY <1>2, <1>3, <1>6, <2>2, <2>3 DEF Leads
<1>7. QED
  BY <1>4, <1>5, <1>6

LEMMA FetchLeads ==
  ASSUME NEW op \in Ops, NEW k \in DOMAIN Steps(op), NEW s0, NEW n,
         NEW quads, NEW src, NEW tgt, NEW bindings,
         Halfway(op, k, s0, quads, src, tgt, bindings)
  PROVE  /\ Steps(op)[k] = "fetchSource" =>
              Leads(op, k, s0, n, quads, OfGraphs(quads, op.from), tgt, bindings, n)
         /\ Steps(op)[k] = "fetchTarget" =>
              Leads(op, k, s0, n, quads, src, OfGraphs(quads, Cleared(op)), bindings, n)
<1>1. ASSUME Steps(op)[k] = "fetchSource"
      PROVE  Leads(op, k, s0, n, quads, OfGraphs(quads, op.from), tgt, bindings, n)
  <2>1. ~Templated(op)
    BY <1>1, TemplatePlaces
  <2>2. op.kind \in {"add", "copy", "move"} /\ k < Len(Steps(op)) /\ k = 1
    BY <1>1, <2>1, PlainPlaces
  <2>3. quads = s0
    BY <2>2 DEF Halfway
  <2>4. QED
    BY <2>1, <2>2, <2>3 DEF Leads, Halfway
<1>2. ASSUME Steps(op)[k] = "fetchTarget"
      PROVE  Leads(op, k, s0, n, quads, src, OfGraphs(quads, Cleared(op)), bindings, n)
  <2>1. ~Templated(op)
    BY <1>2, TemplatePlaces
  <2>2. k < Len(Steps(op))
    BY <1>2, <2>1, PlainPlaces
  <2>3. CASE op.kind = "clear" /\ k = 1
    BY <2>1, <2>2, <2>3 DEF Leads, Halfway, Cleared
  <2>4. CASE op.kind \in {"copy", "move"} /\ k = 2
    BY <2>1, <2>2, <2>4 DEF Leads, Halfway, Cleared
  <2>5. QED
    BY <1>2, <2>1, <2>3, <2>4, PlainPlaces
<1>3. QED
  BY <1>1, <1>2

LEMMA RemoveLeads ==
  ASSUME NEW op \in Ops, NEW k \in DOMAIN Steps(op), NEW s0, NEW n \in Nat,
         NEW quads, NEW src, NEW tgt, NEW bindings,
         Halfway(op, k, s0, quads, src, tgt, bindings), Steps(op)[k] = "removeTarget"
  PROVE  Leads(op, k, s0, n, quads \ tgt, src, tgt, bindings, n)
<1>1. ~Templated(op)
  BY TemplatePlaces
<1>2. CASE op.kind = "clear" /\ k = Len(Steps(op)) /\ k = 2
  <2>1. quads \ tgt = Effect(op, s0, n)
    BY <1>2 DEF Halfway, Effect
  <2>2. n = n + Labels(op, s0)
    BY <1>2, NoLabels
  <2>3. QED
    BY <1>2, <2>1, <2>2 DEF Leads
<1>3. CASE op.kind \in {"copy", "move"} /\ k < Len(Steps(op)) /\ k = 3
  <2>1. quads = s0 /\ tgt = OfGraphs(s0, {op.to}) /\ src = OfGraphs(s0, op.from)
    BY <1>3 DEF Halfway
  <2>2. k + 1 = 4 /\ op.kind # "clear" /\ op.kind # "add"
    BY <1>3
  <2>3. Halfway(op, k + 1, s0, quads \ tgt, src, tgt, bindings)
    BY <1>1, <2>1, <2>2 DEF Halfway
  <2>4. QED
    BY <1>3, <2>3 DEF Leads
<1>4. CASE op.kind = "move" /\ op.from # {op.to} /\ k = Len(Steps(op)) /\ k = 5
  <2>1. PICK g \in Graphs : op.from = {g}
    BY <1>4 DEF Ops
  <2>2. op.to # g
    BY <1>4, <2>1
  <2>3. /\ src = OfGraphs(s0, {g})
        /\ quads = (s0 \ OfGraphs(s0, {op.to})) \cup Into(src, op.to)
        /\ tgt = OfGraphs(quads, {g})
    BY <1>4, <2>1 DEF Halfway
  <2>4. quads \ tgt = ((s0 \ OfGraphs(s0, {op.to})) \ OfGraphs(s0, {g})) \cup Into(src, op.to)
    <3>1. \A q \in Into(src, op.to) : q.graph # g
      BY <2>2 DEF Into
    <3>2. QED
      BY <2>3, <3>1 DEF OfGraphs
  <2>5. Effect(op, s0, n)
          = ((s0 \ OfGraphs(s0, {op.to})) \ OfGraphs(s0, {g})) \cup Into(src, op.to)
    BY <1>4, <2>1, <2>3 DEF Effect
  <2>6. n = n + Labels(op, s0)
    BY <1>4, NoLabels
  <2>7. ~(k < Len(Steps(op)))
    BY <1>4
  <2>8. quads \ tgt = Effect(op, s0, n)
    BY <2>4, <2>5
  <2>9. QED
    BY <2>6, <2>7, <2>8 DEF Leads
<1>5. QED
  BY <1>1, <1>2, <1>3, <1>4, PlainPlaces

LEMMA CopyLeads ==
  ASSUME NEW op \in Ops, NEW k \in DOMAIN Steps(op), NEW s0, NEW n \in Nat,
         NEW quads, NEW src, NEW tgt, NEW bindings,
         Halfway(op, k, s0, quads, src, tgt, bindings)
  PROVE  LET copied == quads \cup Into(src, op.to) IN
         /\ Steps(op)[k] = "addSource" => Leads(op, k, s0, n, copied, src, tgt, bindings, n)
         /\ Steps(op)[k] = "addSourceRefetch" =>
              Leads(op, k, s0, n, copied, src, OfGraphs(copied, op.from), bindings, n)
<1> DEFINE copied == quads \cup Into(src, op.to)
<1>1. ASSUME Steps(op)[k] = "addSource"
      PROVE  Leads(op, k, s0, n, copied, src, tgt, bindings, n)
  <2>1. ~Templated(op)
    BY <1>1, TemplatePlaces
  <2>2. /\ k = Len(Steps(op))
        /\ (op.kind = "add" /\ k = 2) \/ (op.kind = "copy" /\ k = 4)
    BY <1>1, <2>1, PlainPlaces
  <2>3. copied = Effect(op, s0, n)
    <3>1. CASE op.kind = "add" /\ k = 2
      BY <3>1 DEF Halfway, Effect
    <3>2. CASE op.kind = "copy" /\ k = 4
      BY <3>2 DEF Halfway, Effect
    <3>3. QED
      BY <2>2, <3>1, <3>2
  <2>4. n = n + Labels(op, s0)
    BY <2>2, NoLabels
  <2>5. QED
    BY <2>2, <2>3, <2>4 DEF Leads
<1>2. ASSUME Steps(op)[k] = "addSourceRefetch"
      PROVE  Leads(op, k, s0, n, copied, src, OfGraphs(copied, op.from), bindings, n)
  <2>1. ~Templated(op)
    BY <1>2, TemplatePlaces
  <2>2. op.kind = "move" /\ k < Len(Steps(op)) /\ k = 4
    BY <1>2, <2>1, PlainPlaces
  <2>3. src = OfGraphs(s0, op.from) /\ quads = s0 \ OfGraphs(s0, {op.to})
    <3>1. k # 1 /\ k = 4 /\ op.kind \in {"copy", "move"}
      BY <2>2
    <3>2. QED
      BY <3>1 DEF Halfway
  <2>4. QED
    BY <2>1, <2>2, <2>3 DEF Leads, Halfway
<1>3. QED
  BY <1>1, <1>2

(* DELETE templates, one after the other.                                  *)
LEMMA CutSteps ==
  ASSUME NEW op \in Ops, NEW quads
  PROVE  /\ Cut(op, quads, 0) = {q \in quads : TRUE}
         /\ Cut(op, quads, Len(op.del)) =
              {q \in quads : ~(q.graph \in ToSet(op.del) /\ q.term \in Matched(op, quads))}
         /\ \A j \in 1 .. Len(op.del) :
              Cut(op, quads, j) =
                Cut(op, quads, j - 1)
                  \ {q \in (IF OfGraphs(quads, op.from) = {} THEN {}
                            ELSE OfGraphs(Cut(op, quads, j - 1), {op.del[j]})) :
                       q.term \in Matched(op, quads)}
<1>1. Len(op.del) \in Nat /\ DOMAIN op.del = 1 .. Len(op.del)
  BY DEF Ops, Records
<1>2. Cut(op, quads, 0) = {q \in quads : TRUE}
  BY DEF Cut
<1>3. ToSet(op.del) = {op.del[i] : i \in 1 .. Len(op.del)}
  BY <1>1 DEF ToSet
<1>4. ASSUME NEW j \in 1 .. Len(op.del)
      PROVE  Cut(op, quads, j) =
               Cut(op, quads, j - 1)
                 \ {q \in (IF OfGraphs(quads, op.from) = {} THEN {}
                           ELSE OfGraphs(Cut(op, quads, j - 1), {op.del[j]})) :
                      q.term \in Matched(op, quads)}
  <2> DEFINE B == OfGraphs(quads, op.from)
             M == Matched(op, quads)
             Before == {op.del[i] : i \in 1 .. j - 1}
  <2>1. {op.del[i] : i \in 1 .. j} = Before \cup {op.del[j]}
    <3>1. 1 .. j = (1 .. j - 1) \cup {j}
      BY <1>1
    <3>2. QED
      BY <3>1
  <2>2. Cut(op, quads, j) = {q \in quads : ~(q.graph \in Before \cup {op.del[j]} /\ q.term \in M)}
    BY <2>1 DEF Cut
  <2>3. Cut(op, quads, j - 1) = {q \in quads : ~(q.graph \in Before /\ q.term \in M)}
    BY DEF Cut
  <2>4. B = {} => M = {}
    BY DEF Matched, BoundTerms
  <2> HIDE DEF B, M, Before
  <2>5. Cut(op, quads, j) =
          Cut(op, quads, j - 1)
            \ {q \in (IF B = {} THEN {} ELSE OfGraphs(Cut(op, quads, j - 1), {op.del[j]})) :
                 q.term \in M}
    BY <2>2, <2>3, <2>4 DEF OfGraphs
  <2>6. QED
    BY <2>5 DEF B, M
<1>5. QED
  BY <1>2, <1>3, <1>4 DEF Cut

LEMMA HalfwayTemplates ==
  ASSUME NEW op, Templated(op), NEW k, k # 1, NEW j, (k - 2) \div 2 = j, NEW s0,
         NEW quads, NEW src, NEW tgt, NEW bindings,
         bindings = OfGraphs(s0, op.from), quads = Cut(op, s0, j),
         k % 2 = 1 => tgt = IF bindings = {} THEN {} ELSE OfGraphs(quads, {op.del[k \div 2]})
  PROVE  Halfway(op, k, s0, quads, src, tgt, bindings)
<1>1. op.kind # "clear" /\ op.kind # "add" /\ op.kind \notin {"copy", "move"}
  BY DEF Templated
<1>2. QED
  BY <1>1 DEF Halfway

(* What a removal of the matched quads leaves. *)
Unmatched(quads, tgt, bindings) == quads \ {q \in tgt : q.term \in BoundTerms(bindings)}

LEMMA TemplateLeads ==
  ASSUME NEW op \in Ops, NEW k \in DOMAIN Steps(op), NEW s0, NEW n \in Nat,
         NEW quads \in SUBSET Quads, NEW src, NEW tgt, NEW bindings,
         Halfway(op, k, s0, quads, src, tgt, bindings)
  PROVE  /\ Steps(op)[k] = "where" =>
              Leads(op, k, s0, n, quads, src, tgt, OfGraphs(quads, op.from), n)
         /\ Steps(op)[k] = "scan" =>
              Leads(op, k, s0, n, quads, src,
                    IF bindings = {} THEN {} ELSE OfGraphs(quads, {op.del[k \div 2]}), bindings, n)
         /\ Steps(op)[k] = "removeMatched" =>
              Leads(op, k, s0, n, Unmatched(quads, tgt, bindings), src, tgt, bindings, n)
<1> DEFINE L == Len(op.del)
           m == Len(Steps(op))
<1>0. ASSUME Templated(op)
      PROVE  /\ L \in Nat /\ k \in 1 .. m
             /\ op.kind = "insertdelete" => m = 2 * L + 2
             /\ op.kind # "insertdelete" => m = 2 * L + 1
             /\ Steps(op)[k] = IF k = 2 * L + 2 THEN "instantiate"
                               ELSE IF k = 1 THEN "where"
                               ELSE IF k % 2 = 0 THEN "scan" ELSE "removeMatched"
  BY <1>0, TemplatePlaces
<1> HIDE DEF L, m
(* DELETE WHERE has only its templates. *)
<1>1. ASSUME Templated(op), op.kind # "insertdelete"
      PROVE  /\ Effect(op, s0, n) = Cut(op, s0, L)
             /\ n = n + Labels(op, s0)
  <2>1. op.kind = "deletewhere" /\ op.to = None
    BY <1>1 DEF Templated, Ops
  <2>2. Effect(op, s0, n) = {q \in s0 : ~(q.graph \in ToSet(op.del) /\ q.term \in Matched(op, s0))}
    BY <2>1 DEF Effect, Matched, BoundTerms
  <2>3. n = n + Labels(op, s0)
    BY <2>1, NoLabels
  <2>4. QED
    BY <2>2, <2>3, CutSteps DEF L
<1>2. ASSUME Steps(op)[k] = "where"
      PROVE  Leads(op, k, s0, n, quads, src, tgt, OfGraphs(quads, op.from), n)
  <2>1. Templated(op)
    BY <1>2, PlainPlaces
  <2>2. k = 1
    BY <1>0, <1>2, <2>1
  <2>3. quads = s0 /\ Cut(op, s0, 0) = quads
    <3>1. quads = s0
      BY <2>2 DEF Halfway
    <3>2. {q \in quads : TRUE} = quads
      OBVIOUS
    <3>3. QED
      BY <3>1, <3>2, CutSteps
  <2>4. CASE k < m
    <3>1. Halfway(op, 2, s0, quads, src, tgt, OfGraphs(quads, op.from))
      <4>1. (2 - 2) \div 2 = 0 /\ 2 % 2 # 1 /\ 2 # 1
        OBVIOUS
      <4>2. QED
        BY <2>1, <2>3, <4>1, HalfwayTemplates
    <3>2. QED
      BY <2>2, <2>4, <3>1 DEF Leads, m
  <2>5. CASE ~(k < m)
    <3>1. op.kind # "insertdelete" /\ L = 0
      BY <1>0, <2>1, <2>2, <2>5
    <3>2. QED
      BY <1>1, <2>1, <2>3, <2>5, <3>1 DEF Leads, m
  <2>6. QED
    BY <2>4, <2>5
<1>3. ASSUME Steps(op)[k] = "scan"
      PROVE  Leads(op, k, s0, n, quads, src,
                   IF bindings = {} THEN {} ELSE OfGraphs(quads, {op.del[k \div 2]}), bindings, n)
  <2>1. Templated(op)
    BY <1>3, PlainPlaces
  <2>2. k # 1 /\ k % 2 = 0 /\ k # 2 * L + 2 /\ k \in Nat \ {0}
    BY <1>0, <1>3, <2>1
  <2>3. PICK j \in Nat \ {0} : k = 2 * j
    BY <2>2
  <2>4. k < m
    BY <1>0, <2>1, <2>2, <2>3
  <2>5. bindings = OfGraphs(s0, op.from) /\ quads = Cut(op, s0, (k - 2) \div 2)
    BY <2>1, <2>2 DEF Halfway
  <2>6. /\ (k - 2) \div 2 = j - 1 /\ k \div 2 = j
        /\ (k + 1 - 2) \div 2 = j - 1 /\ (k + 1) \div 2 = j /\ k + 1 # 1
    BY <2>2, <2>3
  <2>7. quads = Cut(op, s0, j - 1)
    BY <2>5, <2>6
  <2>8. Halfway(op, k + 1, s0, quads, src,
                IF bindings = {} THEN {} ELSE OfGraphs(quads, {op.del[k \div 2]}), bindings)
    <3> DEFINE next == k + 1
               found == IF bindings = {} THEN {} ELSE OfGraphs(quads, {op.del[k \div 2]})
    <3>1. next # 1 /\ (next - 2) \div 2 = j - 1 /\ next \div 2 = k \div 2
      BY <2>2, <2>6
    <3>2. found = IF bindings = {} THEN {} ELSE OfGraphs(quads, {op.del[next \div 2]})
      BY <3>1
    <3> HIDE DEF next, found
    <3>3. Halfway(op, next, s0, quads, src, found, bindings)
      BY <2>1, <2>5, <2>7, <3>1, <3>2, HalfwayTemplates
    <3>4. QED
      BY <3>3 DEF next, found
  <2>9. QED
    BY <2>4, <2>8 DEF Leads, m
<1>4. ASSUME Steps(op)[k] = "removeMatched"
      PROVE  Leads(op, k, s0, n, Unmatched(quads, tgt, bindings), src, tgt, bindings, n)
  <2>1. Templated(op)
    BY <1>4, PlainPlaces
  <2>2. k # 1 /\ k % 2 # 0 /\ k \in 1 .. m /\ k # 2 * L + 2
    BY <1>0, <1>4, <2>1
  <2>3. PICK j \in Nat : k = 2 * j + 1
    BY <2>2
  <2>4. j \in 1 .. L
    BY <1>0, <2>1, <2>2, <2>3
  <2>5. k % 2 = 1 /\ (k - 2) \div 2 = j - 1 /\ k \div 2 = j
        /\ (k + 1 - 2) \div 2 = j /\ (k + 1) % 2 # 1 /\ k + 1 # 1
    BY <2>3, <2>4
  <2>6. /\ bindings = OfGraphs(s0, op.from) /\ quads = Cut(op, s0, j - 1)
        /\ tgt = IF bindings = {} THEN {} ELSE OfGraphs(quads, {op.del[j]})
    BY <2>1, <2>2, <2>5 DEF Halfway
  <2>7. Unmatched(quads, tgt, bindings) = Cut(op, s0, j)
    <3>1. BoundTerms(bindings) = Matched(op, s0)
      BY <2>6 DEF Matched
    <3>2. Cut(op, s0, j) =
            Cut(op, s0, j - 1)
              \ {q \in (IF OfGraphs(s0, op.from) = {} THEN {}
                        ELSE OfGraphs(Cut(op, s0, j - 1), {op.del[j]})) :
                   q.term \in Matched(op, s0)}
      BY <2>4, CutSteps DEF L
    <3>3. Cut(op, s0, j) = quads \ {q \in tgt : q.term \in Matched(op, s0)}
      BY <2>6, <3>2, Zenon
    <3>4. QED
      BY <3>1, <3>3, Zenon DEF Unmatched
  <2>8. CASE k < m
    <3>2. Halfway(op, k + 1, s0, Unmatched(quads, tgt, bindings), src, tgt, bindings)
      <4> DEFINE next == k + 1
                 left == Unmatched(quads, tgt, bindings)
      <4>1. next # 1 /\ (next - 2) \div 2 = j /\ next % 2 # 1 /\ left = Cut(op, s0, j)
        BY <2>3, <2>5, <2>7
      <4> HIDE DEF next, left
      <4>2. Halfway(op, next, s0, left, src, tgt, bindings)
        BY <2>1, <2>6, <4>1, HalfwayTemplates
      <4>3. QED
        BY <4>2 DEF next, left
    <3>3. QED
      BY <2>8, <3>2 DEF Leads, m
  <2>9. CASE ~(k < m)
    <3>1. op.kind # "insertdelete" /\ j = L
      BY <1>0, <2>1, <2>2, <2>3, <2>9
    <3>2. QED
      BY <1>1, <2>1, <2>7, <2>9, <3>1 DEF Leads, m
  <2>10. QED
    BY <2>8, <2>9
<1>5. QED
  BY <1>2, <1>3, <1>4

LEMMA InstantiateLeads ==
  ASSUME NEW op \in Ops, NEW k \in DOMAIN Steps(op), NEW s0, NEW n \in Nat,
         NEW quads, NEW src, NEW tgt, NEW bindings, IsFiniteSet(bindings),
         Halfway(op, k, s0, quads, src, tgt, bindings), Steps(op)[k] = "instantiate"
  PROVE  LET count == IF op.fresh = {} THEN 0 ELSE Cardinality(bindings)
             labels == {i \in n .. n + count : i < n + count} IN
         /\ op.to \in Graphs =>
              Leads(op, k, s0, n,
                    quads \cup ({[term |-> t, graph |-> op.to] : t \in BoundTerms(bindings)}
                                  \cup {Minted(i, op.to) : i \in labels}),
                    src, tgt, bindings, n + count)
         /\ op.to \notin Graphs /\ (op.to = None \/ bindings = {}) =>
              Leads(op, k, s0, n, quads, src, tgt, bindings, n)
<1> DEFINE L == Len(op.del)
           count == IF op.fresh = {} THEN 0 ELSE Cardinality(bindings)
           labels == {i \in n .. n + count : i < n + count}
           adds == {[term |-> t, graph |-> op.to] : t \in BoundTerms(bindings)}
                     \cup {Minted(i, op.to) : i \in labels}
<1>1. Templated(op)
  BY PlainPlaces
<1>2. L \in Nat /\ k = 2 * L + 2 /\ k = Len(Steps(op)) /\ op.kind = "insertdelete"
  <2>1. /\ L \in Nat /\ k \in 1 .. Len(Steps(op))
        /\ k = 2 * L + 2
        /\ Len(Steps(op)) = 2 * L + (IF op.kind = "insertdelete" THEN 2 ELSE 1)
    BY <1>1, TemplatePlaces
  <2> HIDE DEF L
  <2>2. op.kind = "insertdelete"
    BY <2>1
  <2>3. QED
    BY <2>1, <2>2
<1>3. bindings = OfGraphs(s0, op.from) /\ quads = Cut(op, s0, L)
  <2>1. k # 1 /\ (k - 2) \div 2 = L
    <3> HIDE DEF L
    <3>1. QED
      BY <1>2
  <2>2. QED
    BY <1>1, <2>1 DEF Halfway
<1>4. quads = {q \in s0 : ~(q.graph \in ToSet(op.del) /\ q.term \in BoundTerms(bindings))}
  <2>1. BoundTerms(bindings) = Matched(op, s0)
    BY <1>3 DEF Matched
  <2>2. QED
    BY <1>3, <2>1, CutSteps
<1> HIDE DEF L
<1>5. Cardinality(bindings) \in Nat
  BY FS_CardinalityType
<1>6. Labels(op, s0) = count
  BY <1>2, <1>3 DEF Labels
<1>7. Effect(op, s0, n) =
        quads \cup (IF op.to = None THEN {}
                    ELSE {[term |-> t, graph |-> op.to] : t \in BoundTerms(bindings)}
                           \cup (IF op.fresh = {} THEN {}
                                 ELSE {Minted(i, op.to) :
                                         i \in n .. (n + Cardinality(bindings) - 1)}))
  <2>1. op.kind \notin {"insert", "delete", "clear", "add", "copy", "move"}
    BY <1>2
  <2>2. op.kind \in {"deletewhere", "insertdelete"}
    BY <1>2
  <2>3. OfGraphs(s0, op.from) = bindings /\ {b.term : b \in bindings} = BoundTerms(bindings)
    BY <1>3 DEF BoundTerms
  <2>4. QED
    BY <1>4, <2>1, <2>2, <2>3 DEF Effect
<1>8. labels = IF op.fresh = {} THEN {} ELSE n .. (n + Cardinality(bindings) - 1)
  BY <1>5
<1>9. ASSUME op.to \in Graphs
      PROVE  Leads(op, k, s0, n, quads \cup adds, src, tgt, bindings, n + count)
  <2>1. op.to # None
    BY <1>9, GraphAssumption
  <2>2. Effect(op, s0, n) = quads \cup adds
    <3>1. {Minted(i, op.to) : i \in labels} =
            IF op.fresh = {} THEN {}
            ELSE {Minted(i, op.to) : i \in n .. (n + Cardinality(bindings) - 1)}
      <4> HIDE DEF labels
      <4>1. CASE op.fresh = {}
        BY <1>8, <4>1
      <4>2. CASE op.fresh # {}
        <5>1. labels = n .. (n + Cardinality(bindings) - 1)
          BY <1>8, <4>2
        <5>2. QED
          BY <4>2, <5>1
      <4>3. QED
        BY <4>1, <4>2
    <3> HIDE DEF labels
    <3>2. QED
      BY <1>7, <2>1, <3>1
  <2>3. QED
    <3> HIDE DEF adds, count
    <3>1. QED
      BY <1>2, <1>6, <2>2 DEF Leads
<1>10. ASSUME op.to \notin Graphs, op.to = None \/ bindings = {}
       PROVE  Leads(op, k, s0, n, quads, src, tgt, bindings, n)
  <2>1. Effect(op, s0, n) = quads
    <3>1. CASE op.to = None
      BY <1>7, <3>1
    <3>2. CASE bindings = {}
      <4>1. Cardinality(bindings) = 0
        BY <3>2, FS_EmptySet
      <4>2. n .. (n + Cardinality(bindings) - 1) = {}
        BY <4>1
      <4>3. {Minted(i, op.to) : i \in n .. (n + Cardinality(bindings) - 1)} = {}
        BY <4>2
      <4>4. {[term |-> t, graph |-> op.to] : t \in BoundTerms(bindings)} = {}
        BY <3>2 DEF BoundTerms
      <4>5. QED
        BY <1>7, <4>3, <4>4
    <3>3. QED
      BY <1>10, <3>1, <3>2
  <2>2. count = 0
    <3>1. CASE op.to = None
      BY <1>2, <3>1 DEF Ops
    <3>2. CASE bindings = {}
      BY <3>2, FS_EmptySet
    <3>3. QED
      BY <1>10, <3>1, <3>2
  <2>3. n = n + Labels(op, s0)
    BY <1>6, <2>2
  <2>4. QED
    BY <1>2, <2>1, <2>3 DEF Leads
<1>11. QED
  BY <1>9, <1>10

-----------------------------------------------------------------------------
(* One request writing straight to the store.  With several, the meaning   *)
(* is not theirs: they interleave at the awaits.                           *)

DirectOnly(r) ==
  /\ Requests = {r}
  /\ "transaction" \notin Writers
  /\ \A ops \in Scripts : \A i \in DOMAIN ops : ops[i].kind # "load"

Before(r) == Stages(script[r], base)[at[r] - 1]

Now1(r) == Leads(Op(r), step[r], Before(r)[1], Before(r)[2], store', source'[r], target'[r],
                 rows'[r], nextLabel')

LEMMA DirectFacts ==
  ASSUME NEW r, DirectOnly(r), TypeOK
  PROVE  /\ r \in Requests /\ \A x \in Requests : x = r
         /\ ~Transactional
         /\ script[r] \in Seq(Ops)
         /\ \A i \in DOMAIN script[r] : script[r][i].kind # "load"
  BY ScriptAssumption DEF DirectOnly, TypeOK, Transactional

LEMMA ThenParts ==
  ASSUME NEW done, NEW op
  PROVE  /\ Then(done, op)[1] = Effect(op, done[1], done[2])
         /\ Then(done, op)[2] = done[2] + Labels(op, done[1])
  BY DEF Then

(* What is known at a step of an operation.                                *)
LEMMA BusyFacts ==
  ASSUME NEW r, DirectOnly(r), IInv, MeaningInv(r), Busy(r)
  PROVE  /\ Op(r) \in Ops /\ Op(r).kind # "load"
         /\ step[r] \in DOMAIN Steps(Op(r)) /\ step[r] \in Nat
         /\ at[r] \in 1 .. Len(script[r]) /\ Len(script[r]) \in Nat
         /\ nextLabel = Before(r)[2] /\ nextLabel \in Nat
         /\ Halfway(Op(r), step[r], Before(r)[1], store, source[r], target[r], rows[r])
         /\ Stages(script[r], base)[at[r]]
              = <<Effect(Op(r), Before(r)[1], Before(r)[2]),
                  Before(r)[2] + Labels(Op(r), Before(r)[1])>>
         /\ ~Succeeded(r)
<1>1. TypeOK /\ StepInRange
  BY DEF IInv
<1>2. /\ r \in Requests /\ script[r] \in Seq(Ops)
      /\ \A i \in DOMAIN script[r] : script[r][i].kind # "load"
  BY <1>1, DirectFacts
<1>3. at[r] \in 1 .. Len(script[r]) /\ Len(script[r]) \in Nat
  BY <1>1, <1>2 DEF TypeOK, Busy
<1>4. Op(r) \in Ops /\ Op(r).kind # "load"
  BY <1>2, <1>3 DEF Op
<1>5. step[r] \in DOMAIN Steps(Op(r)) /\ step[r] \in Nat /\ nextLabel \in Nat
  BY <1>1, <1>2, <1>3 DEF StepInRange, TypeOK
<1>6. /\ nextLabel = Before(r)[2]
      /\ Halfway(Op(r), step[r], Before(r)[1], store, source[r], target[r], rows[r])
  BY <1>3 DEF MeaningInv, Busy, Underway, Before
<1>7. Stages(script[r], base)[at[r]] = Then(Before(r), Op(r))
  BY <1>2, <1>3, StagesUnfold DEF Before, Op
<1>8. ~Succeeded(r)
  BY DEF MeaningInv, Busy
<1>9. QED
  BY <1>3, <1>4, <1>5, <1>6, <1>7, <1>8 DEF Then

LEMMA AdvanceKeepsMeaning ==
  ASSUME NEW r, DirectOnly(r), IInv, MeaningInv(r), Busy(r), Advance(r), Now1(r),
         UNCHANGED <<control, base>>
  PROVE  MeaningInv(r)'
<1> DEFINE now == Before(r)
<1>1. /\ Op(r) \in Ops /\ step[r] \in DOMAIN Steps(Op(r)) /\ step[r] \in Nat
      /\ at[r] \in 1 .. Len(script[r]) /\ Len(script[r]) \in Nat
      /\ Stages(script[r], base)[at[r]] = <<Effect(Op(r), now[1], now[2]),
                                            now[2] + Labels(Op(r), now[1])>>
      /\ ~Succeeded(r) /\ nextLabel = now[2]
  BY BusyFacts
<1>2. /\ script' = script /\ phase' = phase /\ client' = client /\ base' = base
      /\ phase[r] = "run"
  BY DEF control, Busy
<1>3. /\ r \in Requests
      /\ at \in [Requests -> Nat \ {0}] /\ step \in [Requests -> Nat \ {0}]
  <2>1. TypeOK
    BY DEF IInv
  <2>2. QED
    BY <2>1, DirectFacts DEF TypeOK
<1>4. CASE step[r] < Len(Steps(Op(r)))
  <2>1. at' = at /\ step'[r] = step[r] + 1
    BY <1>3, <1>4 DEF Advance
  <2>2. Op(r)' = Op(r)
    BY <1>2, <2>1 DEF Op
  <2>3. /\ Halfway(Op(r), step[r] + 1, now[1], store', source'[r], target'[r], rows'[r])
        /\ nextLabel' = now[2]
    BY <1>4 DEF Now1, Leads
  <2>4. Underway(r)'
    BY <1>1, <1>2, <2>1, <2>2, <2>3 DEF Underway, Before
  <2>5. QED
    BY <1>1, <1>2, <2>4 DEF MeaningInv, Succeeded
<1>5. CASE ~(step[r] < Len(Steps(Op(r))))
  <2>1. at'[r] = at[r] + 1 /\ step'[r] = 1
    BY <1>3, <1>5 DEF Advance, NextOp
  <2>2. /\ store' = Stages(script[r], base)[at[r]][1]
        /\ nextLabel' = Stages(script[r], base)[at[r]][2]
    BY <1>1, <1>5 DEF Now1, Leads
  <2>3. at'[r] - 1 = at[r] /\ at'[r] \in 1 .. Len(script[r]) + 1
    BY <1>1, <2>1
  <2>4. Underway(r)'
    BY <1>2, <2>1, <2>2, <2>3 DEF Underway, Halfway
  <2>5. QED
    BY <1>1, <1>2, <2>4 DEF MeaningInv, Succeeded
<1>6. QED
  BY <1>4, <1>5

(* A direct sink writes to the store. *)
LEMMA DirectSink ==
  ASSUME NEW r, DirectOnly(r), TypeOK, NEW adds, NEW dels, Sink(r, adds, dels)
  PROVE  store' = (store \ dels) \cup adds
  BY DirectFacts DEF Sink

-----------------------------------------------------------------------------
(* Every action leads half-way on, or ends the request.                    *)

LEMMA DataKeepsMeaning ==
  ASSUME NEW r, DirectOnly(r), IInv, MeaningInv(r), UNCHANGED base,
         AddData(r) \/ RemoveData(r) \/ Skip(r)
  PROVE  MeaningInv(r)'
<1> DEFINE s0 == Before(r)[1]
           n == Before(r)[2]
<1>1. Busy(r) /\ Now(r) = Steps(Op(r))[step[r]] /\ Advance(r) /\ UNCHANGED <<control, locals>>
  BY DEF AddData, RemoveData, Skip, At, Now
<1>2. /\ Op(r) \in Ops /\ step[r] \in DOMAIN Steps(Op(r)) /\ nextLabel = n /\ n \in Nat
      /\ Halfway(Op(r), step[r], s0, store, source[r], target[r], rows[r])
  BY <1>1, BusyFacts
<1>3. TypeOK /\ source' = source /\ target' = target /\ rows' = rows
  BY <1>1 DEF IInv, locals
<1> HIDE DEF s0, n
<1>4. CASE AddData(r)
  <2>1. /\ store' = (store \ {}) \cup (Op(r).quads \cup {Minted(n, g) : g \in Op(r).fresh})
        /\ nextLabel' = IF Op(r).fresh = {} THEN n ELSE n + 1
        /\ Steps(Op(r))[step[r]] = "addData"
    BY <1>1, <1>2, <1>3, <1>4, DirectSink DEF AddData, AddAll, At
  <2>2. store' = store \cup (Op(r).quads \cup {Minted(n, g) : g \in Op(r).fresh})
    BY <2>1
  <2>3. Leads(Op(r), step[r], s0, n,
              store \cup (Op(r).quads \cup {Minted(n, g) : g \in Op(r).fresh}),
              source[r], target[r], rows[r], IF Op(r).fresh = {} THEN n ELSE n + 1)
    BY <1>2, <2>1, DataLeads
  <2>4. Now1(r)
    BY <1>3, <2>1, <2>2, <2>3 DEF Now1, s0, n
  <2>5. QED
    BY <1>1, <2>4, AdvanceKeepsMeaning
<1>5. CASE RemoveData(r)
  <2>1. /\ store' = (store \ Op(r).quads) \cup {}
        /\ nextLabel' = n
        /\ Steps(Op(r))[step[r]] = "removeData"
    BY <1>1, <1>2, <1>3, <1>5, DirectSink DEF RemoveData, RemoveAll, At
  <2>2. store' = store \ Op(r).quads
    BY <2>1
  <2>3. Leads(Op(r), step[r], s0, n, store \ Op(r).quads,
              source[r], target[r], rows[r], n)
    BY <1>2, <2>1, DataLeads
  <2>4. Now1(r)
    BY <1>3, <2>1, <2>2, <2>3 DEF Now1, s0, n
  <2>5. QED
    BY <1>1, <2>4, AdvanceKeepsMeaning
<1>6. CASE Skip(r)
  <2>1. store' = store /\ nextLabel' = n /\ Steps(Op(r))[step[r]] = "skip"
    BY <1>1, <1>2, <1>6 DEF Skip, At
  <2>2. Leads(Op(r), step[r], s0, n, store, source[r], target[r], rows[r], n)
    BY <1>2, <2>1, DataLeads
  <2>3. Now1(r)
    BY <1>3, <2>1, <2>2 DEF Now1, s0, n
  <2>4. QED
    BY <1>1, <2>3, AdvanceKeepsMeaning
<1>7. QED
  BY <1>4, <1>5, <1>6

LEMMA FetchKeepsMeaning ==
  ASSUME NEW r, DirectOnly(r), IInv, MeaningInv(r), UNCHANGED base,
         FetchSource(r) \/ FetchTarget(r) \/ Where(r) \/ ScanTemplate(r)
  PROVE  MeaningInv(r)'
<1> DEFINE s0 == Before(r)[1]
           n == Before(r)[2]
<1>1. /\ Busy(r) /\ Now(r) = Steps(Op(r))[step[r]] /\ Advance(r) /\ UNCHANGED control
      /\ store' = store /\ nextLabel' = nextLabel
  BY DEF FetchSource, FetchTarget, Where, ScanTemplate, At, Now
<1>2. /\ Op(r) \in Ops /\ step[r] \in DOMAIN Steps(Op(r)) /\ nextLabel = n /\ n \in Nat
      /\ Halfway(Op(r), step[r], s0, store, source[r], target[r], rows[r])
  BY <1>1, BusyFacts
<1>3. TypeOK
  BY DEF IInv
<1>4. /\ r \in Requests /\ store \in SUBSET Quads
      /\ source \in [Requests -> SUBSET Quads] /\ target \in [Requests -> SUBSET Quads]
      /\ rows \in [Requests -> SUBSET Quads]
  BY <1>3, DirectFacts DEF TypeOK
<1>5. \A gs : InGraphs(gs) = OfGraphs(store, gs)
  BY DEF InGraphs, OfGraphs
<1> HIDE DEF s0, n
<1>6. CASE FetchSource(r)
  <2>1. /\ source'[r] = OfGraphs(store, Op(r).from) /\ target' = target /\ rows' = rows
        /\ Steps(Op(r))[step[r]] = "fetchSource"
    BY <1>1, <1>4, <1>5, <1>6 DEF FetchSource, At
  <2>2. Now1(r)
    BY <1>1, <1>2, <2>1, FetchLeads DEF Now1, s0, n
  <2>3. QED
    BY <1>1, <2>2, AdvanceKeepsMeaning
<1>7. CASE FetchTarget(r)
  <2>1. /\ target'[r] = OfGraphs(store, Cleared(Op(r))) /\ source' = source /\ rows' = rows
        /\ Steps(Op(r))[step[r]] = "fetchTarget"
    BY <1>1, <1>4, <1>5, <1>7 DEF FetchTarget, At
  <2>2. Now1(r)
    BY <1>1, <1>2, <2>1, FetchLeads DEF Now1, s0, n
  <2>3. QED
    BY <1>1, <2>2, AdvanceKeepsMeaning
<1>8. CASE Where(r)
  <2>1. /\ rows'[r] = OfGraphs(store, Op(r).from)
        /\ source' = source /\ target' = target
        /\ Steps(Op(r))[step[r]] = "where"
    BY <1>1, <1>4, <1>5, <1>8 DEF Where, At
  <2>2. Leads(Op(r), step[r], s0, n, store, source[r], target[r],
              OfGraphs(store, Op(r).from), n)
    BY <1>2, <1>4, <2>1, TemplateLeads
  <2>3. Now1(r)
    BY <1>1, <1>2, <2>1, <2>2 DEF Now1, s0, n
  <2>4. QED
    BY <1>1, <2>3, AdvanceKeepsMeaning
<1>9. CASE ScanTemplate(r)
  <2>1. /\ target'[r] = IF rows[r] = {} THEN {}
                        ELSE OfGraphs(store, {Op(r).del[step[r] \div 2]})
        /\ source' = source /\ rows' = rows
        /\ Steps(Op(r))[step[r]] = "scan"
    BY <1>1, <1>4, <1>5, <1>9 DEF ScanTemplate, At
  <2>2. Leads(Op(r), step[r], s0, n, store, source[r],
              IF rows[r] = {} THEN {} ELSE OfGraphs(store, {Op(r).del[step[r] \div 2]}),
              rows[r], n)
    BY <1>2, <1>4, <2>1, TemplateLeads
  <2>3. Now1(r)
    BY <1>1, <1>2, <2>1, <2>2 DEF Now1, s0, n
  <2>4. QED
    BY <1>1, <2>3, AdvanceKeepsMeaning
<1>10. QED
  BY <1>6, <1>7, <1>8, <1>9

LEMMA WriteKeepsMeaning ==
  ASSUME NEW r, DirectOnly(r), IInv, MeaningInv(r), UNCHANGED base,
         RemoveTarget(r) \/ AddSource(r) \/ AddSourceRefetch(r) \/ RemoveMatched(r)
  PROVE  MeaningInv(r)'
<1> DEFINE s0 == Before(r)[1]
           n == Before(r)[2]
<1>1. /\ Busy(r) /\ Now(r) = Steps(Op(r))[step[r]] /\ Advance(r) /\ UNCHANGED control
      /\ nextLabel' = nextLabel /\ source' = source /\ rows' = rows
  BY DEF RemoveTarget, AddSource, AddSourceRefetch, RemoveMatched, At, Now, locals
<1>2. /\ Op(r) \in Ops /\ step[r] \in DOMAIN Steps(Op(r)) /\ nextLabel = n /\ n \in Nat
      /\ Halfway(Op(r), step[r], s0, store, source[r], target[r], rows[r])
  BY <1>1, BusyFacts
<1>3. TypeOK
  BY DEF IInv
<1>4. /\ r \in Requests /\ store \in SUBSET Quads /\ target \in [Requests -> SUBSET Quads]
  BY <1>3, DirectFacts DEF TypeOK
<1> HIDE DEF s0, n
<1>5. CASE RemoveTarget(r)
  <2>1. store' = (store \ target[r]) \cup {}
    BY <1>3, <1>5, DirectSink DEF RemoveTarget, RemoveAll
  <2>2. store' = store \ target[r] /\ target' = target
        /\ Steps(Op(r))[step[r]] = "removeTarget"
    BY <1>1, <1>5, <2>1 DEF RemoveTarget, At, locals
  <2>3. Now1(r)
    BY <1>1, <1>2, <2>2, RemoveLeads DEF Now1, s0, n
  <2>4. QED
    BY <1>1, <2>3, AdvanceKeepsMeaning
<1>6. CASE AddSource(r)
  <2>1. store' = (store \ {}) \cup Into(source[r], Op(r).to)
    BY <1>3, <1>6, DirectSink DEF AddSource, AddAll
  <2>2. store' = store \cup Into(source[r], Op(r).to) /\ target' = target
        /\ Steps(Op(r))[step[r]] = "addSource"
    BY <1>1, <1>6, <2>1 DEF AddSource, At, locals
  <2>3. Leads(Op(r), step[r], s0, n, store \cup Into(source[r], Op(r).to),
              source[r], target[r], rows[r], n)
    BY <1>2, <2>2, CopyLeads
  <2>4. Now1(r)
    BY <1>1, <1>2, <2>2, <2>3 DEF Now1, s0, n
  <2>5. QED
    BY <1>1, <2>4, AdvanceKeepsMeaning
<1>7. CASE AddSourceRefetch(r)
  <2>1. store' = (store \ {}) \cup Into(source[r], Op(r).to)
    BY <1>3, <1>7, DirectSink DEF AddSourceRefetch, AddAll
  <2>2. /\ store' = store \cup Into(source[r], Op(r).to)
        /\ target'[r] = OfGraphs(store', Op(r).from)
        /\ Steps(Op(r))[step[r]] = "addSourceRefetch"
    BY <1>1, <1>4, <1>7, <2>1 DEF AddSourceRefetch, At, OfGraphs
  <2>3. Leads(Op(r), step[r], s0, n, store \cup Into(source[r], Op(r).to), source[r],
              OfGraphs(store \cup Into(source[r], Op(r).to), Op(r).from), rows[r], n)
    BY <1>2, <2>2, CopyLeads
  <2>4. Now1(r)
    BY <1>1, <1>2, <2>2, <2>3 DEF Now1, s0, n
  <2>5. QED
    BY <1>1, <2>4, AdvanceKeepsMeaning
<1>8. CASE RemoveMatched(r)
  <2>1. store' = (store \ {q \in target[r] : q.term \in BoundTerms(rows[r])}) \cup {}
    BY <1>3, <1>8, DirectSink DEF RemoveMatched, RemoveAll
  <2>2. /\ store' = Unmatched(store, target[r], rows[r]) /\ target' = target
        /\ Steps(Op(r))[step[r]] = "removeMatched"
    BY <1>1, <1>8, <2>1 DEF RemoveMatched, At, locals, Unmatched
  <2>3. Leads(Op(r), step[r], s0, n, Unmatched(store, target[r], rows[r]),
              source[r], target[r], rows[r], n)
    BY <1>2, <1>4, <2>2, TemplateLeads
  <2>4. Now1(r)
    BY <1>1, <1>2, <2>2, <2>3 DEF Now1, s0, n
  <2>5. QED
    BY <1>1, <2>4, AdvanceKeepsMeaning
<1>9. QED
  BY <1>5, <1>6, <1>7, <1>8

LEMMA InstantiateKeepsMeaning ==
  ASSUME NEW r, DirectOnly(r), IInv, MeaningInv(r), UNCHANGED base, Instantiate(r)
  PROVE  MeaningInv(r)'
<1> DEFINE s0 == Before(r)[1]
           n == Before(r)[2]
           count == IF Op(r).fresh = {} THEN 0 ELSE Cardinality(rows[r])
           adds == {[term |-> t, graph |-> Op(r).to] : t \in BoundTerms(rows[r])}
                     \cup {Minted(i, Op(r).to) : i \in {j \in n .. n + count : j < n + count}}
<1>1. /\ Busy(r) /\ Now(r) = Steps(Op(r))[step[r]] /\ Advance(r) /\ UNCHANGED control
      /\ source' = source /\ target' = target /\ rows' = rows
      /\ Steps(Op(r))[step[r]] = "instantiate"
  BY DEF Instantiate, At, Now, locals
<1>2. /\ Op(r) \in Ops /\ step[r] \in DOMAIN Steps(Op(r)) /\ nextLabel = n /\ n \in Nat
      /\ Halfway(Op(r), step[r], s0, store, source[r], target[r], rows[r])
  BY <1>1, BusyFacts
<1>3. TypeOK /\ IsFiniteSet(rows[r])
  BY DirectFacts DEF IInv, FiniteData
<1>4. /\ Op(r).to \in Graphs =>
           Leads(Op(r), step[r], s0, n, store \cup adds, source[r], target[r], rows[r], n + count)
      /\ Op(r).to \notin Graphs /\ (Op(r).to = None \/ rows[r] = {}) =>
           Leads(Op(r), step[r], s0, n, store, source[r], target[r], rows[r], n)
  BY <1>1, <1>2, <1>3, InstantiateLeads
<1>5. /\ Op(r).to = None \/ Op(r).to \in Graphs \/ rows[r] = {}
      /\ IF Op(r).to \in Graphs
         THEN Sink(r, adds, {}) /\ nextLabel' = n + count
         ELSE Sink(r, {}, {}) /\ nextLabel' = n
  BY <1>2 DEF Instantiate, AddAll
<1> HIDE DEF s0, n, count, adds
<1>6. CASE Op(r).to \in Graphs
  <2>1. store' = (store \ {}) \cup adds
    BY <1>3, <1>5, <1>6, DirectSink
  <2>2. store' = store \cup adds /\ nextLabel' = n + count
    BY <1>5, <1>6, <2>1
  <2>3. Now1(r)
    BY <1>1, <1>4, <1>6, <2>2 DEF Now1, s0, n
  <2>4. QED
    BY <1>1, <2>3, AdvanceKeepsMeaning
<1>7. CASE Op(r).to \notin Graphs
  <2>1. store' = (store \ {}) \cup {}
    BY <1>3, <1>5, <1>7, DirectSink
  <2>2. store' = store /\ nextLabel' = n
    BY <1>5, <1>7, <2>1
  <2>3. Leads(Op(r), step[r], s0, n, store, source[r], target[r], rows[r], n)
    BY <1>4, <1>5, <1>7
  <2>4. Now1(r)
    BY <1>1, <2>2, <2>3 DEF Now1, s0, n
  <2>5. QED
    BY <1>1, <2>4, AdvanceKeepsMeaning
<1>8. QED
  BY <1>6, <1>7

(* A step of an operation, and what fails a request.                       *)
OperationStep(r) ==
  \/ AddData(r) \/ RemoveData(r) \/ Skip(r)
  \/ FetchSource(r) \/ FetchTarget(r) \/ Where(r) \/ ScanTemplate(r)
  \/ RemoveTarget(r) \/ AddSource(r) \/ AddSourceRefetch(r) \/ RemoveMatched(r)
  \/ Instantiate(r)

Failure(r) == StopAtCheckpoint(r) \/ InstantiateFails(r) \/ UnsupportedFails(r)

LEMMA DirectSteps ==
  ASSUME NEW r, DirectOnly(r), IInv, MeaningInv(r), Next
  PROVE  \/ Start(r) \/ Refuse(r) \/ Abort(r) \/ OperationStep(r) \/ Failure(r)
         \/ Return(r) /\ phase[r] = "run" /\ at[r] > Len(script[r])
<1>1. r \in Requests /\ (\A x \in Requests : x = r) /\ ~Transactional
  BY DirectFacts DEF IInv
<1>2. ~Restart /\ ~CallCommit(r) /\ ~ReadFails(r)
  BY <1>1 DEF Restart, CallCommit, ReadFails
<1>3. phase[r] # "commit"
  BY DEF MeaningInv
<1>4. ~CommitApplies(r) /\ ~CommitFails(r)
  BY <1>3 DEF CommitApplies, CommitFails
<1>5. ~At(r, "request") /\ ~At(r, "document")
  <2> SUFFICES ASSUME Busy(r), Now(r) \in {"request", "document"}
               PROVE  FALSE
    BY DEF At
  <2>1. /\ Op(r) \in Ops /\ Op(r).kind # "load" /\ step[r] \in DOMAIN Steps(Op(r))
        /\ Steps(Op(r))[step[r]] \in {"request", "document"}
    BY BusyFacts DEF Now
  <2>2. CASE Templated(Op(r))
    BY <2>1, <2>2, TemplatePlaces
  <2>3. CASE ~Templated(Op(r))
    BY <2>1, <2>3, PlainPlaces
  <2>4. QED
    BY <2>2, <2>3
<1>6. ~SendRequest(r) /\ ~UnresolvedFails(r) /\ ~DocumentArrives(r) /\ ~DocumentFails(r)
  BY <1>5 DEF SendRequest, UnresolvedFails, DocumentArrives, DocumentFails
<1>7. Start(r) \/ Refuse(r) \/ Abort(r) \/ Apply(r)
  BY <1>1, <1>2, <1>4, <1>6 DEF Next, Host
<1>8. Return(r) => phase[r] = "run" /\ at[r] > Len(script[r])
  BY <1>3 DEF Return
<1>9. QED
  BY <1>2, <1>6, <1>7, <1>8 DEF Apply, OperationStep, Failure

LEMMA OperationKeepsMeaning ==
  ASSUME NEW r, DirectOnly(r), IInv, MeaningInv(r), UNCHANGED base, OperationStep(r)
  PROVE  MeaningInv(r)'
  BY DataKeepsMeaning, FetchKeepsMeaning, WriteKeepsMeaning, InstantiateKeepsMeaning
     DEF OperationStep

(* At the end of the loop the store has the request's meaning.             *)
LEMMA EndOfLoop ==
  ASSUME NEW r, DirectOnly(r), IInv, MeaningInv(r), phase[r] = "run", at[r] > Len(script[r])
  PROVE  at[r] = Len(script[r]) + 1 /\ store = Meaning(script[r], base)
<1>1. script[r] \in Seq(Ops)
  BY DirectFacts DEF IInv
<1>2. at[r] \in 1 .. Len(script[r]) + 1 /\ store = Stages(script[r], base)[at[r] - 1][1]
  BY <1>1 DEF MeaningInv, Underway
<1>3. at[r] = Len(script[r]) + 1 /\ at[r] - 1 = Len(script[r])
  BY <1>1, <1>2
<1>4. QED
  BY <1>2, <1>3 DEF Meaning

LEMMA NextMeaning ==
  ASSUME NEW r, DirectOnly(r), IInv, MeaningInv(r), [NextWithHistory]_<<vars, history>>
  PROVE  MeaningInv(r)'
<1>1. /\ r \in Requests /\ ~Transactional /\ script[r] \in Seq(Ops)
      /\ phase \in [Requests -> Phases] /\ client \in [Requests -> Outcomes]
      /\ at \in [Requests -> Nat \ {0}]
  BY DirectFacts DEF IInv, TypeOK
<1>2. CASE UNCHANGED <<vars, history>>
  BY <1>2 DEF vars, history, MeaningInv, Untouched, Underway, Succeeded, Op
<1>3. CASE NextWithHistory
  <2>1. Next /\ base' = base
    BY <1>3 DEF NextWithHistory
  <2>2. CASE Start(r)
    <3>1. /\ phase[r] = "idle" /\ phase'[r] = "run" /\ client'[r] \in {"rejected", "pending"}
          /\ store' = store /\ nextLabel' = nextLabel /\ script' = script /\ at' = at
          /\ step' = step
      BY <1>1, <2>2 DEF Start
    <3>2. store = base /\ nextLabel = 0 /\ at[r] = 1 /\ step[r] = 1
      BY <3>1 DEF MeaningInv, Untouched
    <3>3. Stages(script[r], base)[0] = <<base, 0>>
      BY <1>1, StagesUnfold
    <3>4. 1 \in 1 .. Len(script[r]) + 1 /\ 1 - 1 = 0
      BY <1>1
    <3>5. Underway(r)'
      BY <2>1, <3>1, <3>2, <3>3, <3>4 DEF Underway, Halfway
    <3>6. QED
      BY <3>1, <3>5 DEF MeaningInv, Succeeded
  <2>3. CASE Refuse(r)
    BY <1>1, <2>3 DEF Refuse, MeaningInv, Succeeded
  <2>4. CASE Abort(r)
    <3>1. /\ client[r] = "pending" /\ client'[r] = "rejected" /\ phase' = phase
          /\ UNCHANGED <<store, nextLabel, script, at, step, locals, base>>
      BY <1>1, <2>1, <2>4 DEF Abort
    <3>2. phase[r] # "idle"
      BY <3>1 DEF MeaningInv, Untouched
    <3>3. phase[r] = "run" => Underway(r)'
      BY <3>1 DEF MeaningInv, Underway, locals, Op
    <3>4. QED
      BY <3>1, <3>2, <3>3 DEF MeaningInv, Succeeded
  <2>5. CASE OperationStep(r)
    BY <2>1, <2>5, OperationKeepsMeaning
  <2>6. CASE Failure(r)
    <3>1. Fail(r) /\ Busy(r)
      BY <2>6 DEF Failure, StopAtCheckpoint, InstantiateFails, UnsupportedFails, At
    <3>2. phase'[r] = "done" /\ (client'[r] = client[r] \/ client'[r] = "rejected")
      BY <1>1, <3>1 DEF Fail, Settle
    <3>3. ~Succeeded(r)
      BY <3>1, BusyFacts
    <3>4. QED
      BY <3>2, <3>3 DEF MeaningInv, Succeeded
  <2>7. CASE Return(r) /\ phase[r] = "run" /\ at[r] > Len(script[r])
    <3>1. store = Meaning(script[r], base)
      BY <2>7, EndOfLoop
    <3>2. phase'[r] = "done" /\ store' = store /\ script' = script
      BY <1>1, <2>7 DEF Return
    <3>3. QED
      BY <2>1, <3>1, <3>2 DEF MeaningInv
  <2>8. QED
    BY <2>1, <2>2, <2>3, <2>4, <2>5, <2>6, <2>7, DirectSteps
<1>4. QED
  BY <1>2, <1>3

LEMMA WithoutHistory == SpecWithHistory => Spec
<1>1. InitWithHistory => Init
  BY DEF InitWithHistory
<1>2. [NextWithHistory]_<<vars, history>> => [Next]_vars
  BY DEF NextWithHistory, vars
<1>3. QED
  BY <1>1, <1>2, PTL DEF SpecWithHistory, Spec

LEMMA InitMeaning ==
  ASSUME NEW r, DirectOnly(r), InitWithHistory
  PROVE  MeaningInv(r)
<1>1. r \in Requests
  BY DEF DirectOnly
<1>2. QED
  BY <1>1 DEF InitWithHistory, Init, MeaningInv, Untouched, Succeeded

LEMMA MeaningInvHolds ==
  ASSUME NEW r, DirectOnly(r)
  PROVE  SpecWithHistory => []MeaningInv(r)
<1>1. InitWithHistory => MeaningInv(r)
  BY InitMeaning
<1>2. IInv /\ MeaningInv(r) /\ [NextWithHistory]_<<vars, history>> => MeaningInv(r)'
  BY NextMeaning
<1>3. QED
  BY <1>1, <1>2, WithoutHistory, IInvHolds, PTL DEF SpecWithHistory

(* A request alone, on a store written to directly and with no LOAD among  *)
(* its operations, that succeeds has the SPARQL meaning of its operations  *)
(* in order (executeUpdate's loop, applyOperation), however many they are. *)
THEOREM SuccessMeansSparql ==
  ASSUME NEW r, DirectOnly(r)
  PROVE  SpecWithHistory => []MatchesSparqlMeaning
<1>1. MeaningInv(r) => MatchesSparqlMeaning
  BY DEF DirectOnly, MeaningInv, MatchesSparqlMeaning
<1>2. QED
  BY <1>1, MeaningInvHolds, PTL

-----------------------------------------------------------------------------
(* Cancellation.  A signal that has fired keeps the request in the         *)
(* operation it was in, or at the first step of the next.                  *)

AtBoundary(ops, n, s0, quads) ==
  \/ quads = Meaning(SubSeq(ops, 1, n - 1), s0)
  \/ n <= Len(ops) /\ quads = Meaning(SubSeq(ops, 1, n), s0)
  \/ /\ n <= Len(ops) /\ ops[n].kind \in {"insertdelete", "deletewhere"}
     /\ \E k \in 0 .. Len(ops[n].del) :
          quads = Meaning(Append(SubSeq(ops, 1, n - 1), StoppedIn(ops[n], k)), s0)

CancelInv(r) ==
  /\ firedAt \in [Requests -> Nat]
  /\ firedAt[r] = 0 <=> ~aborted[r]
  /\ client[r] = "pending" => phase[r] = "run" /\ ~aborted[r]
  /\ phase[r] = "idle" => ~aborted[r]
  /\ phase[r] = "run" /\ firedAt[r] # 0 =>
       at[r] = firedAt[r] \/ (at[r] = firedAt[r] + 1 /\ step[r] = 1)
  /\ phase[r] = "done" /\ firedAt[r] # 0 => AtBoundary(script[r], firedAt[r], base, store)

(* A prefix of the operations means the stage it reaches.                  *)
LEMMA PrefixMeaning ==
  ASSUME NEW S, NEW ops \in Seq(S), NEW quads, NEW m \in 0 .. Len(ops)
  PROVE  Meaning(SubSeq(ops, 1, m), quads) = Stages(ops, quads)[m][1]
<1> DEFINE prefix == SubSeq(ops, 1, m)
<1>1. prefix \in Seq(S) /\ Len(prefix) = m /\ \A i \in 1 .. m : ops[i] = prefix[i]
  OBVIOUS
<1> HIDE DEF prefix
<1>2. Stages(ops, quads)[m] = Stages(prefix, quads)[m]
  BY <1>1, StagesAgree
<1>3. QED
  BY <1>1, <1>2 DEF Meaning, prefix

(* So does a prefix followed by one more operation. *)
LEMMA PrefixThenMeaning ==
  ASSUME NEW S, NEW ops \in Seq(S), NEW quads, NEW m \in 0 .. Len(ops), NEW op \in S
  PROVE  Meaning(Append(SubSeq(ops, 1, m), op), quads)
           = Effect(op, Stages(ops, quads)[m][1], Stages(ops, quads)[m][2])
<1> DEFINE more == Append(SubSeq(ops, 1, m), op)
<1>1. /\ more \in Seq(S) /\ Len(more) = m + 1 /\ m \in Nat
      /\ \A i \in 1 .. m : ops[i] = more[i]
      /\ more[m + 1] = op
  OBVIOUS
<1> HIDE DEF more
<1>2. Stages(ops, quads)[m] = Stages(more, quads)[m]
  BY <1>1, StagesAgree
<1>3. Stages(more, quads)[m + 1] = Then(Stages(more, quads)[m], more[m + 1])
  <2>1. m + 1 \in 1 .. Len(more) /\ (m + 1) - 1 = m
    BY <1>1
  <2>2. QED
    BY <1>1, <2>1, StagesUnfold
<1>4. Meaning(more, quads) = Then(Stages(ops, quads)[m], op)[1]
  BY <1>1, <1>2, <1>3 DEF Meaning
<1>5. QED
  BY <1>4, ThenParts DEF more

(* Stopping before a DELETE template is the operation with the templates   *)
(* before it, and without its INSERT.                                      *)
LEMMA StoppedMeansCut ==
  ASSUME NEW op \in Ops, Templated(op), NEW k \in 0 .. Len(op.del), NEW quads, NEW n
  PROVE  Effect(StoppedIn(op, k), quads, n) = Cut(op, quads, k)
<1> DEFINE cut == StoppedIn(op, k)
           M == Matched(op, quads)
<1>1. op \in Records
  BY DEF Ops
<1>2. /\ cut.kind = op.kind /\ cut.from = op.from /\ cut.to = None
      /\ cut.del = SubSeq(op.del, 1, k)
  BY <1>1 DEF StoppedIn, Records
<1>3. ToSet(cut.del) = {op.del[i] : i \in 1 .. k}
  <2>1. op.del \in Seq(Graphs)
    BY <1>1 DEF Records
  <2>2. DOMAIN SubSeq(op.del, 1, k) = 1 .. k
        /\ \A i \in 1 .. k : SubSeq(op.del, 1, k)[i] = op.del[i]
    BY <2>1
  <2>3. QED
    BY <1>2, <2>2 DEF ToSet
<1> HIDE DEF cut
<1>4. cut.kind \in {"insertdelete", "deletewhere"}
  BY <1>2 DEF Templated
<1>5. {b.term : b \in OfGraphs(quads, cut.from)} = M
  BY <1>2 DEF Matched, BoundTerms
<1>6. Effect(cut, quads, n) =
        {q \in quads : ~(q.graph \in ToSet(cut.del) /\ q.term \in M)} \cup {}
  <2>1. cut.kind \notin {"insert", "delete", "clear", "add", "copy", "move"}
    BY <1>4
  <2>2. QED
    BY <1>2, <1>4, <1>5, <2>1 DEF Effect
<1>7. QED
  BY <1>3, <1>6 DEF Cut, cut

(* What checkAborted, or a failing INSERT template, leaves behind.         *)
LEMMA FailureAtBoundary ==
  ASSUME NEW r, DirectOnly(r), IInv, MeaningInv(r), CancelInv(r), Failure(r), firedAt[r] # 0
  PROVE  AtBoundary(script[r], firedAt[r], base, store)
<1> DEFINE ops == script[r]
           n == firedAt[r]
           op == Op(r)
           k == step[r]
           s0 == Before(r)[1]
<1>1. Busy(r) /\ aborted[r]
  BY DEF Failure, StopAtCheckpoint, InstantiateFails, UnsupportedFails, At, CancelInv
<1>2. /\ op \in Ops /\ k \in DOMAIN Steps(op) /\ k \in Nat
      /\ at[r] \in 1 .. Len(ops) /\ Len(ops) \in Nat
      /\ Halfway(op, k, s0, store, source[r], target[r], rows[r])
  BY <1>1, BusyFacts
<1>3. ops \in Seq(Ops) /\ r \in Requests
  BY DirectFacts DEF IInv
<1>4. n \in Nat /\ n # 0 /\ (at[r] = n \/ (at[r] = n + 1 /\ k = 1))
  BY <1>1, <1>3 DEF CancelInv, Busy
<1>5. op = ops[at[r]] /\ s0 = Stages(ops, base)[at[r] - 1][1]
  BY DEF Op, Before
<1> HIDE DEF ops, n, op, k, s0
<1>6. CASE k = 1
  <2>1. store = s0
    BY <1>2, <1>6 DEF Halfway
  <2>2. at[r] - 1 \in 0 .. Len(ops)
    BY <1>2
  <2>3. store = Meaning(SubSeq(ops, 1, at[r] - 1), base)
    BY <1>3, <1>5, <2>1, <2>2, PrefixMeaning
  <2>4. at[r] - 1 = n - 1 \/ (at[r] - 1 = n /\ n <= Len(ops))
    BY <1>2, <1>4
  <2>5. QED
    BY <2>3, <2>4 DEF AtBoundary, ops, n
<1>7. CASE k # 1
  <2>1. at[r] = n /\ n \in 1 .. Len(ops) /\ n - 1 \in 0 .. Len(ops)
    BY <1>2, <1>4, <1>7
  <2>2. Steps(op)[k] \in {"where", "scan", "instantiate"}
    <3>1. ~UnsupportedFails(r)
      <4>1. ASSUME Steps(op)[k] = "unsupported"
            PROVE  FALSE
        <5>1. CASE Templated(op)
          BY <1>2, <4>1, <5>1, TemplatePlaces
        <5>2. CASE ~Templated(op)
          BY <1>2, <1>7, <4>1, <5>2, PlainPlaces
        <5>3. QED
          BY <5>1, <5>2
      <4>2. QED
        BY <4>1 DEF UnsupportedFails, At, Now, op, k
    <3>2. CASE StopAtCheckpoint(r)
      BY <1>7, <3>2 DEF StopAtCheckpoint, Checkpoint, Now, op, k
    <3>3. CASE InstantiateFails(r)
      BY <3>3 DEF InstantiateFails, At, Now, op, k
    <3>4. QED
      BY <3>1, <3>2, <3>3 DEF Failure
  <2>3. Templated(op)
    BY <1>2, <2>2, PlainPlaces
  <2>4. /\ Len(op.del) \in Nat /\ k \in 1 .. Len(Steps(op))
        /\ Steps(op)[k] = IF k = 2 * Len(op.del) + 2 THEN "instantiate"
                          ELSE IF k = 1 THEN "where"
                          ELSE IF k % 2 = 0 THEN "scan" ELSE "removeMatched"
        /\ Len(Steps(op)) = 2 * Len(op.del) + (IF op.kind = "insertdelete" THEN 2 ELSE 1)
    BY <1>2, <2>3, TemplatePlaces
  <2>5. PICK j \in 0 .. Len(op.del) : (k - 2) \div 2 = j
    <3> DEFINE L == Len(op.del)
               m == Len(Steps(op))
    <3>0. L \in Nat /\ k \in 1 .. m /\ (m = 2 * L + 2 \/ m = 2 * L + 1)
      BY <2>4
    <3> HIDE DEF L, m
    <3>1. L \in Nat /\ k \in 1 .. 2 * L + 2 /\ k # 1
      BY <1>7, <3>0
    <3>2. k % 2 = 0
      BY <2>2, <2>4, <3>1 DEF L
    <3>3. PICK i \in Nat \ {0} : k = 2 * i
      BY <3>1, <3>2
    <3>4. (k - 2) \div 2 = i - 1 /\ i - 1 \in 0 .. L
      <4>1. i <= L + 1 /\ k - 2 = 2 * (i - 1) /\ i - 1 \in Nat
        BY <3>1, <3>3
      <4>2. QED
        BY <3>1, <4>1
    <3>5. QED
      BY <3>4 DEF L
  <2>6. store = Cut(op, s0, j)
    BY <1>2, <1>7, <2>3, <2>5 DEF Halfway
  <2>7. store = Effect(StoppedIn(op, j), s0, Stages(ops, base)[n - 1][2])
    BY <1>2, <2>3, <2>6, StoppedMeansCut
  <2>8. op = ops[n] /\ s0 = Stages(ops, base)[n - 1][1]
    BY <1>5, <2>1
  <2> DEFINE S == Ops \cup {StoppedIn(op, j)}
  <2>9. ops \in Seq(S) /\ StoppedIn(op, j) \in S
    <3>1. Ops \subseteq S
      OBVIOUS
    <3> HIDE DEF S
    <3>2. ops \in Seq(S)
      BY <1>3, <3>1
    <3>3. QED
      BY <3>2 DEF S
  <2> HIDE DEF S
  <2>10. store = Meaning(Append(SubSeq(ops, 1, n - 1), StoppedIn(op, j)), base)
    BY <2>1, <2>7, <2>8, <2>9, PrefixThenMeaning
  <2>11. n <= Len(ops) /\ ops[n].kind \in {"insertdelete", "deletewhere"}
    BY <1>2, <2>1, <2>3, <2>8 DEF Templated
  <2>12. QED
    BY <2>5, <2>8, <2>10, <2>11 DEF AtBoundary, ops, n
<1>8. QED
  BY <1>6, <1>7

LEMMA ReturnAtBoundary ==
  ASSUME NEW r, DirectOnly(r), IInv, MeaningInv(r), CancelInv(r), phase[r] = "run",
         at[r] > Len(script[r]), firedAt[r] # 0
  PROVE  AtBoundary(script[r], firedAt[r], base, store)
<1> DEFINE ops == script[r]
           n == firedAt[r]
<1>1. at[r] = Len(ops) + 1 /\ store = Meaning(ops, base)
  BY EndOfLoop
<1>2. ops \in Seq(Ops) /\ r \in Requests
  BY DirectFacts DEF IInv
<1>3. n \in Nat /\ (at[r] = n \/ at[r] = n + 1)
  BY <1>2 DEF CancelInv
<1> HIDE DEF ops, n
<1>4. Len(ops) \in Nat /\ Len(ops) \in 0 .. Len(ops)
  BY <1>2
<1>5. Meaning(SubSeq(ops, 1, Len(ops)), base) = Meaning(ops, base)
  BY <1>2, <1>4, PrefixMeaning DEF Meaning
<1>6. n - 1 = Len(ops) \/ n = Len(ops)
  BY <1>1, <1>3, <1>4
<1>7. QED
  BY <1>1, <1>4, <1>5, <1>6 DEF AtBoundary, ops, n

(* A step taken after the signal fired stays in its operation.             *)
LEMMA StepStaysInOperation ==
  ASSUME NEW r, DirectOnly(r), IInv, MeaningInv(r), CancelInv(r), OperationStep(r)
  PROVE  /\ aborted' = aborted /\ client' = client /\ phase' = phase /\ script' = script
         /\ phase[r] = "run"
         /\ firedAt[r] # 0 => at'[r] = firedAt[r] \/ (at'[r] = firedAt[r] + 1 /\ step'[r] = 1)
<1>1. /\ Busy(r) /\ ~(Checkpoint(r) /\ aborted[r]) /\ Advance(r) /\ UNCHANGED control
  BY DEF OperationStep, AddData, RemoveData, Skip, FetchSource, FetchTarget, Where,
         ScanTemplate, RemoveTarget, AddSource, AddSourceRefetch, RemoveMatched,
         Instantiate, At
<1>2. /\ r \in Requests /\ at \in [Requests -> Nat \ {0}] /\ step \in [Requests -> Nat \ {0}]
  BY DirectFacts DEF IInv, TypeOK
<1>3. ASSUME firedAt[r] # 0
      PROVE  at'[r] = firedAt[r] \/ (at'[r] = firedAt[r] + 1 /\ step'[r] = 1)
  <2>1. step[r] # 1
    BY <1>1, <1>3 DEF CancelInv, Checkpoint
  <2>2. at[r] = firedAt[r]
    BY <1>1, <1>3, <2>1 DEF CancelInv, Busy
  <2>3. QED
    BY <1>1, <1>2, <2>2 DEF Advance, NextOp
<1>4. QED
  BY <1>1, <1>3 DEF control, Busy

LEMMA NextCancel ==
  ASSUME NEW r, DirectOnly(r), IInv, MeaningInv(r), CancelInv(r),
         [NextWithHistory]_<<vars, history>>
  PROVE  CancelInv(r)'
<1>1. /\ r \in Requests /\ (\A x \in Requests : x = r) /\ script[r] \in Seq(Ops)
      /\ phase \in [Requests -> Phases] /\ client \in [Requests -> Outcomes]
      /\ aborted \in [Requests -> BOOLEAN] /\ at \in [Requests -> Nat \ {0}]
  BY DirectFacts DEF IInv, TypeOK
<1>2. CASE UNCHANGED <<vars, history>>
  BY <1>2 DEF vars, history, CancelInv
<1>3. CASE NextWithHistory
  <2>1. Next /\ base' = base
    BY <1>3 DEF NextWithHistory
  <2>2. /\ firedAt' \in [Requests -> Nat]
        /\ firedAt'[r] = IF aborted'[r] /\ ~aborted[r] THEN at[r] ELSE firedAt[r]
    BY <1>1, <1>3 DEF NextWithHistory, CancelInv
  <2>3. at[r] # 0
    BY <1>1
  <2>4. CASE Start(r)
    <3>1. /\ phase[r] = "idle" /\ phase'[r] = "run" /\ at' = at
          /\ \E pre \in BOOLEAN :
               aborted'[r] = pre /\ client'[r] = IF pre THEN "rejected" ELSE "pending"
      BY <1>1, <2>4 DEF Start
    <3>2. ~aborted[r] /\ firedAt[r] = 0
      BY <3>1 DEF CancelInv
    <3>3. firedAt'[r] = 0 <=> ~aborted'[r]
      BY <2>2, <2>3, <3>2
    <3>4. firedAt'[r] # 0 => at'[r] = firedAt'[r]
      BY <2>2, <3>1, <3>2
    <3>5. client'[r] = "pending" => ~aborted'[r]
      BY <3>1
    <3>6. QED
      BY <2>2, <3>1, <3>3, <3>4, <3>5 DEF CancelInv
  <2>5. CASE Refuse(r)
    <3>1. /\ phase[r] = "idle" /\ phase'[r] = "done" /\ client'[r] = "unsupported"
          /\ aborted' = aborted
      BY <1>1, <2>5 DEF Refuse
    <3>2. QED
      BY <2>2, <3>1 DEF CancelInv
  <2>6. CASE Abort(r)
    <3>1. /\ client[r] = "pending" /\ client'[r] = "rejected" /\ aborted'[r] = TRUE
          /\ phase' = phase /\ at' = at /\ step' = step
      BY <1>1, <2>6 DEF Abort
    <3>2. phase[r] = "run" /\ ~aborted[r]
      BY <3>1 DEF CancelInv
    <3>3. firedAt'[r] = at[r]
      BY <2>2, <3>1, <3>2
    <3>4. QED
      BY <2>2, <2>3, <3>1, <3>2, <3>3 DEF CancelInv
  <2>7. CASE OperationStep(r)
    <3>1. /\ aborted' = aborted /\ client' = client /\ phase' = phase /\ script' = script
          /\ phase[r] = "run"
          /\ firedAt[r] # 0 =>
               at'[r] = firedAt[r] \/ (at'[r] = firedAt[r] + 1 /\ step'[r] = 1)
      BY <2>7, StepStaysInOperation
    <3>2. firedAt'[r] = firedAt[r]
      BY <2>2, <3>1
    <3>3. QED
      BY <2>2, <3>1, <3>2 DEF CancelInv
  <2>8. CASE Failure(r)
    <3>1. Fail(r)
      BY <2>8 DEF Failure, StopAtCheckpoint, InstantiateFails, UnsupportedFails
    <3>2. /\ phase'[r] = "done" /\ aborted' = aborted /\ store' = store /\ script' = script
          /\ client'[r] # "pending"
      BY <1>1, <3>1 DEF Fail, Settle
    <3>3. firedAt'[r] = firedAt[r]
      BY <2>2, <3>2
    <3>4. firedAt[r] # 0 => AtBoundary(script[r], firedAt[r], base, store)
      BY <2>8, FailureAtBoundary
    <3>5. QED
      BY <2>1, <2>2, <3>2, <3>3, <3>4 DEF CancelInv
  <2>9. CASE Return(r) /\ phase[r] = "run" /\ at[r] > Len(script[r])
    <3>1. /\ phase'[r] = "done" /\ aborted' = aborted /\ store' = store /\ script' = script
          /\ client'[r] # "pending"
      BY <1>1, <2>9 DEF Return, Settle
    <3>2. firedAt'[r] = firedAt[r]
      BY <2>2, <3>1
    <3>3. firedAt[r] # 0 => AtBoundary(script[r], firedAt[r], base, store)
      BY <2>9, ReturnAtBoundary
    <3>4. QED
      BY <2>1, <2>2, <3>1, <3>2, <3>3 DEF CancelInv
  <2>10. QED
    BY <2>1, <2>4, <2>5, <2>6, <2>7, <2>8, <2>9, DirectSteps
<1>4. QED
  BY <1>2, <1>3

LEMMA InitCancel ==
  ASSUME NEW r, DirectOnly(r), InitWithHistory
  PROVE  CancelInv(r)
<1>1. r \in Requests
  BY DEF DirectOnly
<1>2. QED
  BY <1>1 DEF InitWithHistory, Init, CancelInv

(* A request alone on a store written to directly, without LOAD, whose     *)
(* signal fires leaves the store at a boundary: the operations before, and *)
(* the one it was in not at all, whole, or cut before a DELETE template    *)
(* (checkAborted in executeUpdate's loop, deleteMatches and the WHERE).    *)
THEOREM CancellationStopsAtBoundary ==
  ASSUME NEW r, DirectOnly(r)
  PROVE  SpecWithHistory => []CancelledStopsAtBoundary
<1>1. InitWithHistory => CancelInv(r)
  BY InitCancel
<1>2. IInv /\ MeaningInv(r) /\ CancelInv(r) /\ [NextWithHistory]_<<vars, history>>
        => CancelInv(r)'
  BY NextCancel
<1>3. CancelInv(r) => CancelledStopsAtBoundary
  BY DEF DirectOnly, CancelInv, CancelledStopsAtBoundary, AtBoundary
<1>4. SpecWithHistory => []CancelInv(r)
  BY <1>1, <1>2, MeaningInvHolds, WithoutHistory, IInvHolds, PTL DEF SpecWithHistory
<1>5. QED
  BY <1>3, <1>4, PTL
=============================================================================
