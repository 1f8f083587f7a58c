------------------------ MODULE QueryEvaluation_proofs ------------------------
(***************************************************************************)
(* Proofs about QueryEvaluation, for any queries, stores, patches and any   *)
(* operators that compute rows; and about the clauses of a SELECT it is     *)
(* given: grouping, order, duplicates and slice.                            *)
(***************************************************************************)
EXTENDS QueryEvaluation, Joins_proofs

(***************************************************************************)
(* The stack of frames                                                      *)
(***************************************************************************)
IsFrame(f) ==
  f \in [todo : {f.todo}, rows : {f.rows}, job : {f.job}, snapshot : {f.snapshot},
         stats : {f.stats}, walk : {f.walk}, entered : {f.entered}, jobs : {f.jobs},
         inner : {f.inner}]

BeginsWithPath(todo) ==
    todo # <<>> /\ Head(todo).type = "chain" /\ IsPath(Head(Head(todo).triples))

(* Only a frame that has entered its first pattern has nested groups, and  *)
(* only one whose first triple is a path is in a walk.                     *)
Settled(f) ==
    /\ IsFrame(f)
    /\ f.jobs # <<>> \/ f.inner # <<>> => f.entered
    /\ f.entered => f.todo # <<>> /\ IsNesting(Head(f.todo))
    /\ f.walk # <<>> => BeginsWithPath(f.todo)

IsStack(s) ==
    /\ IsRows(s)
    /\ \A i \in DOMAIN s : Settled(s[i]) /\ (i < Len(s) => s[i].entered)

(* t is the first n elements of s, and f on top of them.                   *)
Cut(t, s, n, f) ==
    /\ IsRows(t) /\ n \in Nat /\ n <= Len(s) /\ Len(t) = n + 1 /\ t[n + 1] = f
    /\ \A i \in 1 .. n : t[i] = s[i]

LEMMA AppendCuts ==
  ASSUME NEW s, NEW n \in Nat, NEW f, IsRows(s), n <= Len(s)
  PROVE  Cut(Append(SubSeq(s, 1, n), f), s, n, f)
<1>1. PICK S : S = ToSet(s) \cup {f}
  OBVIOUS
<1>2. s \in Seq(S)
  <2>1. s \in Seq(ToSet(s))
    BY DEF IsRows
  <2>2. QED
    BY <1>1, <2>1
<1>3. PICK r : r = SubSeq(s, 1, n)
  OBVIOUS
<1>4. r \in Seq(S) /\ Len(r) = n /\ \A i \in 1 .. n : r[i] = s[i]
  BY <1>2, <1>3
<1>5. /\ Append(r, f) \in Seq(S) /\ Len(Append(r, f)) = n + 1 /\ Append(r, f)[n + 1] = f
      /\ \A i \in 1 .. n : Append(r, f)[i] = s[i]
  BY <1>1, <1>4
<1>6. QED
  BY <1>3, <1>5, RowsAre DEF Cut

LEMMA ReplaceCuts ==
  ASSUME NEW s, NEW f, IsRows(s), s # <<>>
  PROVE  Cut([s EXCEPT ![Len(s)] = f], s, Len(s) - 1, f)
<1>1. PICK S, t : S = ToSet(s) \cup {f} /\ t = [s EXCEPT ![Len(s)] = f]
  OBVIOUS
<1>2. s \in Seq(S) /\ Len(s) \in Nat /\ Len(s) # 0 /\ DOMAIN s = 1 .. Len(s)
  <2>1. s \in Seq(ToSet(s))
    BY DEF IsRows
  <2>2. QED
    BY <1>1, <2>1
<1>3. /\ t \in Seq(S) /\ Len(t) = Len(s) /\ t[Len(s)] = f
      /\ \A i \in 1 .. Len(s) - 1 : t[i] = s[i]
  <2>1. /\ DOMAIN t = 1 .. Len(s) /\ t[Len(s)] = f
        /\ \A i \in 1 .. Len(s) - 1 : t[i] = s[i]
    BY <1>1, <1>2
  <2>2. \A i \in 1 .. Len(s) : t[i] \in S
    BY <1>1, <1>2, <2>1
  <2>3. t = [i \in 1 .. Len(s) |-> t[i]]
    BY <1>1, <1>2
  <2>4. t \in Seq(S) /\ Len(t) = Len(s)
    BY <1>2, <2>2, <2>3
  <2>5. QED
    BY <2>1, <2>4
<1>4. IsRows(t)
  BY <1>3, RowsAre
<1>5. PICK n : n = Len(s) - 1
  OBVIOUS
<1>6. n \in Nat /\ n + 1 = Len(s) /\ n <= Len(s)
  BY <1>2, <1>5
<1>7. Cut(t, s, n, f)
  BY <1>3, <1>4, <1>5, <1>6 DEF Cut
<1>8. QED
  BY <1>1, <1>5, <1>7

(* What is known of the frames holds again when the frame on top is        *)
(* settled and those below it were entered.                                *)
LEMMA CutIsStack ==
  ASSUME NEW t, NEW s, NEW n, NEW f, IsStack(s), Cut(t, s, n, f), Settled(f),
         \A i \in 1 .. n : s[i].entered
  PROVE  IsStack(t) /\ t # <<>>
<1>1. /\ Len(s) \in Nat /\ DOMAIN s = 1 .. Len(s)
      /\ Len(t) \in Nat /\ DOMAIN t = 1 .. Len(t) /\ (t = <<>> <=> Len(t) = 0)
  BY RowsLength DEF IsStack, Cut
<1>2. n \in Nat /\ n <= Len(s) /\ Len(t) = n + 1 /\ t[n + 1] = f /\ \A i \in 1 .. n : t[i] = s[i]
  BY DEF Cut
<1>3. ASSUME NEW i \in DOMAIN t
      PROVE  Settled(t[i]) /\ (i < Len(t) => t[i].entered)
  <2>1. CASE i = n + 1
    BY <1>1, <1>2, <2>1
  <2>2. CASE i # n + 1
    <3>1. i \in 1 .. n /\ i \in DOMAIN s /\ t[i] = s[i]
      BY <1>1, <1>2, <2>2
    <3>2. QED
      BY <3>1 DEF IsStack
  <2>3. QED
    BY <2>1, <2>2
<1>4. QED
  BY <1>1, <1>2, <1>3 DEF IsStack, Cut

LEMMA SmallStacks == IsStack(<<>>) /\ \A f : Settled(f) => IsStack(<< f >>)
<1>1. IsRows(<<>>) /\ DOMAIN <<>> = {}
  <2>1. <<>> \in Seq({}) /\ DOMAIN <<>> = {}
    OBVIOUS
  <2>2. QED
    BY <2>1, RowsAre
<1>2. ASSUME NEW f, Settled(f)
      PROVE  IsStack(<< f >>)
  <2>1. << f >> \in Seq({f}) /\ Len(<< f >>) = 1 /\ << f >>[1] = f /\ DOMAIN << f >> = {1}
    OBVIOUS
  <2>2. IsRows(<< f >>)
    BY <2>1, RowsAre
  <2>3. ASSUME NEW i \in DOMAIN << f >> PROVE Settled(<< f >>[i]) /\ (i < Len(<< f >>) => << f >>[i].entered)
    <3>1. i = 1
      BY <2>1
    <3>2. QED
      BY <1>2, <2>1, <3>1
  <2>4. QED
    BY <2>2, <2>3 DEF IsStack
<1>3. QED
  BY <1>1, <1>2 DEF IsStack

LEMMA OpenedIsSettled ==
  ASSUME NEW job, NEW stats
  PROVE  Settled(Opened(job, stats)) /\ ~Opened(job, stats).entered
BY DEF Opened, Settled, IsFrame

(* A frame in its nested groups is in no walk, nor is one that begins with *)
(* anything but a path.                                                    *)
LEMMA EnteredWalksNot ==
  ASSUME NEW f, Settled(f), f.todo # <<>>, IsNesting(Head(f.todo)) \/ ~BeginsWithPath(f.todo)
  PROVE  f.walk = <<>>
BY DEF Settled, BeginsWithPath, IsNesting, Grouping

LEMMA TopOfStack ==
  ASSUME IsStack(frames), frames # <<>>
  PROVE  /\ Len(frames) \in Nat /\ Len(frames) # 0 /\ Len(frames) - 1 \in Nat /\ IsRows(frames)
         /\ Top = frames[Len(frames)] /\ Settled(Top)
         /\ \A i \in 1 .. Len(frames) - 1 : Settled(frames[i]) /\ frames[i].entered
<1>1. IsRows(frames) /\ Len(frames) \in Nat /\ DOMAIN frames = 1 .. Len(frames) /\ Len(frames) # 0
  BY RowsLength DEF IsStack
<1>2. Top = frames[Len(frames)]
  BY <1>1 DEF Top, Last
<1>3. \A i \in 1 .. Len(frames) : Settled(frames[i]) /\ (i < Len(frames) => frames[i].entered)
  BY <1>1 DEF IsStack
<1>4. QED
  BY <1>1, <1>2, <1>3

(***************************************************************************)
(* The control of an evaluation                                             *)
(***************************************************************************)
\* The frame on top is replaced by a settled one.
LEMMA TopReplaced ==
  ASSUME IsStack(frames), frames # <<>>, NEW f, Settled(f)
  PROVE  /\ IsStack([frames EXCEPT ![Len(frames)] = f]) /\ [frames EXCEPT ![Len(frames)] = f] # <<>>
         /\ Len([frames EXCEPT ![Len(frames)] = f]) = Len(frames)
         /\ [frames EXCEPT ![Len(frames)] = f][Len(frames)] = f
<1>1. /\ Len(frames) \in Nat /\ Len(frames) # 0 /\ IsRows(frames)
      /\ \A i \in 1 .. Len(frames) - 1 : frames[i].entered
  BY TopOfStack
<1>2. Cut([frames EXCEPT ![Len(frames)] = f], frames, Len(frames) - 1, f)
  BY <1>1, ReplaceCuts
<1>3. PICK t, n : t = [frames EXCEPT ![Len(frames)] = f] /\ n = Len(frames) - 1
  OBVIOUS
<1>4. Cut(t, frames, n, f) /\ IsStack(t) /\ t # <<>>
  BY <1>1, <1>2, <1>3, CutIsStack
<1>5. Len(t) = n + 1 /\ t[n + 1] = f /\ n + 1 = Len(frames)
  BY <1>1, <1>3, <1>4 DEF Cut
<1>6. QED
  BY <1>3, <1>4, <1>5

\* A cancellation, or anything thrown, leaves the frames up to one that catches it.
LEMMA LeftBehind ==
  ASSUME NEW g, Settled(g), g.entered
  PROVE  Settled([g EXCEPT !.todo = Tail(@), !.entered = FALSE, !.jobs = <<>>, !.inner = <<>>])
<1>1. IsFrame(g) /\ g.walk = <<>>
  BY EnteredWalksNot DEF Settled
<1>2. QED
  BY <1>1 DEF IsFrame, Settled

LEMMA UnwoundIsStack ==
  ASSUME IsStack(frames), frames # <<>>
  PROVE  IsStack(Unwound(frames))
<1>1. PICK catching : catching = {i \in DOMAIN frames : IsSilent(frames[i])}
  OBVIOUS
<1>2. CASE catching = {}
  <2>1. Unwound(frames) = <<>>
    BY <1>1, <1>2 DEF Unwound
  <2>2. QED
    BY <2>1, SmallStacks
<1>3. CASE catching # {}
  <2>1. /\ Len(frames) \in Nat /\ DOMAIN frames = 1 .. Len(frames) /\ IsRows(frames)
        /\ \A i \in 1 .. Len(frames) : Settled(frames[i])
        /\ \A i \in 1 .. Len(frames) - 1 : frames[i].entered
    BY RowsLength, TopOfStack DEF IsStack
  <2>2. PICK last : last = Max(catching)
    OBVIOUS
  <2>3. last \in 1 .. Len(frames) /\ frames[last].entered
    <3>1. catching \in SUBSET (1 .. Len(frames))
      BY <1>1, <2>1
    <3>2. PICK x \in catching : \A y \in catching : y <= x
      BY <1>3, <2>1, <3>1, GreatestOf
    <3>3. last \in catching
      BY <2>2, <3>2 DEF Max
    <3>4. QED
      BY <1>1, <3>1, <3>3 DEF IsSilent
  <2>4. PICK f, n : /\ n = last - 1
                    /\ f = [frames[last] EXCEPT !.todo = Tail(@), !.entered = FALSE,
                                                !.jobs = <<>>, !.inner = <<>>]
    OBVIOUS
  <2>5. Settled(f)
    BY <2>1, <2>3, <2>4, LeftBehind
  <2>6. n \in Nat /\ n <= Len(frames) /\ \A i \in 1 .. n : frames[i].entered
    BY <2>1, <2>3, <2>4
  <2>7. Unwound(frames) = Append(SubSeq(frames, 1, n), f)
    BY <1>1, <1>3, <2>2, <2>4 DEF Unwound
  <2>8. Cut(Append(SubSeq(frames, 1, n), f), frames, n, f)
    BY <2>1, <2>6, AppendCuts
  <2>9. QED
    BY <2>5, <2>6, <2>7, <2>8, CutIsStack
<1>4. QED
  BY <1>2, <1>3

\* What TypeOK rests on: the frames are a stack, the history a sequence, and only a
\* query with FROM loads anything.
TypeInv ==
    /\ query \in Queries /\ estimator \in Estimators
    /\ changes \in 0..MaxChanges /\ aborted \in BOOLEAN /\ reading \in BOOLEAN
    /\ phase \in {"dataset", "where", "reload", "done", "cancelled"}
    /\ IsStack(frames) /\ (phase = "where" <=> frames # <<>>)
    /\ IsRows(moments) /\ Len(moments) = changes + 1 /\ Last(moments) = quads
    /\ Len(dataset) <= 1 /\ (dataset = <<>> <=> FromClauses(query) = <<>>)
    /\ FromClauses(query) = <<>> => loading = <<>>

LEMMA EmptyDatasetIs ==
  ASSUME NEW q
  PROVE  Len(EmptyDataset(q)) <= 1 /\ (EmptyDataset(q) = <<>> <=> FromClauses(q) = <<>>)
<1>1. Len(<< <<>> >>) = 1 /\ << <<>> >> # <<>> /\ Len(<<>>) = 0
  OBVIOUS
<1>2. QED
  BY <1>1 DEF EmptyDataset

LEMMA TypeInvInit ==
  ASSUME Init
  PROVE  TypeInv
<1>2. IsStack(<<>>)
  BY SmallStacks
<1>3. IsRows(<< quads >>) /\ Len(<< quads >>) = 1 /\ Last(<< quads >>) = quads
  <2>1. << quads >> \in Seq({quads}) /\ Len(<< quads >>) = 1 /\ << quads >>[1] = quads
    OBVIOUS
  <2>2. QED
    BY <2>1, RowsAre DEF Last
<1>4. changes = 0 /\ MaxChanges \in Nat
  BY EvaluationAssumption DEF Init
<1>5. changes \in 0..MaxChanges /\ Len(moments) = changes + 1
  BY <1>3, <1>4 DEF Init
<1>6. QED
  BY <1>2, <1>3, <1>5, EmptyDatasetIs DEF Init, TypeInv

\* The frames left by a step of the evaluation.
LEMMA FramesStep ==
  ASSUME TypeInv, Evaluation
  PROVE  IsStack(frames') /\ (phase' = "where" <=> frames' # <<>>)
<1>1. IsStack(frames) /\ (phase = "where" <=> frames # <<>>)
  BY DEF TypeInv
<1>2. IsStack(<<>>)
  BY SmallStacks
<1>3. ASSUME NEW f, Settled(f), frames # <<>>, frames' = [frames EXCEPT ![Len(frames)] = f], UNCHANGED phase
      PROVE  IsStack(frames') /\ (phase' = "where" <=> frames' # <<>>)
  BY <1>1, <1>3, TopReplaced
<1>4. ASSUME frames # <<>>
      PROVE  /\ Len(frames) \in Nat /\ Len(frames) # 0 /\ IsRows(frames) /\ Settled(Top) /\ IsFrame(Top)
             /\ Top = frames[Len(frames)]
             /\ \A i \in 1 .. Len(frames) - 1 : Settled(frames[i]) /\ frames[i].entered
  BY <1>1, <1>4, TopOfStack DEF Settled
<1>5. CASE Load
  BY <1>1, <1>5 DEF Load
<1>6. CASE Open
  <2>1. PICK f : f = Opened(Job(query.where, AllGraphs, DefaultGraph, NoVariable, query), <<>>)
    OBVIOUS
  <2>2. frames' = << f >> /\ phase' = "where" /\ Settled(f)
    BY <1>6, <2>1, OpenedIsSettled DEF Open
  <2>3. IsStack(<< f >>) /\ << f >> # <<>>
    BY <2>2, SmallStacks
  <2>4. QED
    BY <2>2, <2>3
<1>7. CASE Enter
  <2>1. frames # <<>> /\ UNCHANGED phase /\ Top.todo # <<>> /\ IsNesting(Head(Top.todo))
    BY <1>1, <1>7 DEF Enter, Evaluating, Untouched, Now
  <2>2. PICK g, j : g = Top /\ j = NestedJobs(Now)
    OBVIOUS
  <2>3. PICK f : f = [g EXCEPT !.entered = TRUE, !.jobs = j]
    OBVIOUS
  <2>4. Settled(f)
    <3>1. Settled(g) /\ IsFrame(g) /\ g.todo # <<>> /\ IsNesting(Head(g.todo))
      BY <1>4, <2>1, <2>2
    <3>2. g.walk = <<>>
      BY <3>1, EnteredWalksNot
    <3>3. QED
      BY <2>3, <3>1, <3>2 DEF Settled, IsFrame
  <2>5. frames' = [frames EXCEPT ![Len(frames)] = f]
    BY <1>7, <2>2, <2>3 DEF Enter, StepTop
  <2>6. QED
    BY <1>3, <2>1, <2>4, <2>5
<1>8. CASE Combine
  <2>1. frames # <<>> /\ UNCHANGED phase /\ Top.jobs = <<>> /\ Top.entered
    BY <1>1, <1>8 DEF Combine, Evaluating, Untouched
  <2>2. PICK g, r : g = Top /\ r = Joined(Now, FlattenSeq(Top.inner))
    OBVIOUS
  <2>3. PICK f : f = [g EXCEPT !.todo = Tail(@), !.entered = FALSE, !.inner = <<>>, !.rows = r]
    OBVIOUS
  <2>4. Settled(f)
    <3>1. Settled(g) /\ IsFrame(g) /\ g.jobs = <<>> /\ g.entered
      BY <1>4, <2>1, <2>2
    <3>2. g.walk = <<>>
      BY <3>1, EnteredWalksNot DEF Settled
    <3>3. QED
      BY <2>3, <3>1, <3>2 DEF Settled, IsFrame
  <2>5. frames' = [frames EXCEPT ![Len(frames)] = f]
    BY <1>8, <2>2, <2>3 DEF Combine, StepTop
  <2>6. QED
    BY <1>3, <2>1, <2>4, <2>5
<1>9. CASE JoinNext
  <2>1. /\ frames # <<>> /\ UNCHANGED phase /\ Top.jobs = <<>> /\ Top.todo # <<>>
        /\ Head(Top.todo).type = "chain" /\ ~BeginsWithPath(Top.todo)
    BY <1>1, <1>9 DEF JoinNext, Evaluating, Untouched, Now, BeginsWithPath
  <2>2. PICK g, r, t : /\ g = Top /\ t = NextInChain
                       /\ r = JoinTriplePattern(Top.rows, Head(Now.triples),
                                               Scan(Scoped, Head(Now.triples)), PrebuiltIndex)
    OBVIOUS
  <2>3. PICK f : f = [g EXCEPT !.rows = r, !.todo = t]
    OBVIOUS
  <2>4. Settled(f)
    <3>1. ~IsNesting(Head(Top.todo))
      BY <2>1 DEF IsNesting, Grouping
    <3>2. Settled(g) /\ g.todo # <<>> /\ ~IsNesting(Head(g.todo))
      BY <1>4, <2>1, <2>2, <3>1
    <3>3. ~g.entered /\ g.walk = <<>>
      <4>1. ~g.entered
        BY <3>2 DEF Settled
      <4>2. ~BeginsWithPath(g.todo)
        BY <2>1, <2>2 DEF BeginsWithPath
      <4>3. QED
        BY <3>2, <4>1, <4>2, EnteredWalksNot
    <3>4. QED
      BY <2>3, <3>2, <3>3 DEF Settled, IsFrame
  <2>5. frames' = [frames EXCEPT ![Len(frames)] = f]
    BY <1>9, <2>2, <2>3 DEF JoinNext, StepTop
  <2>6. QED
    BY <1>3, <2>1, <2>4, <2>5
<1>10. CASE JoinBlock
  <2>1. /\ frames # <<>> /\ UNCHANGED phase /\ Top.jobs = <<>> /\ Top.todo # <<>>
        /\ Head(Top.todo).type = "block"
    BY <1>1, <1>10 DEF JoinBlock, Evaluating, Untouched, Now
  <2>2. PICK r, s : frames' = [frames EXCEPT ![Len(frames)]
                                 = [Top EXCEPT !.rows = r, !.stats = s, !.todo = Tail(@)]]
    BY <1>10 DEF JoinBlock, StepTop
  <2>3. PICK g, f : g = Top /\ f = [g EXCEPT !.rows = r, !.stats = s, !.todo = Tail(@)]
    OBVIOUS
  <2>4. Settled(f)
    <3>1. ~IsNesting(Head(Top.todo))
      BY <2>1 DEF IsNesting, Grouping
    <3>2. Settled(g) /\ g.todo # <<>> /\ ~IsNesting(Head(g.todo))
      BY <1>4, <2>1, <2>3, <3>1
    <3>3. ~g.entered /\ g.walk = <<>>
      <4>1. ~g.entered
        BY <3>2 DEF Settled
      <4>2. ~BeginsWithPath(g.todo)
        BY <2>1, <2>3 DEF BeginsWithPath
      <4>3. QED
        BY <3>2, <4>1, <4>2, EnteredWalksNot
    <3>4. QED
      BY <2>3, <3>2, <3>3 DEF Settled, IsFrame
  <2>5. QED
    BY <1>3, <2>1, <2>2, <2>3, <2>4
<1>11. CASE Apply
  <2>1. /\ frames # <<>> /\ UNCHANGED phase /\ Top.jobs = <<>> /\ Top.todo # <<>>
        /\ Head(Top.todo).type \in {"filter", "bind", "values"}
    BY <1>1, <1>11 DEF Apply, Evaluating, Untouched, Now, IsLocal
  <2>2. PICK g, r : g = Top /\ r = LocalRows(Now, Top.rows)
    OBVIOUS
  <2>3. PICK f : f = [g EXCEPT !.rows = r, !.todo = Tail(@)]
    OBVIOUS
  <2>4. Settled(f)
    <3>1. ~IsNesting(Head(Top.todo))
      BY <2>1 DEF IsNesting, Grouping
    <3>2. Settled(g) /\ g.todo # <<>> /\ ~IsNesting(Head(g.todo))
      BY <1>4, <2>1, <2>2, <3>1
    <3>3. ~g.entered /\ g.walk = <<>>
      <4>1. ~g.entered
        BY <3>2 DEF Settled
      <4>2. ~BeginsWithPath(g.todo)
        BY <2>1, <2>2 DEF BeginsWithPath
      <4>3. QED
        BY <3>2, <4>1, <4>2, EnteredWalksNot
    <3>4. QED
      BY <2>3, <3>2, <3>3 DEF Settled, IsFrame
  <2>5. frames' = [frames EXCEPT ![Len(frames)] = f]
    BY <1>11, <2>2, <2>3 DEF Apply, StepTop
  <2>6. QED
    BY <1>3, <2>1, <2>4, <2>5
<1>12. CASE Descend
  <2>1. frames # <<>> /\ UNCHANGED phase /\ Top.jobs # <<>> /\ phase = "where"
    BY <1>1, <1>12 DEF Descend, Untouched
  <2>2. PICK g, new, st : /\ g = Top /\ st = (IF Head(Top.jobs).select = NoSelect THEN Top.stats ELSE <<>>)
                          /\ new = Opened(Head(Top.jobs), st)
    OBVIOUS
  <2>3. PICK f, below : /\ f = [g EXCEPT !.jobs = Tail(@)]
                        /\ below = [frames EXCEPT ![Len(frames)] = f]
    OBVIOUS
  <2>4. Settled(f) /\ f.entered /\ Settled(new)
    <3>1. Settled(g) /\ IsFrame(g) /\ g.jobs # <<>> /\ g.entered
      BY <1>4, <2>1, <2>2 DEF Settled
    <3>2. Settled(f) /\ f.entered
      BY <2>3, <3>1 DEF Settled, IsFrame
    <3>3. QED
      BY <2>2, <3>2, OpenedIsSettled
  <2>5. frames' = Append(below, new)
    <3>1. [frames EXCEPT ![Len(frames)].jobs = Tail(@)] = below
      BY <1>4, <2>1, <2>2, <2>3
    <3>2. frames' = Append([frames EXCEPT ![Len(frames)].jobs = Tail(@)], new)
      BY <1>12, <2>2 DEF Descend
    <3>3. QED
      BY <3>1, <3>2
  <2>6. IsStack(below) /\ Len(below) = Len(frames) /\ below[Len(below)] = f
    BY <1>1, <2>1, <2>3, <2>4, TopReplaced
  <2>7. IsRows(below) /\ Len(below) \in Nat /\ SubSeq(below, 1, Len(below)) = below
    <3>1. below \in Seq(ToSet(below))
      BY <2>6 DEF IsStack, IsRows
    <3>2. QED
      BY <3>1 DEF IsRows
  <2>8. Cut(Append(below, new), below, Len(below), new)
    <3>1. Cut(Append(SubSeq(below, 1, Len(below)), new), below, Len(below), new)
      BY <2>7, AppendCuts
    <3>2. QED
      BY <2>7, <3>1
  <2>9. \A i \in 1 .. Len(below) : below[i].entered
    BY <2>4, <2>6, <2>7, RowsLength DEF IsStack
  <2>10. IsStack(Append(below, new)) /\ Append(below, new) # <<>>
    BY <2>4, <2>6, <2>7, <2>8, <2>9, CutIsStack
  <2>11. QED
    BY <2>1, <2>5, <2>10
<1>13. CASE Return
  <2>1. frames # <<>> /\ UNCHANGED phase /\ phase = "where" /\ Len(frames) > 1
    BY <1>1, <1>13 DEF Return, Untouched
  <2>2. PICK n, r, s, g : /\ n = Len(frames) - 2 /\ g = frames[Len(frames) - 1]
                          /\ r = Append(g.inner, Tagged(Solved(Top), Top.job.bind, Top.job.scope))
                          /\ s = IF Top.job.select = NoSelect THEN Top.stats ELSE g.stats
    OBVIOUS
  <2>3. PICK f : f = [g EXCEPT !.inner = r, !.stats = s]
    OBVIOUS
  <2>4. n \in Nat /\ n <= Len(frames) /\ Len(frames) - 1 \in 1 .. Len(frames) - 1 /\ n = Len(frames) - 2
    BY <1>4, <2>1, <2>2
  <2>5. Settled(g) /\ g.entered /\ \A i \in 1 .. n : frames[i].entered
    BY <1>4, <2>1, <2>2, <2>4
  <2>6. Settled(f)
    BY <2>3, <2>5 DEF Settled, IsFrame
  <2>7. frames' = Append(SubSeq(frames, 1, n), f)
    BY <1>13, <2>2, <2>3 DEF Return
  <2>8. Cut(Append(SubSeq(frames, 1, n), f), frames, n, f)
    BY <1>4, <2>1, <2>4, AppendCuts
  <2>9. IsStack(Append(SubSeq(frames, 1, n), f)) /\ Append(SubSeq(frames, 1, n), f) # <<>>
    BY <1>1, <2>4, <2>5, <2>6, <2>8, CutIsStack
  <2>10. QED
    BY <2>1, <2>7, <2>9
<1>14. CASE Stop
  <2>1. frames' = Unwound(frames) /\ phase' = IF frames' = <<>> THEN "cancelled" ELSE phase
    BY <1>14 DEF Stop
  <2>2. CASE frames # <<>>
    <3>1. IsStack(Unwound(frames))
      BY <1>1, <2>2, UnwoundIsStack
    <3>2. QED
      BY <1>1, <2>1, <2>2, <3>1
  <2>3. CASE frames = <<>>
    <3>1. Unwound(frames) = <<>>
      BY <2>3 DEF Unwound
    <3>2. QED
      BY <1>2, <2>1, <3>1
  <2>4. QED
    BY <2>2, <2>3
<1>15. CASE Finish
  <2>1. frames' = <<>> /\ phase' # "where"
    BY <1>15 DEF Finish
  <2>2. QED
    BY <1>2, <2>1
<1>16. CASE Describe
  BY <1>1, <1>16 DEF Describe
<1>17. CASE Described
  BY <1>1, <1>17 DEF Described
<1>18. CASE LookUp
  <2>1. frames # <<>> /\ UNCHANGED phase /\ Top.todo # <<>> /\ BeginsWithPath(Top.todo)
    BY <1>1, <1>18 DEF LookUp, OnPath, Evaluating, Untouched, Now, BeginsWithPath
  <2>2. PICK w : frames' = [frames EXCEPT ![Len(frames)] = [Top EXCEPT !.walk = w]]
    BY <1>18 DEF LookUp, StepTop
  <2>3. PICK g, f : g = Top /\ f = [g EXCEPT !.walk = w]
    OBVIOUS
  <2>4. Settled(f)
    <3>1. Settled(g) /\ IsFrame(g) /\ BeginsWithPath(g.todo)
      BY <1>4, <2>1, <2>3
    <3>2. QED
      BY <2>3, <3>1 DEF Settled, IsFrame
  <2>5. QED
    BY <1>3, <2>1, <2>2, <2>3, <2>4
<1>19. CASE JoinPath
  <2>1. frames # <<>> /\ UNCHANGED phase /\ Top.jobs = <<>> /\ BeginsWithPath(Top.todo)
    BY <1>1, <1>19 DEF JoinPath, OnPath, Evaluating, Untouched, Now, BeginsWithPath
  <2>2. PICK r, t : frames' = [frames EXCEPT ![Len(frames)]
                                 = [Top EXCEPT !.rows = r, !.todo = t, !.walk = <<>>]]
    BY <1>19 DEF JoinPath, StepTop
  <2>3. PICK g, f : g = Top /\ f = [g EXCEPT !.rows = r, !.todo = t, !.walk = <<>>]
    OBVIOUS
  <2>4. Settled(f)
    <3>1. Settled(g) /\ IsFrame(g) /\ BeginsWithPath(g.todo)
      BY <1>4, <2>1, <2>3
    <3>2. ~g.entered
      BY <3>1 DEF Settled, BeginsWithPath, IsNesting, Grouping
    <3>3. QED
      BY <2>3, <3>1, <3>2 DEF Settled, IsFrame
  <2>5. QED
    BY <1>3, <2>1, <2>2, <2>3, <2>4
<1>20. QED
  BY <1>5, <1>6, <1>7, <1>8, <1>9, <1>10, <1>11, <1>12, <1>13, <1>14, <1>15, <1>16, <1>17, <1>18,
     <1>19 DEF Evaluation

LEMMA TypeInvStep ==
  ASSUME TypeInv, [Next]_vars
  PROVE  TypeInv'
<1>1. CASE UNCHANGED vars
  BY <1>1 DEF vars, TypeInv, IsStack, FromClauses
<1>2. CASE Evaluation
  <2>1. IsStack(frames') /\ (phase' = "where" <=> frames' # <<>>)
    BY <1>2, FramesStep
  <2>2. UNCHANGED << query, estimator, quads, changes, aborted, moments >>
    BY <1>2 DEF Evaluation, Load, Open, Enter, Descend, Combine, Return, JoinNext, JoinBlock, LookUp,
                JoinPath, Apply, Stop, Finish, Describe, Described, Untouched
  <2>3. reading' \in BOOLEAN
    BY <1>2 DEF Evaluation, Load, Open, Enter, Descend, Combine, Return, JoinNext, JoinBlock, LookUp,
                JoinPath, Apply, Stop, Finish, Describe, Described, OpeningReads, SolvingReads
  <2>4. phase' \in {"dataset", "where", "reload", "done", "cancelled"}
    BY <1>2 DEF Evaluation, Load, Open, Enter, Descend, Combine, Return, JoinNext, JoinBlock, LookUp,
                JoinPath, Apply, Stop, Finish, Describe, Described, Untouched, TypeInv
  <2>5. FromClauses(query)' = FromClauses(query) /\ EmptyDataset(query)' = EmptyDataset(query)
    BY <2>2 DEF FromClauses, EmptyDataset
  <2>6. /\ Len(dataset') <= 1 /\ (dataset' = <<>> <=> FromClauses(query) = <<>>)
        /\ FromClauses(query) = <<>> => loading' = <<>>
    <3>1. CASE UNCHANGED << loading, dataset >>
      BY <3>1 DEF TypeInv
    <3>2. CASE Load
      <4>1. PICK d : d = Loaded(Head(loading))
        OBVIOUS
      <4>2. dataset' = << d >> /\ loading # <<>>
        BY <3>2, <4>1 DEF Load
      <4>3. Len(<< d >>) = 1 /\ << d >> # <<>>
        OBVIOUS
      <4>4. QED
        BY <4>2, <4>3 DEF TypeInv
    <3>3. CASE Finish /\ query.form = "describe"
      <4>1. dataset' = EmptyDataset(query) /\ loading' = FromClauses(query)
        BY <3>3 DEF Finish
      <4>2. QED
        BY <4>1, EmptyDatasetIs
    <3>4. QED
      BY <1>2, <3>1, <3>2, <3>3
         DEF Evaluation, Open, Enter, Descend, Combine, Return, JoinNext, JoinBlock, LookUp, JoinPath, Apply,
             Stop, Finish, Describe, Described, Untouched
  <2>7. QED
    BY <2>1, <2>2, <2>3, <2>4, <2>5, <2>6 DEF TypeInv, IsStack
<1>3. CASE Cancel
  BY <1>3 DEF Cancel, TypeInv, IsStack, FromClauses
<1>4. CASE Mutate
  <2>1. UNCHANGED << query, estimator, aborted, phase, loading, dataset, frames >> /\ reading' = FALSE
    BY <1>4 DEF Mutate
  <2>2. changes' \in 0..MaxChanges /\ changes' = changes + 1
    BY <1>4, EvaluationAssumption DEF Mutate, TypeInv
  <2>3. IsRows(moments') /\ Len(moments') = changes' + 1 /\ Last(moments') = quads'
    <3>1. PICK m, q : m = moments /\ q = quads' /\ moments' = Append(m, q)
      BY <1>4 DEF Mutate
    <3>2. IsRows(m) /\ Len(m) = changes + 1
      BY <3>1 DEF TypeInv
    <3>3. Len(m) \in Nat /\ SubSeq(m, 1, Len(m)) = m
      <4>1. m \in Seq(ToSet(m))
        BY <3>2 DEF IsRows
      <4>2. QED
        BY <4>1
    <3>4. Cut(Append(SubSeq(m, 1, Len(m)), q), m, Len(m), q)
      BY <3>2, <3>3, AppendCuts
    <3>5. QED
      BY <2>2, <3>1, <3>2, <3>3, <3>4 DEF Cut, Last
  <2>4. QED
    BY <2>1, <2>2, <2>3 DEF TypeInv, IsStack, FromClauses
<1>5. QED
  BY <1>1, <1>2, <1>3, <1>4 DEF Next

LEMMA TypeInvMeans ==
  ASSUME TypeInv
  PROVE  TypeOK
BY DEF TypeInv, TypeOK, IsStack, Settled, BeginsWithPath

LEMMA TypeInvHolds == Spec => []TypeInv
<1>1. Init => TypeInv
  BY TypeInvInit
<1>2. TypeInv /\ [Next]_vars => TypeInv'
  BY TypeInvStep
<1>3. QED
  BY <1>1, <1>2, PTL DEF Spec

\* The control of every evaluation is well formed: it is in a WHERE exactly while frames
\* are under way, and every frame but the last waits for the nested groups of its first
\* pattern, whatever is thrown and caught on the way.
THEOREM EvaluationIsWellFormed == Spec => []TypeOK
<1>1. TypeInv => TypeOK
  BY TypeInvMeans
<1>2. QED
  BY <1>1, TypeInvHolds, PTL

(***************************************************************************)
(* A cancelled evaluation                                                   *)
(***************************************************************************)
\* Whoever cancels a query pays for no more reads of its WHERE than the walk of the one
\* path it may be in the middle of: after the signal only what that walk still looks up,
\* a dataset, the resources of a DESCRIBE and the snapshot of SELECT clauses are read.
THEOREM CancelledEvaluationReadsNoMore == Spec => CancelledReadsNoMore
<1>1. ASSUME [Next]_vars, UNCHANGED vars \/ Next, aborted, reading', ~UNCHANGED vars
      PROVE  \/ phase \in {"dataset", "reload"}
             \/ Top.todo = <<>> /\ SolvingReads(Top)
             \/ Top.walk # <<>>
  <2>1. CASE LookUp \/ JoinPath
    BY <1>1, <2>1 DEF LookUp, JoinPath, OnPath, Checked
  <2>2. CASE Evaluation /\ ~LookUp /\ ~JoinPath
    BY <1>1, <2>2
       DEF Evaluation, Load, Open, Enter, Descend, Combine, Return, JoinNext, JoinBlock, Apply,
           Stop, Finish, Describe, Described, Checked, Untouched
  <2>3. QED
    BY <1>1, <2>1, <2>2 DEF Next, Cancel, Mutate
<1>2. [Next]_vars
        => [aborted /\ reading' =>
              \/ phase \in {"dataset", "reload"}
              \/ Top.todo = <<>> /\ SolvingReads(Top)
              \/ Top.walk # <<>>]_vars
  BY <1>1
<1>3. QED
  BY <1>2, PTL DEF Spec, CancelledReadsNoMore

(***************************************************************************)
(* The order of a block                                                     *)
(***************************************************************************)
\* f holds the greedy loop after its first n turns, for n up to m.
AreTurns(f, triples, entries, rows, m) ==
  f = [n \in 0 .. m |-> IF n = 0 THEN [order |-> <<>>, left |-> [k \in DOMAIN triples |-> k], rows |-> rows]
                        ELSE GreedyStep(f[n - 1], triples, entries)]

LEMMA TurnsExist ==
  ASSUME NEW triples, NEW entries, NEW rows
  PROVE  \A m \in Nat : \E f : AreTurns(f, triples, entries, rows, m)
<1> DEFINE Bad == {m \in Nat : ~ \E f : AreTurns(f, triples, entries, rows, m)}
           first == [order |-> <<>>, left |-> [k \in DOMAIN triples |-> k], rows |-> rows]
<1> SUFFICES ASSUME Bad # {}
             PROVE  FALSE
  OBVIOUS
<1>1. PICK m \in Bad : \A k \in Bad : m <= k
  <2>1. Bad \in SUBSET Nat
    OBVIOUS
  <2> HIDE DEF Bad
  <2>2. QED
    BY <2>1, LeastNatural
<1>2. CASE m = 0
  <2>1. AreTurns([n \in 0 .. 0 |-> first], triples, entries, rows, 0)
    BY DEF AreTurns
  <2>2. QED
    BY <1>1, <1>2, <2>1
<1>3. CASE m # 0
  <2>1. m \in Nat /\ m - 1 \in Nat /\ m - 1 \notin Bad
    BY <1>1, <1>3
  <2>2. PICK f : AreTurns(f, triples, entries, rows, m - 1)
    BY <2>1
  <2> DEFINE then(g, n) == IF n = 0 THEN first ELSE GreedyStep(g[n - 1], triples, entries)
             g == [n \in 0 .. m |-> IF n = m THEN then(f, m) ELSE f[n]]
  <2>3. ASSUME NEW n \in 0 .. m
        PROVE  g[n] = then(g, n)
    <3>1. n # 0 => g[n - 1] = f[n - 1]
      BY <2>1
    <3>2. CASE n = m
      BY <1>3, <2>1, <3>1, <3>2
    <3>3. CASE n # m
      <4>1. n \in 0 .. m - 1 /\ g[n] = f[n]
        BY <2>1, <3>3
      <4>2. f[n] = then(f, n)
        BY <2>2, <4>1 DEF AreTurns
      <4>3. QED
        BY <3>1, <4>1, <4>2
    <3>4. QED
      BY <3>2, <3>3
  <2>4. AreTurns(g, triples, entries, rows, m)
    BY <2>3 DEF AreTurns
  <2>5. QED
    BY <1>1, <2>4
<1>4. QED
  BY <1>2, <1>3

LEMMA TurnsUnfold ==
  ASSUME NEW triples, NEW entries, NEW rows, Len(triples) \in Nat
  PROVE  LET f == GreedyTurns(triples, entries, rows)
         IN  /\ f[0] = [order |-> <<>>, left |-> [k \in DOMAIN triples |-> k], rows |-> rows]
             /\ \A n \in 1 .. Len(triples) : f[n] = GreedyStep(f[n - 1], triples, entries)
<1>1. PICK f : f = GreedyTurns(triples, entries, rows)
  OBVIOUS
<1>2. f = CHOOSE g : AreTurns(g, triples, entries, rows, Len(triples))
  BY <1>1 DEF GreedyTurns, AreTurns
<1>3. AreTurns(f, triples, entries, rows, Len(triples))
  BY <1>2, TurnsExist
<1>4. \A n \in 0 .. Len(triples) :
        f[n] = IF n = 0 THEN [order |-> <<>>, left |-> [k \in DOMAIN triples |-> k], rows |-> rows]
               ELSE GreedyStep(f[n - 1], triples, entries)
  BY <1>3 DEF AreTurns
<1>5. ASSUME NEW n \in 1 .. Len(triples) PROVE f[n] = GreedyStep(f[n - 1], triples, entries)
  <2>1. n \in 0 .. Len(triples) /\ n # 0
    OBVIOUS
  <2>2. QED
    BY <1>4, <2>1
<1>6. QED
  BY <1>1, <1>4, <1>5

\* What is left of a sequence when one of its elements is taken out.
LEMMA TakenOut ==
  ASSUME NEW S, NEW s \in Seq(S), NEW k \in DOMAIN s
  PROVE  /\ RemoveAt(s, k) \in Seq(S) /\ Len(RemoveAt(s, k)) = Len(s) - 1
         /\ ToSet(s) = ToSet(RemoveAt(s, k)) \cup {s[k]}
<1>1. Len(s) \in Nat /\ DOMAIN s = 1 .. Len(s) /\ k \in 1 .. Len(s)
  OBVIOUS
<1>2. PICK a, z : a = SubSeq(s, 1, k - 1) /\ z = SubSeq(s, k + 1, Len(s))
  OBVIOUS
<1>3. /\ a \in Seq(S) /\ Len(a) = k - 1 /\ \A i \in 1 .. k - 1 : a[i] = s[i]
      /\ z \in Seq(S) /\ Len(z) = Len(s) - k /\ \A i \in 1 .. Len(s) - k : z[i] = s[k + i]
  <2>1. PICK l : l = Len(s) /\ l \in Nat /\ k \in 1 .. l /\ \A i \in 1 .. l : s[i] \in S
    BY <1>1
  <2>2. /\ SubSeq(s, 1, k - 1) \in Seq(S) /\ Len(SubSeq(s, 1, k - 1)) = k - 1
        /\ \A i \in 1 .. k - 1 : SubSeq(s, 1, k - 1)[i] = s[i]
    BY <2>1
  <2>3. /\ SubSeq(s, k + 1, l) \in Seq(S)
        /\ Len(SubSeq(s, k + 1, l)) = IF k + 1 <= l THEN l - (k + 1) + 1 ELSE 0
        /\ \A i \in 1 .. l - (k + 1) + 1 : SubSeq(s, k + 1, l)[i] = s[k + 1 + i - 1]
    <3>1. k + 1 \in Int /\ l \in Int /\ \A i \in k + 1 .. l : s[i] \in S
      BY <2>1
    <3>2. QED
      BY <3>1, SubSeqProperties
  <2>4. Len(SubSeq(s, k + 1, l)) = l - k /\ \A i \in 1 .. l - k : SubSeq(s, k + 1, l)[i] = s[k + i]
    <3>1. l - (k + 1) + 1 = l - k /\ (k + 1 <= l \/ l - k = 0)
      BY <2>1
    <3>2. ASSUME NEW i \in 1 .. l - k PROVE k + 1 + i - 1 = k + i
      BY <2>1
    <3>3. QED
      BY <2>3, <3>1, <3>2
  <2>5. QED
    BY <1>2, <2>1, <2>2, <2>3, <2>4
<1>4. /\ a \o z \in Seq(S) /\ Len(a \o z) = Len(s) - 1 /\ ToSet(a \o z) = ToSet(a) \cup ToSet(z)
  <2>1. a \in Seq(S) /\ z \in Seq(S)
    BY <1>3
  <2>2. a \o z \in Seq(S) /\ Len(a \o z) = Len(a) + Len(z) /\ ToSet(a \o z) = ToSet(a) \cup ToSet(z)
    BY <2>1, Concatenated, ConcatProperties
  <2>3. QED
    BY <1>1, <1>3, <2>2
<1>5. ToSet(s) = ToSet(a) \cup ToSet(z) \cup {s[k]}
  <2>1. ASSUME NEW i \in 1 .. Len(s), i # k PROVE s[i] \in ToSet(a) \cup ToSet(z)
    <3>1. CASE i < k
      <4>1. i \in 1 .. k - 1 /\ i \in DOMAIN a /\ a[i] = s[i]
        BY <1>1, <1>3, <3>1
      <4>2. QED
        BY <4>1 DEF ToSet
    <3>2. CASE i > k
      <4>1. PICK j : j = i - k
        OBVIOUS
      <4>2. j \in 1 .. Len(s) - k /\ j \in DOMAIN z /\ z[j] = s[i]
        BY <1>1, <1>3, <2>1, <3>2, <4>1
      <4>3. QED
        BY <4>2 DEF ToSet
    <3>3. QED
      BY <1>1, <2>1, <3>1, <3>2
  <2>2. ToSet(a) \subseteq ToSet(s)
    <3>1. ASSUME NEW i \in DOMAIN a PROVE a[i] \in ToSet(s)
      <4>1. i \in 1 .. Len(s) /\ a[i] = s[i]
        BY <1>1, <1>3
      <4>2. QED
        BY <1>1, <4>1 DEF ToSet
    <3>2. QED
      BY <3>1 DEF ToSet
  <2>3. ToSet(z) \subseteq ToSet(s)
    <3>1. ASSUME NEW i \in DOMAIN z PROVE z[i] \in ToSet(s)
      <4>1. k + i \in 1 .. Len(s) /\ z[i] = s[k + i]
        BY <1>1, <1>3
      <4>2. QED
        BY <1>1, <4>1 DEF ToSet
    <3>2. QED
      BY <3>1 DEF ToSet
  <2>4. s[k] \in ToSet(s) /\ \A x \in ToSet(s) : \E i \in 1 .. Len(s) : x = s[i]
    BY <1>1 DEF ToSet
  <2>5. QED
    BY <2>1, <2>2, <2>3, <2>4
<1>6. RemoveAt(s, k) = a \o z
  BY <1>2 DEF RemoveAt
<1>7. QED
  BY <1>4, <1>5, <1>6

\* The greedy loop joins every triple, whatever the statistics.
LEMMA GreedyOrderCovers ==
  ASSUME NEW triples, NEW entries, NEW rows, Len(triples) \in Nat,
         DOMAIN triples = 1 .. Len(triples), DOMAIN entries = DOMAIN triples,
         \A k \in DOMAIN entries : IsEntry(entries[k]),
         IsRows(rows), IsRows(Scoped), IsIndex(PrebuiltIndex)
  PROVE  /\ GreedyOrder(triples, entries, rows) \in Seq(DOMAIN triples)
         /\ ToSet(GreedyOrder(triples, entries, rows)) = DOMAIN triples
<1>1. PICK N, K, f : N = Len(triples) /\ K = 1 .. N /\ f = GreedyTurns(triples, entries, rows)
  OBVIOUS
<1>2. /\ f[0] = [order |-> <<>>, left |-> [k \in DOMAIN triples |-> k], rows |-> rows]
      /\ \A n \in 1 .. N : f[n] = GreedyStep(f[n - 1], triples, entries)
  BY <1>1, TurnsUnfold
<1> DEFINE Good(n) == /\ f[n].order \in Seq(K) /\ f[n].left \in Seq(K) /\ Len(f[n].left) = N - n
                      /\ ToSet(f[n].order) \cup ToSet(f[n].left) = K
                      /\ IsRows(f[n].rows)
           Bad == {n \in 0 .. N : ~Good(n)}
<1>3. Good(0)
  <2>1. PICK l : l = [k \in 1 .. N |-> k]
    OBVIOUS
  <2>2. l \in Seq(K) /\ Len(l) = N /\ ToSet(l) = K
    BY <1>1, <2>1 DEF ToSet
  <2>3. f[0].order = <<>> /\ f[0].left = l /\ f[0].rows = rows
    BY <1>1, <1>2, <2>1
  <2>4. <<>> \in Seq(K) /\ ToSet(<<>>) = {} /\ N - 0 = N
    BY <1>1 DEF ToSet
  <2>5. QED
    BY <2>2, <2>3, <2>4
<1>4. ASSUME NEW n \in 1 .. N, Good(n - 1)
      PROVE  Good(n)
  <2>1. PICK acc, next, k :
          /\ acc = f[n - 1] /\ next = f[n] /\ IsRows(acc.rows)
          /\ k = GreedyChoice([j \in DOMAIN acc.left |-> entries[acc.left[j]]], entries, acc.rows)
    BY <1>4
  <2>2. /\ acc.order \in Seq(K) /\ acc.left \in Seq(K) /\ Len(acc.left) = N - (n - 1)
        /\ ToSet(acc.order) \cup ToSet(acc.left) = K
    BY <1>4, <2>1
  <2>3. next = GreedyStep(acc, triples, entries)
    BY <1>2, <2>1
  <2>4. k \in DOMAIN acc.left /\ acc.left[k] \in K
    <3>1. PICK M, remaining : M = Len(acc.left) /\ remaining = [j \in DOMAIN acc.left |-> entries[acc.left[j]]]
      OBVIOUS
    <3>2. M \in Nat \ {0} /\ DOMAIN acc.left = 1 .. M /\ DOMAIN remaining = 1 .. M /\ M <= N
      BY <1>1, <2>2, <3>1
    <3>3. \A j \in 1 .. M : IsEntry(entries[j])
      BY <1>1, <3>2
    <3>4. Len(acc.rows) \in Nat /\ DOMAIN acc.rows = 1 .. Len(acc.rows) /\ (acc.rows # <<>> => Len(acc.rows) # 0)
      BY <2>1, RowsLength
    <3>5. k \in 1 .. M
      BY <2>1, <3>1, <3>2, <3>3, <3>4, GreedyChosen
    <3>6. QED
      BY <2>2, <3>2, <3>5
  <2>5. PICK c : c = acc.left[k]
    OBVIOUS
  <2>6. /\ next.order = Append(acc.order, c) /\ next.left = RemoveAt(acc.left, k)
        /\ next.rows = JoinTriplePattern(acc.rows, triples[c], Scan(Scoped, triples[c]), PrebuiltIndex)
    <3>1. next = [order |-> Append(acc.order, acc.left[k]),
                  left  |-> RemoveAt(acc.left, k),
                  rows  |-> JoinTriplePattern(acc.rows, triples[acc.left[k]],
                                              Scan(Scoped, triples[acc.left[k]]), PrebuiltIndex)]
      BY <2>1, <2>3 DEF GreedyStep
    <3>2. QED
      BY <2>5, <3>1
  <2>7. /\ next.order \in Seq(K) /\ ToSet(next.order) = ToSet(acc.order) \cup {c}
    BY <2>2, <2>4, <2>5, <2>6, Appended
  <2>8. /\ next.left \in Seq(K) /\ Len(next.left) = N - n
        /\ ToSet(acc.left) = ToSet(next.left) \cup {c}
    <3>1. /\ next.left \in Seq(K) /\ Len(next.left) = Len(acc.left) - 1
          /\ ToSet(acc.left) = ToSet(next.left) \cup {c}
      BY <2>2, <2>4, <2>5, <2>6, TakenOut
    <3>2. QED
      BY <1>1, <2>2, <3>1
  <2>9. IsRows(next.rows)
    <3>1. IsRows(Scan(Scoped, triples[c]))
      BY KeptIsRows DEF Scan, Agreeing, MatchQuads
    <3>2. QED
      BY <2>1, <2>6, <3>1, JoinIsRows
  <2>10. QED
    BY <2>1, <2>2, <2>7, <2>8, <2>9
<1>5. Bad = {}
  <2>1. Bad \in SUBSET Nat
    BY <1>1
  <2> HIDE DEF Good
  <2>2. SUFFICES ASSUME Bad # {} PROVE FALSE
    OBVIOUS
  <2>3. PICK n \in Bad : \A k \in Bad : n <= k
    <3> HIDE DEF Bad
    <3>1. QED
      BY <2>1, <2>2, LeastNatural
  <2>4. CASE n = 0
    BY <1>3, <2>3, <2>4
  <2>5. CASE n # 0
    <3>1. n \in 1 .. N /\ n - 1 \in 0 .. N /\ n - 1 \notin Bad
      BY <1>1, <2>3, <2>5
    <3>2. QED
      BY <1>4, <2>3, <3>1
  <2>6. QED
    BY <2>4, <2>5
<1>6. Good(N)
  <2> HIDE DEF Good
  <2>1. N \in 0 .. N
    BY <1>1
  <2>2. QED
    BY <1>5, <2>1
<1>7. ToSet(f[N].left) = {}
  <2>1. Len(f[N].left) = 0 /\ f[N].left \in Seq(K)
    BY <1>1, <1>6
  <2>2. DOMAIN f[N].left = {}
    BY <2>1
  <2>3. QED
    BY <2>2 DEF ToSet
<1>8. GreedyOrder(triples, entries, rows) = f[N].order
  BY <1>1 DEF GreedyOrder
<1>9. QED
  BY <1>1, <1>6, <1>7, <1>8

\* A sequence of all elements of a finite set without repetition has them all.
LEMMA SequencesCover ==
  ASSUME NEW S, IsFiniteSet(S), NEW o \in SetToSeqs(S)
  PROVE  o \in Seq(S) /\ ToSet(o) = S
<1>1. PICK n : n = Cardinality(S) /\ n \in Nat
  BY FS_CardinalityType
<1>2. o \in [1 .. n -> S] /\ \A i, j \in 1 .. n : i # j => o[i] # o[j]
  BY <1>1 DEF SetToSeqs
<1>3. o \in Injection(1 .. n, S)
  BY <1>2 DEF Injection, IsInjective
<1>4. IsFiniteSet(1 .. n) /\ Cardinality(1 .. n) = n
  BY <1>1, FS_Interval
<1>5. o \in Surjection(1 .. n, S)
  BY <1>1, <1>3, <1>4, FS_Injection
<1>6. ToSet(o) = S
  BY <1>2, <1>5 DEF Surjection, ToSet
<1>7. QED
  BY <1>1, <1>2, <1>6

\* Statistics a frame has gathered, or is given by the frame around it.
AreStats(stats) == \A key \in DOMAIN stats : IsEntry(stats[key])

LEMMA StatisticsAre ==
  ASSUME NEW triples, DOMAIN triples \in SUBSET Nat, IsFiniteSet(DOMAIN triples),
         IsRows(Scoped), AreStats(Top.stats)
  PROVE  /\ AreStats(PatternStatistics(triples))
         /\ AreEntries(Entries(triples, PatternStatistics(triples)))
         /\ DOMAIN Entries(triples, PatternStatistics(triples)) = DOMAIN triples
<1>1. PICK stats : stats = PatternStatistics(triples)
  OBVIOUS
<1>2. /\ DOMAIN stats = DOMAIN Top.stats \cup {StatsKey(triples[k]) : k \in DOMAIN triples}
      /\ \A key \in DOMAIN stats :
           stats[key] = IF key \in DOMAIN Top.stats THEN Top.stats[key]
                        ELSE FallbackStats(Scan(Scoped, key[2]),
                                           [v \in TripleVars(key[2]) |-> PositionOf(key[2], v)])
  BY <1>1 DEF PatternStatistics
<1>3. ASSUME NEW key, NEW positions
      PROVE  IsEntry(FallbackStats(Scan(Scoped, key[2]), positions))
  <2>1. IsRows(Scan(Scoped, key[2]))
    <3>1. PICK g, T : g = Scoped /\ Scan(g, key[2]) = Kept(g, T)
      BY DEF Scan, Agreeing, MatchQuads
    <3>2. g \in Seq(ToSet(g))
      BY <3>1 DEF IsRows
    <3>3. QED
      BY <3>1, <3>2, KeptIsSeq, RowsAre
  <2>2. Len(Scan(Scoped, key[2])) \in Nat
    BY <2>1, RowsLength
  <2>3. QED
    BY <2>2, StatsAreCounts
<1>4. AreStats(stats)
  <2>1. ASSUME NEW key \in DOMAIN stats PROVE IsEntry(stats[key])
    <3>1. CASE key \in DOMAIN Top.stats
      BY <1>2, <3>1 DEF AreStats
    <3>2. CASE key \notin DOMAIN Top.stats
      <4>1. PICK positions : positions = [v \in TripleVars(key[2]) |-> PositionOf(key[2], v)]
        OBVIOUS
      <4>2. stats[key] = FallbackStats(Scan(Scoped, key[2]), positions)
        BY <1>2, <3>2, <4>1
      <4>3. QED
        BY <1>3, <4>2
    <3>3. QED
      BY <3>1, <3>2
  <2>2. QED
    BY <2>1 DEF AreStats
<1>5. ASSUME NEW k \in DOMAIN triples PROVE IsEntry(Entries(triples, stats)[k])
  <2>1. IsEntry(stats[StatsKey(triples[k])])
    BY <1>2, <1>4 DEF AreStats
  <2>2. PICK e : e = Entries(triples, stats)[k]
    OBVIOUS
  <2>3. /\ e.candidates = stats[StatsKey(triples[k])].candidates
        /\ e.distinct = stats[StatsKey(triples[k])].distinct
    BY <2>2 DEF Entries
  <2>4. QED
    BY <2>1, <2>2, <2>3 DEF IsEntry
<1>6. DOMAIN Entries(triples, stats) = DOMAIN triples
  BY DEF Entries
<1>7. AreEntries(Entries(triples, stats))
  BY <1>5, <1>6 DEF AreEntries
<1>8. QED
  BY <1>1, <1>4, <1>6, <1>7

\* Whatever order the reordering settles on, it joins the triples of the block and
\* nothing else.
LEMMA OrdersCover ==
  ASSUME NEW triples, NEW rows, NEW entries, Len(triples) \in Nat,
         DOMAIN triples = 1 .. Len(triples),
         AreEntries(entries), DOMAIN entries = DOMAIN triples,
         IsRows(rows), IsRows(Scoped), IsIndex(PrebuiltIndex),
         NEW order \in Orders(triples, entries, rows)
  PROVE  order \in Seq(DOMAIN triples) /\ ToSet(order) = DOMAIN triples
<1>1. CASE estimator = "custom"
  <2>1. IsFiniteSet(DOMAIN triples)
    BY DEF AreEntries
  <2>2. order \in SetToSeqs(DOMAIN triples)
    BY <1>1 DEF Orders
  <2>3. QED
    BY <2>1, <2>2, SequencesCover
<1>2. CASE estimator # "custom" /\ Len(triples) <= DpMaxPatterns
  <2>1. PICK card, bound : card = Len(rows) /\ bound = BoundVariables(rows)
    OBVIOUS
  <2>2. order = SearchBestJoinOrder(entries, card, bound)
    BY <1>2, <2>1 DEF Orders
  <2>3. card \in Nat
    BY <2>1, RowsLength
  <2>4. QED
    BY <2>2, <2>3, KeptPlanCosts DEF SearchBestJoinOrder
<1>3. CASE estimator # "custom" /\ ~(Len(triples) <= DpMaxPatterns)
  <2>1. order = GreedyOrder(triples, entries, rows)
    BY <1>3 DEF Orders
  <2>2. QED
    BY <2>1, GreedyOrderCovers DEF AreEntries
<1>4. QED
  BY <1>1, <1>2, <1>3

(***************************************************************************)
(* A WHERE that is one block                                                *)
(***************************************************************************)
IsStore(s) == IsRows(s) /\ IsInjective(s) /\ \A k \in DOMAIN s : IsQuad(s[k])

\* The solutions of the block of the query at one of the moments there were.
Answers(rows) ==
    /\ IsInjective(rows)
    /\ \E m \in DOMAIN moments :
         ToSet(rows) = Mappings(NoBinding, query.where[1].triples, DOMAIN query.where[1].triples,
                                InGraph(moments[m], DefaultGraph))

\* The only frame of such a query has its block ahead of it, or its answer.
BlockInv ==
    /\ IsStore(quads)
    /\ OneBlock(query) /\ estimator # "none" /\ phase = "where" =>
         /\ Len(frames) = 1 /\ Top.job.scope = DefaultGraph /\ Top.snapshot = <<>> /\ ~Top.entered
         /\ \/ /\ Top.todo = << [type |-> "block", triples |-> query.where[1].triples] >>
               /\ Top.rows = Unit /\ Top.stats = <<>>
            \/ Top.todo = <<>> /\ Answers(Top.rows)

\* A graph of a store has no two quads with the same triple.
LEMMA InGraphIs ==
  ASSUME NEW s, NEW g, IsStore(s)
  PROVE  IsGraph(InGraph(s, g)) /\ IsRows(InGraph(s, g))
<1>1. PICK T, k : T = {q \in ToSet(s) : q[4] = g} /\ k = Kept(s, T) /\ InGraph(s, g) = k
  BY DEF InGraph
<1>2. s \in Seq(ToSet(s)) /\ IsInjective(s)
  BY DEF IsStore, IsRows
<1>3. IsRows(k) /\ IsInjective(k) /\ ToSet(k) = T
  <2>1. k \in Seq(ToSet(s)) /\ ToSet(k) = ToSet(s) \cap T /\ IsInjective(k)
    BY <1>1, <1>2, KeptIsSeq, KeptMembers
  <2>2. ToSet(s) \cap T = T
    BY <1>1
  <2>3. QED
    BY <2>1, <2>2, RowsAre
<1>4. ASSUME NEW p \in ToSet(k), NEW q \in ToSet(k), << p[1], p[2], p[3] >> = << q[1], q[2], q[3] >>
      PROVE  p = q
  <2>1. p \in ToSet(s) /\ q \in ToSet(s) /\ p[4] = g /\ q[4] = g
    BY <1>1, <1>3
  <2>2. IsQuad(p) /\ IsQuad(q)
    BY <2>1 DEF IsStore, ToSet
  <2>3. p[1] = q[1] /\ p[2] = q[2] /\ p[3] = q[3]
    BY <1>4
  <2>4. p = << p[1], p[2], p[3], p[4] >> /\ q = << q[1], q[2], q[3], q[4] >>
    BY <2>2 DEF IsQuad
  <2>5. QED
    BY <2>1, <2>3, <2>4
<1>5. QED
  BY <1>1, <1>3, <1>4 DEF IsGraph

\* What the group of such a query opens with.
LEMMA OpenedBlock ==
  ASSUME OneBlock(query), query \in Queries, estimator # "none", NEW f,
         f = Opened(Job(query.where, AllGraphs, DefaultGraph, NoVariable, query), <<>>)
  PROVE  /\ f.todo = << [type |-> "block", triples |-> query.where[1].triples] >>
         /\ f.rows = Unit /\ f.stats = <<>> /\ f.job.scope = DefaultGraph /\ f.snapshot = <<>> /\ ~f.entered
<1>1. PICK w, p : w = query.where /\ p = w[1]
  OBVIOUS
<1>2. w \in Seq(Patterns) /\ Len(w) = 1 /\ p.type = "bgp" /\ ~GroupHasExists(w)
  BY <1>1, EvaluationAssumption DEF OneBlock
<1>3. w = << p >> /\ w \in Seq({p}) /\ ToSet(w) = {p}
  <2>1. PICK S : S = Patterns \cup {p}
    OBVIOUS
  <2>2. w \in Seq(S) /\ << p >> \in Seq(S) /\ Len(<< p >>) = 1 /\ << p >>[1] = p
    BY <1>2, <2>1
  <2>3. \A i \in 1 .. Len(w) : w[i] = << p >>[i]
    BY <1>1, <1>2, <2>2
  <2>4. w = << p >>
    BY <1>2, <2>2, <2>3, SeqEqual
  <2>5. << p >> \in Seq({p}) /\ ToSet(<< p >>) = {p}
    BY DEF ToSet
  <2>6. QED
    BY <2>4, <2>5
<1>4. NonFilters(w) = << p >> /\ Filters(w) = <<>>
  <2>1. p.type # "filter"
    BY <1>2
  <2>2. PICK T, U : T = {x \in ToSet(w) : x.type # "filter"} /\ U = {x \in ToSet(w) : x.type = "filter"}
    OBVIOUS
  <2>3. ToSet(w) \subseteq T /\ ToSet(w) \cap U = {}
    BY <1>3, <2>1, <2>2
  <2>4. Kept(w, T) = w /\ Kept(w, U) = <<>>
    BY <1>3, <2>3, KeptAll, KeptNone
  <2>5. QED
    BY <1>3, <2>2, <2>4 DEF NonFilters, Filters
<1>5. PICK job : job = Job(w, AllGraphs, DefaultGraph, NoVariable, query)
  OBVIOUS
<1>6. job.patterns = w /\ job.scope = DefaultGraph
  BY <1>5 DEF Job
<1>7. PICK steps : steps = NonFilters(job.patterns) \o Filters(job.patterns)
  OBVIOUS
<1>8. steps = << p >>
  BY <1>4, <1>6, <1>7
<1>9. f = [todo |-> [k \in DOMAIN steps |-> Planned(steps[k])], rows |-> Unit, job |-> job,
           snapshot |-> IF GroupHasExists(job.patterns) THEN << Drained(job.root) >> ELSE <<>>,
           stats |-> <<>>, walk |-> <<>>, entered |-> FALSE, jobs |-> <<>>, inner |-> <<>>]
  BY <1>1, <1>5, <1>7 DEF Opened
<1>10. [k \in DOMAIN steps |-> Planned(steps[k])] = << Planned(p) >>
  BY <1>8
<1>11. Planned(p) = [type |-> "block", triples |-> p.triples]
  <2>1. Len(p.triples) > 1 /\ \A k \in DOMAIN p.triples : ~IsPath(p.triples[k])
    BY <1>1 DEF OneBlock
  <2>2. QED
    BY <1>2, <2>1 DEF Planned
<1>12. QED
  BY <1>1, <1>2, <1>6, <1>9, <1>10, <1>11

LEMMA StoreChanges ==
  ASSUME NEW s, NEW patch, IsStore(s), IsContent(patch.add)
  PROVE  IsStore(Patched(s, patch))
<1>1. PICK add, left, more : /\ add = patch.add /\ left = Kept(s, ToSet(s) \ patch.remove)
                             /\ more = Kept(add, ToSet(add) \ ToSet(left))
  OBVIOUS
<1>2. /\ s \in Seq(ToSet(s)) /\ IsInjective(s) /\ \A x \in ToSet(s) : IsQuad(x)
      /\ add \in Seq(ToSet(add)) /\ IsInjective(add) /\ \A x \in ToSet(add) : IsQuad(x)
  BY <1>1 DEF IsStore, IsContent, IsRows, ToSet
<1>3. left \in Seq(ToSet(s)) /\ IsInjective(left) /\ ToSet(left) \subseteq ToSet(s) /\ IsRows(left)
  BY <1>1, <1>2, KeptIsSeq, KeptMembers, RowsAre
<1>4. /\ more \in Seq(ToSet(add)) /\ IsInjective(more) /\ IsRows(more)
      /\ ToSet(more) \subseteq ToSet(add) /\ ToSet(more) \cap ToSet(left) = {}
  BY <1>1, <1>2, KeptIsSeq, KeptMembers, RowsAre
<1>5. IsRows(left \o more) /\ IsInjective(left \o more) /\ ToSet(left \o more) = ToSet(left) \cup ToSet(more)
  <2>1. PICK S : S = ToSet(s) \cup ToSet(add)
    OBVIOUS
  <2>2. left \in Seq(S) /\ more \in Seq(S)
    BY <1>3, <1>4, <2>1
  <2>3. ToSet(left) \cap ToSet(more) = {}
    BY <1>4
  <2>4. IsInjective(left \o more) /\ ToSet(left \o more) = ToSet(left) \cup ToSet(more)
    BY <1>3, <1>4, <2>2, <2>3, ConcatOnce
  <2>5. QED
    BY <1>3, <1>4, <2>4, ConcatIsRows
<1>6. \A k \in DOMAIN (left \o more) : IsQuad((left \o more)[k])
  <2>1. \A x \in ToSet(left \o more) : IsQuad(x)
    BY <1>2, <1>3, <1>4, <1>5
  <2>2. QED
    BY <2>1 DEF ToSet
<1>7. QED
  BY <1>1, <1>5, <1>6 DEF IsStore, Patched

LEMMA BlockInvInit ==
  ASSUME Init
  PROVE  BlockInv
BY EvaluationAssumption DEF Init, BlockInv, IsStore, IsContent, IsRows

\* The only step of such a query that changes its frame joins the block.
LEMMA BlockIsJoined ==
  ASSUME TypeInv, BlockInv, OneBlock(query), estimator # "none", JoinBlock, phase = "where"
  PROVE  /\ phase' = "where" /\ Len(frames') = 1 /\ Top'.job.scope = DefaultGraph
         /\ Top'.snapshot = <<>> /\ ~Top'.entered /\ Top'.todo = <<>> /\ Answers(Top'.rows)
<1>1. PICK p, T : p = query.where[1] /\ T = p.triples
  OBVIOUS
<1>2. /\ Len(frames) = 1 /\ Top.job.scope = DefaultGraph /\ Top.snapshot = <<>> /\ ~Top.entered
      /\ Top.todo = << [type |-> "block", triples |-> T] >> /\ Top.rows = Unit /\ Top.stats = <<>>
  <2>1. Top.todo # <<>>
    BY DEF JoinBlock, Evaluating
  <2>2. QED
    BY <1>1, <2>1 DEF BlockInv
<1>3. Now.triples = T /\ Tail(Top.todo) = <<>>
  BY <1>2 DEF Now
<1>4. /\ T \in Seq(ToSet(T)) /\ Len(T) \in Nat /\ DOMAIN T = 1 .. Len(T)
      /\ \A k \in DOMAIN T : IsClosed(T[k])
  <2>1. query \in Queries /\ query.where \in Seq(Patterns) /\ Len(query.where) = 1 /\ p.type = "bgp"
    BY <1>1, EvaluationAssumption DEF TypeInv, OneBlock
  <2>2. p \in Patterns
    BY <1>1, <2>1
  <2>3. IsPattern(p) /\ \A k \in DOMAIN T : ~IsPath(T[k])
    BY <1>1, <2>2, EvaluationAssumption DEF OneBlock
  <2>4. T \in Seq(ToSet(T)) /\ \A k \in DOMAIN T : IsClosed(T[k])
    BY <1>1, <2>1, <2>3 DEF IsPattern
  <2>5. QED
    BY <2>4
<1>5. dataset = <<>> /\ Scoped = InGraph(quads, DefaultGraph)
  <2>1. dataset = <<>>
    BY DEF TypeInv, OneBlock
  <2>2. QED
    BY <1>2, <2>1 DEF Scoped, Source
<1>6. PrebuiltIndex = <<>>
  BY <1>2 DEF PrebuiltIndex
<1>7. PICK G, rows : G = Scoped /\ rows = Unit
  OBVIOUS
<1>8. IsGraph(G) /\ IsRows(G)
  BY <1>5, <1>7, InGraphIs DEF BlockInv
<1>9. rows = << NoBinding >> /\ IsMapping(NoBinding) /\ AreSolutions(rows, DOMAIN NoBinding)
  <2>1. IsMapping(NoBinding)
    BY DEF NoBinding, IsMapping
  <2>2. << NoBinding >> \in Seq({NoBinding}) /\ ToSet(<< NoBinding >>) = {NoBinding}
        /\ IsInjective(<< NoBinding >>)
    BY DEF ToSet, IsInjective
  <2>3. QED
    BY <1>7, <2>1, <2>2, RowsAre DEF Unit, AreSolutions
<1>10. PICK stats, entries, order :
         /\ stats = PatternStatistics(T) /\ entries = Entries(T, stats) /\ order \in Orders(T, entries, rows)
         /\ StepTop([Top EXCEPT !.rows  = JoinedInOrder(@, T, order, Scoped, PrebuiltIndex),
                                !.stats = stats, !.todo = Tail(@)])
  BY <1>2, <1>3, <1>7 DEF JoinBlock
<1>11. AreEntries(entries) /\ DOMAIN entries = DOMAIN T
  <2>1. AreStats(Top.stats)
    BY <1>2 DEF AreStats
  <2>2. DOMAIN T \in SUBSET Nat /\ IsFiniteSet(DOMAIN T)
    BY <1>4, FS_Interval
  <2>3. QED
    BY <1>7, <1>8, <1>10, <2>1, <2>2, StatisticsAre
<1>12. order \in Seq(DOMAIN T) /\ ToSet(order) = DOMAIN T
  <2>1. IsIndex(PrebuiltIndex) /\ IsRows(Scoped) /\ IsRows(rows)
    BY <1>6, <1>7, <1>8, <1>9 DEF IsIndex, AreSolutions
  <2>2. QED
    BY <1>4, <1>10, <1>11, <2>1, OrdersCover
<1>13. PICK joined : joined = JoinedInOrder(<< NoBinding >>, T, order, G, <<>>)
  OBVIOUS
<1>14. IsInjective(joined) /\ ToSet(joined) = Mappings(NoBinding, T, DOMAIN T, G)
  BY <1>4, <1>8, <1>9, <1>12, <1>13, BlockMeansItsTriples
<1>15. PICK g, f : g = Top /\ f = [g EXCEPT !.rows = joined, !.stats = stats, !.todo = <<>>]
  OBVIOUS
<1>16. frames' = [frames EXCEPT ![Len(frames)] = f]
  <2>1. [Top EXCEPT !.rows = JoinedInOrder(@, T, order, Scoped, PrebuiltIndex), !.stats = stats, !.todo = Tail(@)] = f
    BY <1>2, <1>3, <1>6, <1>7, <1>9, <1>13, <1>15
  <2>2. QED
    BY <1>10, <2>1 DEF StepTop
<1>17. Settled(g) /\ frames # <<>> /\ IsStack(frames)
  BY <1>15, TopOfStack DEF TypeInv
<1>18. /\ f.rows = joined /\ f.todo = <<>> /\ f.job = g.job /\ f.snapshot = g.snapshot /\ f.entered = g.entered
       /\ Settled(f)
  <2>1. IsFrame(g) /\ g.walk = <<>>
    BY <1>2, <1>15, <1>17 DEF Settled, BeginsWithPath
  <2>2. QED
    BY <1>2, <1>15, <1>17, <2>1 DEF Settled, IsFrame
<1>19. Len(frames') = 1 /\ Top' = f
  <2>1. Len(frames') = Len(frames) /\ frames'[Len(frames)] = f
    BY <1>16, <1>17, <1>18, TopReplaced
  <2>2. QED
    BY <1>2, <2>1 DEF Top, Last
<1>20. Answers(joined)
  <2>1. Len(moments) \in DOMAIN moments /\ moments[Len(moments)] = quads
    <3>1. IsRows(moments) /\ Len(moments) = changes + 1 /\ changes \in Nat /\ Last(moments) = quads
      BY EvaluationAssumption DEF TypeInv
    <3>2. DOMAIN moments = 1 .. Len(moments)
      BY <3>1, RowsLength
    <3>3. QED
      BY <3>1, <3>2 DEF Last
  <2>2. ToSet(joined) = Mappings(NoBinding, T, DOMAIN T, InGraph(moments[Len(moments)], DefaultGraph))
    BY <1>5, <1>7, <1>14, <2>1
  <2>3. QED
    BY <1>1, <1>14, <2>1, <2>2 DEF Answers
<1>21. QED
  BY <1>2, <1>15, <1>18, <1>19, <1>20 DEF JoinBlock, Untouched

\* The store stays one through every step, and its earlier moments stay as they were.
LEMMA StoreStep ==
  ASSUME TypeInv, BlockInv, [Next]_vars
  PROVE  IsStore(quads') /\ \A rows : Answers(rows) => Answers(rows)'
<1>1. CASE UNCHANGED << quads, query, moments >>
  BY <1>1 DEF BlockInv, Answers
<1>2. CASE Mutate
  <2>1. IsStore(quads')
    BY <1>2, StoreChanges, EvaluationAssumption DEF Mutate, BlockInv
  <2>2. PICK m, q : m = moments /\ q = quads' /\ moments' = Append(m, q)
    BY <1>2 DEF Mutate
  <2>3. IsRows(m)
    BY <2>2 DEF TypeInv
  <2>4. \A k \in DOMAIN m : k \in DOMAIN Append(m, q) /\ Append(m, q)[k] = m[k]
    <3>1. PICK S : S = ToSet(m) \cup {q}
      OBVIOUS
    <3>2. m \in Seq(S)
      <4>1. m \in Seq(ToSet(m))
        BY <2>3 DEF IsRows
      <4>2. QED
        BY <3>1, <4>1
    <3>3. q \in S
      BY <3>1
    <3>4. QED
      BY <3>2, <3>3
  <2>5. query' = query
    BY <1>2 DEF Mutate
  <2>6. ASSUME NEW rows, Answers(rows)
        PROVE  Answers(rows)'
    <3>1. PICK k \in DOMAIN m :
             ToSet(rows) = Mappings(NoBinding, query.where[1].triples, DOMAIN query.where[1].triples,
                                    InGraph(m[k], DefaultGraph))
      BY <2>2, <2>6 DEF Answers
    <3>2. k \in DOMAIN moments' /\ moments'[k] = m[k]
      BY <2>2, <2>4
    <3>3. IsInjective(rows)
      BY <2>6 DEF Answers
    <3>4. QED
      BY <2>5, <3>1, <3>2, <3>3 DEF Answers
  <2>7. QED
    BY <2>1, <2>6
<1>3. CASE Evaluation \/ Cancel
  BY <1>1, <1>3 DEF Evaluation, Load, Open, Enter, Descend, Combine, Return, JoinNext, JoinBlock, LookUp,
                    JoinPath, Apply, Stop, Finish, Describe, Described, Untouched, Cancel
<1>4. QED
  BY <1>1, <1>2, <1>3 DEF Next, vars

LEMMA BlockStep ==
  ASSUME TypeInv, BlockInv, Next, OneBlock(query), estimator # "none", phase' = "where"
  PROVE  \/ UNCHANGED << frames, phase >>
         \/ frames' # frames /\ Open
         \/ JoinBlock /\ phase = "where"
<1>1. CASE phase = "where"
  <2>1. /\ Len(frames) = 1 /\ ~Top.entered /\ frames # <<>> /\ Settled(Top) /\ IsStack(frames)
        /\ (Top.todo # <<>> => Now.type = "block")
    <3>1. Len(frames) = 1 /\ ~Top.entered
      BY <1>1 DEF BlockInv
    <3>2. frames # <<>> /\ IsStack(frames)
      BY <1>1 DEF TypeInv
    <3>3. Settled(Top)
      BY <3>2, TopOfStack
    <3>4. Top.todo # <<>> => Now.type = "block"
      BY <1>1 DEF BlockInv, Now
    <3>5. QED
      BY <3>1, <3>2, <3>3, <3>4
  <2>2. Top.jobs = <<>>
    BY <2>1 DEF Settled
  <2>3. Unwound(frames) = <<>>
    <3>1. DOMAIN frames = {1} /\ Top = frames[1]
      <4>1. Top = frames[Len(frames)] /\ IsRows(frames)
        BY <2>1, TopOfStack
      <4>2. DOMAIN frames = 1 .. Len(frames)
        BY <4>1, RowsLength
      <4>3. QED
        BY <2>1, <4>1, <4>2
    <3>2. {i \in DOMAIN frames : IsSilent(frames[i])} = {}
      BY <2>1, <3>1 DEF IsSilent
    <3>3. QED
      BY <3>2 DEF Unwound
  <2>4. ~Load /\ ~Open /\ ~Describe /\ ~Described /\ ~Finish
    BY <1>1 DEF Load, Open, Describe, Described, Finish
  <2>5. ~Enter /\ ~Combine /\ ~JoinNext /\ ~LookUp /\ ~JoinPath /\ ~Apply
    BY <2>1 DEF Enter, Combine, JoinNext, LookUp, JoinPath, OnPath, Apply, Evaluating, IsNesting, Grouping,
                IsLocal
  <2>6. ~Descend /\ ~Return
    BY <2>1, <2>2 DEF Descend, Return
  <2>7. ~Stop
    BY <2>3 DEF Stop
  <2>8. QED
    BY <1>1, <2>4, <2>5, <2>6, <2>7 DEF Next, Evaluation, Cancel, Mutate
<1>2. CASE phase # "where"
  <2>1. ~(Enter \/ Descend \/ Combine \/ Return \/ JoinNext \/ LookUp \/ JoinPath \/ JoinBlock \/ Apply \/ Finish)
    BY <1>2 DEF Enter, Descend, Combine, Return, JoinNext, LookUp, JoinPath, OnPath, JoinBlock, Apply, Finish,
                Evaluating
  <2>2. ~(Load \/ Describe \/ Described \/ Cancel \/ Mutate)
    BY <1>2 DEF Load, Describe, Described, Cancel, Mutate
  <2>3. ~Stop
    BY <1>2 DEF Stop
  <2>4. frames = <<>>
    BY <1>2 DEF TypeInv
  <2>5. Open => frames' # frames
    <3>1. PICK f : f = Opened(Job(query.where, AllGraphs, DefaultGraph, NoVariable, query), <<>>)
      OBVIOUS
    <3>2. Open => frames' = << f >>
      BY <3>1 DEF Open
    <3>3. << f >> # <<>>
      OBVIOUS
    <3>4. QED
      BY <2>4, <3>2, <3>3
  <2>6. QED
    BY <2>1, <2>2, <2>3, <2>5 DEF Next, Evaluation
<1>3. QED
  BY <1>1, <1>2

LEMMA BlockInvStep ==
  ASSUME TypeInv, BlockInv, [Next]_vars
  PROVE  BlockInv'
<1>1. IsStore(quads') /\ \A rows : Answers(rows) => Answers(rows)'
  BY StoreStep
<1>2. query' = query /\ estimator' = estimator
  BY DEF vars, Next, Evaluation, Load, Open, Enter, Descend, Combine, Return, JoinNext, JoinBlock, LookUp,
         JoinPath, Apply, Stop, Finish, Describe, Described, Untouched, Cancel, Mutate
<1>3. ASSUME OneBlock(query), estimator # "none", phase' = "where"
      PROVE  BlockInv'
  <2>1. CASE UNCHANGED << frames, phase >>
    <3>1. Top' = Top
      BY <2>1 DEF Top
    <3>2. PICK top : top = Top
      OBVIOUS
    <3>3. Answers(top.rows) => Answers(top.rows)'
      BY <1>1
    <3>4. /\ Len(frames) = 1 /\ top.job.scope = DefaultGraph /\ top.snapshot = <<>> /\ ~top.entered
          /\ \/ /\ top.todo = << [type |-> "block", triples |-> query.where[1].triples] >>
                /\ top.rows = Unit /\ top.stats = <<>>
             \/ top.todo = <<>> /\ Answers(top.rows)
      BY <1>3, <2>1, <3>2 DEF BlockInv
    <3>5. QED
      BY <1>1, <1>2, <2>1, <3>1, <3>2, <3>3, <3>4 DEF BlockInv
  <2>2. CASE Open
    <3>1. PICK f : f = Opened(Job(query.where, AllGraphs, DefaultGraph, NoVariable, query), <<>>)
      OBVIOUS
    <3>2. frames' = << f >>
      BY <2>2, <3>1 DEF Open
    <3>3. Len(frames') = 1 /\ Top' = f
      BY <3>2 DEF Top, Last
    <3>4. /\ f.todo = << [type |-> "block", triples |-> query.where[1].triples] >>
          /\ f.rows = Unit /\ f.stats = <<>> /\ f.job.scope = DefaultGraph /\ f.snapshot = <<>> /\ ~f.entered
      BY <1>3, <3>1, OpenedBlock DEF TypeInv
    <3>5. QED
      BY <1>1, <1>2, <3>3, <3>4 DEF BlockInv
  <2>3. CASE JoinBlock /\ phase = "where"
    <3>1. /\ phase' = "where" /\ Len(frames') = 1 /\ Top'.job.scope = DefaultGraph
          /\ Top'.snapshot = <<>> /\ ~Top'.entered /\ Top'.todo = <<>> /\ Answers(Top'.rows)
      BY <1>3, <2>3, BlockIsJoined
    <3>2. PICK top : top = Top'
      OBVIOUS
    <3>3. Answers(top.rows)'
      BY <1>1, <3>1, <3>2
    <3>4. QED
      BY <1>1, <1>2, <3>1, <3>2, <3>3 DEF BlockInv
  <2>4. CASE Next
    BY <1>3, <2>1, <2>2, <2>3, <2>4, BlockStep
  <2>5. QED
    BY <2>1, <2>4 DEF vars
<1>4. QED
  BY <1>1, <1>2, <1>3 DEF BlockInv, OneBlock, FromClauses

LEMMA BlockInvHolds == Spec => []BlockInv
<1>1. Init => BlockInv
  BY BlockInvInit
<1>2. TypeInv /\ BlockInv /\ [Next]_vars => BlockInv'
  BY BlockInvStep
<1>3. QED
  BY <1>1, <1>2, TypeInvHolds, PTL DEF Spec

\* A WHERE that is one block of triples answers from the store of one moment, whatever
\* the order its triples are joined in, and no solution of that moment is missing or
\* comes twice: for every store, block, estimator and change made meanwhile.
THEOREM BlocksSeeOneMoment == Spec => []BlockSeesOneMoment
<1>1. BlockInv => BlockSeesOneMoment
  <2>1. ASSUME BlockInv, phase = "where", Top.todo = <<>>, OneBlock(query), estimator # "none"
        PROVE  Answers(Top.rows)
    <3>1. PICK b : b = [type |-> "block", triples |-> query.where[1].triples]
      OBVIOUS
    <3>2. << b >> # <<>>
      OBVIOUS
    <3>3. QED
      BY <2>1, <3>1, <3>2 DEF BlockInv
  <2>2. QED
    BY <2>1 DEF BlockSeesOneMoment, Answers
<1>2. QED
  BY <1>1, BlockInvHolds, PTL

(***************************************************************************)
(* What every evaluation gathers                                            *)
(***************************************************************************)
BlockTriples == UNION {ToSet(p.triples) : p \in {p \in Patterns : p.type = "bgp"}}

Selects == Queries \cup {p \in Patterns : p.type = "query"}

AllRows(s) == IsRows(s) /\ \A k \in DOMAIN s : IsRows(s[k])

\* What the operators return for the paths, conditions and SELECTs of the queries are
\* sequences, as the arrays of the code are.
ComputesRows ==
    /\ \A t \in BlockTriples : \A walk :
          IsPath(t) /\ AllRows(walk) => IsRows(WalkAfter(t.path, t.s, t.o, walk).pairs)
    /\ \A p \in Patterns : \A rows, ctx :
          p.type = "filter" /\ IsRows(rows) => IsRows(RowsPassing(<< p.expr >>, rows, ctx))
    /\ \A p \in Patterns : \A left, right, ctx :
          p.type = "optional" /\ IsRows(left) /\ IsRows(right)
          => IsRows(LeftJoined(left, right, Conditions(p), ctx))
    /\ \A q \in Selects : \A rows, ctx :
          q.form = "select" /\ IsRows(rows) => IsRows(SelectSolutions(rows, q, ctx))

IsStep(p) ==
    IF p.type \in {"block", "chain"}
    THEN /\ p \in [type : {p.type}, triples : {p.triples}]
         /\ IsRows(p.triples) /\ p.triples # <<>> /\ ToSet(p.triples) \subseteq BlockTriples
    ELSE p \in Patterns

IsJob(j) == j.patterns \in Seq(Patterns) /\ (j.select = NoSelect \/ j.select \in Selects)

AllSteps(s) == IsRows(s) /\ \A k \in DOMAIN s : IsStep(s[k])
AllJobs(s)  == IsRows(s) /\ \A k \in DOMAIN s : IsJob(s[k])

Gathers(f) ==
    /\ IsRows(f.rows) /\ AreStats(f.stats) /\ IsIndex(f.snapshot)
    /\ AllSteps(f.todo) /\ AllRows(f.walk) /\ AllRows(f.inner) /\ AllJobs(f.jobs) /\ IsJob(f.job)

AllGather(s) == \A i \in DOMAIN s : Gathers(s[i])

RowsInv ==
    /\ dataset # <<>> => IsRows(dataset[1])
    /\ AllGather(frames)

LEMMA HeadAndTail ==
  ASSUME NEW s, IsRows(s), s # <<>>
  PROVE  /\ 1 \in DOMAIN s /\ Head(s) = s[1] /\ IsRows(Tail(s)) /\ ToSet(Tail(s)) \subseteq ToSet(s)
         /\ \A k \in DOMAIN Tail(s) : k + 1 \in DOMAIN s /\ Tail(s)[k] = s[k + 1]
         /\ Len(s) # 1 => Tail(s) # <<>>
<1>1. s \in Seq(ToSet(s))
  BY DEF IsRows
<1>2. Tail(s) \in Seq(ToSet(s))
  BY <1>1
<1>3. IsRows(Tail(s)) /\ ToSet(Tail(s)) \subseteq ToSet(s)
  BY <1>2, RowsAre
<1>4. PICK n, t : n = Len(s) /\ t = Tail(s)
  OBVIOUS
<1>5. n \in Nat /\ n # 0 /\ DOMAIN s = 1 .. n /\ Head(s) = s[1] /\ Len(t) = n - 1 /\ DOMAIN t = 1 .. n - 1
  BY <1>1, <1>4
<1>6. \A k \in 1 .. n - 1 : t[k] = s[k + 1]
  BY <1>1, <1>4, <1>5
<1>7. n # 1 => t # <<>>
  BY <1>5
<1>8. QED
  BY <1>3, <1>4, <1>5, <1>6, <1>7

\* A step, a group or solutions fewer ahead.
LEMMA TailsAre ==
  ASSUME NEW s, s # <<>>
  PROVE  /\ AllSteps(s) => AllSteps(Tail(s)) /\ IsStep(Head(s))
         /\ AllJobs(s) => AllJobs(Tail(s)) /\ IsJob(Head(s))
<1>1. AllSteps(s) => AllSteps(Tail(s)) /\ IsStep(Head(s))
  BY HeadAndTail DEF AllSteps
<1>2. AllJobs(s) => AllJobs(Tail(s)) /\ IsJob(Head(s))
  BY HeadAndTail DEF AllJobs
<1>3. QED
  BY <1>1, <1>2

LEMMA CutGathers ==
  ASSUME NEW t, NEW s, NEW n, NEW f, IsRows(s), AllGather(s), Cut(t, s, n, f), Gathers(f)
  PROVE  AllGather(t)
<1>1. /\ Len(s) \in Nat /\ DOMAIN s = 1 .. Len(s) /\ Len(t) \in Nat /\ DOMAIN t = 1 .. Len(t)
  BY RowsLength DEF Cut
<1>2. n \in Nat /\ n <= Len(s) /\ Len(t) = n + 1 /\ t[n + 1] = f /\ \A i \in 1 .. n : t[i] = s[i]
  BY DEF Cut
<1>3. ASSUME NEW i \in DOMAIN t PROVE Gathers(t[i])
  <2>1. CASE i = n + 1
    BY <1>2, <2>1
  <2>2. CASE i # n + 1
    <3>1. i \in DOMAIN s /\ t[i] = s[i]
      BY <1>1, <1>2, <2>2
    <3>2. QED
      BY <3>1 DEF AllGather
  <2>3. QED
    BY <2>1, <2>2
<1>4. QED
  BY <1>3 DEF AllGather

LEMMA SourceIsRows ==
  ASSUME IsRows(quads), RowsInv
  PROVE  IsRows(Source) /\ IsRows(Scoped) /\ \A root : IsRows(Drained(root))
<1>1. IsRows(Source)
  BY DEF RowsInv, Source
<1>2. ASSUME NEW g PROVE IsRows(InGraph(Source, g))
  BY <1>1, KeptIsRows DEF InGraph
<1>3. QED
  BY <1>1, <1>2 DEF Scoped, Drained

LEMMA PatternsAre ==
  ASSUME NEW ps \in Seq(Patterns)
  PROVE  /\ IsRows(ps) /\ NonFilters(ps) \in Seq(Patterns) /\ Filters(ps) \in Seq(Patterns)
         /\ \A k \in DOMAIN ps : ps[k] \in Patterns /\ << ps[k] >> \in Seq(Patterns)
BY RowsAre, KeptIsSeq DEF NonFilters, Filters

LEMMA OpenedGathers ==
  ASSUME NEW job, NEW stats, NEW f, IsRows(quads), RowsInv, IsJob(job), AreStats(stats),
         f = Opened(job, stats)
  PROVE  Gathers(f)
<1>1. PICK steps, todo : steps = NonFilters(job.patterns) \o Filters(job.patterns)
                          /\ todo = [k \in DOMAIN steps |-> Planned(steps[k])]
  OBVIOUS
<1>2. PICK snapshot : snapshot = IF GroupHasExists(job.patterns) THEN << Drained(job.root) >> ELSE <<>>
  OBVIOUS
<1>3. f = [todo |-> todo, rows |-> Unit, job |-> job, snapshot |-> snapshot, stats |-> stats,
           walk |-> <<>>, entered |-> FALSE, jobs |-> <<>>, inner |-> <<>>]
  BY <1>1, <1>2 DEF Opened
<1>4. IsIndex(snapshot)
  BY <1>2, SourceIsRows DEF IsIndex
<1>5. AllSteps(todo)
  <2>1. NonFilters(job.patterns) \in Seq(Patterns) /\ Filters(job.patterns) \in Seq(Patterns)
    BY PatternsAre DEF IsJob
  <2>2. steps \in Seq(Patterns)
    BY <1>1, <2>1
  <2>3. IsRows(steps) /\ \A k \in DOMAIN steps : steps[k] \in Patterns
    BY <2>2, RowsAre
  <2>4. ASSUME NEW p \in Patterns PROVE IsStep(Planned(p))
    <3>1. IsPattern(p)
      BY EvaluationAssumption
    <3>2. CASE p.type # "bgp"
      <4>1. p.type \notin {"block", "chain"}
        BY <3>1, <3>2 DEF IsPattern, Grouping
      <4>2. QED
        BY <3>2, <4>1 DEF Planned, IsStep
    <3>3. CASE p.type = "bgp"
      <4>1. PICK q : q = Planned(p)
        OBVIOUS
      <4>2. /\ q.type \in {"block", "chain"} /\ q.triples = p.triples
            /\ q \in [type : {q.type}, triples : {q.triples}]
        BY <3>3, <4>1 DEF Planned
      <4>3. IsRows(p.triples) /\ p.triples # <<>>
        BY <3>1, <3>3 DEF IsPattern, IsRows
      <4>4. ToSet(p.triples) \subseteq BlockTriples
        BY <3>3 DEF BlockTriples
      <4>5. QED
        BY <4>1, <4>2, <4>3, <4>4 DEF IsStep
    <3>4. QED
      BY <3>2, <3>3
  <2>5. DOMAIN todo = DOMAIN steps /\ todo = [k \in DOMAIN todo |-> todo[k]]
        /\ \A k \in DOMAIN steps : todo[k] = Planned(steps[k])
    BY <1>1
  <2>6. IsRows(todo)
    BY <2>3, <2>5, MappedIsRows
  <2>7. QED
    BY <2>3, <2>4, <2>5, <2>6 DEF AllSteps
<1>6. IsRows(Unit) /\ AllRows(<<>>) /\ AllJobs(<<>>)
  BY SmallRows DEF Unit, AllRows, AllJobs
<1>7. QED
  BY <1>3, <1>4, <1>5, <1>6 DEF Gathers

\* The nested groups of a pattern are groups of patterns.
LEMMA NestedAreJobs ==
  ASSUME NEW p \in Patterns, IsNesting(p), IsRows(quads), RowsInv, NEW jobs, jobs = NestedJobs(p)
  PROVE  AllJobs(jobs)
<1>1. IsPattern(p)
  BY EvaluationAssumption
<1>2. PICK top : top = Top.job
  OBVIOUS
<1>3. ASSUME NEW ps \in Seq(Patterns), NEW root, NEW scope, NEW bind
      PROVE  IsJob(Job(ps, root, scope, bind, NoSelect))
  BY <1>3 DEF IsJob, Job
<1>4. ASSUME NEW job, IsJob(job) PROVE AllJobs(<< job >>)
  <2>1. DOMAIN << job >> = {1} /\ << job >>[1] = job
    OBVIOUS
  <2>2. QED
    BY <1>4, <2>1, SmallRows DEF AllJobs
<1>5. CASE p.type = "optional"
  <2>1. NonFilters(p.patterns) \in Seq(Patterns)
    BY <1>1, <1>5, PatternsAre DEF IsPattern, Grouping
  <2>2. jobs = << Job(NonFilters(p.patterns), top.root, top.scope, NoVariable, NoSelect) >>
    BY <1>2, <1>5 DEF NestedJobs
  <2>3. QED
    BY <1>3, <1>4, <2>1, <2>2
<1>6. CASE p.type \in {"minus", "group", "service"}
  <2>1. p.patterns \in Seq(Patterns)
    BY <1>1, <1>6 DEF IsPattern, Grouping
  <2>2. jobs = << Job(p.patterns, top.root, top.scope, NoVariable, NoSelect) >>
    BY <1>2, <1>6 DEF NestedJobs
  <2>3. QED
    BY <1>3, <1>4, <2>1, <2>2
<1>7. CASE p.type = "union"
  <2>1. p.patterns \in Seq(Patterns)
    BY <1>1, <1>7 DEF IsPattern, Grouping
  <2>2. jobs = [k \in DOMAIN p.patterns |-> Job(<< p.patterns[k] >>, top.root, top.scope, NoVariable, NoSelect)]
    BY <1>2, <1>7 DEF NestedJobs
  <2>3. IsRows(jobs)
    BY <2>1, <2>2, PatternsAre, MappedIsRows
  <2>4. ASSUME NEW k \in DOMAIN jobs PROVE IsJob(jobs[k])
    <3>1. PICK ps : ps = << p.patterns[k] >>
      OBVIOUS
    <3>2. ps \in Seq(Patterns) /\ jobs[k] = Job(ps, top.root, top.scope, NoVariable, NoSelect)
      BY <2>1, <2>2, <3>1, PatternsAre
    <3>3. QED
      BY <1>3, <3>2
  <2>5. QED
    BY <2>3, <2>4 DEF AllJobs
<1>8. CASE p.type = "graph"
  <2>1. p.patterns \in Seq(Patterns)
    BY <1>1, <1>8 DEF IsPattern, Grouping
  <2>2. PICK graphs : graphs = NamedGraphTerms(Drained(top.root))
    OBVIOUS
  <2>3. IsRows(graphs)
    <3>1. PICK d, column : d = Drained(top.root) /\ column = Column(d, 4)
      OBVIOUS
    <3>2. IsRows(column)
      <4>1. IsRows(d)
        BY <3>1, SourceIsRows
      <4>2. column = [k \in DOMAIN d |-> d[k][4]]
        BY <3>1 DEF Column
      <4>3. QED
        BY <4>1, <4>2, MappedIsRows
    <3>3. QED
      BY <2>2, <3>1, <3>2, KeptIsRows, DeduplicatedIsRows DEF NamedGraphTerms
  <2>4. CASE p.name \in Variables
    <3>1. jobs = [k \in DOMAIN graphs |-> Job(p.patterns, top.root, graphs[k], p.name, NoSelect)]
      BY <1>2, <1>8, <2>2, <2>4 DEF NestedJobs
    <3>2. IsRows(jobs)
      BY <2>3, <3>1, MappedIsRows
    <3>3. QED
      BY <1>3, <2>1, <3>1, <3>2 DEF AllJobs
  <2>5. CASE p.name \notin Variables
    <3>1. jobs = << Job(p.patterns, top.root, p.name, NoVariable, NoSelect) >>
      BY <1>2, <1>8, <2>5 DEF NestedJobs
    <3>2. QED
      BY <1>3, <1>4, <2>1, <3>1
  <2>6. QED
    BY <2>4, <2>5
<1>9. CASE p.type = "query"
  <2>1. p.where \in Seq(Patterns) /\ p \in Selects
    BY <1>1, <1>9 DEF IsPattern, Selects
  <2>2. jobs = << Job(p.where, top.scope, top.scope, NoVariable, p) >>
    BY <1>2, <1>9 DEF NestedJobs
  <2>3. IsJob(Job(p.where, top.scope, top.scope, NoVariable, p))
    BY <2>1 DEF IsJob, Job
  <2>4. QED
    BY <1>4, <2>2, <2>3
<1>10. QED
  BY <1>5, <1>6, <1>7, <1>8, <1>9 DEF IsNesting, Grouping

\* What the steps of a frame compute are sequences of solutions.
LEMMA JoinedIsRows ==
  ASSUME ComputesRows, NEW p \in Patterns, NEW right, IsRows(Top.rows), IsRows(right)
  PROVE  IsRows(Joined(p, right))
<1>1. PICK rows, ctx : rows = Top.rows /\ ctx = Context
  OBVIOUS
<1>2. p.type = "optional" => IsRows(LeftJoined(rows, right, Conditions(p), ctx))
  BY <1>1 DEF ComputesRows
<1>3. IsRows(InnerJoin(rows, right)) /\ IsRows(Minus(rows, right))
  BY <1>1, InnerJoinIsRows
<1>4. Joined(p, right) = CASE p.type = "optional" -> LeftJoined(rows, right, Conditions(p), ctx)
                           [] p.type = "minus"    -> Minus(rows, right)
                           [] OTHER               -> InnerJoin(rows, right)
  BY <1>1 DEF Joined
<1>5. CASE p.type = "optional"
  BY <1>2, <1>4, <1>5
<1>6. CASE p.type = "minus"
  BY <1>3, <1>4, <1>6
<1>7. CASE p.type \notin {"optional", "minus"}
  BY <1>3, <1>4, <1>7
<1>8. QED
  BY <1>5, <1>6, <1>7

LEMMA LocalIsRows ==
  ASSUME ComputesRows, NEW p \in Patterns, NEW rows, IsRows(rows), IsLocal(p)
  PROVE  IsRows(LocalRows(p, rows))
<1>1. PICK ctx : ctx = Context
  OBVIOUS
<1>2. CASE p.type = "values"
  <2>1. IsRows(p.rows)
    BY <1>2, EvaluationAssumption DEF IsPattern, IsRows
  <2>2. LocalRows(p, rows) = JoinValues(rows, p.rows)
    BY <1>2 DEF LocalRows
  <2>3. QED
    BY <2>1, <2>2, JoinValuesIsRows
<1>3. CASE p.type = "filter"
  <2>1. LocalRows(p, rows) = RowsPassing(<< p.expr >>, rows, ctx)
    BY <1>1, <1>3 DEF LocalRows
  <2>2. QED
    BY <1>3, <2>1 DEF ComputesRows
<1>4. CASE p.type = "bind"
  <2>1. PICK f : f = LocalRows(p, rows)
    OBVIOUS
  <2>2. f = [i \in DOMAIN rows |-> AfterBind(ExpressionResult(p.expr, rows[i], ctx), p.var)]
    BY <1>1, <1>4, <2>1 DEF LocalRows
  <2>3. IsRows(f)
    BY <2>2, MappedIsRows
  <2>4. QED
    BY <2>1, <2>3
<1>5. QED
  BY <1>2, <1>3, <1>4 DEF IsLocal

LEMMA SolvedIsRows ==
  ASSUME ComputesRows, NEW f, Gathers(f)
  PROVE  /\ IsRows(Solved(f))
         /\ \A bind, graph : IsRows(Tagged(Solved(f), bind, graph))
<1>1. PICK q, ctx : /\ q = f.job.select
                    /\ ctx = [quads |-> IF PipelineHasExists(q) THEN Drained(f.job.root) ELSE <<>>,
                              graph |-> DefaultGraph]
  OBVIOUS
<1>2. Solved(f) = IF q = NoSelect \/ q.form # "select" THEN f.rows ELSE SelectSolutions(f.rows, q, ctx)
  BY <1>1 DEF Solved
<1>3. IsRows(f.rows) /\ (q = NoSelect \/ q \in Selects)
  BY <1>1 DEF Gathers, IsJob
<1>4. IsRows(Solved(f))
  <2>1. CASE q = NoSelect \/ q.form # "select"
    BY <1>2, <1>3, <2>1
  <2>2. CASE ~(q = NoSelect \/ q.form # "select")
    <3>1. q \in Selects /\ q.form = "select"
      BY <1>3, <2>2
    <3>2. PICK rows : rows = f.rows
      OBVIOUS
    <3>3. IsRows(SelectSolutions(rows, q, ctx))
      BY <1>3, <3>1, <3>2 DEF ComputesRows
    <3>4. QED
      BY <1>2, <2>2, <3>2, <3>3
  <2>3. QED
    BY <2>1, <2>2
<1>5. ASSUME NEW bind, NEW graph
      PROVE  IsRows(Tagged(Solved(f), bind, graph))
  <2>1. PICK rows, parts : rows = Solved(f) /\ parts = [i \in DOMAIN rows |-> Bound(rows[i], bind, graph)]
    OBVIOUS
  <2>2. IsRows(parts) /\ \A i \in DOMAIN parts : IsRows(parts[i])
    BY <1>4, <2>1, MappedIsRows, BoundIsRows
  <2>3. IsRows(FlattenSeq(parts))
    BY <2>2, FlattenIsRows
  <2>4. QED
    BY <1>4, <2>1, <2>3 DEF Tagged
<1>6. QED
  BY <1>4, <1>5

\* One more answer, of a lookup or of a nested group.
LEMMA AppendedRows ==
  ASSUME NEW l, NEW rows, AllRows(l), IsRows(rows)
  PROVE  AllRows(Append(l, rows))
<1>1. PICK S : S = ToSet(l) \cup {rows}
  OBVIOUS
<1>2. l \in Seq(S) /\ \A x \in S : IsRows(x)
  <2>1. l \in Seq(ToSet(l)) /\ \A x \in ToSet(l) : IsRows(x)
    BY DEF AllRows, IsRows, ToSet
  <2>2. QED
    BY <1>1, <2>1
<1>3. PICK a : a = Append(l, rows) /\ a \in Seq(S)
  <2>1. rows \in S
    BY <1>1
  <2>2. Append(l, rows) \in Seq(S)
    BY <1>2, <2>1
  <2>3. QED
    BY <2>2
<1>4. \A k \in DOMAIN a : a[k] \in S
  BY <1>3
<1>5. QED
  BY <1>2, <1>3, <1>4, RowsAre DEF AllRows

\* The frame on top, between steps.
LEMMA TopGathers ==
  ASSUME TypeInv, RowsInv, frames # <<>>
  PROVE  /\ Gathers(Top) /\ IsFrame(Top) /\ Settled(Top) /\ IsRows(frames) /\ IsIndex(PrebuiltIndex)
         /\ Top.todo # <<>> => IsStep(Now)
<1>1. /\ IsRows(frames) /\ Settled(Top) /\ Top = frames[Len(frames)]
  BY TopOfStack DEF TypeInv
<1>2. Len(frames) \in DOMAIN frames
  BY <1>1, RowsLength
<1>3. Gathers(Top)
  BY <1>1, <1>2 DEF RowsInv, AllGather
<1>4. IsIndex(PrebuiltIndex)
  BY <1>3 DEF PrebuiltIndex, Gathers, IsIndex
<1>5. ASSUME Top.todo # <<>> PROVE IsStep(Now)
  <2>1. PICK todo : todo = Top.todo
    OBVIOUS
  <2>2. AllSteps(todo) /\ todo # <<>>
    BY <1>3, <1>5, <2>1 DEF Gathers
  <2>3. QED
    BY <2>1, <2>2, TailsAre DEF Now
<1>6. QED
  BY <1>1, <1>3, <1>4, <1>5 DEF Settled

LEMMA TopReplacedGathers ==
  ASSUME TypeInv, RowsInv, frames # <<>>, NEW f, Gathers(f), frames' = [frames EXCEPT ![Len(frames)] = f]
  PROVE  AllGather(frames')
<1>1. PICK s, t, n : s = frames /\ t = [s EXCEPT ![Len(s)] = f] /\ n = Len(s) - 1
  OBVIOUS
<1>2. IsRows(s) /\ s # <<>> /\ AllGather(s)
  BY <1>1, TopGathers DEF RowsInv
<1>3. Cut(t, s, n, f)
  BY <1>1, <1>2, ReplaceCuts
<1>4. AllGather(t)
  BY <1>2, <1>3, CutGathers
<1>5. QED
  BY <1>1, <1>4

\* What a chain has ahead, when its first triple is joined.
LEMMA NextAreSteps ==
  ASSUME TypeInv, RowsInv, frames # <<>>, Top.todo # <<>>, Now.type = "chain"
  PROVE  Head(Now.triples) \in BlockTriples /\ AllSteps(NextInChain)
<1>1. PICK g, p : g = Top /\ p = Now
  OBVIOUS
<1>2. Gathers(g) /\ IsStep(p)
  BY <1>1, TopGathers
<1>3. /\ IsRows(p.triples) /\ p.triples # <<>> /\ ToSet(p.triples) \subseteq BlockTriples
      /\ p \in [type : {p.type}, triples : {p.triples}]
  BY <1>1, <1>2 DEF IsStep
<1>4. Head(p.triples) \in BlockTriples
  <2>1. 1 \in DOMAIN p.triples /\ Head(p.triples) = p.triples[1]
    BY <1>3, HeadAndTail
  <2>2. QED
    BY <1>3, <2>1 DEF ToSet
<1>5. PICK rest, q : /\ q = [p EXCEPT !.triples = Tail(@)]
                     /\ rest = IF Len(p.triples) = 1 THEN <<>> ELSE << q >>
  OBVIOUS
<1>6. AllSteps(rest)
  <2>1. CASE Len(p.triples) = 1
    BY <1>5, <2>1, SmallRows DEF AllSteps
  <2>2. CASE Len(p.triples) # 1
    <3>1. /\ q.type = "chain" /\ q.triples = Tail(p.triples)
          /\ q \in [type : {q.type}, triples : {q.triples}]
      BY <1>1, <1>3, <1>5
    <3>2. IsStep(q)
      BY <1>3, <2>2, <3>1, HeadAndTail DEF IsStep
    <3>3. rest = << q >>
      BY <1>5, <2>2
    <3>4. DOMAIN << q >> = {1} /\ << q >>[1] = q
      OBVIOUS
    <3>5. QED
      BY <3>2, <3>3, <3>4, SmallRows DEF AllSteps
  <2>3. QED
    BY <2>1, <2>2
<1>7. AllSteps(rest \o Tail(g.todo))
  <2>1. AllSteps(Tail(g.todo))
    BY <1>1, <1>2, TailsAre DEF Gathers
  <2>2. PICK l : l = Tail(g.todo)
    OBVIOUS
  <2>3. IsRows(rest) /\ IsRows(l)
    BY <1>6, <2>1, <2>2 DEF AllSteps
  <2>4. IsRows(rest \o l) /\ ToSet(rest \o l) = ToSet(rest) \cup ToSet(l)
    BY <2>3, ConcatIsRows
  <2>5. \A x \in ToSet(rest) \cup ToSet(l) : IsStep(x)
    BY <1>6, <2>1, <2>2 DEF AllSteps, ToSet
  <2>6. \A k \in DOMAIN (rest \o l) : (rest \o l)[k] \in ToSet(rest \o l)
    BY DEF ToSet
  <2>7. QED
    BY <2>2, <2>4, <2>5, <2>6 DEF AllSteps
<1>8. NextInChain = rest \o Tail(g.todo)
  BY <1>1, <1>5 DEF NextInChain
<1>9. QED
  BY <1>1, <1>4, <1>7, <1>8

\* What is left when something is thrown.
LEMMA UnwoundGathers ==
  ASSUME TypeInv, RowsInv, frames # <<>>
  PROVE  AllGather(Unwound(frames))
<1>1. PICK catching : catching = {i \in DOMAIN frames : IsSilent(frames[i])}
  OBVIOUS
<1>2. CASE catching = {}
  <2>1. Unwound(frames) = <<>>
    BY <1>1, <1>2 DEF Unwound
  <2>2. QED
    BY <2>1 DEF AllGather
<1>3. CASE catching # {}
  <2>1. /\ Len(frames) \in Nat /\ DOMAIN frames = 1 .. Len(frames) /\ IsRows(frames)
        /\ \A i \in 1 .. Len(frames) : Settled(frames[i]) /\ Gathers(frames[i])
    BY RowsLength, TopOfStack DEF IsStack, TypeInv, RowsInv, AllGather
  <2>2. PICK last : last = Max(catching)
    OBVIOUS
  <2>3. last \in 1 .. Len(frames) /\ IsSilent(frames[last])
    <3>1. catching \in SUBSET (1 .. Len(frames))
      BY <1>1, <2>1
    <3>2. PICK x \in catching : \A y \in catching : y <= x
      BY <1>3, <2>1, <3>1, GreatestOf
    <3>3. last \in catching
      BY <2>2, <3>2 DEF Max
    <3>4. QED
      BY <1>1, <3>1, <3>3
  <2>4. PICK f, g, n : /\ n = last - 1 /\ g = frames[last]
                       /\ f = [g EXCEPT !.todo = Tail(@), !.entered = FALSE, !.jobs = <<>>, !.inner = <<>>]
    OBVIOUS
  <2>5. Gathers(f)
    <3>1. Settled(g) /\ Gathers(g) /\ g.entered
      BY <2>1, <2>3, <2>4 DEF IsSilent
    <3>2. g.todo # <<>> /\ IsFrame(g)
      BY <3>1 DEF Settled
    <3>3. AllSteps(Tail(g.todo))
      BY <3>1, <3>2, TailsAre DEF Gathers
    <3>4. AllRows(<<>>) /\ AllJobs(<<>>)
      BY SmallRows DEF AllRows, AllJobs
    <3>5. /\ f.rows = g.rows /\ f.stats = g.stats /\ f.snapshot = g.snapshot /\ f.job = g.job /\ f.walk = g.walk
          /\ f.todo = Tail(g.todo) /\ f.inner = <<>> /\ f.jobs = <<>>
      BY <2>4, <3>2 DEF IsFrame
    <3>6. QED
      BY <3>1, <3>3, <3>4, <3>5 DEF Gathers
  <2>6. n \in Nat /\ n <= Len(frames)
    BY <2>1, <2>3, <2>4
  <2>7. Unwound(frames) = Append(SubSeq(frames, 1, n), f)
    BY <1>1, <1>3, <2>2, <2>4 DEF Unwound
  <2>8. Cut(Append(SubSeq(frames, 1, n), f), frames, n, f)
    BY <2>1, <2>6, AppendCuts
  <2>9. AllGather(frames)
    BY DEF RowsInv
  <2>10. QED
    BY <2>1, <2>5, <2>7, <2>8, <2>9, CutGathers
<1>4. QED
  BY <1>2, <1>3

LEMMA EnterGathers ==
  ASSUME TypeInv, RowsInv, IsRows(quads), Enter
  PROVE  AllGather(frames')
<1>1. frames # <<>> /\ Top.todo # <<>> /\ IsNesting(Now)
  BY DEF Enter, Evaluating, TypeInv
<1>2. PICK g, p, jobs : g = Top /\ p = Now /\ jobs = NestedJobs(p)
  OBVIOUS
<1>3. Gathers(g) /\ IsFrame(g) /\ IsStep(p)
  BY <1>1, <1>2, TopGathers
<1>4. p \in Patterns
  BY <1>1, <1>2, <1>3 DEF IsStep, IsNesting, Grouping
<1>5. AllJobs(jobs)
  BY <1>1, <1>2, <1>4, NestedAreJobs
<1>6. PICK f : f = [g EXCEPT !.entered = TRUE, !.jobs = jobs]
  OBVIOUS
<1>7. /\ f.rows = g.rows /\ f.stats = g.stats /\ f.snapshot = g.snapshot /\ f.job = g.job /\ f.walk = g.walk
      /\ f.todo = g.todo /\ f.inner = g.inner /\ f.jobs = jobs
  BY <1>3, <1>6 DEF IsFrame
<1>8. Gathers(f)
  BY <1>3, <1>5, <1>7 DEF Gathers
<1>9. frames' = [frames EXCEPT ![Len(frames)] = f]
  BY <1>2, <1>6 DEF Enter, StepTop
<1>10. QED
  BY <1>1, <1>8, <1>9, TopReplacedGathers

LEMMA CombineGathers ==
  ASSUME ComputesRows, TypeInv, RowsInv, Combine
  PROVE  AllGather(frames')
<1>1. frames # <<>> /\ Top.todo # <<>> /\ Top.entered
  BY DEF Combine, Evaluating, TypeInv
<1>2. PICK g, p, inner, rows : /\ g = Top /\ p = Now /\ inner = FlattenSeq(g.inner)
                               /\ rows = Joined(p, inner)
  OBVIOUS
<1>3. Gathers(g) /\ IsFrame(g) /\ IsStep(p) /\ Settled(g)
  BY <1>1, <1>2, TopGathers
<1>4. p \in Patterns
  <2>1. IsNesting(p)
    BY <1>1, <1>2, <1>3 DEF Settled, Now
  <2>2. QED
    BY <1>3, <2>1 DEF IsStep, IsNesting, Grouping
<1>5. IsRows(inner)
  BY <1>2, <1>3, FlattenIsRows DEF Gathers, AllRows
<1>6. IsRows(rows)
  BY <1>2, <1>3, <1>4, <1>5, JoinedIsRows DEF Gathers
<1>7. PICK f : f = [g EXCEPT !.todo = Tail(@), !.entered = FALSE, !.inner = <<>>, !.rows = rows]
  OBVIOUS
<1>8. /\ f.rows = rows /\ f.stats = g.stats /\ f.snapshot = g.snapshot /\ f.job = g.job /\ f.walk = g.walk
      /\ f.todo = Tail(g.todo) /\ f.inner = <<>> /\ f.jobs = g.jobs
  BY <1>3, <1>7 DEF IsFrame
<1>9. AllSteps(Tail(g.todo)) /\ AllRows(<<>>)
  BY <1>1, <1>2, <1>3, TailsAre, SmallRows DEF Gathers, AllRows
<1>10. Gathers(f)
  BY <1>3, <1>6, <1>8, <1>9 DEF Gathers
<1>11. frames' = [frames EXCEPT ![Len(frames)] = f]
  BY <1>2, <1>7 DEF Combine, StepTop
<1>12. QED
  BY <1>1, <1>10, <1>11, TopReplacedGathers

LEMMA ApplyGathers ==
  ASSUME ComputesRows, TypeInv, RowsInv, Apply
  PROVE  AllGather(frames')
<1>1. frames # <<>> /\ Top.todo # <<>> /\ IsLocal(Now)
  BY DEF Apply, Evaluating, TypeInv
<1>2. PICK g, p, rows : g = Top /\ p = Now /\ rows = LocalRows(p, g.rows)
  OBVIOUS
<1>3. Gathers(g) /\ IsFrame(g) /\ IsStep(p)
  BY <1>1, <1>2, TopGathers
<1>4. p \in Patterns
  BY <1>1, <1>2, <1>3 DEF IsStep, IsLocal
<1>5. IsRows(rows)
  BY <1>1, <1>2, <1>3, <1>4, LocalIsRows DEF Gathers
<1>6. PICK f : f = [g EXCEPT !.rows = rows, !.todo = Tail(@)]
  OBVIOUS
<1>7. /\ f.rows = rows /\ f.stats = g.stats /\ f.snapshot = g.snapshot /\ f.job = g.job /\ f.walk = g.walk
      /\ f.todo = Tail(g.todo) /\ f.inner = g.inner /\ f.jobs = g.jobs
  BY <1>3, <1>6 DEF IsFrame
<1>8. AllSteps(Tail(g.todo))
  BY <1>1, <1>2, <1>3, TailsAre DEF Gathers
<1>9. Gathers(f)
  BY <1>3, <1>5, <1>7, <1>8 DEF Gathers
<1>10. frames' = [frames EXCEPT ![Len(frames)] = f]
  BY <1>2, <1>6 DEF Apply, StepTop
<1>11. QED
  BY <1>1, <1>9, <1>10, TopReplacedGathers

LEMMA JoinNextGathers ==
  ASSUME TypeInv, RowsInv, IsRows(quads), JoinNext
  PROVE  AllGather(frames')
<1>1. frames # <<>> /\ Top.todo # <<>> /\ Now.type = "chain"
  BY DEF JoinNext, Evaluating, TypeInv
<1>2. PICK g, t, graph, prebuilt, todo :
        /\ g = Top /\ t = Head(Now.triples) /\ graph = Scoped /\ prebuilt = PrebuiltIndex
        /\ todo = NextInChain
  OBVIOUS
<1>3. Gathers(g) /\ IsFrame(g) /\ IsIndex(prebuilt) /\ IsRows(graph) /\ IsRows(g.rows)
  BY <1>1, <1>2, TopGathers, SourceIsRows DEF Gathers
<1>4. AllSteps(todo)
  BY <1>1, <1>2, NextAreSteps
<1>5. PICK scan, rows : scan = Scan(graph, t) /\ rows = JoinTriplePattern(g.rows, t, scan, prebuilt)
  OBVIOUS
<1>6. IsRows(rows)
  <2>1. IsRows(scan)
    BY <1>3, <1>5, KeptIsRows DEF Scan, Agreeing, MatchQuads
  <2>2. QED
    BY <1>3, <1>5, <2>1, JoinIsRows
<1>7. PICK f : f = [g EXCEPT !.rows = rows, !.todo = todo]
  OBVIOUS
<1>8. /\ f.rows = rows /\ f.stats = g.stats /\ f.snapshot = g.snapshot /\ f.job = g.job
      /\ f.todo = todo /\ f.walk = g.walk /\ f.inner = g.inner /\ f.jobs = g.jobs
  BY <1>3, <1>7 DEF IsFrame
<1>9. Gathers(f)
  BY <1>3, <1>4, <1>6, <1>8 DEF Gathers
<1>10. frames' = [frames EXCEPT ![Len(frames)] = f]
  <2>1. [g EXCEPT !.rows = JoinTriplePattern(@, t, Scan(graph, t), prebuilt), !.todo = todo] = f
    BY <1>3, <1>5, <1>7 DEF IsFrame
  <2>2. QED
    BY <1>2, <2>1 DEF JoinNext, StepTop
<1>11. QED
  BY <1>1, <1>9, <1>10, TopReplacedGathers

LEMMA LookUpGathers ==
  ASSUME TypeInv, RowsInv, IsRows(quads), LookUp
  PROVE  AllGather(frames')
<1>1. frames # <<>>
  BY DEF LookUp, OnPath, Evaluating, TypeInv
<1>2. PICK g, graph, ask : g = Top /\ graph = Scoped /\ ask = WalkOf(Head(Now.triples)).ask
  OBVIOUS
<1>3. PICK found : found = MatchQuads(graph, ask[1][1], ask[1][2], ask[1][3])
  OBVIOUS
<1>4. Gathers(g) /\ IsFrame(g) /\ IsRows(found)
  BY <1>1, <1>2, <1>3, TopGathers, SourceIsRows, KeptIsRows DEF MatchQuads
<1>5. PICK walk : walk = Append(g.walk, found)
  OBVIOUS
<1>6. AllRows(walk)
  BY <1>4, <1>5, AppendedRows DEF Gathers
<1>7. PICK f : f = [g EXCEPT !.walk = walk]
  OBVIOUS
<1>8. /\ f.rows = g.rows /\ f.stats = g.stats /\ f.snapshot = g.snapshot /\ f.job = g.job
      /\ f.todo = g.todo /\ f.walk = walk /\ f.inner = g.inner /\ f.jobs = g.jobs
  BY <1>4, <1>7 DEF IsFrame
<1>9. Gathers(f)
  BY <1>4, <1>6, <1>8 DEF Gathers
<1>10. frames' = [frames EXCEPT ![Len(frames)] = f]
  <2>1. [g EXCEPT !.walk = Append(@, found)] = f
    BY <1>4, <1>5, <1>7 DEF IsFrame
  <2>2. QED
    BY <1>2, <1>3, <2>1 DEF LookUp, StepTop
<1>11. QED
  BY <1>1, <1>9, <1>10, TopReplacedGathers

LEMMA JoinPathGathers ==
  ASSUME ComputesRows, TypeInv, RowsInv, JoinPath
  PROVE  AllGather(frames')
<1>1. frames # <<>> /\ Top.todo # <<>> /\ Now.type = "chain" /\ IsPath(Head(Now.triples))
  BY DEF JoinPath, OnPath, Evaluating, TypeInv
<1>2. PICK g, t, pairs, todo :
        /\ g = Top /\ t = Head(Now.triples) /\ todo = NextInChain
        /\ pairs = WalkAfter(t.path, t.s, t.o, g.walk).pairs
  OBVIOUS
<1>3. Gathers(g) /\ IsFrame(g) /\ IsRows(g.rows) /\ AllRows(g.walk)
  BY <1>1, <1>2, TopGathers DEF Gathers
<1>4. t \in BlockTriples /\ AllSteps(todo)
  BY <1>1, <1>2, NextAreSteps
<1>5. PICK rows : rows = JoinPathPattern(g.rows, pairs, t.s, t.o)
  OBVIOUS
<1>6. IsRows(rows)
  <2>1. PICK walk : walk = g.walk
    OBVIOUS
  <2>2. AllRows(walk) /\ pairs = WalkAfter(t.path, t.s, t.o, walk).pairs /\ IsPath(t)
    BY <1>1, <1>2, <1>3, <2>1
  <2>3. IsRows(pairs)
    BY <1>4, <2>2 DEF ComputesRows
  <2>4. QED
    BY <1>3, <1>5, <2>3, PathJoinIsRows
<1>7. PICK f : f = [g EXCEPT !.rows = rows, !.todo = todo, !.walk = <<>>]
  OBVIOUS
<1>8. /\ f.rows = rows /\ f.stats = g.stats /\ f.snapshot = g.snapshot /\ f.job = g.job
      /\ f.todo = todo /\ f.walk = <<>> /\ f.inner = g.inner /\ f.jobs = g.jobs
  BY <1>3, <1>7 DEF IsFrame
<1>9. AllRows(<<>>)
  BY SmallRows DEF AllRows
<1>10. Gathers(f)
  BY <1>3, <1>4, <1>6, <1>8, <1>9 DEF Gathers
<1>11. frames' = [frames EXCEPT ![Len(frames)] = f]
  <2>1. [g EXCEPT !.rows = JoinPathPattern(@, pairs, t.s, t.o), !.todo = todo, !.walk = <<>>] = f
    BY <1>3, <1>5, <1>7 DEF IsFrame
  <2>2. QED
    BY <1>2, <2>1 DEF JoinPath, WalkOf, StepTop
<1>12. QED
  BY <1>1, <1>10, <1>11, TopReplacedGathers

\* What the planner is given for a block, and what comes of any order it may answer.
LEMMA BlockIsPlanned ==
  ASSUME TypeInv, RowsInv, IsRows(quads), frames # <<>>, Top.todo # <<>>, Now.type = "block",
         NEW stats, stats = PatternStatistics(Now.triples),
         NEW entries, entries = Entries(Now.triples, stats)
  PROVE  /\ AreStats(stats) /\ AreEntries(entries) /\ DOMAIN entries = DOMAIN Now.triples
         /\ Len(Now.triples) \in Nat /\ DOMAIN Now.triples = 1 .. Len(Now.triples)
         /\ IsRows(Top.rows) /\ IsRows(Scoped) /\ IsIndex(PrebuiltIndex)
         /\ \A order \in Orders(Now.triples, entries, Top.rows) : Len(order) \in Nat
<1>1. PICK triples, rows : triples = Now.triples /\ rows = Top.rows
  OBVIOUS
<1>2. IsRows(triples) /\ IsRows(rows) /\ AreStats(Top.stats) /\ IsIndex(PrebuiltIndex)
  BY <1>1, TopGathers DEF Gathers, IsStep
<1>3. Len(triples) \in Nat /\ DOMAIN triples = 1 .. Len(triples)
  BY <1>2, RowsLength
<1>4. IsRows(Scoped)
  BY SourceIsRows
<1>5. DOMAIN triples \in SUBSET Nat /\ IsFiniteSet(DOMAIN triples)
  <2>1. PICK n : n = Len(triples)
    OBVIOUS
  <2>2. n \in Nat /\ DOMAIN triples = 1 .. n
    BY <1>3, <2>1
  <2>3. 1 .. n \in SUBSET Nat /\ IsFiniteSet(1 .. n)
    BY <2>2, FS_Interval
  <2>4. QED
    BY <2>2, <2>3
<1>6. AreStats(stats) /\ AreEntries(entries) /\ DOMAIN entries = DOMAIN triples
  BY <1>1, <1>2, <1>4, <1>5, StatisticsAre
<1>7. ASSUME NEW order \in Orders(triples, entries, rows)
      PROVE  Len(order) \in Nat
  <2>1. order \in Seq(DOMAIN triples)
    BY <1>2, <1>3, <1>4, <1>6, <1>7, OrdersCover
  <2>2. QED
    BY <2>1
<1>8. QED
  BY <1>1, <1>2, <1>3, <1>4, <1>6, <1>7

LEMMA JoinBlockGathers ==
  ASSUME TypeInv, RowsInv, IsRows(quads), JoinBlock
  PROVE  AllGather(frames')
<1>1. frames # <<>> /\ Top.todo # <<>> /\ Now.type = "block"
  BY DEF JoinBlock, Evaluating, TypeInv
<1>2. PICK g, graph, prebuilt, triples :
        g = Top /\ graph = Scoped /\ prebuilt = PrebuiltIndex /\ triples = Now.triples
  OBVIOUS
<1>3. PICK stats, entries, order :
        /\ stats = PatternStatistics(Now.triples) /\ entries = Entries(Now.triples, stats)
        /\ order \in Orders(Now.triples, entries, Top.rows)
        /\ StepTop([Top EXCEPT !.rows  = JoinedInOrder(@, Now.triples, order, Scoped, PrebuiltIndex),
                               !.stats = stats, !.todo = Tail(@)])
  BY DEF JoinBlock
<1>4. Gathers(g) /\ IsFrame(g)
  BY <1>1, <1>2, TopGathers
<1>5. AreStats(stats) /\ IsRows(g.rows) /\ IsRows(graph) /\ IsIndex(prebuilt) /\ Len(order) \in Nat
  BY <1>1, <1>2, <1>3, BlockIsPlanned
<1>6. PICK rows : rows = JoinedInOrder(g.rows, triples, order, graph, prebuilt)
  OBVIOUS
<1>7. IsRows(rows)
  BY <1>5, <1>6, BlockJoinIsRows
<1>8. PICK f : f = [g EXCEPT !.rows = rows, !.stats = stats, !.todo = Tail(@)]
  OBVIOUS
<1>9. /\ f.rows = rows /\ f.stats = stats /\ f.snapshot = g.snapshot /\ f.job = g.job /\ f.walk = g.walk
      /\ f.todo = Tail(g.todo) /\ f.inner = g.inner /\ f.jobs = g.jobs
  BY <1>4, <1>8 DEF IsFrame
<1>10. AllSteps(Tail(g.todo))
  BY <1>1, <1>2, <1>4, TailsAre DEF Gathers
<1>11. Gathers(f)
  BY <1>4, <1>5, <1>7, <1>9, <1>10 DEF Gathers
<1>12. frames' = [frames EXCEPT ![Len(frames)] = f]
  BY <1>2, <1>3, <1>6, <1>8 DEF StepTop
<1>13. QED
  BY <1>1, <1>11, <1>12, TopReplacedGathers

LEMMA OpenGathers ==
  ASSUME TypeInv, RowsInv, IsRows(quads), Open
  PROVE  AllGather(frames')
<1>1. PICK job, f : job = Job(query.where, AllGraphs, DefaultGraph, NoVariable, query) /\ f = Opened(job, <<>>)
  OBVIOUS
<1>2. query \in Queries /\ query.where \in Seq(Patterns)
  BY EvaluationAssumption DEF TypeInv
<1>3. IsJob(job)
  BY <1>1, <1>2 DEF Job, IsJob, Selects
<1>4. AreStats(<<>>)
  BY DEF AreStats
<1>5. Gathers(f)
  BY <1>1, <1>3, <1>4, OpenedGathers
<1>6. frames' = << f >>
  BY <1>1 DEF Open
<1>7. DOMAIN << f >> = {1} /\ << f >>[1] = f
  OBVIOUS
<1>8. QED
  BY <1>5, <1>6, <1>7 DEF AllGather

LEMMA DescendGathers ==
  ASSUME TypeInv, RowsInv, IsRows(quads), Descend
  PROVE  AllGather(frames')
<1>1. frames # <<>> /\ Top.jobs # <<>>
  BY DEF Descend, TypeInv
<1>2. PICK g, job, stats, new :
        /\ g = Top /\ job = Head(g.jobs) /\ stats = (IF job.select = NoSelect THEN g.stats ELSE <<>>)
        /\ new = Opened(job, stats)
  OBVIOUS
<1>3. Gathers(g) /\ IsFrame(g) /\ IsRows(frames) /\ g = frames[Len(frames)]
  BY <1>1, <1>2, TopGathers, TopOfStack DEF TypeInv
<1>4. AllJobs(Tail(g.jobs)) /\ IsJob(job)
  BY <1>1, <1>2, <1>3, TailsAre DEF Gathers
<1>5. AreStats(stats)
  BY <1>2, <1>3 DEF Gathers, AreStats
<1>6. Gathers(new)
  BY <1>2, <1>4, <1>5, OpenedGathers
<1>7. PICK f, s, below : /\ f = [g EXCEPT !.jobs = Tail(@)] /\ s = frames
                         /\ below = [s EXCEPT ![Len(s)] = f]
  OBVIOUS
<1>8. /\ f.rows = g.rows /\ f.stats = g.stats /\ f.snapshot = g.snapshot /\ f.job = g.job /\ f.walk = g.walk
      /\ f.todo = g.todo /\ f.inner = g.inner /\ f.jobs = Tail(g.jobs)
  BY <1>3, <1>7 DEF IsFrame
<1>9. Gathers(f)
  BY <1>3, <1>4, <1>8 DEF Gathers
<1>10. AllGather(below) /\ IsRows(below) /\ Len(below) \in Nat
  <2>1. s # <<>> /\ IsRows(s) /\ AllGather(s)
    BY <1>1, <1>3, <1>7 DEF RowsInv
  <2>2. Cut(below, s, Len(s) - 1, f)
    BY <1>7, <2>1, ReplaceCuts
  <2>3. AllGather(below) /\ IsRows(below)
    BY <1>9, <2>1, <2>2, CutGathers DEF Cut
  <2>4. QED
    BY <2>3, RowsLength
<1>11. frames' = Append(below, new)
  <2>1. [frames EXCEPT ![Len(frames)].jobs = Tail(@)] = below
    <3>1. Len(frames) \in DOMAIN frames
      BY <1>1, <1>3, RowsLength
    <3>2. QED
      BY <1>3, <1>7, <3>1
  <2>2. frames' = Append([frames EXCEPT ![Len(frames)].jobs = Tail(@)], new)
    BY <1>2 DEF Descend
  <2>3. QED
    BY <2>1, <2>2
<1>12. Cut(Append(below, new), below, Len(below), new)
  <2>1. SubSeq(below, 1, Len(below)) = below
    <3>1. below \in Seq(ToSet(below))
      BY <1>10 DEF IsRows
    <3>2. QED
      BY <3>1
  <2>2. Cut(Append(SubSeq(below, 1, Len(below)), new), below, Len(below), new)
    BY <1>10, AppendCuts
  <2>3. QED
    BY <2>1, <2>2
<1>13. AllGather(Append(below, new))
  BY <1>6, <1>10, <1>12, CutGathers
<1>14. QED
  BY <1>11, <1>13

LEMMA ReturnGathers ==
  ASSUME ComputesRows, TypeInv, RowsInv, Return
  PROVE  AllGather(frames')
<1>1. frames # <<>> /\ Len(frames) > 1
  BY DEF Return, TypeInv
<1>2. PICK n, top, g, rows, stats :
        /\ n = Len(frames) - 2 /\ top = Top /\ g = frames[Len(frames) - 1]
        /\ rows = Tagged(Solved(top), top.job.bind, top.job.scope)
        /\ stats = IF top.job.select = NoSelect THEN top.stats ELSE g.stats
  OBVIOUS
<1>3. Gathers(top) /\ IsRows(frames) /\ Len(frames) \in Nat
  BY <1>1, <1>2, TopGathers, TopOfStack DEF TypeInv
<1>4. n \in Nat /\ n <= Len(frames) /\ Len(frames) - 1 \in 1 .. Len(frames)
  BY <1>1, <1>2, <1>3
<1>5. Gathers(g) /\ IsFrame(g)
  <2>1. Len(frames) - 1 \in DOMAIN frames
    BY <1>3, <1>4, RowsLength
  <2>2. QED
    BY <1>2, <2>1 DEF RowsInv, AllGather, TypeInv, IsStack, Settled
<1>6. IsRows(rows)
  BY <1>2, <1>3, SolvedIsRows
<1>7. AreStats(stats)
  BY <1>2, <1>3, <1>5 DEF Gathers
<1>8. AllRows(Append(g.inner, rows))
  BY <1>5, <1>6, AppendedRows DEF Gathers
<1>9. PICK f : f = [g EXCEPT !.inner = Append(@, rows), !.stats = stats]
  OBVIOUS
<1>10. /\ f.rows = g.rows /\ f.stats = stats /\ f.snapshot = g.snapshot /\ f.job = g.job /\ f.walk = g.walk
       /\ f.todo = g.todo /\ f.inner = Append(g.inner, rows) /\ f.jobs = g.jobs
  BY <1>5, <1>9 DEF IsFrame
<1>11. Gathers(f)
  BY <1>5, <1>7, <1>8, <1>10 DEF Gathers
<1>12. frames' = Append(SubSeq(frames, 1, n), f)
  <2>1. [g EXCEPT !.inner = Append(@, rows),
                  !.stats = IF top.job.select = NoSelect THEN top.stats ELSE @] = f
    BY <1>2, <1>5, <1>9 DEF IsFrame
  <2>2. QED
    BY <1>2, <2>1 DEF Return
<1>13. Cut(Append(SubSeq(frames, 1, n), f), frames, n, f)
  BY <1>3, <1>4, AppendCuts
<1>14. AllGather(frames)
  BY DEF RowsInv
<1>15. AllGather(Append(SubSeq(frames, 1, n), f))
  BY <1>3, <1>11, <1>13, <1>14, CutGathers
<1>16. QED
  BY <1>12, <1>15

\* The quads of a dataset are a sequence, also while it is loaded.
LEMMA DatasetStep ==
  ASSUME TypeInv, RowsInv, IsRows(quads), Evaluation
  PROVE  dataset' # <<>> => IsRows(dataset'[1])
<1>1. CASE UNCHANGED dataset
  BY <1>1 DEF RowsInv
<1>2. CASE Load
  <2>1. PICK clause, found, moved, d :
          /\ clause = Head(loading) /\ found = InGraph(quads, clause.graph) /\ d = dataset[1]
          /\ moved = [k \in DOMAIN found |->
                        IF clause.named THEN found[k]
                        ELSE << found[k][1], found[k][2], found[k][3], DefaultGraph >>]
    OBVIOUS
  <2>2. IsRows(found)
    BY <2>1, KeptIsRows DEF InGraph
  <2>3. IsRows(moved)
    BY <2>1, <2>2, MappedIsRows
  <2>4. IsRows(d)
    BY <1>2, <2>1 DEF Load, TypeInv, RowsInv
  <2>5. IsRows(Deduplicated(d \o moved))
    BY <2>3, <2>4, ConcatIsRows, DeduplicatedIsRows
  <2>6. PICK loaded : loaded = Loaded(clause)
    OBVIOUS
  <2>7. IsRows(loaded)
    BY <2>1, <2>5, <2>6 DEF Loaded
  <2>8. dataset' = << loaded >>
    BY <1>2, <2>1, <2>6 DEF Load
  <2>9. QED
    BY <2>7, <2>8
<1>3. CASE Finish /\ query.form = "describe"
  <2>1. dataset' = EmptyDataset(query)
    BY <1>3 DEF Finish
  <2>2. << <<>> >>[1] = <<>>
    OBVIOUS
  <2>3. QED
    BY <2>1, <2>2, SmallRows DEF EmptyDataset
<1>4. QED
  BY <1>1, <1>2, <1>3 DEF Evaluation, Open, Enter, Descend, Combine, Return, JoinNext, JoinBlock, LookUp,
                          JoinPath, Apply, Stop, Finish, Describe, Described, Untouched

LEMMA RowsInvInit ==
  ASSUME Init
  PROVE  RowsInv
<1>1. << <<>> >>[1] = <<>> /\ DOMAIN <<>> = {}
  OBVIOUS
<1>2. AllGather(<<>>)
  BY <1>1 DEF AllGather
<1>3. dataset # <<>> => IsRows(dataset[1])
  BY <1>1, SmallRows DEF Init, EmptyDataset
<1>4. QED
  BY <1>2, <1>3 DEF Init, RowsInv

LEMMA RowsInvStep ==
  ASSUME ComputesRows, TypeInv, BlockInv, RowsInv, [Next]_vars
  PROVE  RowsInv'
<1>1. CASE UNCHANGED << dataset, frames >>
  <2>1. AllGather(frames')
    BY <1>1 DEF RowsInv
  <2>2. QED
    BY <1>1, <2>1 DEF RowsInv, AllGather
<1>2. CASE Evaluation
  <2>1. IsRows(quads)
    BY DEF BlockInv, IsStore
  <2>2. frames' = <<>> => AllGather(frames')
    <3>1. DOMAIN <<>> = {}
      OBVIOUS
    <3>2. QED
      BY <3>1 DEF AllGather
  <2>3. Stop => AllGather(frames')
    <3>1. frames = <<>> /\ Stop => frames' = <<>>
      BY DEF Stop, Unwound
    <3>2. frames # <<>> => AllGather(Unwound(frames))
      BY UnwoundGathers
    <3>3. QED
      BY <2>2, <3>1, <3>2 DEF Stop
  <2>4. AllGather(frames')
    <3>1. CASE UNCHANGED frames
      BY <3>1 DEF RowsInv
    <3>2. CASE Finish
      BY <2>2, <3>2 DEF Finish
    <3>3. QED
      BY <1>2, <2>1, <2>3, <3>1, <3>2, OpenGathers, EnterGathers, DescendGathers, CombineGathers,
         ReturnGathers, JoinNextGathers, LookUpGathers, JoinPathGathers, JoinBlockGathers, ApplyGathers
         DEF Evaluation, Load, Describe, Described
  <2>5. dataset' # <<>> => IsRows(dataset'[1])
    BY <1>2, <2>1, DatasetStep
  <2>6. QED
    BY <2>4, <2>5 DEF RowsInv, AllGather
<1>3. CASE Cancel \/ Mutate
  BY <1>1, <1>3 DEF Cancel, Mutate
<1>4. QED
  BY <1>1, <1>2, <1>3 DEF Next, vars

\* What the model says of two triples, in either order.
LEMMA OrdersOfTwo ==
  ASSUME NEW D, D = 1 .. 2, NEW order \in SetToSeqs(D)
  PROVE  \E i, j : D = {i, j} /\ i # j /\ order = << i, j >>
<1>1. IsFiniteSet(D) /\ Cardinality(D) = 2
  <2>1. 1 \in Int /\ 2 \in Int /\ 2 - 1 + 1 = 2 /\ ~(1 > 2)
    OBVIOUS
  <2>2. IsFiniteSet(1 .. 2) /\ Cardinality(1 .. 2) = 2
    BY <2>1, FS_Interval
  <2>3. QED
    BY <2>2
<1>2. order \in [1 .. 2 -> D] /\ \A i, j \in 1 .. 2 : i # j => order[i] # order[j]
  BY <1>1 DEF SetToSeqs
<1>3. PICK i, j : i = order[1] /\ j = order[2]
  OBVIOUS
<1>4. i \in D /\ j \in D /\ i # j
  BY <1>2, <1>3
<1>5. D = {i, j}
  BY <1>4
<1>6. order = << i, j >>
  <2>1. order \in Seq(D) /\ Len(order) = 2
    <3>1. PICK m : m = 2
      OBVIOUS
    <3>2. m \in Nat /\ order \in [1 .. m -> D]
      BY <1>2, <3>1
    <3>3. order \in Seq(D) /\ Len(order) = m
      BY <3>2
    <3>4. QED
      BY <3>1, <3>3
  <2>2. << i, j >> \in Seq(D) /\ Len(<< i, j >>) = 2 /\ \A k \in 1 .. 2 : order[k] = << i, j >>[k]
    BY <1>3, <1>4
  <2>3. QED
    BY <2>1, <2>2, SeqEqual
<1>7. QED
  BY <1>4, <1>5, <1>6

LEMMA CostsAreClaimed ==
  ASSUME TypeInv, BlockInv, RowsInv
  PROVE  PlanCostsAsClaimed
<1>1. SUFFICES ASSUME phase = "where", Top.todo # <<>>, Now.type = "block"
               PROVE  LET entries == Entries(Now.triples, PatternStatistics(Now.triples))
                          card    == Len(Top.rows)
                          bound   == BoundVariables(Top.rows)
                          plan    == KeptPlan(entries, card, bound)
                          Cost(order) == ReplayedPlan(entries, card, bound, order).cost
                      IN  /\ ToSet(plan.order) = DOMAIN entries /\ Len(plan.order) = Len(entries)
                          /\ EqualCost(plan.cost, Cost(plan.order))
                          /\ Len(entries) = 2
                             => \A order \in SetToSeqs(DOMAIN entries) : ~Less(Cost(order), plan.cost)
  BY DEF PlanCostsAsClaimed
<1>2. PICK stats, entries, card, bound, plan :
        /\ stats = PatternStatistics(Now.triples) /\ entries = Entries(Now.triples, stats)
        /\ card = Len(Top.rows) /\ bound = BoundVariables(Top.rows) /\ plan = KeptPlan(entries, card, bound)
  OBVIOUS
<1>3. PICK n : n = Len(Now.triples)
  OBVIOUS
<1>4. AreEntries(entries) /\ DOMAIN entries = 1 .. n /\ n \in Nat /\ card \in Nat
  <2>1. frames # <<>> /\ IsRows(quads)
    BY <1>1 DEF TypeInv, BlockInv, IsStore
  <2>2. /\ AreEntries(entries) /\ DOMAIN entries = DOMAIN Now.triples
        /\ Len(Now.triples) \in Nat /\ DOMAIN Now.triples = 1 .. Len(Now.triples) /\ IsRows(Top.rows)
    BY <1>1, <1>2, <2>1, BlockIsPlanned
  <2>3. QED
    BY <1>2, <1>3, <2>2, RowsLength
<1>5. /\ plan.order \in Seq(DOMAIN entries) /\ ToSet(plan.order) = DOMAIN entries
      /\ Len(plan.order) = Cardinality(DOMAIN entries)
      /\ ReplayedPlan(entries, card, bound, plan.order) = plan
      /\ \A i, j : DOMAIN entries = {i, j} /\ i # j =>
           ~Less(ReplayedPlan(entries, card, bound, << i, j >>).cost, plan.cost)
  BY <1>2, <1>4, KeptPlanCosts
<1>6. Len(entries) = n /\ Cardinality(DOMAIN entries) = n
  <2>1. Cardinality(1 .. n) = n
    BY <1>4, FS_Interval
  <2>2. Len(entries) = n
    BY <1>4
  <2>3. QED
    BY <1>4, <2>1, <2>2
<1>7. EqualCost(plan.cost, ReplayedPlan(entries, card, bound, plan.order).cost)
  BY <1>5 DEF EqualCost
<1>8. ASSUME Len(entries) = 2, NEW order \in SetToSeqs(DOMAIN entries)
      PROVE  ~Less(ReplayedPlan(entries, card, bound, order).cost, plan.cost)
  <2>1. DOMAIN entries = 1 .. 2
    BY <1>4, <1>6, <1>8
  <2>2. PICK i, j : DOMAIN entries = {i, j} /\ i # j /\ order = << i, j >>
    BY <1>8, <2>1, OrdersOfTwo
  <2>3. QED
    BY <1>5, <2>2
<1>9. QED
  BY <1>2, <1>5, <1>6, <1>7, <1>8

\* The plan of the subset search for any block a query meets, over whatever solutions
\* were found before it and whatever the store holds by then: it joins every triple once,
\* costs what its joins cost one after the other, and of two triples it takes the cheaper
\* order.  The operators need only return sequences.
THEOREM PlansCostWhatTheyClaim ==
  ASSUME ComputesRows
  PROVE  Spec => []PlanCostsAsClaimed
<1>1. Init => RowsInv
  BY RowsInvInit
<1>2. TypeInv /\ BlockInv /\ RowsInv /\ [Next]_vars => RowsInv'
  BY RowsInvStep
<1>3. TypeInv /\ BlockInv /\ RowsInv => PlanCostsAsClaimed
  BY CostsAreClaimed
<1>4. QED
  BY <1>1, <1>2, <1>3, TypeInvHolds, BlockInvHolds, PTL DEF Spec

(***************************************************************************)
(* The clauses of a SELECT                                                  *)
(***************************************************************************)
\* A sort key has an integer for every ORDER BY clause.
SortKeys(q) == [DOMAIN q.order -> Int]

\* Of two different keys one precedes the other, and no key two that precede each other.
LEMMA KeysAreOrdered ==
  ASSUME NEW q, NEW m \in Nat, DOMAIN q.order = 1 .. m,
         NEW a \in SortKeys(q), NEW b \in SortKeys(q)
  PROVE  /\ ~(Precedes(a, b, q) /\ Precedes(b, a, q))
         /\ a # b => Precedes(a, b, q) \/ Precedes(b, a, q)
<1>1. \A k \in 1 .. m : a[k] \in Int /\ b[k] \in Int
  BY DEF SortKeys
<1>2. ~(Precedes(a, b, q) /\ Precedes(b, a, q))
  <2>1. SUFFICES ASSUME NEW k \in 1 .. m, \A j \in 1 .. k - 1 : a[j] = b[j],
                        IF q.order[k].descending THEN b[k] < a[k] ELSE a[k] < b[k],
                        NEW l \in 1 .. m, \A j \in 1 .. l - 1 : b[j] = a[j],
                        IF q.order[l].descending THEN a[l] < b[l] ELSE b[l] < a[l]
                 PROVE  FALSE
    BY DEF Precedes
  <2>2. CASE k < l
    BY <1>1, <2>1, <2>2
  <2>3. CASE l < k
    BY <1>1, <2>1, <2>3
  <2>4. CASE k = l
    BY <1>1, <2>1, <2>4
  <2>5. QED
    BY <2>2, <2>3, <2>4
<1>3. ASSUME a # b
      PROVE  Precedes(a, b, q) \/ Precedes(b, a, q)
  <2> DEFINE T == {k \in 1 .. m : a[k] # b[k]}
  <2>1. T # {}
    BY <1>3 DEF SortKeys
  <2>2. PICK k \in T : \A j \in T : k <= j
    <3>1. T \in SUBSET Nat
      OBVIOUS
    <3> HIDE DEF T
    <3>2. QED
      BY <2>1, <3>1, LeastNatural
  <2>3. k \in 1 .. m /\ a[k] # b[k]
    BY <2>2
  <2>4. \A j \in 1 .. k - 1 : a[j] = b[j]
    BY <2>2
  <2>5. a[k] < b[k] \/ b[k] < a[k]
    BY <1>1, <2>3
  <2>6. QED
    BY <2>3, <2>4, <2>5 DEF Precedes
<1>4. QED
  BY <1>2, <1>3

LEMMA KeysInTurn ==
  ASSUME NEW q, NEW m \in Nat, DOMAIN q.order = 1 .. m,
         NEW a \in SortKeys(q), NEW b \in SortKeys(q), NEW c \in SortKeys(q),
         Precedes(a, b, q), Precedes(b, c, q)
  PROVE  Precedes(a, c, q)
<1>1. \A k \in 1 .. m : a[k] \in Int /\ b[k] \in Int /\ c[k] \in Int
  BY DEF SortKeys
<1>2. PICK k \in 1 .. m : /\ \A j \in 1 .. k - 1 : a[j] = b[j]
                          /\ IF q.order[k].descending THEN b[k] < a[k] ELSE a[k] < b[k]
  BY DEF Precedes
<1>3. PICK l \in 1 .. m : /\ \A j \in 1 .. l - 1 : b[j] = c[j]
                          /\ IF q.order[l].descending THEN c[l] < b[l] ELSE b[l] < c[l]
  BY DEF Precedes
<1>4. CASE k < l
  <2>1. \A j \in 1 .. k - 1 : a[j] = c[j]
    BY <1>2, <1>3, <1>4
  <2>2. b[k] = c[k]
    BY <1>3, <1>4
  <2>3. QED
    BY <1>2, <2>1, <2>2 DEF Precedes
<1>5. CASE l < k
  <2>1. \A j \in 1 .. l - 1 : a[j] = c[j]
    BY <1>2, <1>3, <1>5
  <2>2. a[l] = b[l]
    BY <1>2, <1>5
  <2>3. QED
    BY <1>3, <2>1, <2>2 DEF Precedes
<1>6. CASE k = l
  <2>1. \A j \in 1 .. k - 1 : a[j] = c[j]
    BY <1>2, <1>3, <1>6
  <2>2. IF q.order[k].descending THEN c[k] < a[k] ELSE a[k] < c[k]
    BY <1>1, <1>2, <1>3, <1>6
  <2>3. QED
    BY <2>1, <2>2 DEF Precedes
<1>7. QED
  BY <1>4, <1>5, <1>6

\* Sorting compares any two solutions one way, and in the same sense all through.
LEMMA SortIsTotal ==
  ASSUME NEW q, NEW m \in Nat, DOMAIN q.order = 1 .. m, NEW n \in Nat,
         NEW key \in [1 .. n -> SortKeys(q)]
  PROVE  /\ \A i \in 1 .. n : ~ComesBefore(i, i, q, key)
         /\ \A i, j \in 1 .. n : i # j => (ComesBefore(i, j, q, key) <=> ~ComesBefore(j, i, q, key))
         /\ \A i, j, k \in 1 .. n : ComesBefore(i, j, q, key) /\ ComesBefore(j, k, q, key)
                                      => ComesBefore(i, k, q, key)
<1> DEFINE P(i, j) == Precedes(key[i], key[j], q)
<1>1. \A i, j \in 1 .. n : /\ ~(P(i, j) /\ P(j, i))
                           /\ key[i] # key[j] => P(i, j) \/ P(j, i)
  BY KeysAreOrdered
<1>2. \A i, j, k \in 1 .. n : P(i, j) /\ P(j, k) => P(i, k)
  BY KeysInTurn
<1>3. \A i, j, k \in 1 .. n : /\ key[i] = key[j] => (P(i, k) <=> P(j, k)) /\ (P(k, i) <=> P(k, j))
  OBVIOUS
<1>4. \A i, j : ComesBefore(i, j, q, key) <=> P(i, j) \/ (~P(j, i) /\ i < j)
  BY DEF ComesBefore
<1> HIDE DEF P
<1>5. \A i \in 1 .. n : ~ComesBefore(i, i, q, key)
  BY <1>1, <1>4
<1>6. \A i, j \in 1 .. n : i # j => (ComesBefore(i, j, q, key) <=> ~ComesBefore(j, i, q, key))
  BY <1>1, <1>4
<1>7. ASSUME NEW i \in 1 .. n, NEW j \in 1 .. n, NEW k \in 1 .. n,
             ComesBefore(i, j, q, key), ComesBefore(j, k, q, key)
      PROVE  ComesBefore(i, k, q, key)
  <2>1. CASE P(i, j) /\ P(j, k)
    BY <1>2, <1>4, <2>1
  <2>2. CASE ~P(i, j)
    <3>1. key[i] = key[j] /\ i < j
      BY <1>1, <1>4, <1>7, <2>2
    <3>2. (P(i, k) <=> P(j, k)) /\ (P(k, i) <=> P(k, j))
      BY <1>3, <3>1
    <3>3. P(j, k) \/ (~P(k, j) /\ j < k)
      BY <1>4, <1>7
    <3>4. QED
      BY <1>4, <3>1, <3>2, <3>3
  <2>3. CASE ~P(j, k)
    <3>1. key[j] = key[k] /\ j < k
      BY <1>1, <1>4, <1>7, <2>3
    <3>2. (P(i, k) <=> P(i, j)) /\ (P(k, i) <=> P(j, i))
      BY <1>3, <3>1
    <3>3. P(i, j) \/ (~P(j, i) /\ i < j)
      BY <1>4, <1>7
    <3>4. QED
      BY <1>4, <3>1, <3>2, <3>3
  <2>4. QED
    BY <2>1, <2>2, <2>3
<1>8. QED
  BY <1>5, <1>6, <1>7

\* ORDER BY loses, repeats and invents no solution.  No solution is followed by one whose
\* key precedes its own, whichever clauses descend, and those with equal keys stay in the
\* order evaluation left them in (select-order.ts: orderBindings).
THEOREM SortIsStable ==
  ASSUME NEW solutions, IsRows(solutions), NEW q, NEW m \in Nat, DOMAIN q.order = 1 .. m,
         NEW key \in [DOMAIN solutions -> SortKeys(q)]
  PROVE  \E p \in Bijection(DOMAIN solutions, DOMAIN solutions) :
           /\ OrderBindings(solutions, q, key) = Picked(solutions, p)
           /\ \A i, j \in DOMAIN solutions :
                i < j => /\ ~Precedes(key[p[j]], key[p[i]], q)
                         /\ key[p[i]] = key[p[j]] => p[i] < p[j]
<1>1. PICK n : n = Len(solutions) /\ n \in Nat /\ DOMAIN solutions = 1 .. n
  BY RowsLength
<1> DEFINE D == DOMAIN solutions
           Before(i, j) == ComesBefore(i, j, q, key)
           Upto(j) == {i \in D : i = j \/ Before(i, j)}
           place == [j \in D |-> Cardinality(Upto(j))]
<1>2. /\ \A i \in D : ~Before(i, i)
      /\ \A i, j \in D : i # j => (Before(i, j) <=> ~Before(j, i))
      /\ \A i, j, k \in D : Before(i, j) /\ Before(j, k) => Before(i, k)
  BY <1>1, SortIsTotal
<1>3. IsFiniteSet(D) /\ Cardinality(D) = n
  <2>1. n \in Nat
    BY <1>1
  <2>2. IsFiniteSet(1 .. n) /\ Cardinality(1 .. n) = n
    BY <2>1, FS_Interval
  <2>3. QED
    BY <1>1, <2>2
<1>4. \A j \in D : IsFiniteSet(Upto(j)) /\ Cardinality(Upto(j)) \in 1 .. n
  <2>1. TAKE j \in D
  <2>2. PICK U : U = Upto(j)
    OBVIOUS
  <2>3. U \subseteq D /\ j \in U
    BY <2>2
  <2> HIDE DEF D, Upto
  <2>4. IsFiniteSet(U) /\ Cardinality(U) <= n
    BY <1>3, <2>3, FS_Subset
  <2>5. Cardinality(U) \in Nat /\ Cardinality(U) # 0
    BY <2>3, <2>4, FS_CardinalityType, FS_EmptySet
  <2>6. QED
    BY <1>1, <2>2, <2>4, <2>5
<1>5. \A i, j \in D : Before(i, j) => place[i] < place[j]
  <2>1. SUFFICES ASSUME NEW i \in D, NEW j \in D, Before(i, j)
                 PROVE  place[i] < place[j]
    OBVIOUS
  <2>2. Upto(i) \subseteq Upto(j)
    BY <1>2, <2>1
  <2>3. j \in Upto(j) /\ j \notin Upto(i)
    BY <1>2, <2>1
  <2>4. Upto(i) # Upto(j)
    BY <2>3
  <2>5. place[i] = Cardinality(Upto(i)) /\ place[j] = Cardinality(Upto(j))
    BY <2>1
  <2> HIDE DEF Upto, place
  <2>6. /\ IsFiniteSet(Upto(j)) /\ Cardinality(Upto(i)) \in 1 .. n /\ Cardinality(Upto(j)) \in 1 .. n
    BY <1>4, <2>1
  <2>7. Cardinality(Upto(i)) <= Cardinality(Upto(j)) /\ Cardinality(Upto(i)) # Cardinality(Upto(j))
    BY <2>2, <2>4, <2>6, FS_Subset
  <2>8. QED
    BY <2>5, <2>6, <2>7
<1>6. place \in [D -> D]
  BY <1>1, <1>4
<1> HIDE DEF place, Upto, Before
<1>7. \A i, j \in D : place[i] = place[j] => i = j
  BY <1>1, <1>2, <1>5, <1>6
<1>8. \A k \in D : \E j \in D : place[j] = k
  <2>1. place \in Injection(D, D)
    BY <1>6, <1>7 DEF Injection, IsInjective
  <2>2. place \in Surjection(D, D)
    BY <1>3, <2>1, FS_Injection
  <2>3. QED
    BY <2>2 DEF Surjection
<1> DEFINE p == [k \in D |-> CHOOSE j \in D : place[j] = k]
<1>9. \A k \in D : p[k] \in D /\ place[p[k]] = k
  BY <1>8
<1>10. OrderBindings(solutions, q, key) = Picked(solutions, p)
  <2>1. \A j \in D : place[j] = Cardinality({i \in D : i = j \/ ComesBefore(i, j, q, key)})
    BY DEF place, Upto, Before
  <2>2. \A k \in D : p[k] = CHOOSE j \in D : Cardinality({i \in D : i = j \/ ComesBefore(i, j, q, key)}) = k
    BY <2>1
  <2>3. DOMAIN p = D
    OBVIOUS
  <2> HIDE DEF p
  <2>4. Picked(solutions, p) = [k \in D |-> solutions[p[k]]]
    BY <2>3 DEF Picked
  <2>5. OrderBindings(solutions, q, key)
          = [k \in D |-> solutions[CHOOSE j \in D :
                 Cardinality({i \in D : i = j \/ ComesBefore(i, j, q, key)}) = k]]
    BY Zenon DEF OrderBindings
  <2>6. QED
    BY <2>2, <2>4, <2>5, Zenon
<1>11. p \in Bijection(D, D)
  <2>1. p \in [D -> D]
    BY <1>9
  <2>2. \A i, j \in D : p[i] = p[j] => i = j
    BY <1>9
  <2>3. \A j \in D : \E k \in D : p[k] = j
    BY <1>6, <1>7, <1>9
  <2> HIDE DEF p
  <2>4. QED
    BY <2>1, <2>2, <2>3 DEF Bijection, Injection, Surjection, IsInjective
<1> HIDE DEF p
<1>12. ASSUME NEW i \in D, NEW j \in D, i < j
       PROVE  /\ ~Precedes(key[p[j]], key[p[i]], q)
              /\ key[p[i]] = key[p[j]] => p[i] < p[j]
  <2>1. p[i] \in D /\ p[j] \in D /\ p[i] # p[j] /\ ~Before(p[j], p[i])
    <3>1. p[i] \in D /\ p[j] \in D /\ place[p[i]] = i /\ place[p[j]] = j
      BY <1>9
    <3>2. ~(place[p[j]] < place[p[i]])
      BY <1>1, <1>12, <3>1
    <3>3. QED
      BY <1>5, <1>12, <3>1, <3>2
  <2>2. Before(p[i], p[j])
    BY <1>2, <2>1
  <2>3. ~Precedes(key[p[j]], key[p[i]], q)
    BY <2>1 DEF Before, ComesBefore
  <2>4. ~Precedes(key[p[i]], key[p[j]], q) => p[i] < p[j]
    BY <2>2 DEF Before, ComesBefore
  <2>5. key[p[i]] = key[p[j]] => ~Precedes(key[p[i]], key[p[j]], q)
    BY <2>3
  <2>6. QED
    BY <2>3, <2>4, <2>5
<1>13. QED
  BY <1>1, <1>10, <1>11, <1>12

\* The last of the GROUP BY expressions of a variable whose value in key is no error.
IsLastFor(k, v, key, grouping) ==
    /\ k \in DOMAIN key /\ key[k] # Undef /\ KeyVariable(grouping[k]) = v
    /\ \A l \in DOMAIN key : l > k => key[l] = Undef \/ KeyVariable(grouping[l]) # v

LEMMA KeyBindingsAre ==
  ASSUME NEW grouping, NEW m \in Nat, NEW key, DOMAIN key = 1 .. m
  PROVE  \A v : /\ v \in DOMAIN KeyBindings(key, grouping) <=>
                      v # NoVariable /\ \E k : IsLastFor(k, v, key, grouping)
                /\ \A k : v # NoVariable /\ IsLastFor(k, v, key, grouping)
                            => KeyBindings(key, grouping)[v] = key[k]
<1> DEFINE bound == {k \in DOMAIN key : key[k] # Undef /\ KeyVariable(grouping[k]) # NoVariable}
           Named(v) == {k \in bound : KeyVariable(grouping[k]) = v}
           names == {KeyVariable(grouping[k]) : k \in bound}
<1>1. KeyBindings(key, grouping) = [v \in names |-> key[Max(Named(v))]]
  BY Zenon DEF KeyBindings
<1>2. ASSUME NEW v, NEW k, v # NoVariable, IsLastFor(k, v, key, grouping)
      PROVE  v \in names /\ Max(Named(v)) = k
  <2>1. k \in Named(v) /\ \A l \in Named(v) : k >= l
    BY <1>2 DEF IsLastFor
  <2>2. Named(v) \subseteq 1 .. m
    OBVIOUS
  <2>3. \A x \in Named(v) : (\A y \in Named(v) : x >= y) => x = k
    BY <2>1, <2>2
  <2>4. Max(Named(v)) = k
    <3> HIDE DEF Named
    <3>1. QED
      BY <2>1, <2>3 DEF Max
  <2>5. QED
    BY <2>1, <2>4
<1>3. ASSUME NEW v \in names
      PROVE  v # NoVariable /\ \E k : IsLastFor(k, v, key, grouping)
  <2>1. Named(v) # {} /\ Named(v) \in SUBSET (1 .. m)
    BY <1>3
  <2>2. PICK k \in Named(v) : \A l \in Named(v) : l <= k
    <3> HIDE DEF Named
    <3>1. QED
      BY <2>1, GreatestOf
  <2>3. v # NoVariable
    BY <1>3
  <2>4. IsLastFor(k, v, key, grouping)
    <3>1. k \in DOMAIN key /\ key[k] # Undef /\ KeyVariable(grouping[k]) = v
      BY <2>2
    <3>2. ASSUME NEW l \in DOMAIN key, l > k
          PROVE  key[l] = Undef \/ KeyVariable(grouping[l]) # v
      BY <2>2, <2>3, <3>1, <3>2
    <3>3. QED
      BY <3>1, <3>2 DEF IsLastFor
  <2>5. QED
    BY <2>3, <2>4
<1>4. QED
  <2> HIDE DEF names, Named
  <2>1. QED
    BY <1>1, <1>2, <1>3

\* GROUP BY puts every solution into exactly one group and no group is empty: number says
\* which.  Two solutions share a group exactly if all grouping expressions have the same
\* values for them, errors for the same; the members come in the order they were found.
\* The group binds the variables whose expressions have values, each to the last one given
\* (aggregate.ts: groupSolutions).
THEOREM GroupsPartition ==
  ASSUME NEW rows, IsRows(rows), NEW grouping, NEW m \in Nat,
         NEW parts, IsRows(parts), DOMAIN parts = DOMAIN rows,
         \A i \in DOMAIN parts : DOMAIN parts[i] = 1 .. m
  PROVE  \E number \in Surjection(DOMAIN rows, DOMAIN GroupSolutions(rows, grouping, parts)) :
           \A i \in DOMAIN rows :
             LET solution == GroupSolutions(rows, grouping, parts)[number[i]]
             IN  /\ \A j \in DOMAIN rows : number[i] = number[j] <=> parts[i] = parts[j]
                 /\ solution.group =
                      << Picked(rows, Ascending({j \in DOMAIN rows : number[j] = number[i]}, rows)) >>
                 /\ \A v : /\ v \in DOMAIN solution.binding <=>
                                v # NoVariable /\ \E k : IsLastFor(k, v, parts[i], grouping)
                           /\ \A k : v # NoVariable /\ IsLastFor(k, v, parts[i], grouping)
                                       => solution.binding[v] = parts[i][k]
<1>1. PICK keys : keys = Deduplicated(parts)
  OBVIOUS
<1>2. keys \in Seq(ToSet(parts)) /\ ToSet(keys) = ToSet(parts) /\ IsInjective(keys)
  BY <1>1, DeduplicatedOnce DEF IsRows
<1>3. /\ \A i \in DOMAIN rows : \E n \in DOMAIN keys : keys[n] = parts[i]
      /\ \A n \in DOMAIN keys : \E i \in DOMAIN rows : keys[n] = parts[i]
      /\ \A n, o \in DOMAIN keys : keys[n] = keys[o] => n = o
  BY <1>2 DEF ToSet, IsInjective
<1> DEFINE number == [i \in DOMAIN rows |-> CHOOSE n \in DOMAIN keys : keys[n] = parts[i]]
           With(key) == Picked(rows, Ascending({i \in DOMAIN rows : parts[i] = key}, rows))
           Groups == GroupSolutions(rows, grouping, parts)
<1>4. Groups = [n \in DOMAIN keys |-> [binding |-> KeyBindings(keys[n], grouping), group |-> << With(keys[n]) >>]]
  BY <1>1, Zenon DEF GroupSolutions
<1>5. \A i \in DOMAIN rows : number[i] \in DOMAIN keys /\ keys[number[i]] = parts[i]
  BY <1>3
<1>6. DOMAIN number = DOMAIN rows /\ DOMAIN Groups = DOMAIN keys
  BY <1>4
<1>7. number \in [DOMAIN rows -> DOMAIN keys]
  BY <1>5
<1> HIDE DEF number
<1>8. \A i, j \in DOMAIN rows : number[i] = number[j] <=> parts[i] = parts[j]
  BY <1>3, <1>5
<1>9. number \in Surjection(DOMAIN rows, DOMAIN Groups)
  <2>1. \A n \in DOMAIN keys : \E i \in DOMAIN rows : number[i] = n
    BY <1>3, <1>5
  <2>2. QED
    BY <1>6, <1>7, <2>1 DEF Surjection
<1>10. ASSUME NEW i \in DOMAIN rows
       PROVE  LET solution == Groups[number[i]]
              IN  /\ solution.group = << Picked(rows, Ascending({j \in DOMAIN rows : number[j] = number[i]}, rows)) >>
                  /\ \A v : /\ v \in DOMAIN solution.binding <=>
                                 v # NoVariable /\ \E k : IsLastFor(k, v, parts[i], grouping)
                            /\ \A k : v # NoVariable /\ IsLastFor(k, v, parts[i], grouping)
                                        => solution.binding[v] = parts[i][k]
  <2>1. Groups[number[i]] = [binding |-> KeyBindings(parts[i], grouping), group |-> << With(parts[i]) >>]
    <3>1. number[i] \in DOMAIN keys /\ keys[number[i]] = parts[i]
      BY <1>5, <1>10
    <3> HIDE DEF With, Groups
    <3>2. QED
      BY <1>4, <3>1
  <2>2. {j \in DOMAIN rows : parts[j] = parts[i]} = {j \in DOMAIN rows : number[j] = number[i]}
    BY <1>8, <1>10
  <2>3. With(parts[i]) = Picked(rows, Ascending({j \in DOMAIN rows : number[j] = number[i]}, rows))
    BY <2>2
  <2>4. DOMAIN parts[i] = 1 .. m
    BY <1>10
  <2> HIDE DEF With, Groups
  <2>5. /\ Groups[number[i]].binding = KeyBindings(parts[i], grouping)
        /\ Groups[number[i]].group = << With(parts[i]) >>
    BY <2>1
  <2>6. QED
    BY <2>3, <2>4, <2>5, KeyBindingsAre
<1>11. QED
  BY <1>8, <1>9, <1>10

\* The answer with a given OFFSET and LIMIT.
Page(rows, q, offset, limit) ==
    DistinctAndSlice(rows, [q EXCEPT !.offset = offset, !.limit = limit])

\* The rest of a sequence from an offset on, which may lie behind its end.
LEMMA RestIs ==
  ASSUME NEW S, NEW s \in Seq(S), NEW o \in Nat
  PROVE  /\ SubSeq(s, o + 1, Len(s)) \in Seq(S)
         /\ Len(SubSeq(s, o + 1, Len(s))) = IF o <= Len(s) THEN Len(s) - o ELSE 0
         /\ \A i \in 1 .. Len(SubSeq(s, o + 1, Len(s))) : SubSeq(s, o + 1, Len(s))[i] = s[o + i]
<1>1. Len(s) \in Nat /\ \A i \in o + 1 .. Len(s) : s[i] \in S
  OBVIOUS
<1>2. /\ SubSeq(s, o + 1, Len(s)) \in Seq(S)
      /\ Len(SubSeq(s, o + 1, Len(s))) = IF o + 1 <= Len(s) THEN Len(s) - (o + 1) + 1 ELSE 0
      /\ \A i \in 1 .. Len(s) - (o + 1) + 1 : SubSeq(s, o + 1, Len(s))[i] = s[o + 1 + i - 1]
  BY <1>1, SubSeqProperties
<1>3. QED
  BY <1>1, <1>2

\* The first elements of a sequence, all of them if it has no more.
LEMMA HeadIs ==
  ASSUME NEW S, NEW s \in Seq(S), NEW l \in Nat
  PROVE  LET first == SubSeq(s, 1, Min({Len(s), l}))
         IN  /\ first \in Seq(S)
             /\ Len(first) = IF l <= Len(s) THEN l ELSE Len(s)
             /\ \A i \in 1 .. Len(first) : first[i] = s[i]
<1>1. PICK n : n = Min({Len(s), l})
  OBVIOUS
<1>2. Len(s) \in Nat
  OBVIOUS
<1>3. n = IF l <= Len(s) THEN l ELSE Len(s)
  <2>1. \E x \in {Len(s), l} : \A y \in {Len(s), l} : x <= y
    BY <1>2
  <2>2. n \in {Len(s), l} /\ \A y \in {Len(s), l} : n <= y
    BY <1>1, <2>1 DEF Min
  <2>3. QED
    BY <1>2, <2>2
<1>4. n \in Nat /\ \A i \in 1 .. n : s[i] \in S
  BY <1>2, <1>3
<1>5. /\ SubSeq(s, 1, n) \in Seq(S)
      /\ Len(SubSeq(s, 1, n)) = IF 1 <= n THEN n - 1 + 1 ELSE 0
      /\ \A i \in 1 .. n - 1 + 1 : SubSeq(s, 1, n)[i] = s[1 + i - 1]
  BY <1>4, SubSeqProperties
<1>6. PICK first : first = SubSeq(s, 1, n)
  OBVIOUS
<1>7. first \in Seq(S) /\ Len(first) = n /\ \A i \in 1 .. n : first[i] = s[i]
  <2>1. Len(first) = n
    BY <1>4, <1>5, <1>6
  <2>2. ASSUME NEW i \in 1 .. n PROVE first[i] = s[i]
    <3>1. i \in 1 .. n - 1 + 1 /\ 1 + i - 1 = i
      BY <1>4, <2>2
    <3>2. QED
      BY <1>5, <1>6, <3>1
  <2>3. QED
    BY <1>5, <1>6, <2>1, <2>2
<1>8. QED
  BY <1>1, <1>3, <1>6, <1>7

\* What an answer has from an offset on.
StartAt(offset) == IF offset = NoBound THEN 0 ELSE offset
LeftFrom(all, offset) == IF StartAt(offset) <= Len(all) THEN Len(all) - StartAt(offset) ELSE 0

IsPageOf(page, all, offset, limit, S) ==
    /\ page \in Seq(S)
    /\ Len(page) = IF limit = NoBound \/ LeftFrom(all, offset) <= limit THEN LeftFrom(all, offset) ELSE limit
    /\ \A i \in 1 .. Len(page) : page[i] = all[StartAt(offset) + i]

LEMMA PageIs ==
  ASSUME NEW rows, IsRows(rows), NEW q, {"distinct", "offset", "limit"} \subseteq DOMAIN q,
         NEW offset \in Nat \cup {NoBound}, NEW limit \in Nat \cup {NoBound},
         NEW all, all = IF q.distinct THEN Deduplicated(rows) ELSE rows
  PROVE  all \in Seq(ToSet(rows)) /\ IsPageOf(Page(rows, q, offset, limit), all, offset, limit, ToSet(rows))
<1>1. all \in Seq(ToSet(rows)) /\ Len(all) \in Nat
  <2>1. rows \in Seq(ToSet(rows))
    BY DEF IsRows
  <2>2. all \in Seq(ToSet(rows))
    BY <2>1, DeduplicatedOnce
  <2>3. QED
    BY <2>2
<1>2. PICK paged : paged = [q EXCEPT !.offset = offset, !.limit = limit]
  OBVIOUS
<1>3. paged.offset = offset /\ paged.limit = limit /\ paged.distinct = q.distinct
  BY <1>2
<1>4. NoBound \in Int /\ NoBound \notin Nat
  BY DEF NoBound
<1>5. PICK rest : rest = IF offset = NoBound THEN all ELSE SubSeq(all, offset + 1, Len(all))
  OBVIOUS
<1>6. PICK start, left : start = StartAt(offset) /\ left = LeftFrom(all, offset)
  OBVIOUS
<1>7. /\ start \in Nat /\ left \in Nat /\ rest \in Seq(ToSet(rows)) /\ Len(rest) = left
      /\ \A i \in 1 .. Len(rest) : rest[i] = all[start + i]
  <2>1. left = IF start <= Len(all) THEN Len(all) - start ELSE 0
    BY <1>6 DEF LeftFrom
  <2>2. CASE offset = NoBound
    <3>1. start = 0 /\ rest = all
      BY <1>5, <1>6, <2>2 DEF StartAt
    <3>2. left = Len(all)
      BY <1>1, <2>1, <3>1
    <3>3. \A i \in 1 .. Len(all) : start + i = i
      BY <1>1, <3>1
    <3>4. QED
      BY <1>1, <3>1, <3>2, <3>3
  <2>3. CASE offset \in Nat
    <3>1. start = offset /\ rest = SubSeq(all, offset + 1, Len(all))
      BY <1>4, <1>5, <1>6, <2>3 DEF StartAt
    <3>2. left \in Nat
      BY <1>1, <2>1, <2>3, <3>1
    <3>3. /\ rest \in Seq(ToSet(rows)) /\ Len(rest) = IF offset <= Len(all) THEN Len(all) - offset ELSE 0
          /\ \A i \in 1 .. Len(rest) : rest[i] = all[offset + i]
      BY <1>1, <2>3, <3>1, RestIs
    <3>4. QED
      BY <2>1, <2>3, <3>1, <3>2, <3>3
  <2>4. QED
    BY <2>2, <2>3
<1>8. Page(rows, q, offset, limit) = IF limit = NoBound THEN rest ELSE SubSeq(rest, 1, Min({Len(rest), limit}))
  BY <1>2, <1>3, <1>5 DEF Page, DistinctAndSlice
<1>9. ASSUME NEW page, page \in Seq(ToSet(rows)), \A i \in 1 .. Len(page) : page[i] = all[start + i],
             Len(page) = IF limit = NoBound \/ left <= limit THEN left ELSE limit,
             Page(rows, q, offset, limit) = page
      PROVE  all \in Seq(ToSet(rows)) /\ IsPageOf(Page(rows, q, offset, limit), all, offset, limit, ToSet(rows))
  BY <1>1, <1>6, <1>9 DEF IsPageOf
<1>10. CASE limit = NoBound
  BY <1>7, <1>8, <1>9, <1>10
<1>11. CASE limit \in Nat
  <2>1. PICK page : page = SubSeq(rest, 1, Min({Len(rest), limit}))
    OBVIOUS
  <2>2. /\ page \in Seq(ToSet(rows))
        /\ Len(page) = IF limit <= Len(rest) THEN limit ELSE Len(rest)
        /\ \A i \in 1 .. Len(page) : page[i] = rest[i]
    BY <1>7, <1>11, <2>1, HeadIs
  <2>3. Len(page) \in Nat /\ Len(page) <= Len(rest)
    BY <1>7, <1>11, <2>2
  <2>4. \A i \in 1 .. Len(page) : page[i] = all[start + i]
    BY <1>7, <2>2, <2>3
  <2>5. limit # NoBound /\ Len(page) = IF left <= limit THEN left ELSE limit
    BY <1>4, <1>7, <1>11, <2>2, <2>3
  <2>6. Page(rows, q, offset, limit) = page
    BY <1>8, <2>1, <2>5
  <2>7. QED
    BY <1>9, <2>2, <2>4, <2>5, <2>6
<1>12. QED
  BY <1>10, <1>11

\* A client that fetches an answer page by page gets the whole of it: a page and what
\* follows at the next OFFSET are together what follows at its own, and no page exceeds
\* its LIMIT.  DISTINCT drops the duplicates of the whole, not of a page, so that none
\* comes back on a later one (select-pipeline.ts: applySelectPipeline).
THEOREM PagesMakeTheWhole ==
  ASSUME NEW rows, IsRows(rows), NEW q, {"distinct", "offset", "limit"} \subseteq DOMAIN q
  PROVE  LET all == Page(rows, q, NoBound, NoBound)
         IN  /\ Page(rows, q, 0, NoBound) = all
             /\ ToSet(all) = ToSet(rows)
             /\ IF q.distinct THEN IsInjective(all) ELSE all = rows
             /\ \A offset, limit \in Nat :
                  /\ Len(Page(rows, q, offset, limit)) <= limit
                  /\ Page(rows, q, offset, limit) \o Page(rows, q, offset + limit, NoBound)
                       = Page(rows, q, offset, NoBound)
<1>1. PICK all : all = IF q.distinct THEN Deduplicated(rows) ELSE rows
  OBVIOUS
<1>2. PICK S : S = ToSet(rows)
  OBVIOUS
<1>3. NoBound \notin Nat
  BY DEF NoBound
<1>4. \A offset, limit \in Nat \cup {NoBound} :
        all \in Seq(S) /\ IsPageOf(Page(rows, q, offset, limit), all, offset, limit, S)
  BY <1>1, <1>2, PageIs
<1>5. all \in Seq(S) /\ Len(all) \in Nat
  <2>1. all \in Seq(S)
    <3>1. NoBound \in Nat \cup {NoBound}
      OBVIOUS
    <3>2. QED
      BY <1>4, <3>1
  <2>2. QED
    BY <2>1
<1>6. \A n \in {0, NoBound} : Page(rows, q, n, NoBound) = all
  <2>1. TAKE n \in {0, NoBound}
  <2>2. PICK page : page = Page(rows, q, n, NoBound)
    OBVIOUS
  <2>3. page \in Seq(S) /\ Len(page) = Len(all) /\ \A i \in 1 .. Len(page) : page[i] = all[0 + i]
    <3>1. IsPageOf(page, all, n, NoBound, S)
      BY <1>4, <2>2
    <3>2. StartAt(n) = 0
      BY DEF StartAt
    <3>3. LeftFrom(all, n) = Len(all)
      BY <1>5, <3>2 DEF LeftFrom
    <3>4. QED
      BY <3>1, <3>2, <3>3 DEF IsPageOf
  <2>4. page = all
    BY <1>5, <2>3
  <2>5. QED
    BY <2>2, <2>4
<1>7. ToSet(all) = ToSet(rows) /\ IF q.distinct THEN IsInjective(all) ELSE all = rows
  <2>1. rows \in Seq(ToSet(rows))
    BY DEF IsRows
  <2>2. QED
    BY <1>1, <2>1, DeduplicatedOnce
<1>8. ASSUME NEW offset \in Nat, NEW limit \in Nat
      PROVE  /\ Len(Page(rows, q, offset, limit)) <= limit
             /\ Page(rows, q, offset, limit) \o Page(rows, q, offset + limit, NoBound)
                  = Page(rows, q, offset, NoBound)
  <2>1. PICK page, next, rest : /\ page = Page(rows, q, offset, limit)
                                /\ next = Page(rows, q, offset + limit, NoBound)
                                /\ rest = Page(rows, q, offset, NoBound)
    OBVIOUS
  <2>2. PICK left : left = LeftFrom(all, offset)
    OBVIOUS
  <2> DEFINE after == IF offset + limit <= Len(all) THEN Len(all) - (offset + limit) ELSE 0
  <2>3. /\ left = IF offset <= Len(all) THEN Len(all) - offset ELSE 0
        /\ offset + limit \in Nat /\ LeftFrom(all, offset + limit) = after
        /\ StartAt(offset) = offset /\ StartAt(offset + limit) = offset + limit
    BY <1>3, <1>8, <2>2 DEF LeftFrom, StartAt
  <2>4. /\ page \in Seq(S) /\ Len(page) = (IF left <= limit THEN left ELSE limit)
        /\ \A i \in 1 .. Len(page) : page[i] = all[offset + i]
    <3>1. IsPageOf(page, all, offset, limit, S)
      BY <1>4, <1>8, <2>1
    <3>2. limit # NoBound
      BY <1>3, <1>8
    <3>3. QED
      BY <2>2, <2>3, <3>1, <3>2 DEF IsPageOf
  <2>5. /\ rest \in Seq(S) /\ Len(rest) = left
        /\ \A i \in 1 .. Len(rest) : rest[i] = all[offset + i]
    <3>1. IsPageOf(rest, all, offset, NoBound, S)
      BY <1>4, <1>8, <2>1
    <3>2. QED
      BY <2>2, <2>3, <3>1 DEF IsPageOf
  <2>6. /\ next \in Seq(S) /\ Len(next) = after
        /\ \A i \in 1 .. Len(next) : next[i] = all[offset + limit + i]
    <3>1. IsPageOf(next, all, offset + limit, NoBound, S)
      BY <1>4, <2>1, <2>3
    <3>2. QED
      BY <2>3, <3>1 DEF IsPageOf
  <2>7. left \in Nat /\ Len(page) \in Nat /\ Len(next) \in Nat
    BY <1>5, <1>8, <2>3, <2>4, <2>6
  <2>8. Len(page) <= limit /\ Len(page) + Len(next) = Len(rest)
    <3>1. Len(page) <= limit
      BY <1>8, <2>4, <2>7
    <3>2. CASE left <= limit
      <4>1. after = 0
        BY <1>5, <1>8, <2>3, <3>2
      <4>2. Len(page) = left /\ Len(next) = 0 /\ Len(rest) = left
        BY <2>4, <2>5, <2>6, <3>2, <4>1
      <4>3. QED
        BY <2>7, <3>1, <4>2
    <3>3. CASE ~(left <= limit)
      <4>1. after = left - limit
        BY <1>5, <1>8, <2>3, <3>3
      <4>2. Len(page) = limit /\ Len(next) = after /\ Len(rest) = left
        BY <2>4, <2>5, <2>6, <3>3
      <4>3. limit + (left - limit) = left
        BY <1>8, <2>7
      <4>4. QED
        BY <3>1, <4>1, <4>2, <4>3
    <3>4. QED
      BY <3>2, <3>3
  <2>9. Len(next) # 0 => Len(page) = limit
    BY <1>5, <1>8, <2>3, <2>4, <2>6
  <2> HIDE DEF after
  <2>10. /\ page \o next \in Seq(S) /\ Len(page \o next) = Len(rest)
         /\ \A i \in 1 .. Len(rest) :
              (page \o next)[i] = IF i <= Len(page) THEN page[i] ELSE next[i - Len(page)]
    <3>1. /\ page \o next \in Seq(S) /\ Len(page \o next) = Len(page) + Len(next)
          /\ \A i \in 1 .. Len(page) + Len(next) :
               (page \o next)[i] = IF i <= Len(page) THEN page[i] ELSE next[i - Len(page)]
      BY <2>4, <2>6, ConcatProperties
    <3>2. QED
      BY <2>8, <3>1
  <2>11. \A i \in 1 .. Len(rest) : (page \o next)[i] = rest[i]
    <3>1. TAKE i \in 1 .. Len(rest)
    <3>2. CASE i <= Len(page)
      <4>1. i \in 1 .. Len(page)
        BY <2>7, <3>2
      <4>2. QED
        BY <2>4, <2>5, <2>10, <3>2, <4>1
    <3>3. CASE ~(i <= Len(page))
      <4>1. i - Len(page) \in 1 .. Len(next) /\ Len(page) = limit
        BY <2>7, <2>8, <2>9, <3>1, <3>3
      <4>2. (page \o next)[i] = next[i - Len(page)]
        BY <2>10, <3>1, <3>3
      <4>3. next[i - Len(page)] = all[offset + limit + (i - Len(page))]
        BY <2>6, <4>1
      <4>4. offset + limit + (i - Len(page)) = offset + i
        BY <1>8, <4>1
      <4>5. QED
        BY <2>5, <3>1, <4>2, <4>3, <4>4
    <3>4. QED
      BY <3>2, <3>3
  <2>12. page \o next = rest
    BY <2>5, <2>10, <2>11
  <2>13. QED
    BY <2>1, <2>8, <2>12
<1>9. QED
  BY <1>6, <1>7, <1>8
=============================================================================
