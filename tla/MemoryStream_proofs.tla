------------------------ MODULE MemoryStream_proofs -------------------------
(***************************************************************************)
(* Type correctness of MemoryStream, that every quad is handed out once    *)
(* and in order, that end means that every quad has been handed out or     *)
(* that nobody was consuming, and that a scan which listens to a stream    *)
(* resolves with the whole answer.                                         *)
(***************************************************************************)
EXTENDS MemoryStream, SequenceTheorems, TLAPS


\* Removing a listener from a list of listeners leaves one.
LEMMA WithoutTyped ==
  ASSUME NEW S, NEW seq \in Seq(S), NEW l
  PROVE  Without(seq, l) \in Seq(S)
<1>1. CASE ~\E i \in DOMAIN seq : seq[i] = l
  BY <1>1 DEF Without
<1>2. CASE \E i \in DOMAIN seq : seq[i] = l
  <2> DEFINE k == CHOOSE i \in DOMAIN seq : seq[i] = l
  <2>1. Without(seq, l) = SubSeq(seq, 1, k - 1) \o SubSeq(seq, k + 1, Len(seq))
    BY <1>2 DEF Without, RemoveAt
  <2>2. k \in 1..Len(seq)
    BY <1>2
  <2> HIDE DEF k
  <2>3. SubSeq(seq, 1, k - 1) \in Seq(S) /\ SubSeq(seq, k + 1, Len(seq)) \in Seq(S)
    BY <2>2
  <2> QED BY <2>1, <2>3
<1> QED BY <1>1, <1>2

\* An emission pushes a well-formed frame, or nothing.
LEMMA EmitTyped ==
  ASSUME on \in [Events -> Seq(Listeners)], NEW e \in Events, NEW q \in Quads \union {NoQuad},
         NEW below \in Seq(Frame)
  PROVE  Emit(e, q, below) \in Seq(Frame)
<1> DEFINE frame == [kind |-> "emit", quad |-> q, rest |-> on[e], active |-> FALSE]
<1>1. frame \in Frame
  BY DEF Frame, Emission
<1> HIDE DEF frame
<1>2. <<frame>> \o below \in Seq(Frame)
  BY <1>1
<1> QED BY <1>2 DEF Emit, frame

\* Ending the stream keeps the state well formed.
LEMMA EndTyped ==
  ASSUME TypeOK, NEW below \in Seq(Frame), End(below)
  PROVE  stack' \in Seq(Frame) /\ ended' \in BOOLEAN /\ ends' \in Nat
<1>1. CASE ended
  BY <1>1 DEF End, TypeOK
<1>2. CASE ~ended
  <2>1. "end" \in Events /\ NoQuad \in Quads \union {NoQuad}
    BY DEF Events
  <2>2. Emit("end", NoQuad, below) \in Seq(Frame)
    BY <2>1, EmitTyped DEF TypeOK
  <2> QED BY <1>2, <2>2 DEF End, TypeOK
<1> QED BY <1>1, <1>2

\* Taking a quad keeps the queues sequences of quads, and what was handed out
\* followed by what is left the same.
LEMMA TakeTyped ==
  ASSUME TypeOK, quads # <<>>, Take
  PROVE  /\ quads' \in Seq(Quads) /\ taken' \in Seq(Quads) /\ Head(quads) \in Quads
         /\ taken' \o quads' = taken \o quads
<1>1. quads \in Seq(Quads) /\ taken \in Seq(Quads)
  BY DEF TypeOK
<1>2. Head(quads) \in Quads /\ Tail(quads) \in Seq(Quads) /\ quads = <<Head(quads)>> \o Tail(quads)
  BY <1>1, HeadTailProperties, Z3
<1>3. Append(taken, Head(quads)) = taken \o <<Head(quads)>>
  BY <1>1, <1>2, AppendIsConcat
<1>4. (taken \o <<Head(quads)>>) \o Tail(quads) = taken \o (<<Head(quads)>> \o Tail(quads))
  BY <1>1, <1>2, ConcatAssociative
<1> QED BY <1>1, <1>2, <1>3, <1>4 DEF Take

(***************************************************************************)
(* Type correctness: the variables in three groups, by who writes them.    *)
(***************************************************************************)
QueuesTyped == source \in Seq(Quads) /\ quads \in Seq(Quads) /\ taken \in Seq(Quads)
ListsTyped == on \in [Events -> Seq(Listeners)] /\ heard \in [Listeners -> Seq(Quads \union {NoQuad})]
FlagsTyped == ended \in BOOLEAN /\ flowing \in BOOLEAN /\ readStarted \in BOOLEAN /\ ends \in Nat
LoopTyped == jobs \in Seq(Jobs) /\ stack \in Seq(Frame)
HostTyped == calls \in Nat /\ client \in {"engine", "host"}

LEMMA TypeParts ==
  /\ TypeOK <=> QueuesTyped /\ ListsTyped /\ FlagsTyped /\ LoopTyped /\ HostTyped
  /\ TypeOK' <=> QueuesTyped' /\ ListsTyped' /\ FlagsTyped' /\ LoopTyped' /\ HostTyped'
BY DEF TypeOK, QueuesTyped, ListsTyped, FlagsTyped, LoopTyped, HostTyped

LEMMA InitTyped == Init => TypeOK
<1> SUFFICES ASSUME Init PROVE TypeOK
  OBVIOUS
<1> USE ListenerAssumption, SourceAssumption, BoundAssumption
<1>1. ListsTyped
  <2> DEFINE attached == [data |-> <<MatchData>>, readable |-> <<>>,
                          end |-> <<MatchEnd>>, error |-> <<MatchError>>]
  <2>1. ASSUME NEW e \in Events PROVE attached[e] \in Seq(Listeners)
    <3>1. <<>> \in Seq(Listeners) /\ <<MatchData>> \in Seq(Listeners)
          /\ <<MatchEnd>> \in Seq(Listeners) /\ <<MatchError>> \in Seq(Listeners)
      BY DEF MatchListeners
    <3>2. /\ attached["data"] = <<MatchData>> /\ attached["readable"] = <<>>
          /\ attached["end"] = <<MatchEnd>> /\ attached["error"] = <<MatchError>>
      OBVIOUS
    <3>3. e = "data" \/ e = "readable" \/ e = "end" \/ e = "error"
      BY DEF Events
    <3> HIDE DEF attached
    <3> QED BY <3>1, <3>2, <3>3
  <2>2. on = [e \in Events |-> IF client = "host" THEN <<>> ELSE attached[e]]
    BY DEF Init
  <2> HIDE DEF attached
  <2>3. on \in [Events -> Seq(Listeners)]
    BY <2>1, <2>2
  <2>4. heard \in [Listeners -> Seq(Quads \union {NoQuad})]
    BY DEF Init
  <2> QED BY <2>3, <2>4 DEF ListsTyped
<1>2. LoopTyped
  <2>1. <<"drain", "end">> \in Seq(Jobs) /\ <<>> \in Seq(Jobs) /\ <<>> \in Seq(Frame)
    BY DEF Jobs
  <2> QED BY <2>1 DEF Init, LoopTyped
<1>3. QueuesTyped
  BY DEF Init, QueuesTyped
<1>4. FlagsTyped /\ HostTyped
  BY DEF Init, FlagsTyped, HostTyped
<1> QED BY <1>1, <1>2, <1>3, <1>4, TypeParts

\* The frame on top, and what is under it, are well formed.
LEMMA StackTyped ==
  ASSUME TypeOK, stack # <<>>
  PROVE  Head(stack) \in Frame /\ Tail(stack) \in Seq(Frame)
BY HeadTailProperties DEF TypeOK

LEMMA HostRunsTyped == TypeOK /\ HostRuns => HostTyped' /\ source' = source
BY BoundAssumption DEF HostRuns, HostTyped, TypeOK

LEMMA RestTyped == TypeOK /\ Rest => HostTyped' /\ source' = source
BY DEF Rest, HostTyped, TypeOK

\* A step of the event loop takes its job off the queue.
LEMMA NextJobTyped == ASSUME TypeOK, NEW job, NextJob(job) PROVE jobs' \in Seq(Jobs)
BY HeadTailProperties DEF NextJob, TypeOK

LEMMA OnTyped == ASSUME TypeOK, NEW l \in Listeners, On(l) PROVE TypeOK'
<1>1. Hears[l] \in Events
  BY ListenerAssumption
<1>2. ListsTyped'
  <2>1. Append(on[Hears[l]], l) \in Seq(Listeners)
    BY <1>1 DEF TypeOK
  <2> QED BY <1>1, <2>1 DEF On, ListsTyped, TypeOK, history
<1>3. LoopTyped'
  <2>1. Job(Hears[l]) \in Seq(Jobs)
    <3>1. <<"drain">> \in Seq(Jobs) /\ <<"readable">> \in Seq(Jobs) /\ <<"end">> \in Seq(Jobs) /\ <<>> \in Seq(Jobs)
      BY DEF Jobs
    <3> QED BY <3>1 DEF Job
  <2> QED BY <2>1 DEF On, LoopTyped, TypeOK
<1>4. FlagsTyped' /\ QueuesTyped'
  BY HostRunsTyped DEF On, Host, FlagsTyped, QueuesTyped, TypeOK, queue, history
<1> QED BY <1>2, <1>3, <1>4, HostRunsTyped, TypeParts DEF On, Host

LEMMA PrependTyped == ASSUME TypeOK, NEW l \in Listeners, PrependListener(l) PROVE TypeOK'
<1>1. Hears[l] \in Events
  BY ListenerAssumption
<1>2. <<l>> \o on[Hears[l]] \in Seq(Listeners)
  BY <1>1 DEF TypeOK
<1>3. ListsTyped'
  BY <1>1, <1>2 DEF PrependListener, ListsTyped, TypeOK, history
<1> QED BY <1>3, HostRunsTyped, TypeParts
     DEF PrependListener, Host, FlagsTyped, QueuesTyped, LoopTyped, queue, flags, history

LEMMA RemoveTyped == ASSUME TypeOK, NEW l \in Listeners, RemoveListener(l) PROVE TypeOK'
<1>1. Hears[l] \in Events
  BY ListenerAssumption
<1>2. Without(on[Hears[l]], l) \in Seq(Listeners)
  BY <1>1, WithoutTyped DEF TypeOK
<1>3. ListsTyped'
  BY <1>1, <1>2 DEF RemoveListener, ListsTyped, TypeOK, history
<1> QED BY <1>3, HostRunsTyped, TypeParts
     DEF RemoveListener, Host, FlagsTyped, QueuesTyped, LoopTyped, queue, flags, history

LEMMA RemoveAllTyped == ASSUME TypeOK, NEW e \in Events, RemoveAllListeners(e) PROVE TypeOK'
<1>1. ListsTyped'
  <2>1. <<>> \in Seq(Listeners)
    OBVIOUS
  <2> QED BY <2>1 DEF RemoveAllListeners, ListsTyped, TypeOK, history
<1> QED BY <1>1, HostRunsTyped, TypeParts
     DEF RemoveAllListeners, Host, FlagsTyped, QueuesTyped, LoopTyped, queue, flags, history

LEMMA ReadTyped == TypeOK /\ Read => TypeOK'
<1> SUFFICES ASSUME TypeOK, Read PROVE TypeOK'
  OBVIOUS
<1>1. QueuesTyped'
  BY TakeTyped, HostRunsTyped DEF Read, Host, QueuesTyped, TypeOK
<1> QED BY <1>1, HostRunsTyped, TypeParts DEF Read, Host, FlagsTyped, ListsTyped, LoopTyped, history

LEMMA ReadNullTyped == TypeOK /\ ReadNull => TypeOK'
<1> SUFFICES ASSUME TypeOK, ReadNull PROVE TypeOK'
  OBVIOUS
<1>1. stack' \in Seq(Frame) /\ ended' \in BOOLEAN /\ ends' \in Nat
  BY EndTyped DEF ReadNull, TypeOK
<1> QED BY <1>1, HostRunsTyped, TypeParts
     DEF ReadNull, Host, QueuesTyped, FlagsTyped, ListsTyped, LoopTyped, queue

\* destroy() leaves no listener.
LEMMA DestroyedTyped == Destroyed => on' \in [Events -> Seq(Listeners)] /\ ended' \in BOOLEAN
BY DEF Destroyed

LEMMA DestroyTyped == TypeOK /\ Destroy => TypeOK'
BY DestroyedTyped, HostRunsTyped, TypeParts
   DEF Destroy, QueuesTyped, FlagsTyped, ListsTyped, LoopTyped, queue, history

LEMMA DestroyWithErrorTyped == TypeOK /\ DestroyWithError => TypeOK'
<1> SUFFICES ASSUME TypeOK, DestroyWithError PROVE TypeOK'
  OBVIOUS
<1>1. <<[kind |-> "destroy"]>> \o stack \in Seq(Frame)
  BY DEF TypeOK, Frame
<1>2. "error" \in Events /\ NoQuad \in Quads \union {NoQuad}
  BY DEF Events
<1>3. stack' \in Seq(Frame)
  BY <1>1, <1>2, EmitTyped DEF DestroyWithError, TypeOK
<1> QED BY <1>3, HostRunsTyped, TypeParts
     DEF DestroyWithError, QueuesTyped, FlagsTyped, ListsTyped, LoopTyped, queue, flags, history

LEMMA DestroyAfterErrorTyped == TypeOK /\ DestroyAfterError => TypeOK'
<1> SUFFICES ASSUME TypeOK, DestroyAfterError PROVE TypeOK'
  OBVIOUS
<1>1. stack' \in Seq(Frame)
  BY StackTyped DEF DestroyAfterError, Top
<1> QED BY <1>1, DestroyedTyped, TypeParts
     DEF DestroyAfterError, QueuesTyped, FlagsTyped, ListsTyped, LoopTyped, HostTyped, queue, history

LEMMA RunDrainTyped == TypeOK /\ RunDrain => TypeOK'
<1> SUFFICES ASSUME TypeOK, RunDrain PROVE TypeOK'
  OBVIOUS
<1>1. <<>> \in Seq(Frame) /\ <<[kind |-> "drain"]>> \in Seq(Frame)
  BY DEF Frame
<1>2. LoopTyped'
  BY <1>1, NextJobTyped DEF RunDrain, LoopTyped
<1> QED BY <1>2, RestTyped, TypeParts DEF RunDrain, QueuesTyped, FlagsTyped, ListsTyped, queue, flags, history

LEMMA RunReadableTyped == TypeOK /\ RunReadable => TypeOK'
<1> SUFFICES ASSUME TypeOK, RunReadable PROVE TypeOK'
  OBVIOUS
<1>1. <<>> \in Seq(Frame) /\ "readable" \in Events /\ NoQuad \in Quads \union {NoQuad}
  BY DEF Events
<1>2. Emit("readable", NoQuad, <<>>) \in Seq(Frame)
  BY <1>1, EmitTyped DEF TypeOK
<1>3. LoopTyped'
  BY <1>1, <1>2, NextJobTyped DEF RunReadable, LoopTyped
<1> QED BY <1>3, RestTyped, TypeParts DEF RunReadable, QueuesTyped, FlagsTyped, ListsTyped, queue, flags, history

LEMMA RunEndTyped == TypeOK /\ RunEnd => TypeOK'
<1> SUFFICES ASSUME TypeOK, RunEnd PROVE TypeOK'
  OBVIOUS
<1>1. stack' \in Seq(Frame) /\ ended' \in BOOLEAN /\ ends' \in Nat
  <2>1. <<>> \in Seq(Frame)
    OBVIOUS
  <2> QED BY <2>1, EndTyped DEF RunEnd, TypeOK
<1>2. LoopTyped'
  BY <1>1, NextJobTyped DEF RunEnd, LoopTyped
<1> QED BY <1>1, <1>2, RestTyped, TypeParts DEF RunEnd, QueuesTyped, FlagsTyped, ListsTyped, queue

LEMMA DrainOneTyped == TypeOK /\ DrainOne => TypeOK'
<1> SUFFICES ASSUME TypeOK, DrainOne PROVE TypeOK'
  OBVIOUS
<1>1. QueuesTyped' /\ Head(quads) \in Quads
  BY TakeTyped, RestTyped DEF DrainOne, QueuesTyped, TypeOK
<1>2. "data" \in Events /\ Head(quads) \in Quads \union {NoQuad}
  BY <1>1 DEF Events
<1>3. stack' \in Seq(Frame)
  BY <1>2, EmitTyped DEF DrainOne, TypeOK
<1> QED BY <1>1, <1>3, RestTyped, TypeParts DEF DrainOne, FlagsTyped, ListsTyped, LoopTyped, flags, history

LEMMA DrainDoneTyped == TypeOK /\ DrainDone => TypeOK'
<1> SUFFICES ASSUME TypeOK, DrainDone PROVE TypeOK'
  OBVIOUS
<1>1. Tail(stack) \in Seq(Frame)
  BY StackTyped DEF DrainDone, Top
<1>2. stack' \in Seq(Frame) /\ ended' \in BOOLEAN /\ ends' \in Nat
  <2>1. CASE quads = <<>>
    BY <1>1, <2>1, EndTyped DEF DrainDone
  <2>2. CASE quads # <<>>
    BY <1>1, <2>2 DEF DrainDone, TypeOK
  <2> QED BY <2>1, <2>2
<1> QED BY <1>2, RestTyped, TypeParts DEF DrainDone, QueuesTyped, FlagsTyped, ListsTyped, LoopTyped, queue

LEMMA CallTyped == TypeOK /\ Call => TypeOK'
<1> SUFFICES ASSUME TypeOK, Call PROVE TypeOK'
  OBVIOUS
<1> DEFINE frame == Head(stack)
           l == Head(frame.rest)
           called == [frame EXCEPT !.rest = Tail(@), !.active = TRUE]
<1>1. frame \in Emission /\ Tail(stack) \in Seq(Frame)
  BY StackTyped DEF Call, Top, Frame, Emission
<1>2. l \in Listeners /\ Tail(frame.rest) \in Seq(Listeners) /\ frame.quad \in Quads \union {NoQuad}
  BY <1>1, HeadTailProperties DEF Call, Emission
<1>3. called \in Frame
  BY <1>1, <1>2 DEF Frame, Emission
<1>4. Hears[l] \in Events
  BY <1>2, ListenerAssumption
<1>5. /\ heard' = [heard EXCEPT ![l] = Append(@, frame.quad)]
      /\ on' = IF l \in Once THEN [on EXCEPT ![Hears[l]] = Without(@, l)] ELSE on
      /\ stack' = <<called>> \o Tail(stack)
  BY DEF Call
<1> HIDE DEF called, l, frame
<1>6. LoopTyped'
  <2>1. <<called>> \o Tail(stack) \in Seq(Frame)
    BY <1>1, <1>3
  <2> QED BY <1>5, <2>1 DEF Call, LoopTyped, TypeOK
<1>7. ListsTyped'
  <2>1. Without(on[Hears[l]], l) \in Seq(Listeners)
    BY <1>4, WithoutTyped DEF TypeOK
  <2>2. Append(heard[l], frame.quad) \in Seq(Quads \union {NoQuad})
    BY <1>2 DEF TypeOK
  <2> QED BY <1>2, <1>4, <1>5, <2>1, <2>2 DEF ListsTyped, TypeOK
<1> QED BY <1>6, <1>7, RestTyped, TypeParts DEF Call, QueuesTyped, FlagsTyped, queue, flags

LEMMA ReturnTyped == TypeOK /\ Return => TypeOK'
<1> SUFFICES ASSUME TypeOK, Return PROVE TypeOK'
  OBVIOUS
<1>1. stack' \in Seq(Frame)
  BY StackTyped DEF Return, Top
<1> QED BY <1>1, RestTyped, TypeParts
     DEF Return, QueuesTyped, FlagsTyped, ListsTyped, LoopTyped, queue, flags, history

\* Every step keeps the types.
LEMMA NextTyped == TypeOK /\ [Next]_vars => TypeOK'
<1> SUFFICES ASSUME TypeOK, [Next]_vars PROVE TypeOK'
  OBVIOUS
<1>1. CASE HostCalls
  BY <1>1, OnTyped, PrependTyped, RemoveTyped, RemoveAllTyped, ReadTyped, ReadNullTyped,
     DestroyTyped, DestroyWithErrorTyped DEF HostCalls
<1>2. CASE EventLoop
  BY <1>2, RunDrainTyped, RunReadableTyped, RunEndTyped, DrainOneTyped, DrainDoneTyped,
     CallTyped, ReturnTyped, DestroyAfterErrorTyped DEF EventLoop
<1>3. CASE UNCHANGED vars
  BY <1>3 DEF vars, queue, flags, history, TypeOK
<1> QED BY <1>1, <1>2, <1>3 DEF Next

\* Every reachable state of a stream is well typed.
THEOREM TypesHold == Spec => []TypeOK
BY InitTyped, NextTyped, PTL DEF Spec

(***************************************************************************)
(* HandedOutOnce: taken and quads change together, in Take, and nowhere    *)
(* else.                                                                   *)
(***************************************************************************)
LEMMA QueueSteps == [Next]_vars => UNCHANGED <<source, quads, taken>> \/ (quads # <<>> /\ Take /\ source' = source)
<1> SUFFICES ASSUME [Next]_vars
             PROVE  UNCHANGED <<source, quads, taken>> \/ (quads # <<>> /\ Take /\ source' = source)
  OBVIOUS
<1>1. CASE HostCalls
  BY <1>1 DEF HostCalls, On, PrependListener, RemoveListener, RemoveAllListeners, Read, ReadNull,
     Destroy, DestroyWithError, Host, HostRuns, queue
<1>2. CASE EventLoop
  BY <1>2 DEF EventLoop, RunDrain, RunReadable, RunEnd, DrainOne, DrainDone, Call, Return,
     DestroyAfterError, Rest, queue
<1>3. CASE UNCHANGED vars
  BY <1>3 DEF vars, queue
<1> QED BY <1>1, <1>2, <1>3 DEF Next

\* Every quad is handed out once and in order, whoever takes it.
THEOREM QuadsHandedOutOnce == Spec => []HandedOutOnce
<1>1. Init => HandedOutOnce
  <2> SUFFICES ASSUME Init PROVE HandedOutOnce
    OBVIOUS
  <2>1. source \in Seq(Quads) /\ quads = source /\ taken = <<>>
    BY SourceAssumption DEF Init
  <2> QED BY <2>1, ConcatEmptySeq DEF HandedOutOnce
<1>2. TypeOK /\ HandedOutOnce /\ [Next]_vars => HandedOutOnce'
  BY QueueSteps, TakeTyped DEF HandedOutOnce
<1> QED BY <1>1, <1>2, TypesHold, PTL DEF Spec

(***************************************************************************)
(* EndMeansConsumed: what was taken was taken in flow mode or by read(), a *)
(* drain runs in flow mode only, and end has not been emitted before       *)
(* _ended is set.                                                          *)
(***************************************************************************)
DrainsFlow == \A i \in DOMAIN stack : stack[i].kind = "drain" => flowing

Consumption ==
  /\ taken # <<>> => flowing \/ readStarted
  /\ DrainsFlow
  /\ ends # 0 => ended

\* An emission and the end of the stream put no drain on the stack.
LEMMA EmitDrains ==
  ASSUME NEW e, NEW q, NEW below \in Seq(Frame), NEW i \in DOMAIN Emit(e, q, below),
         Emit(e, q, below)[i].kind = "drain", Emit(e, q, below) \in Seq(Frame)
  PROVE  \E j \in DOMAIN below : below[j].kind = "drain"
<1> DEFINE frame == [kind |-> "emit", quad |-> q, rest |-> on[e], active |-> FALSE]
<1>1. CASE on[e] = <<>>
  BY <1>1 DEF Emit
<1>2. CASE on[e] # <<>>
  <2>1. Emit(e, q, below) = <<frame>> \o below
    BY <1>2 DEF Emit
  <2>2. frame.kind # "drain"
    OBVIOUS
  <2> HIDE DEF frame
  <2>3. i \in 1..(Len(below) + 1) /\ i # 1
    BY <2>1, <2>2
  <2>4. (<<frame>> \o below)[i] = below[i - 1] /\ i - 1 \in DOMAIN below
    BY <2>3
  <2> QED BY <2>1, <2>4
<1> QED BY <1>1, <1>2

LEMMA PopDrains ==
  ASSUME TypeOK, stack # <<>>, DrainsFlow
  PROVE  \A i \in DOMAIN Tail(stack) : Tail(stack)[i].kind = "drain" => flowing
<1>1. stack \in Seq(Frame)
  BY DEF TypeOK
<1>2. \A i \in DOMAIN Tail(stack) : i + 1 \in DOMAIN stack /\ Tail(stack)[i] = stack[i + 1]
  BY <1>1, HeadTailProperties
<1> QED BY <1>2 DEF DrainsFlow

LEMMA DrainsAfterEmit ==
  ASSUME TypeOK, NEW e \in Events, NEW q \in Quads \union {NoQuad}, NEW below \in Seq(Frame),
         \A j \in DOMAIN below : below[j].kind = "drain" => flowing,
         stack' = Emit(e, q, below), flowing' = flowing
  PROVE  DrainsFlow'
<1>1. Emit(e, q, below) \in Seq(Frame)
  BY EmitTyped DEF TypeOK
<1> QED BY <1>1, EmitDrains DEF DrainsFlow

LEMMA DrainsAfterEnd ==
  ASSUME TypeOK, NEW below \in Seq(Frame),
         \A j \in DOMAIN below : below[j].kind = "drain" => flowing,
         End(below), flowing' = flowing
  PROVE  DrainsFlow'
<1>1. "end" \in Events /\ NoQuad \in Quads \union {NoQuad}
  BY DEF Events
<1> QED BY <1>1, DrainsAfterEmit DEF End, DrainsFlow

\* The stack never holds a drain outside flow mode: every step but On keeps
\* flowing, and only RunDrain starts one.
LEMMA DrainsStep ==
  ASSUME TypeOK, DrainsFlow, [Next]_vars
  PROVE  DrainsFlow'
<1> USE DEF Host, HostRuns, Rest, flags, queue, history
<1>1. ASSUME NEW l \in Listeners, On(l) PROVE DrainsFlow'
  BY <1>1 DEF On, DrainsFlow
<1>2. CASE UNCHANGED <<stack, flowing>>
  BY <1>2 DEF DrainsFlow
<1>3. CASE ReadNull
  BY <1>3, DrainsAfterEnd DEF ReadNull, DrainsFlow, TypeOK
<1>4. CASE DestroyWithError
  <2> DEFINE below == <<[kind |-> "destroy"]>> \o stack
  <2>1. below \in Seq(Frame) /\ "error" \in Events /\ NoQuad \in Quads \union {NoQuad}
    BY DEF TypeOK, Frame, Events
  <2>2. \A j \in DOMAIN below : below[j].kind = "drain" => flowing
    <3>1. stack \in Seq(Frame) /\ [kind |-> "destroy"].kind = "destroy"
      BY DEF TypeOK
    <3>2. \A j \in DOMAIN below : below[j].kind = "destroy" \/ (j - 1 \in DOMAIN stack /\ below[j] = stack[j - 1])
      BY <3>1
    <3> QED BY <3>2 DEF DrainsFlow
  <2> HIDE DEF below
  <2>3. stack' = Emit("error", NoQuad, below) /\ flowing' = flowing
    BY <1>4 DEF DestroyWithError, below
  <2> QED BY <2>1, <2>2, <2>3, DrainsAfterEmit
<1>5. CASE (DestroyAfterError \/ Return) /\ stack' = Tail(stack)
  BY <1>5, PopDrains DEF DestroyAfterError, Return, Top, DrainsFlow
<1>6. CASE RunDrain
  BY <1>6 DEF RunDrain, DrainsFlow
<1>7. CASE RunReadable
  <2> DEFINE below == <<>>
  <2>1. below \in Seq(Frame) /\ "readable" \in Events /\ NoQuad \in Quads \union {NoQuad}
    BY DEF Events
  <2>2. \A j \in DOMAIN below : below[j].kind = "drain" => flowing
    OBVIOUS
  <2>3. (stack' = below \/ stack' = Emit("readable", NoQuad, below)) /\ flowing' = flowing
    BY <1>7 DEF RunReadable
  <2> HIDE DEF below
  <2> QED BY <2>1, <2>2, <2>3, DrainsAfterEmit DEF DrainsFlow
<1>8. CASE RunEnd
  <2> DEFINE below == <<>>
  <2>1. below \in Seq(Frame)
    OBVIOUS
  <2>2. \A j \in DOMAIN below : below[j].kind = "drain" => flowing
    OBVIOUS
  <2>3. (End(below) \/ stack' = stack) /\ flowing' = flowing
    BY <1>8 DEF RunEnd
  <2> HIDE DEF below
  <2> QED BY <2>1, <2>2, <2>3, DrainsAfterEnd DEF DrainsFlow
<1>9. CASE DrainOne
  <2>1. "data" \in Events /\ Head(quads) \in Quads \union {NoQuad} /\ stack \in Seq(Frame)
    BY <1>9, TakeTyped DEF DrainOne, Events, TypeOK
  <2> QED BY <1>9, <2>1, DrainsAfterEmit DEF DrainOne, DrainsFlow
<1>10. CASE DrainDone
  <2>1. Tail(stack) \in Seq(Frame)
    BY <1>10, StackTyped DEF DrainDone, Top
  <2>2. \A j \in DOMAIN Tail(stack) : Tail(stack)[j].kind = "drain" => flowing
    BY <1>10, PopDrains DEF DrainDone, Top
  <2> QED BY <1>10, <2>1, <2>2, DrainsAfterEnd DEF DrainDone, DrainsFlow
<1>11. CASE Call
  <2> DEFINE frame == Head(stack)
             called == [frame EXCEPT !.rest = Tail(@), !.active = TRUE]
  <2>1. frame \in Emission /\ Tail(stack) \in Seq(Frame)
    BY <1>11, StackTyped DEF Call, Top, Frame, Emission
  <2>2. called.kind # "drain" /\ called \in Frame
    <3>1. frame.rest # <<>>
      BY <1>11 DEF Call
    <3> QED BY <2>1, <3>1, HeadTailProperties DEF Frame, Emission
  <2>3. stack' = <<called>> \o Tail(stack) /\ flowing' = flowing
    BY <1>11 DEF Call
  <2>4. \A j \in DOMAIN Tail(stack) : Tail(stack)[j].kind = "drain" => flowing
    BY <1>11, PopDrains DEF Call, Top
  <2> HIDE DEF called, frame
  <2>5. \A j \in DOMAIN stack' : stack'[j] = called \/ (j - 1 \in DOMAIN Tail(stack) /\ stack'[j] = Tail(stack)[j - 1])
    BY <2>1, <2>2, <2>3
  <2> QED BY <2>2, <2>3, <2>4, <2>5 DEF DrainsFlow
<1> HIDE DEF Host, HostRuns, Rest, flags, queue, history
<1>12. CASE HostCalls
  <2>2. ASSUME NEW l \in Listeners, PrependListener(l) \/ RemoveListener(l) PROVE UNCHANGED <<stack, flowing>>
    BY <2>2 DEF PrependListener, RemoveListener, flags
  <2>3. ASSUME NEW e \in Events, RemoveAllListeners(e) PROVE UNCHANGED <<stack, flowing>>
    BY <2>3 DEF RemoveAllListeners, flags
  <2>4. Read \/ Destroy => UNCHANGED <<stack, flowing>>
    BY DEF Read, Destroy
  <2> QED BY <1>12, <1>1, <1>2, <1>3, <1>4, <2>2, <2>3, <2>4 DEF HostCalls
<1>13. CASE EventLoop
  <2>1. DestroyAfterError \/ Return => stack' = Tail(stack)
    BY DEF DestroyAfterError, Return
  <2> QED BY <1>13, <2>1, <1>5, <1>6, <1>7, <1>8, <1>9, <1>10, <1>11 DEF EventLoop
<1>14. CASE UNCHANGED vars
  BY <1>14, <1>2 DEF vars, flags
<1> QED BY <1>12, <1>13, <1>14 DEF Next

\* What was taken, and that end was emitted, step by step.
LEMMA ConsumptionStep == ASSUME TypeOK, Consumption, [Next]_vars PROVE Consumption'
<1> USE DEF Host, HostRuns, Rest, flags, queue, history, Consumption
<1>1. DrainsFlow'
  BY DrainsStep
<1>2. taken' # <<>> => flowing' \/ readStarted'
  <2>1. CASE HostCalls
    BY <2>1 DEF HostCalls, On, PrependListener, RemoveListener, RemoveAllListeners, Read, ReadNull,
       Destroy, DestroyWithError
  <2>2. CASE DrainOne
    <3>1. 1 \in DOMAIN stack /\ stack[1].kind = "drain"
      BY <2>2 DEF DrainOne, Top, TypeOK
    <3> QED BY <2>2, <3>1 DEF DrainOne, DrainsFlow
  <2>3. CASE EventLoop /\ ~DrainOne
    BY <2>3 DEF EventLoop, RunDrain, RunReadable, RunEnd, DrainDone, Call, Return, DestroyAfterError
  <2>4. CASE UNCHANGED vars
    BY <2>4 DEF vars
  <2> QED BY <2>1, <2>2, <2>3, <2>4 DEF Next
<1>3. ends' # 0 => ended'
  <2>1. CASE HostCalls
    BY <2>1 DEF HostCalls, On, PrependListener, RemoveListener, RemoveAllListeners, Read, ReadNull,
       Destroy, DestroyWithError, Destroyed, End
  <2>2. CASE EventLoop
    BY <2>2 DEF EventLoop, RunDrain, RunReadable, RunEnd, DrainOne, DrainDone, Call, Return,
       DestroyAfterError, Destroyed, End
  <2>3. CASE UNCHANGED vars
    BY <2>3 DEF vars
  <2> QED BY <2>1, <2>2, <2>3 DEF Next
<1> QED BY <1>1, <1>2, <1>3

\* end is emitted once, after every quad was handed out or before anybody took one.
THEOREM EndIsLast == Spec => EndMeansConsumed
<1>1. Init => Consumption
  BY DEF Init, Consumption, DrainsFlow
<1>2. TypeOK /\ Consumption /\ [Next]_vars
      => (ends' # ends => ends = 0 /\ (quads = <<>> \/ (taken = <<>> /\ NobodyConsumes)))
  <2> SUFFICES ASSUME Consumption, Next, ends' # ends
               PROVE  ends = 0 /\ (quads = <<>> \/ (taken = <<>> /\ NobodyConsumes))
    BY DEF vars, history
  <2>1. CASE HostCalls
    BY <2>1 DEF HostCalls, On, PrependListener, RemoveListener, RemoveAllListeners, Read, ReadNull,
       Destroy, DestroyWithError, End, history, Consumption
  <2>2. CASE EventLoop
    BY <2>2 DEF EventLoop, RunDrain, RunReadable, RunEnd, DrainOne, DrainDone, Call, Return,
       DestroyAfterError, End, NobodyConsumes, history, Consumption
  <2> QED BY <2>1, <2>2 DEF Next
<1>3. TypeOK /\ Consumption /\ [Next]_vars => Consumption'
  BY ConsumptionStep
<1> QED BY <1>1, <1>2, <1>3, TypesHold, PTL DEF Spec, EndMeansConsumed

(***************************************************************************)
(* MatchIsComplete.  When matchQuadsViaStream consumes the stream nobody   *)
(* calls back, so the stack has one of a few shapes; what was taken is     *)
(* what its data listener heard, but for a quad whose event is on its way; *)
(* and end goes out with the queue empty and no event on its way.          *)
(***************************************************************************)
Calling(quad, rest, active) == [kind |-> "emit", quad |-> quad, rest |-> rest, active |-> active]
Draining == [kind |-> "drain"]
Destroying == [kind |-> "destroy"]

Heard == heard[MatchData]

Quiet ==
  /\ stack \in {<<>>, <<Draining>>, <<Destroying>>}
  /\ taken = Heard

DataOnItsWay ==
  \E q \in Quads : stack = <<Calling(q, <<MatchData>>, FALSE), Draining>> /\ taken = Append(Heard, q)

DataDelivered ==
  \E q \in Quads : stack = <<Calling(q, <<>>, TRUE), Draining>> /\ taken = Heard

Ending ==
  /\ \/ stack = <<Calling(NoQuad, <<MatchEnd>>, FALSE)>>
     \/ stack = <<Calling(NoQuad, <<>>, TRUE)>>
  /\ quads = <<>> /\ taken = Heard

Failing ==
  /\ \/ stack = <<Calling(NoQuad, <<MatchError>>, FALSE), Destroying>>
     \/ stack = <<Calling(NoQuad, <<>>, TRUE), Destroying>>
  /\ taken = Heard

EngineLists ==
  /\ on["data"] \in {<<>>, <<MatchData>>} /\ on["readable"] = <<>>
  /\ on["end"] \in {<<>>, <<MatchEnd>>} /\ on["error"] \in {<<>>, <<MatchError>>}

EngineInv ==
  client = "engine" =>
    /\ flowing /\ EngineLists
    /\ Quiet \/ DataOnItsWay \/ DataDelivered \/ Ending \/ Failing
    /\ heard[MatchEnd] # <<>> => quads = <<>> /\ taken = Heard

LEMMA MatchListenersDiffer ==
  /\ MatchData \in Listeners /\ MatchEnd \in Listeners /\ MatchError \in Listeners
  /\ MatchData # MatchEnd /\ MatchData # MatchError /\ MatchEnd # MatchError
  /\ MatchData \notin Once /\ MatchEnd \notin Once /\ MatchError \notin Once
BY ListenerAssumption DEF MatchListeners

\* A frame on top of another.
LEMMA PushFrame ==
  ASSUME NEW a, NEW b
  PROVE  /\ <<a>> \o <<b>> = <<a, b>> /\ <<a>> \o <<>> = <<a>>
         /\ Head(<<a, b>>) = a /\ Tail(<<a, b>>) = <<b>> /\ Head(<<a>>) = a /\ Tail(<<a>>) = <<>>
<1> DEFINE S == {a, b}
<1>1. <<a>> \in Seq(S) /\ <<b>> \in Seq(S) /\ <<>> \in Seq(S)
  OBVIOUS
<1>2. /\ Len(<<a>> \o <<b>>) = 2 /\ (<<a>> \o <<b>>)[1] = a /\ (<<a>> \o <<b>>)[2] = b
      /\ <<a>> \o <<b>> \in Seq(S)
  BY <1>1
<1>3. <<a>> \o <<b>> = <<a, b>>
  <2>1. <<a, b>> \in Seq(S) /\ Len(<<a, b>>) = 2 /\ <<a, b>>[1] = a /\ <<a, b>>[2] = b
    OBVIOUS
  <2>2. \A i \in 1..2 : i = 1 \/ i = 2
    OBVIOUS
  <2> DEFINE s == <<a>> \o <<b>>
             t == <<a, b>>
  <2>3. /\ s \in Seq(S) /\ t \in Seq(S) /\ Len(s) = 2 /\ Len(t) = 2
        /\ s[1] = t[1] /\ s[2] = t[2]
    BY <1>2, <2>1
  <2> HIDE DEF s, t, S
  <2>4. Len(s) = Len(t) /\ \A i \in 1..Len(s) : s[i] = t[i]
    BY <2>2, <2>3
  <2>5. s = t
    BY <2>3, <2>4, SeqEqual
  <2> QED BY <2>5 DEF s, t
<1>4. <<a>> \o <<>> = <<a>>
  BY <1>1, ConcatEmptySeq
<1> QED BY <1>3, <1>4

\* The frame of an emission with the listeners left to call.
Called(frame, left) == [frame EXCEPT !.rest = left, !.active = TRUE]

LEMMA CalledFrame ==
  ASSUME NEW q, NEW rest, NEW b, NEW left
  PROVE  Called(Calling(q, rest, b), left) = Calling(q, left, TRUE)
<1> DEFINE R == [kind : {"emit"}, quad : {q}, rest : {rest, left}, active : {b, TRUE}]
           f == Calling(q, rest, b)
           g == [f EXCEPT !.rest = left, !.active = TRUE]
           h == Calling(q, left, TRUE)
<1>1. f \in R /\ h \in R
  BY DEF Calling
<1>2. h.kind = "emit" /\ h.quad = q /\ h.rest = left /\ h.active = TRUE
  BY DEF Calling
<1> HIDE DEF f, h
<1>3. g \in R /\ g.rest = left /\ g.active = TRUE
  BY <1>1
<1>4. g.kind = h.kind /\ g.quad = h.quad /\ g.rest = h.rest /\ g.active = h.active
  BY <1>1, <1>2, <1>3
<1>5. Called(f, left) = g
  BY DEF Called
<1> HIDE DEF g
<1>6. g = h
  BY <1>1, <1>3, <1>4
<1> QED BY <1>5, <1>6 DEF f, h

\* Calling the one listener of an emission leaves none to call.
LEMMA CallOnly ==
  ASSUME NEW q, NEW l, NEW b, NEW frame, frame = Calling(q, <<l>>, b)
  PROVE  /\ Head(frame.rest) = l
         /\ Called(frame, Tail(frame.rest)) = Calling(q, <<>>, TRUE)
<1> DEFINE rest == <<l>>
<1>1. Head(rest) = l /\ Tail(rest) = <<>>
  BY PushFrame
<1> HIDE DEF rest
<1>2. frame = Calling(q, rest, b)
  BY DEF rest
<1>3. frame.rest = rest
  BY <1>2 DEF Calling
<1>4. Called(Calling(q, rest, b), <<>>) = Calling(q, <<>>, TRUE)
  BY CalledFrame
<1> QED BY <1>1, <1>2, <1>3, <1>4

\* emit() with no listener, and with one.
LEMMA EmitToOne ==
  ASSUME NEW e, NEW q, NEW below
  PROVE  /\ on[e] = <<>> => Emit(e, q, below) = below
         /\ \A l : on[e] = <<l>> => Emit(e, q, below) = <<Calling(q, <<l>>, FALSE)>> \o below
<1>1. \A l : <<l>> # <<>>
  OBVIOUS
<1> QED BY <1>1, Zenon DEF Emit, Calling

LEMMA InitEngine == Init => EngineInv
<1> SUFFICES ASSUME Init, client = "engine" PROVE EngineInv
  BY DEF EngineInv
<1>1. EngineLists
  BY DEF Init, EngineLists, Events
<1>2. flowing /\ stack = <<>> /\ taken = <<>> /\ heard = [l \in Listeners |-> <<>>]
  BY DEF Init
<1> QED BY <1>1, <1>2, MatchListenersDiffer DEF EngineInv, Quiet, Heard

\* The engine calls nothing; the store may destroy the stream between two jobs.
LEMMA EngineHost ==
  ASSUME TypeOK, EngineInv, client = "engine", HostCalls
  PROVE  EngineInv'
<1>1. Destroy \/ DestroyWithError
  BY DEF HostCalls, On, PrependListener, RemoveListener, RemoveAllListeners, Read, ReadNull, Host
<1>2. /\ stack = <<>> /\ taken' = taken /\ quads' = quads /\ heard' = heard /\ flowing' = flowing
      /\ client' = client
  BY <1>1 DEF Destroy, DestroyWithError, HostRuns, queue, flags, history
<1>3. taken = Heard
  BY <1>2 DEF EngineInv, Quiet, DataOnItsWay, DataDelivered, Ending, Failing
<1>4. CASE Destroy
  <2>1. EngineLists'
    BY <1>4 DEF Destroy, Destroyed, EngineLists, Events
  <2>2. stack' = stack
    BY <1>4 DEF Destroy
  <2> QED BY <1>2, <1>3, <2>1, <2>2 DEF EngineInv, Quiet, Heard
<1>5. CASE DestroyWithError
  <2>1. EngineLists'
    BY <1>5 DEF DestroyWithError, EngineInv, EngineLists
  <2>2. stack' = Emit("error", NoQuad, <<Destroying>>)
    BY <1>2, <1>5, PushFrame DEF DestroyWithError, Destroying
  <2>3. on["error"] = <<>> \/ on["error"] = <<MatchError>>
    BY DEF EngineInv, EngineLists
  <2>4. stack' = <<Destroying>> \/ stack' = <<Calling(NoQuad, <<MatchError>>, FALSE)>> \o <<Destroying>>
    BY <2>2, <2>3, EmitToOne, Zenon
  <2>5. stack' = <<Destroying>> \/ stack' = <<Calling(NoQuad, <<MatchError>>, FALSE), Destroying>>
    BY <2>4, PushFrame, Zenon
  <2> QED BY <1>2, <1>3, <2>1, <2>5 DEF EngineInv, Quiet, Failing, Heard
<1> QED BY <1>1, <1>4, <1>5

\* The jobs: a drain starts on an empty stack, nobody is asked to read, and
\* flow mode keeps the end listener's own job from ending the stream.
LEMMA EngineJobs ==
  ASSUME TypeOK, EngineInv, client = "engine", RunDrain \/ RunReadable \/ RunEnd
  PROVE  EngineInv'
<1>1. /\ stack = <<>> /\ on' = on /\ taken' = taken /\ quads' = quads /\ heard' = heard
      /\ flowing' = flowing /\ client' = client
  BY DEF RunDrain, RunReadable, RunEnd, NextJob, Rest, queue, flags, history
<1>2. taken = Heard /\ flowing /\ on["readable"] = <<>>
  BY <1>1 DEF EngineInv, EngineLists, Quiet, DataOnItsWay, DataDelivered, Ending, Failing
<1>3. stack' = <<>> \/ stack' = <<Draining>>
  BY <1>1, <1>2 DEF RunDrain, RunReadable, RunEnd, Emit, NobodyConsumes, Draining
<1> QED BY <1>1, <1>2, <1>3 DEF EngineInv, EngineLists, Quiet, Heard

LEMMA EngineDrains ==
  ASSUME TypeOK, EngineInv, client = "engine", DrainOne \/ DrainDone
  PROVE  EngineInv'
<1>1. Top("drain") /\ on' = on /\ heard' = heard /\ flowing' = flowing /\ client' = client
  BY DEF DrainOne, DrainDone, Rest, flags, history
<1>2. stack = <<Draining>> /\ taken = Heard
  BY <1>1 DEF EngineInv, Quiet, DataOnItsWay, DataDelivered, Ending, Failing, Top, Calling, Destroying
<1>3. EngineLists' /\ flowing'
  BY <1>1 DEF EngineInv, EngineLists
<1>4. CASE DrainOne
  <2>1. /\ on["data"] = <<MatchData>> /\ quads # <<>>
        /\ stack' = Emit("data", Head(quads), stack) /\ taken' = Append(taken, Head(quads))
    BY <1>4 DEF DrainOne, Take, EngineInv, EngineLists
  <2>2. Head(quads) \in Quads
    BY <1>4, TakeTyped DEF DrainOne
  <2>3. stack' = <<Calling(Head(quads), <<MatchData>>, FALSE), Draining>>
    <3>1. stack' = <<Calling(Head(quads), <<MatchData>>, FALSE)>> \o <<Draining>>
      BY <1>2, <2>1, EmitToOne, Zenon
    <3> QED BY <3>1, PushFrame, Zenon
  <2>4. DataOnItsWay'
    BY <1>1, <1>2, <2>1, <2>2, <2>3 DEF DataOnItsWay, Heard
  <2> QED BY <1>1, <1>3, <2>1, <2>4 DEF EngineInv
<1>5. CASE DrainDone
  <2>1. taken' = taken /\ quads' = quads
    BY <1>5 DEF DrainDone, queue
  <2>2. Tail(stack) = <<>>
    BY <1>2
  <2>3. CASE stack' = <<>>
    BY <1>1, <1>2, <1>3, <2>1, <2>3 DEF EngineInv, Quiet, Heard
  <2>4. CASE stack' # <<>>
    <3>1. quads = <<>> /\ stack' = Emit("end", NoQuad, <<>>)
      BY <1>5, <2>2, <2>4 DEF DrainDone, End
    <3>2. stack' = <<Calling(NoQuad, <<MatchEnd>>, FALSE)>>
      <4>1. on["end"] = <<>> \/ on["end"] = <<MatchEnd>>
        BY DEF EngineInv, EngineLists
      <4>2. stack' = <<Calling(NoQuad, <<MatchEnd>>, FALSE)>> \o <<>>
        BY <2>4, <3>1, <4>1, EmitToOne, Zenon
      <4> QED BY <4>2, PushFrame, Zenon
    <3> QED BY <1>1, <1>2, <1>3, <2>1, <3>1, <3>2 DEF EngineInv, Ending, Heard
  <2> QED BY <2>3, <2>4
<1> QED BY <1>4, <1>5

\* Calls and returns, shape by shape.
LEMMA EngineCalls ==
  ASSUME TypeOK, EngineInv, client = "engine", Call
  PROVE  EngineInv'
<1> DEFINE frame == Head(stack)
           l == Head(frame.rest)
<1>1. /\ Top("emit") /\ frame.rest # <<>>
      /\ taken' = taken /\ quads' = quads /\ flowing' = flowing /\ client' = client
      /\ heard' = [heard EXCEPT ![l] = Append(@, frame.quad)]
      /\ on' = IF l \in Once THEN [on EXCEPT ![Hears[l]] = Without(@, l)] ELSE on
      /\ stack' = <<Called(frame, Tail(frame.rest))>> \o Tail(stack)
  BY DEF Call, Called, Rest, queue, flags
<1>2. heard \in [Listeners -> Seq(Quads \union {NoQuad})]
  BY DEF TypeOK
<1>3. ~Quiet /\ ~DataDelivered
  BY <1>1 DEF Quiet, DataDelivered, Top, Draining, Destroying, Calling
<1> HIDE DEF frame
<1>4. CASE DataOnItsWay
  <2>1. PICK q \in Quads : /\ stack = <<Calling(q, <<MatchData>>, FALSE), Draining>>
                           /\ taken = Append(Heard, q)
    BY <1>4 DEF DataOnItsWay
  <2>2. frame = Calling(q, <<MatchData>>, FALSE) /\ Tail(stack) = <<Draining>>
    BY <2>1, PushFrame DEF frame
  <2>3. l = MatchData /\ frame.quad = q
    BY <2>2, CallOnly DEF Calling
  <2>4. Called(frame, Tail(frame.rest)) = Calling(q, <<>>, TRUE)
    BY <2>2, CallOnly
  <2>5. stack' = <<Calling(q, <<>>, TRUE), Draining>>
    <3>1. stack' = <<Calling(q, <<>>, TRUE)>> \o <<Draining>>
      BY <1>1, <2>2, <2>4
    <3> QED BY <3>1, PushFrame, Zenon
  <2>6. on' = on /\ heard'[MatchData] = Append(heard[MatchData], q) /\ heard'[MatchEnd] = heard[MatchEnd]
    BY <1>1, <1>2, <2>3, MatchListenersDiffer
  <2>7. DataDelivered'
    BY <1>1, <2>1, <2>5, <2>6 DEF DataDelivered, Heard
  <2>8. taken # Heard
    BY <1>2, <2>1, MatchListenersDiffer DEF Heard
  <2> QED BY <1>1, <2>6, <2>7, <2>8 DEF EngineInv, EngineLists
<1>5. CASE Ending
  <2>1. stack = <<Calling(NoQuad, <<MatchEnd>>, FALSE)>>
    BY <1>1, <1>5, PushFrame DEF Ending, Calling, frame
  <2>2. frame = Calling(NoQuad, <<MatchEnd>>, FALSE) /\ Tail(stack) = <<>>
    BY <2>1, PushFrame DEF frame
  <2>3. l = MatchEnd
    BY <2>2, CallOnly
  <2>4. Called(frame, Tail(frame.rest)) = Calling(NoQuad, <<>>, TRUE)
    BY <2>2, CallOnly
  <2>5. stack' = <<Calling(NoQuad, <<>>, TRUE)>>
    BY <1>1, <2>2, <2>4, PushFrame, Zenon
  <2>6. on' = on /\ heard'[MatchData] = heard[MatchData]
    BY <1>1, <1>2, <2>3, MatchListenersDiffer
  <2>7. quads = <<>> /\ taken = Heard
    BY <1>5 DEF Ending
  <2> QED BY <1>1, <2>5, <2>6, <2>7 DEF EngineInv, EngineLists, Ending, Heard
<1>6. CASE Failing
  <2>1. stack = <<Calling(NoQuad, <<MatchError>>, FALSE), Destroying>>
    BY <1>1, <1>6, PushFrame DEF Failing, Calling, frame
  <2>2. frame = Calling(NoQuad, <<MatchError>>, FALSE) /\ Tail(stack) = <<Destroying>>
    BY <2>1, PushFrame DEF frame
  <2>3. l = MatchError
    BY <2>2, CallOnly
  <2>4. Called(frame, Tail(frame.rest)) = Calling(NoQuad, <<>>, TRUE)
    BY <2>2, CallOnly
  <2>5. stack' = <<Calling(NoQuad, <<>>, TRUE), Destroying>>
    <3>1. stack' = <<Calling(NoQuad, <<>>, TRUE)>> \o <<Destroying>>
      BY <1>1, <2>2, <2>4
    <3> QED BY <3>1, PushFrame, Zenon
  <2>6. /\ on' = on /\ heard'[MatchData] = heard[MatchData] /\ heard'[MatchEnd] = heard[MatchEnd]
    BY <1>1, <1>2, <2>3, MatchListenersDiffer
  <2>7. taken = Heard
    BY <1>6 DEF Failing
  <2> QED BY <1>1, <2>5, <2>6, <2>7 DEF EngineInv, EngineLists, Failing, Heard
<1> QED BY <1>3, <1>4, <1>5, <1>6 DEF EngineInv

LEMMA EngineReturns ==
  ASSUME TypeOK, EngineInv, client = "engine", Return \/ DestroyAfterError
  PROVE  EngineInv'
<1>1. /\ taken' = taken /\ quads' = quads /\ heard' = heard /\ flowing' = flowing
      /\ client' = client /\ stack' = Tail(stack)
  BY DEF Return, DestroyAfterError, Rest, queue, flags, history
<1>2. EngineLists'
  BY DEF Return, DestroyAfterError, Destroyed, EngineInv, EngineLists, Events
<1>3. ~DataOnItsWay
  <2> SUFFICES ASSUME NEW q \in Quads, stack = <<Calling(q, <<MatchData>>, FALSE), Draining>>
               PROVE  FALSE
    BY DEF DataOnItsWay
  <2>1. Head(stack) = Calling(q, <<MatchData>>, FALSE)
    BY PushFrame
  <2>2. Head(stack).kind = "emit" /\ Head(stack).rest # <<>>
    BY <2>1 DEF Calling
  <2> QED BY <2>2 DEF Return, DestroyAfterError, Top
<1>4. taken = Heard
  BY <1>3 DEF EngineInv, Quiet, DataDelivered, Ending, Failing
<1>5. stack # <<>>
  BY DEF Return, DestroyAfterError, Top
<1>6. stack' \in {<<>>, <<Draining>>, <<Destroying>>}
  <2>1. CASE Quiet \/ Ending
    <3>1. PICK a : stack = <<a>>
      BY <1>5, <2>1 DEF Quiet, Ending
    <3>2. stack' = <<>>
      BY <1>1, <3>1, PushFrame
    <3> QED BY <3>2
  <2>2. CASE DataDelivered \/ Failing
    <3>1. PICK a : stack = <<a, Draining>> \/ stack = <<a, Destroying>>
      BY <2>2 DEF DataDelivered, Failing
    <3>2. Tail(<<a, Draining>>) = <<Draining>> /\ Tail(<<a, Destroying>>) = <<Destroying>>
      BY PushFrame, Zenon
    <3>3. stack' = <<Draining>> \/ stack' = <<Destroying>>
      BY <1>1, <3>1, <3>2, Zenon
    <3> QED BY <3>3
  <2> QED BY <1>3, <2>1, <2>2 DEF EngineInv
<1> QED BY <1>1, <1>2, <1>4, <1>6 DEF EngineInv, Quiet, Heard

LEMMA EngineStep == ASSUME TypeOK, EngineInv, [Next]_vars PROVE EngineInv'
<1>1. CASE client # "engine"
  <2>1. client' = client
    BY DEF Next, HostCalls, EventLoop, On, PrependListener, RemoveListener, RemoveAllListeners,
       Read, ReadNull, Destroy, DestroyWithError, Host, HostRuns, RunDrain, RunReadable, RunEnd,
       DrainOne, DrainDone, Call, Return, DestroyAfterError, Rest, vars
  <2> QED BY <1>1, <2>1 DEF EngineInv
<1>2. CASE client = "engine" /\ HostCalls
  BY <1>2, EngineHost
<1>3. CASE client = "engine" /\ EventLoop
  BY <1>3, EngineJobs, EngineDrains, EngineCalls, EngineReturns DEF EventLoop
<1>4. CASE UNCHANGED vars
  BY <1>4 DEF vars, queue, flags, history, EngineInv, EngineLists, Quiet, DataOnItsWay,
     DataDelivered, Ending, Failing, Heard
<1> QED BY <1>1, <1>2, <1>3, <1>4 DEF Next

\* matchQuadsViaStream resolves with the whole answer: its data listener has
\* heard every quad, once and in order, before its end listener is called.
THEOREM MatchAnswersInFull == Spec => []MatchIsComplete
<1>1. TypeOK /\ HandedOutOnce /\ EngineInv => MatchIsComplete
  <2> SUFFICES ASSUME TypeOK, HandedOutOnce, EngineInv, client = "engine", heard[MatchEnd] # <<>>
               PROVE  heard[MatchData] = source
    BY DEF MatchIsComplete
  <2>1. quads = <<>> /\ taken = heard[MatchData] /\ taken \in Seq(Quads)
    BY DEF EngineInv, Heard, TypeOK
  <2> QED BY <2>1, ConcatEmptySeq DEF HandedOutOnce
<1> QED BY <1>1, InitEngine, EngineStep, TypesHold, QuadsHandedOutOnce, PTL DEF Spec
=============================================================================
