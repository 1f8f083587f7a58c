---------------------------- MODULE MemoryStream ----------------------------
(***************************************************************************)
(* MemoryStream (store/quad-stream.ts) on MiniEventEmitter: the RDF/JS     *)
(* stream of one match.  Three ways of consuming it share its queue: flow  *)
(* mode (a data listener), pull mode (a readable listener, read()) and a   *)
(* bare end listener.  The work a listener asks for is queued as a         *)
(* microtask; an emission calls a copy of the listener list, one callback  *)
(* after the other, and a callback may call the stream again.              *)
(*                                                                         *)
(* The stack holds what is running: an emission, the loop of _drain, or    *)
(* destroy() waiting for its error emission.  Host code calls the stream   *)
(* when the stack is empty or from the callback on top of it.              *)
(***************************************************************************)
EXTENDS Naturals, SequencesExt

CONSTANTS Quads,      \* what the stream replays
          Sources,    \* the sequences of quads a stream may be created with
          Listeners,  \* host callbacks
          Hears,      \* the event each of them listens to
          Once,       \* those attached with once()
          MatchData, MatchEnd, MatchError,  \* matchQuadsViaStream's own
          NoQuad,     \* the argument of an event that carries none
          MaxCalls    \* bound: calls the host makes

Events == {"data", "readable", "end", "error"}
MatchListeners == {MatchData, MatchEnd, MatchError}

ASSUME ListenerAssumption ==
  /\ MatchListeners \subseteq Listeners
  /\ Hears \in [Listeners -> Events]
  /\ <<Hears[MatchData], Hears[MatchEnd], Hears[MatchError]>> = <<"data", "end", "error">>
  /\ Once \subseteq Listeners \ MatchListeners
ASSUME SourceAssumption == Sources \subseteq Seq(Quads) /\ NoQuad \notin Quads
ASSUME BoundAssumption == MaxCalls \in Nat

VARIABLES source,       \* the quads the stream was created with
          quads,        \* quads: those nobody has taken yet
          on,           \* _listeners
          ended,        \* _ended
          flowing,      \* _flowing
          readStarted,  \* _readStarted
          jobs,         \* microtasks, oldest first
          stack,        \* what is running, innermost first
          taken,        \* history: quads handed out, by data events and by read()
          heard,        \* history: the arguments each listener was called with
          ends,         \* history: how often end was emitted
          client,       \* "engine": matchQuadsViaStream; "host": anyone else
          calls         \* calls the host made so far

queue == <<quads, taken>>
flags == <<ended, flowing, readStarted>>
history == <<heard, ends>>
vars == <<source, quads, on, flags, jobs, stack, taken, history, client, calls>>

Jobs == {"drain", "readable", "end"}
Emission == [kind : {"emit"}, quad : Quads \union {NoQuad}, rest : Seq(Listeners), active : BOOLEAN]
Frame == Emission \union [kind : {"drain", "destroy"}]

TypeOK ==
  /\ source \in Seq(Quads) /\ quads \in Seq(Quads) /\ taken \in Seq(Quads)
  /\ on \in [Events -> Seq(Listeners)]
  /\ ended \in BOOLEAN /\ flowing \in BOOLEAN /\ readStarted \in BOOLEAN
  /\ jobs \in Seq(Jobs)
  /\ stack \in Seq(Frame)
  /\ heard \in [Listeners -> Seq(Quads \union {NoQuad})]
  /\ ends \in Nat /\ calls \in Nat
  /\ client \in {"engine", "host"}

Attached(l) == \E i \in DOMAIN on[Hears[l]] : on[Hears[l]][i] = l
Top(kind) == stack # <<>> /\ Head(stack).kind = kind

\* A list without one of its listeners (indexOf and splice).
Without(list, l) ==
  LET At(i) == list[i] = l
  IN  IF \E i \in DOMAIN list : At(i) THEN RemoveAt(list, CHOOSE i \in DOMAIN list : At(i)) ELSE list

\* emit(): nothing without listeners, else a call to each of a copy of the list.
Emit(event, quad, below) ==
  IF on[event] = <<>> THEN below
  ELSE <<[kind |-> "emit", quad |-> quad, rest |-> on[event], active |-> FALSE]>> \o below

\* _end()
End(below) ==
  IF ended THEN stack' = below /\ UNCHANGED <<ended, ends>>
  ELSE ended' = TRUE /\ stack' = Emit("end", NoQuad, below) /\ ends' = ends + 1

Take == quads' = Tail(quads) /\ taken' = Append(taken, Head(quads))

\* matchQuadsViaStream attaches its listeners as soon as it has the stream;
\* host code gets it bare.
Init ==
  /\ source \in Sources /\ quads = source /\ taken = <<>>
  /\ client \in {"engine", "host"} /\ calls = 0
  /\ on = [e \in Events |-> IF client = "host" THEN <<>>
                            ELSE [data |-> <<MatchData>>, readable |-> <<>>,
                                  end |-> <<MatchEnd>>, error |-> <<MatchError>>][e]]
  /\ jobs = IF client = "host" THEN <<>> ELSE <<"drain", "end">>
  /\ flowing = (client = "engine") /\ ended = FALSE /\ readStarted = FALSE
  /\ stack = <<>>
  /\ heard = [l \in Listeners |-> <<>>] /\ ends = 0

-----------------------------------------------------------------------------
(***************************************************************************)
(* Calls on the stream.                                                    *)
(***************************************************************************)

\* Host code runs: nothing of the stream does, or it called back.  The engine's
\* own callbacks call nothing; the store it reads may still destroy the stream.
HostRuns ==
  /\ calls < MaxCalls
  /\ stack = <<>> \/ (client = "host" /\ Top("emit") /\ Head(stack).active)
  /\ calls' = calls + 1
  /\ UNCHANGED <<source, client>>

Host == client = "host" /\ HostRuns

\* The microtask on() queues for a listener, with flow mode's guard.
Job(e) ==
  CASE e = "data" /\ ~ended /\ ~flowing            -> <<"drain">>
    [] e = "readable" /\ ~ended /\ quads # <<>>    -> <<"readable">>
    [] e = "end" /\ ~ended                         -> <<"end">>
    [] OTHER                                       -> <<>>

\* on(), addListener() and, for a listener of Once, once(); a listener is in the
\* list at most once.
On(l) ==
  /\ Host /\ ~Attached(l)
  /\ on' = [on EXCEPT ![Hears[l]] = Append(@, l)]
  /\ jobs' = jobs \o Job(Hears[l])
  /\ flowing' = (flowing \/ (Hears[l] = "data" /\ ~ended))
  /\ UNCHANGED <<queue, ended, readStarted, stack, history>>

\* prependListener() and prependOnceListener() go past on().
PrependListener(l) ==
  /\ Host /\ ~Attached(l)
  /\ on' = [on EXCEPT ![Hears[l]] = <<l>> \o @]
  /\ UNCHANGED <<queue, flags, jobs, stack, history>>

\* removeListener(), off(); an emission in progress keeps its copy.
RemoveListener(l) ==
  /\ Host /\ Attached(l)
  /\ on' = [on EXCEPT ![Hears[l]] = Without(@, l)]
  /\ UNCHANGED <<queue, flags, jobs, stack, history>>

RemoveAllListeners(e) ==
  /\ Host /\ on' = [on EXCEPT ![e] = <<>>]
  /\ UNCHANGED <<queue, flags, jobs, stack, history>>

\* Mutant: pop() for shift().
ReadNewest ==
  /\ Host /\ quads # <<>> /\ readStarted' = TRUE
  /\ taken' = Append(taken, quads[Len(quads)]) /\ quads' = SubSeq(quads, 1, Len(quads) - 1)
  /\ UNCHANGED <<on, ended, flowing, jobs, stack, history>>

\* read() with a quad left, and on an exhausted stream.
Read ==
  /\ Host /\ quads # <<>> /\ Take /\ readStarted' = TRUE
  /\ UNCHANGED <<on, ended, flowing, jobs, stack, history>>

\* Mutant: the null of an exhausted stream counts as a quad.
ReadNullHandedOut ==
  /\ Host /\ quads = <<>> /\ readStarted' = TRUE /\ End(stack)
  /\ taken' = Append(taken, NoQuad) /\ UNCHANGED <<quads, on, flowing, jobs, heard>>

ReadNull ==
  /\ Host /\ quads = <<>> /\ readStarted' = TRUE /\ End(stack)
  /\ UNCHANGED <<queue, on, flowing, jobs, heard>>

\* destroy(): at once, or behind the error emission.
Destroyed == ended' = TRUE /\ on' = [e \in Events |-> <<>>]

Destroy ==
  /\ HostRuns /\ Destroyed
  /\ UNCHANGED <<queue, flowing, readStarted, jobs, stack, history>>

DestroyWithError ==
  /\ HostRuns /\ stack' = Emit("error", NoQuad, <<[kind |-> "destroy"]>> \o stack)
  /\ UNCHANGED <<queue, on, flags, jobs, history>>

DestroyAfterError ==
  /\ Top("destroy") /\ Destroyed /\ stack' = Tail(stack)
  /\ UNCHANGED <<source, queue, flowing, readStarted, jobs, history, client, calls>>

-----------------------------------------------------------------------------
(***************************************************************************)
(* What the event loop runs: microtasks in order, each to its end.         *)
(***************************************************************************)
Rest == UNCHANGED <<source, client, calls>>
NextJob(job) == stack = <<>> /\ jobs # <<>> /\ Head(jobs) = job /\ jobs' = Tail(jobs)

\* Mutant: a stream that was read from is left to its reader.
RunDrainUnlessRead ==
  /\ NextJob("drain")
  /\ stack' = IF ended \/ ~flowing \/ readStarted THEN <<>> ELSE <<[kind |-> "drain"]>>
  /\ Rest /\ UNCHANGED <<queue, on, flags, history>>

RunDrain ==
  /\ NextJob("drain")
  /\ stack' = IF ended \/ ~flowing THEN <<>> ELSE <<[kind |-> "drain"]>>
  /\ Rest /\ UNCHANGED <<queue, on, flags, history>>

RunReadable ==
  /\ NextJob("readable")
  /\ stack' = IF ended \/ quads = <<>> THEN <<>> ELSE Emit("readable", NoQuad, <<>>)
  /\ Rest /\ UNCHANGED <<queue, on, flags, history>>

\* Mutant: read() does not count as consuming.
NobodyListens == ~flowing /\ on["data"] = <<>> /\ on["readable"] = <<>>

\* A bare end listener completes a stream nothing else consumes.
NobodyConsumes ==
  ~flowing /\ ~readStarted /\ on["data"] = <<>> /\ on["readable"] = <<>>

\* Mutant: a completion listener waits for quads nobody takes.
RunEndWhenEmpty ==
  /\ NextJob("end")
  /\ IF NobodyConsumes /\ quads = <<>> THEN End(<<>>) ELSE UNCHANGED <<ended, stack, ends>>
  /\ Rest /\ UNCHANGED <<queue, on, flowing, readStarted, heard>>

RunEnd ==
  /\ NextJob("end")
  /\ IF NobodyConsumes THEN End(<<>>) ELSE UNCHANGED <<ended, stack, ends>>
  /\ Rest /\ UNCHANGED <<queue, on, flowing, readStarted, heard>>

\* Mutant: end is emitted with the last quad still to be delivered.
DrainOneEndingFirst ==
  /\ Top("drain") /\ on["data"] # <<>> /\ quads # <<>> /\ Take
  /\ IF Tail(quads) = <<>> THEN End(Emit("data", Head(quads), stack))
     ELSE stack' = Emit("data", Head(quads), stack) /\ UNCHANGED <<ended, ends>>
  /\ Rest /\ UNCHANGED <<on, flowing, readStarted, jobs, heard>>

\* Mutant: one quad per drain.
DrainOneOnly ==
  /\ Top("drain") /\ on["data"] # <<>> /\ quads # <<>>
  /\ Take /\ stack' = Emit("data", Head(quads), Tail(stack))
  /\ Rest /\ UNCHANGED <<on, flags, jobs, history>>

\* _drain's loop: a data event per quad while somebody listens...
DrainOne ==
  /\ Top("drain") /\ on["data"] # <<>> /\ quads # <<>>
  /\ Take /\ stack' = Emit("data", Head(quads), stack)
  /\ Rest /\ UNCHANGED <<on, flags, jobs, history>>

\* ... and end once the queue is empty.
DrainDone ==
  /\ Top("drain") /\ (on["data"] = <<>> \/ quads = <<>>)
  /\ IF quads = <<>> THEN End(Tail(stack)) ELSE stack' = Tail(stack) /\ UNCHANGED <<ended, ends>>
  /\ Rest /\ UNCHANGED <<queue, on, flowing, readStarted, jobs, heard>>

\* The next listener of an emission; a once() listener is removed first.
Call ==
  /\ Top("emit") /\ Head(stack).rest # <<>>
  /\ LET frame == Head(stack)
         l == Head(frame.rest)
     IN  /\ heard' = [heard EXCEPT ![l] = Append(@, frame.quad)]
         /\ on' = IF l \in Once THEN [on EXCEPT ![Hears[l]] = Without(@, l)] ELSE on
         /\ stack' = <<[frame EXCEPT !.rest = Tail(@), !.active = TRUE]>> \o Tail(stack)
  /\ Rest /\ UNCHANGED <<queue, flags, jobs, ends>>

Return ==
  /\ Top("emit") /\ Head(stack).rest = <<>> /\ stack' = Tail(stack)
  /\ Rest /\ UNCHANGED <<queue, on, flags, jobs, history>>

EventLoop ==
  \/ RunDrain \/ RunReadable \/ RunEnd \/ DrainOne \/ DrainDone
  \/ Call \/ Return \/ DestroyAfterError

HostCalls ==
  \/ \E l \in Listeners \ MatchListeners : On(l) \/ PrependListener(l) \/ RemoveListener(l)
  \/ \E e \in Events : RemoveAllListeners(e)
  \/ Read \/ ReadNull \/ Destroy \/ DestroyWithError

Next == HostCalls \/ EventLoop

\* The event loop never rests on work that is queued or running; hosts owe nothing.
Spec == Init /\ [][Next]_vars /\ WF_vars(EventLoop)

-----------------------------------------------------------------------------
(***************************************************************************)
(* Properties.                                                             *)
(***************************************************************************)

\* Whatever mixture of flow mode, pull mode and re-entrant calls consumes the
\* stream, every quad is handed out once and in order: shift() always happens
\* before the callbacks run.
HandedOutOnce == taken \o quads = source

\* end is emitted at most once: after every quad has been handed out, or to a
\* completion listener while nobody has begun to consume the stream.
EndMeansConsumed ==
  [][ends' # ends => ends = 0 /\ (quads = <<>> \/ (taken = <<>> /\ NobodyConsumes))]_vars

\* The promise of matchQuadsViaStream resolves with the whole answer: its data
\* listener hears every quad before its end listener is called.
MatchIsComplete == client = "engine" /\ heard[MatchEnd] # <<>> => heard[MatchData] = source

\* The promise settles, unless the store drops the stream without an error
\* (destroy() clears the listeners and emits nothing).
MatchSettles ==
  client = "engine" ~> \/ heard[MatchEnd] # <<>> \/ heard[MatchError] # <<>>
                       \/ ended /\ ends = 0

DrainPending == "drain" \in {jobs[i] : i \in DOMAIN jobs}
                \/ "drain" \in {stack[i].kind : i \in DOMAIN stack}

\* A data listener that is there while flow mode is pending or draining, and
\* stays, sees the stream to its end.
FlowEnds ==
  \A l \in Listeners :
    (Hears[l] = "data" /\ Attached(l) /\ DrainPending) ~> (ended \/ ~Attached(l))

\* A bare completion listener (promisifyEventEmitter's) is served once its
\* microtask runs, unless somebody has begun to consume the stream by then.
CompletionSignalled ==
  ("end" \in {jobs[i] : i \in DOMAIN jobs}) ~> (ended \/ ~NobodyConsumes)
=============================================================================
