-------------------------- MODULE MCMemoryStream ---------------------------
(* Streams of up to two quads, for TLC: a data listener that stays, one    *)
(* attached with once(), and a listener of every other event.              *)
EXTENDS MemoryStream

CONSTANTS q1, q2, data, once, readable, end, matchData, matchEnd, matchError

UpToTwo == {<<>>, <<q1>>, <<q1, q2>>}
SomeListeners == {data, once, readable, end} \union {matchData, matchEnd, matchError}

EventOf ==
  [l \in SomeListeners |-> CASE l \in {data, once, matchData} -> "data"
                             [] l = readable                  -> "readable"
                             [] l \in {end, matchEnd}         -> "end"
                             [] OTHER                         -> "error"]

OnceOnly == {once}
=============================================================================
