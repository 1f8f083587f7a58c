SPECIFICATION Spec
CONSTANTS
  q1 = q1
  q2 = q2
  data = data
  once = once
  readable = readable
  end = end
  matchData = matchData
  matchEnd = matchEnd
  matchError = matchError
  NoQuad = NoQuad
  Quads = {q1, q2}
  Sources <- UpToTwo
  Listeners <- SomeListeners
  Hears <- EventOf
  Once <- OnceOnly
  MatchData = matchData
  MatchEnd = matchEnd
  MatchError = matchError
  MaxCalls = 5
INVARIANTS TypeOK HandedOutOnce MatchIsComplete
PROPERTIES EndMeansConsumed MatchSettles FlowEnds CompletionSignalled
CHECK_DEADLOCK FALSE
