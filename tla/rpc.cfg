SPECIFICATION Spec
CONSTANTS
  s1 = s1  s2 = s2  c1 = c1  c2 = c2  c3 = c3
  Servers = {s1, s2}
  Clients = {c1, c2, c3}
  Casts <- AllCasts
  CorId <- SameCorId
  Exchanges <- TwoExchanges
  Keys <- TwoKeys
  NoRequest = NoRequest
INVARIANTS TypeOK RequestKept RepliesBounded AnswerIsMine
PROPERTIES AckMeansAnswered RoutedAnswered
CHECK_DEADLOCK FALSE
