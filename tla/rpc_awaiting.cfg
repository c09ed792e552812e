SPECIFICATION Spec
CONSTANTS
  s1 = s1  s2 = s2  c1 = c1  c2 = c2  c3 = c3
  Servers = {s1}
  Clients = {c1, c2}
  Casts <- Disconnection
  CorId <- SameCorId
  Exchanges <- TwoExchanges
  Keys <- TwoKeys
  NoRequest = NoRequest
PROPERTY AwaitingServes
CHECK_DEADLOCK FALSE
