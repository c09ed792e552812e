SPECIFICATION Spec
CONSTANTS
  l1 = l1  l2 = l2  e1 = e1  e2 = e2  e3 = e3
  Listeners = {l1, l2}
  Publications = {e1, e2, e3}
  Casts <- AllCasts
  Exchanges <- TwoExchanges
  Keys <- TwoKeys
  Names = {"mine", "named"}
  Nobody = Nobody
INVARIANTS TypeOK HeardWasDue NothingMissed
PROPERTIES WaitingEnds
CHECK_DEADLOCK FALSE
