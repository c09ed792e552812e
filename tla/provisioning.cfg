SPECIFICATION Spec
CONSTANTS
  Casts <- MCCasts
  MaxFaults = 1
INVARIANTS TypeOK SuccessMeansProvided ScriptsPermitted NoUndueRight
  OrphanReported NothingLeft ConnectedIsWhole
