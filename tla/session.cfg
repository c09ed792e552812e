SPECIFICATION Spec
CONSTANTS
  Sessions = {s1}
  Durations <- AloneDurations
  Reservations <- AloneReservations
  Punctual <- SmallDurations
  MaxTime = 8
INVARIANTS TypeOK StopHonoured NoStageRefused CompletedIsFinished
  KilledNotReused ReservationHeld WorkFits
PROPERTIES StartReturns LifecycleSpec
