SPECIFICATION Spec
CONSTANTS
  Sessions = {s1, s2}
  Durations <- OneIteration
  Reservations <- Meeting
  MaxTime = 2
  Punctual <- OneIteration
INVARIANTS VerdictJustified StoppedBetweenStages
SYMMETRY Symmetry
