----------------------------- MODULE MCSession -----------------------------
EXTENDS Session, TLC
\* Threads arbitrarily late: a use case with two iterations, and a reservation
\* that fits it exactly, one that is longer and starts at once, and one that is
\* too short.
TwoIterations == {<<2, 3, 1>>}
ShortAndLong  == {<<1, 7>>, <<0, 7>>, <<1, 4>>}

\* Punctual threads: no or one second of initialization, up to two iterations,
\* with reservations at the limits of what the constructor accepts.
SmallDurations ==
  {<<d[1], w, d[2]>> : d \in {<<0, 0>>, <<0, 2>>, <<2, 0>>}, w \in 0 .. 3}
AnyReservation == {<<1, 1 + d>> : d \in {0, 1, 2, 3, 5, 7}}

AloneDurations == TwoIterations \cup SmallDurations
AloneReservations ==
  [d \in AloneDurations |-> IF d \in TwoIterations THEN ShortAndLong ELSE AnyReservation]

\* Two sessions that meet on a use case of one iteration.
OneIteration == {<<1, 0, 1>>}
Meeting      == [d \in OneIteration |-> {<<0, 2>>}]
Symmetry     == Permutations(Sessions)
=============================================================================
