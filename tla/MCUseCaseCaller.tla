-------------------------- MODULE MCUseCaseCaller --------------------------
EXTENDS UseCaseCaller
\* The durations of use_case_tst.cpp, and the work maxima at which the number
\* of iterations is negative, zero, one, two and more.
MCDurations == {<<2, 6, 2>>} \cup {<<i, w, 1>> : i \in {0, 2}, w \in 0 .. 12}
=============================================================================
