-------------------------- MODULE MCThreadTimeout --------------------------
EXTENDS ThreadTimeout

\* 5 is as long as main () waits; the program as it stands has 17.
AllDurations == 0 .. 7 \cup {17}
OnTime == 3 .. 17 \cap AllDurations
=============================================================================
