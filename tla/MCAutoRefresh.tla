--------------------------- MODULE MCAutoRefresh ----------------------------
(* Small instances of AutoRefresh.  A duration has three bits (Half = 4)    *)
(* and counts in the units of the periods (Factor = 1; the proofs are for   *)
(* every factor): 1 and 2 are periods, shorter than the time between two    *)
(* polls, 4 overflows, 0 is "off"; all but 4 fit the column.                *)
EXTENDS AutoRefresh

Periods == {0, 1, 2, 4}
Columns == {0, 1, 2}
=============================================================================
