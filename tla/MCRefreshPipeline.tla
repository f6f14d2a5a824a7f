------------------------- MODULE MCRefreshPipeline --------------------------
(* Small instances of RefreshPipeline; the constants are set in the .cfg   *)
(* files.  Wifi and ip keys and refreshers are interchangeable in every    *)
(* safety property, so runs that check no liveness may use the symmetry.   *)
EXTENDS RefreshPipeline

Symmetric == Permutations(WifiKeys) \cup Permutations(Refreshers)
=============================================================================
