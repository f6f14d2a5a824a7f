--------------------------- MODULE MCAPIKeyCache ----------------------------
(* Small instances of APIKeyCache; the constants are set in the .cfg files. *)
EXTENDS APIKeyCache, TLC

Symmetric == Permutations(Requests) \cup Permutations(Admins)
=============================================================================
