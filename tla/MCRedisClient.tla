--------------------------- MODULE MCRedisClient ---------------------------
(* RedisClient for TLC. *)
EXTENDS RedisClient, TLC

\* Handles, listeners and pooled connections are interchangeable.
Symmetry ==
  Permutations(Handles) \cup Permutations(Listeners) \cup Permutations(Pool)
=============================================================================
