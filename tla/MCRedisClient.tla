--------------------------- MODULE MCRedisClient ---------------------------
(* RedisClient for TLC; no symmetry, since the run checks liveness.         *)
EXTENDS RedisClient, TLC
=============================================================================
