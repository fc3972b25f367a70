--------------------------- MODULE MCRedisClient ----------------------------
(* Model-checking instances of RedisClient. *)
EXTENDS RedisClient
=============================================================================
