---------------------------- MODULE MCRedisLock -----------------------------
(* The instance is given by the configuration alone. *)
EXTENDS RedisLock
=============================================================================
