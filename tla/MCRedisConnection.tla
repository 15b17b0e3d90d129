-------------------------- MODULE MCRedisConnection --------------------------
(***************************************************************************)
(* Small instances of RedisConnection for TLC.  The actors belong to named *)
(* instances and are not interchangeable.                                  *)
(***************************************************************************)
EXTENDS RedisConnection, TLC
=============================================================================
