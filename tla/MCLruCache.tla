----------------------------- MODULE MCLruCache ------------------------------
(* A cache of three entries over four keys, under both eviction policies.  *)
EXTENDS LruCache
CONSTANTS k1, k2, k3, k4, v1, v2

MCKeys == {k1, k2, k3, k4}
MCValues == {v1, v2}
==============================================================================
