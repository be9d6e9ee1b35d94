---------------------------- MODULE MCHeartbeat ----------------------------
(* Two peers monitor a subject, which may crash and restart or be suspected *)
(* by mistake; or a peer crashes.                                            *)
EXTENDS Heartbeat
CONSTANTS x, a, b

MCOrder == <<"all", "store">>
MCLeader(S) == IF a \in S THEN a ELSE b
=============================================================================
