------------------------------- MODULE MCMutex -------------------------------
(* Three callers that draw seven tickets between them.                     *)
EXTENDS Mutex
CONSTANTS c1, c2, c3

MCCallers == {c1, c2, c3}
==============================================================================
