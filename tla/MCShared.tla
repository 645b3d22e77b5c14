------------------------------ MODULE MCShared ------------------------------
(* The two structures that threads of one process share with atomics: the   *)
(* singleton of the pool, and the symbols of a domain.  Neither touches the *)
(* other, so a behaviour exercises one of them.                             *)
EXTENDS Domain, PoolInit

VARIABLE part       \* the structure that is exercised

MCInit == part \in {"pool", "domain"} /\ SingleInit /\ Init
MCNext ==
    \/ part = "pool" /\ SingleNext /\ UNCHANGED <<part, vars>>
    \/ part = "domain" /\ Next /\ UNCHANGED <<part, svars>>
MCSpec == MCInit /\ [][MCNext]_<<part, vars, svars>> /\ Fairness /\ SingleFairness
=============================================================================
