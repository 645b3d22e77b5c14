------------------------------ MODULE ForkJoin ------------------------------
(***************************************************************************)
(* What a fork-join pool promises its caller: a dispatch issues a batch of *)
(* fresh tickets, every ticket is started once and finished once, by       *)
(* whichever thread, and the dispatch is over only when all of its tickets *)
(* are finished.  src/core/pool.c implements this (module Pool).           *)
(***************************************************************************)
EXTENDS Integers

VARIABLES
    next,      \* the first ticket that has never been issued
    waiting,   \* issued, not started
    active,    \* started, not finished
    busy       \* a dispatch is in progress

fjvars == <<next, waiting, active, busy>>

Init == next = 0 /\ waiting = {} /\ active = {} /\ busy = FALSE

Fork ==
    /\ ~busy
    /\ busy' = TRUE
    /\ next' >= next
    /\ waiting' = next .. next' - 1
    /\ active' = active

Start ==
    \E k \in waiting :
        /\ waiting' = waiting \ {k}
        /\ active' = active \cup {k}
        /\ UNCHANGED <<next, busy>>

Finish ==
    \E k \in active :
        /\ active' = active \ {k}
        /\ UNCHANGED <<next, waiting, busy>>

JoinAll ==
    /\ busy
    /\ waiting = {}
    /\ active = {}
    /\ busy' = FALSE
    /\ UNCHANGED <<next, waiting, active>>

Next == Fork \/ Start \/ Finish \/ JoinAll

Spec == Init /\ [][Next]_fjvars
=============================================================================
