------------------------------ MODULE PoolInit ------------------------------
(***************************************************************************)
(* The global pool singleton of src/core/pool.c: g_pool_init_state and the *)
(* calls that race on it (ray_pool_get, ray_pool_init, ray_pool_init_total,*)
(* ray_pool_destroy).  The pool itself (module Pool) is reduced to whether *)
(* g_pool is built; creation may fail.                                     *)
(***************************************************************************)
EXTENDS Integers, FiniteSets

CONSTANTS
    Callers,    \* threads that call the singleton's API
    MaxCalls    \* bound on the calls of a behaviour

VARIABLES
    state,      \* g_pool_init_state: 0 uninit, 1 initializing, 2 ready, 3 destroying
    built,      \* g_pool holds a live pool
    pc,         \* control point of every caller
    op,         \* "get", "init" or "destroy": the call in progress
    ret,        \* what the last call returned
    seen,       \* ghost: the values g_pool_init_state had during the call
    calls       \* calls started so far

svars == <<state, built, pc, op, ret, seen, calls>>

SingleInit ==
    /\ state = 0
    /\ built = FALSE
    /\ pc = [t \in Callers |-> "out"]
    /\ op = [t \in Callers |-> "get"]
    /\ ret = [t \in Callers |-> "none"]
    /\ seen = [t \in Callers |-> {}]
    /\ calls = 0

Go(t, where) == pc' = [pc EXCEPT ![t] = where]

\* Every call in progress observes the values the state takes.
Watch(s) == seen' = [t \in Callers |-> IF pc[t] = "out" THEN seen[t]
                                       ELSE seen[t] \cup {s}]

SetState(s) == state' = s /\ Watch(s)

Return(t, value) == Go(t, "out") /\ ret' = [ret EXCEPT ![t] = value]

Call(t, o) ==
    /\ pc[t] = "out"
    /\ calls < MaxCalls
    /\ calls' = calls + 1
    /\ op' = [op EXCEPT ![t] = o]
    /\ ret' = [ret EXCEPT ![t] = "none"]
    /\ seen' = [seen EXCEPT ![t] = {state}]
    /\ Go(t, IF o = "get" THEN "load" ELSE "cas")
    /\ UNCHANGED <<state, built>>

\* ray_pool_get: the first load decides between fast path, claim and spin.
GetLoad(t) ==
    /\ pc[t] = "load"
    /\ IF state = 2 THEN Return(t, "pool")
       ELSE Go(t, IF state = 0 THEN "cas" ELSE "spin") /\ UNCHANGED ret
    /\ UNCHANGED <<state, built, op, seen, calls>>

\* The compare-and-swap 0 -> 1 of ray_pool_get and ray_pool_init_impl.
ClaimInit(t) ==
    /\ pc[t] = "cas"
    /\ op[t] \in {"get", "init"}
    /\ state = 0
    /\ SetState(1)
    /\ Go(t, "create")
    /\ UNCHANGED <<built, op, ret, calls>>

GetLost(t) ==
    /\ pc[t] = "cas"
    /\ op[t] = "get"
    /\ state # 0
    /\ Go(t, "spin")
    /\ UNCHANGED <<state, built, op, ret, seen, calls>>

\* Mutation: the spin also returns the pool while it is being destroyed.
GetSpinAny(t) ==
    /\ pc[t] = "spin"
    /\ op[t] = "get"
    /\ state # 1
    /\ Return(t, IF state = 0 THEN "null" ELSE "pool")
    /\ UNCHANGED <<state, built, op, seen, calls>>

GetSpin(t) ==
    /\ pc[t] = "spin"
    /\ op[t] = "get"
    /\ state \in {0, 2}
    /\ Return(t, IF state = 2 THEN "pool" ELSE "null")
    /\ UNCHANGED <<state, built, op, seen, calls>>

\* ray_pool_init_impl waits only for an initializer (state 1).
InitLost(t) ==
    /\ pc[t] = "cas"
    /\ op[t] = "init"
    /\ state # 0
    /\ IF state = 1 THEN Go(t, "spin") /\ UNCHANGED ret
                    ELSE Return(t, "ok")
    /\ UNCHANGED <<state, built, op, seen, calls>>

InitSpin(t) ==
    /\ pc[t] = "spin"
    /\ op[t] = "init"
    /\ state # 1
    /\ Return(t, "ok")
    /\ UNCHANGED <<state, built, op, seen, calls>>

\* ray_pool_create_impl on g_pool succeeds or fails (threads, memory).
Create(t) ==
    /\ pc[t] = "create"
    /\ \/ built' = TRUE /\ Go(t, "ready")
       \/ built' = FALSE /\ Go(t, "failed")
    /\ UNCHANGED <<state, op, ret, seen, calls>>

StoreReady(t) ==
    /\ pc[t] = "ready"
    /\ SetState(2)
    /\ Return(t, IF op[t] = "get" THEN "pool" ELSE "ok")
    /\ UNCHANGED <<built, op, calls>>

\* Mutation: a failed initializer leaves the state at "initializing".
StoreFailedNoReset(t) ==
    /\ pc[t] = "failed"
    /\ Return(t, IF op[t] = "get" THEN "null" ELSE "error")
    /\ UNCHANGED <<state, built, op, seen, calls>>

StoreFailed(t) ==
    /\ pc[t] = "failed"
    /\ SetState(0)
    /\ Return(t, IF op[t] = "get" THEN "null" ELSE "error")
    /\ UNCHANGED <<built, op, calls>>

\* Mutation: ray_pool_destroy does not take the state before it frees.
ClaimDestroyNoCas(t) ==
    /\ pc[t] = "cas"
    /\ op[t] = "destroy"
    /\ state = 2
    /\ Go(t, "free")
    /\ UNCHANGED <<state, built, op, ret, seen, calls>>

ClaimDestroy(t) ==
    /\ pc[t] = "cas"
    /\ op[t] = "destroy"
    /\ state = 2
    /\ SetState(3)
    /\ Go(t, "free")
    /\ UNCHANGED <<built, op, ret, calls>>

DestroyNothing(t) ==
    /\ pc[t] = "cas"
    /\ op[t] = "destroy"
    /\ state # 2
    /\ Return(t, "void")
    /\ UNCHANGED <<state, built, op, seen, calls>>

FreePool(t) ==
    /\ pc[t] = "free"
    /\ built' = FALSE
    /\ Go(t, "freed")
    /\ UNCHANGED <<state, op, ret, seen, calls>>

StoreFreed(t) ==
    /\ pc[t] = "freed"
    /\ SetState(0)
    /\ Return(t, "void")
    /\ UNCHANGED <<built, op, calls>>

Step(t) ==
    \/ GetLoad(t) \/ ClaimInit(t) \/ GetLost(t) \/ GetSpin(t)
    \/ InitLost(t) \/ InitSpin(t)
    \/ Create(t) \/ StoreReady(t) \/ StoreFailed(t)
    \/ ClaimDestroy(t) \/ DestroyNothing(t) \/ FreePool(t) \/ StoreFreed(t)

\* All calls were made and have returned.
Finished ==
    /\ calls = MaxCalls
    /\ \A t \in Callers : pc[t] = "out"
    /\ UNCHANGED svars

SingleNext ==
    \/ \E t \in Callers : Step(t) \/ \E o \in {"get", "init", "destroy"} : Call(t, o)
    \/ Finished

SingleFairness == \A t \in Callers : WF_svars(Step(t))
SingleSpec == SingleInit /\ [][SingleNext]_svars /\ SingleFairness

-----------------------------------------------------------------------------
\* Type invariant: g_pool_init_state only takes the four values pool.c names.
SingleTypeOK ==
    /\ state \in 0..3
    /\ built \in BOOLEAN
    /\ pc \in [Callers -> {"out", "load", "cas", "spin", "create", "ready",
                           "failed", "free", "freed"}]
    /\ op \in [Callers -> {"get", "init", "destroy"}]
    /\ ret \in [Callers -> {"none", "pool", "null", "ok", "error", "void"}]
    /\ seen \in [Callers -> SUBSET (0..3)]
    /\ calls \in Nat

\* g_pool is built or torn down by one thread at a time, a state of "ready"
\* means that g_pool is built, and "uninitialized" that it is not: the thread
\* that won a compare-and-swap owns the pool until its final store.
OneOwner ==
    LET owners == {t \in Callers :
                      pc[t] \in {"create", "ready", "failed", "free", "freed"}}
    IN  /\ Cardinality(owners) = (IF state \in {1, 3} THEN 1 ELSE 0)
        /\ state \in {0, 2} => built = (state = 2)

\* ray_pool_get hands out the pool only if it was ready at some moment of the
\* call, and NULL only if it was uninitialized at some moment of the call.
GetHonest ==
    \A t \in Callers :
        /\ ret[t] = "pool" => 2 \in seen[t]
        /\ ret[t] = "null" => 0 \in seen[t]

\* pool.c on the RAY_OK of ray_pool_init_impl: "already initialized or
\* completed during our spin".
InitOkMeansReady ==
    \A t \in Callers : op[t] = "init" /\ ret[t] = "ok" => 2 \in seen[t]

\* Every call returns: no caller spins for ever on a state nobody will change.
CallsReturn == \A t \in Callers : pc[t] # "out" ~> pc[t] = "out"
=============================================================================
