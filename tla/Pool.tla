-------------------------------- MODULE Pool --------------------------------
(***************************************************************************)
(* The fork-join thread pool of src/core/pool.c.                           *)
(*                                                                         *)
(* One producer (the main thread, worker 0) carves a window of tickets off *)
(* a monotonic cursor, wakes the workers through a counting semaphore and  *)
(* drains the window together with them; a spin on `pending` is the only   *)
(* barrier.  Semaphore signals that no worker consumed survive into later  *)
(* dispatches, so a worker may wake in the middle of the next one: every   *)
(* shared load, store and compare-and-swap below is an action of its own.  *)
(*                                                                         *)
(* Data abstraction: fn/ctx of a task is the number of the dispatch that   *)
(* created it, the elements are integers, and atomics are sequentially     *)
(* consistent.                                                             *)
(***************************************************************************)
EXTENDS Integers, FiniteSets

CONSTANTS
    Workers,        \* background threads, worker ids 1..n_workers
    Main,           \* the dispatching thread, worker id 0
    InitCap,        \* RAY_POOL_INIT_TASKS
    MaxCap,         \* RAY_POOL_MAX_TASKS
    Grain,          \* TASK_GRAIN
    U32,            \* number of values of a uint32_t
    Totals,         \* total_elems arguments tried on ray_pool_dispatch
    Counts,         \* n_tasks arguments tried on ray_pool_dispatch_n
    MaxElems,       \* bound on the elements of one dispatch (ghost `hits`)
    MaxDispatches   \* bound on the dispatches of a behaviour

ASSUME PoolAssumption ==
    /\ IsFiniteSet(Workers)
    /\ Main \notin Workers
    /\ InitCap \in Nat \ {0}
    /\ MaxCap \in Nat \ {0}
    /\ Grain \in Nat \ {0}
    /\ U32 \in Nat \ {0}
    /\ MaxElems \in Nat
    /\ MaxDispatches \in Nat
    /\ Totals \subseteq 1..MaxElems
    /\ Counts \subseteq 1..MaxElems

VARIABLES
    shutdown,    \* pool->shutdown
    claim,       \* pool->task_claim
    limit,       \* pool->task_limit
    pending,     \* pool->pending
    cap,         \* pool->task_cap
    ring,        \* pool->tasks
    sem,         \* value of pool->work_ready
    cancelled,   \* pool->cancelled
    pflag,       \* ray_parallel_flag
    pc,          \* control point of every thread
    cur,         \* local `cur` of pool_claim
    idx,         \* ticket returned by pool_claim
    task,        \* *t, the slot contents the thread is executing
    plan,        \* locals of the dispatch in progress
    i,           \* loop counter of the main thread
    nd,          \* dispatches started so far (stands for fn and ctx)
    open,        \* ghost: published tickets whose pending-- has not happened
    hits,        \* ghost: how often each element of this dispatch was processed
    skipped      \* ghost: a task of this dispatch was skipped by cancellation

shared  == <<shutdown, claim, limit, pending, cap, ring, sem, cancelled, pflag>>
locals  == <<pc, cur, idx, task, plan, i, nd>>
ghosts  == <<open, hits, skipped>>
vars    == <<shared, locals, ghosts>>

Threads == Workers \cup {Main}
Elems   == 0 .. MaxElems - 1
NoTask  == [disp |-> 0, start |-> 0, end |-> 0]
NoPlan  == [kind |-> "n", total |-> 0, n |-> 0, grain |-> 1, base |-> 0,
            newcap |-> 0]

\* Control points at which a thread owns a ticket it has not yet retired.
Holding == {"check", "fetch", "run", "dec"}
Holders == {t \in Threads : pc[t] \in Holding}

CeilDiv(a, b) == (a + b - 1) \div b
Slot(k, c)    == k % c
Minimum(a, b) == IF a <= b THEN a ELSE b

\* The task the dispatch writes for the j-th ticket of its window.
TaskAt(p, d, j) ==
    [disp  |-> d,
     start |-> j * p.grain,
     end   |-> Minimum((j + 1) * p.grain, p.total)]

Go(t, where) == pc' = [pc EXCEPT ![t] = where]

-----------------------------------------------------------------------------
(* Creation: memset, ring allocation, then one thread after the other.     *)

Init ==
    /\ shutdown = FALSE /\ claim = 0 /\ limit = 0 /\ pending = 0
    /\ cap = InitCap
    /\ ring = [s \in 0 .. InitCap - 1 |-> NoTask]
    /\ sem = 0
    /\ cancelled = FALSE
    /\ pflag = 0
    /\ pc = [t \in Threads |-> IF t = Main THEN "spawn" ELSE "unborn"]
    /\ cur = [t \in Threads |-> 0]
    /\ idx = [t \in Threads |-> 0]
    /\ task = [t \in Threads |-> NoTask]
    /\ plan = NoPlan
    /\ i = 0
    /\ nd = 0
    /\ open = {}
    /\ hits = [e \in Elems |-> 0]
    /\ skipped = FALSE

Started == {w \in Workers : pc[w] # "unborn"}

SpawnOk(w) ==
    /\ pc[Main] = "spawn"
    /\ pc[w] = "unborn"
    /\ Go(w, "wait")
    /\ UNCHANGED <<shared, cur, idx, task, plan, i, nd, ghosts>>

\* ray_sys_alloc of the worker context, or ray_thread_create, failed: stop
\* the threads that were already started.
SpawnFail ==
    /\ pc[Main] = "spawn"
    /\ Started # Workers
    /\ shutdown' = TRUE
    /\ i' = 0
    /\ Go(Main, "stop")
    /\ UNCHANGED <<claim, limit, pending, cap, ring, sem, cancelled, pflag,
                   cur, idx, task, plan, nd, ghosts>>

SpawnDone ==
    /\ pc[Main] = "spawn"
    /\ Started = Workers
    /\ Go(Main, "idle")
    /\ UNCHANGED <<shared, cur, idx, task, plan, i, nd, ghosts>>

-----------------------------------------------------------------------------
(* The dispatching side.                                                   *)

\* The two entry points differ in how they size the window and in what the
\* clamp does; a dispatch of n tasks [j, j+1) is one of n elements at grain 1.
BeginDispatch(kind, total, n, grain) ==
    /\ pc[Main] = "idle"
    /\ nd < MaxDispatches
    /\ nd' = nd + 1
    /\ plan' = [kind |-> kind, total |-> total, n |-> n, grain |-> grain,
                base |-> 0, newcap |-> cap]
    /\ hits' = [e \in Elems |-> 0]
    /\ skipped' = FALSE
    /\ Go(Main, IF n > cap THEN "grow" ELSE "carve")
    /\ UNCHANGED <<shared, cur, idx, task, i, open>>

Dispatch(total) ==
    BeginDispatch("elems", total, CeilDiv(total, Grain) % U32, Grain)

DispatchN(n) == BeginDispatch("n", n, n, 1)

\* while (new_cap < n_tasks && new_cap < MAX_RING_CAP) new_cap *= 2
GrowDouble ==
    /\ pc[Main] = "grow"
    /\ plan.newcap < plan.n
    /\ plan.newcap < MaxCap
    /\ plan' = [plan EXCEPT !.newcap = 2 * @]
    /\ UNCHANGED <<shared, pc, cur, idx, task, i, nd, ghosts>>

GrowEnd == ~(plan.newcap < plan.n /\ plan.newcap < MaxCap)

\* ray_sys_realloc succeeded: the old slots are copied, the new ones are not
\* initialised.
GrowOk ==
    /\ pc[Main] = "grow"
    /\ GrowEnd
    /\ plan.newcap > cap
    /\ cap' = plan.newcap
    /\ ring' = [s \in 0 .. plan.newcap - 1 |->
                    IF s < cap THEN ring[s] ELSE NoTask]
    /\ Go(Main, "clamp")
    /\ UNCHANGED <<shutdown, claim, limit, pending, sem, cancelled, pflag,
                   cur, idx, task, plan, i, nd, ghosts>>

\* The ring is at its ceiling, or ray_sys_realloc returned NULL.
GrowNo ==
    /\ pc[Main] = "grow"
    /\ GrowEnd
    /\ Go(Main, "clamp")
    /\ UNCHANGED <<shared, cur, idx, task, plan, i, nd, ghosts>>

\* Mutation: the clamp does not re-derive the grain.
ClampKeepGrain ==
    /\ pc[Main] = "clamp"
    /\ plan' = [plan EXCEPT !.n = Minimum(plan.n, cap)]
    /\ Go(Main, "carve")
    /\ UNCHANGED <<shared, cur, idx, task, i, nd, ghosts>>

\* ray_pool_dispatch re-derives the grain, ray_pool_dispatch_n drops the tail.
Clamp ==
    /\ pc[Main] = "clamp"
    /\ plan' = IF plan.n <= cap THEN plan
               ELSE IF plan.kind = "elems"
                    THEN [plan EXCEPT !.n = cap,
                                      !.grain = CeilDiv(plan.total, cap)]
                    ELSE [plan EXCEPT !.n = cap]
    /\ Go(Main, "carve")
    /\ UNCHANGED <<shared, cur, idx, task, i, nd, ghosts>>

Carve ==
    /\ pc[Main] = "carve"
    /\ plan' = [plan EXCEPT !.base = limit]
    /\ i' = 0
    /\ Go(Main, "fill")
    /\ UNCHANGED <<shared, cur, idx, task, nd, ghosts>>

FillSlot ==
    /\ pc[Main] = "fill"
    /\ i < plan.n
    /\ ring' = [ring EXCEPT ![Slot(plan.base + i, cap)] = TaskAt(plan, nd, i)]
    /\ i' = i + 1
    /\ UNCHANGED <<shutdown, claim, limit, pending, cap, sem, cancelled, pflag,
                   pc, cur, idx, task, plan, nd, ghosts>>

\* Mutation: one task too few is counted.
PublishPendingOffByOne ==
    /\ pc[Main] = "fill"
    /\ i >= plan.n
    /\ pending' = plan.n - 1
    /\ Go(Main, "publish")
    /\ UNCHANGED <<shutdown, claim, limit, cap, ring, sem, cancelled, pflag,
                   cur, idx, task, plan, i, nd, ghosts>>

PublishPending ==
    /\ pc[Main] = "fill"
    /\ i >= plan.n
    /\ pending' = plan.n
    /\ Go(Main, "publish")
    /\ UNCHANGED <<shutdown, claim, limit, cap, ring, sem, cancelled, pflag,
                   cur, idx, task, plan, i, nd, ghosts>>

PublishLimit ==
    /\ pc[Main] = "publish"
    /\ limit' = plan.base + plan.n
    /\ open' = plan.base .. plan.base + plan.n - 1
    /\ Go(Main, "flag")
    /\ UNCHANGED <<shutdown, claim, pending, cap, ring, sem, cancelled, pflag,
                   cur, idx, task, plan, i, nd, hits, skipped>>

\* ray_parallel_flag = 1; ray_rc_sync (main-thread local) = true
RaiseFlag ==
    /\ pc[Main] = "flag"
    /\ pflag' = 1
    /\ i' = 0
    /\ Go(Main, "signal")
    /\ UNCHANGED <<shutdown, claim, limit, pending, cap, ring, sem, cancelled,
                   cur, idx, task, plan, nd, ghosts>>

SignalOne ==
    /\ pc[Main] = "signal"
    /\ i < Cardinality(Workers)
    /\ sem' = sem + 1
    /\ i' = i + 1
    /\ UNCHANGED <<shutdown, claim, limit, pending, cap, ring, cancelled, pflag,
                   pc, cur, idx, task, plan, nd, ghosts>>

SignalDone ==
    /\ pc[Main] = "signal"
    /\ i >= Cardinality(Workers)
    /\ Go(Main, "load")
    /\ UNCHANGED <<shared, cur, idx, task, plan, i, nd, ghosts>>

\* Mutation: main returns after its own share, without waiting for the workers.
BarrierNoWait ==
    /\ pc[Main] = "spin"
    /\ Go(Main, "lower")
    /\ UNCHANGED <<shared, cur, idx, task, plan, i, nd, ghosts>>

\* The spin-wait ends when an acquire load of pending returns 0.
Barrier ==
    /\ pc[Main] = "spin"
    /\ pending = 0
    /\ Go(Main, "lower")
    /\ UNCHANGED <<shared, cur, idx, task, plan, i, nd, ghosts>>

LowerFlag ==
    /\ pc[Main] = "lower"
    /\ pflag' = 0
    /\ Go(Main, "idle")
    /\ UNCHANGED <<shutdown, claim, limit, pending, cap, ring, sem, cancelled,
                   cur, idx, task, plan, i, nd, ghosts>>

-----------------------------------------------------------------------------
(* Claiming and executing: the loop shared by the workers and main.        *)

LoadClaim(t) ==
    /\ pc[t] = "load"
    /\ cur' = [cur EXCEPT ![t] = claim]
    /\ Go(t, "limit")
    /\ UNCHANGED <<shared, idx, task, plan, i, nd, ghosts>>

\* Mutation: the cursor is advanced without regard to the window's end, as a
\* fetch-and-add would do.
LoadLimitUnbounded(t) ==
    /\ pc[t] = "limit"
    /\ IF cur[t] <= limit
       THEN Go(t, "cas") /\ UNCHANGED cur
       ELSE Go(t, IF t = Main THEN "spin" ELSE "wait")
            /\ cur' = [cur EXCEPT ![t] = 0]
    /\ UNCHANGED <<shared, idx, task, plan, i, nd, ghosts>>

\* Locals that go out of scope are set back to 0, which the code never reads.
LoadLimit(t) ==
    /\ pc[t] = "limit"
    /\ IF cur[t] < limit
       THEN Go(t, "cas") /\ UNCHANGED cur
       ELSE Go(t, IF t = Main THEN "spin" ELSE "wait")
            /\ cur' = [cur EXCEPT ![t] = 0]
    /\ UNCHANGED <<shared, idx, task, plan, i, nd, ghosts>>

\* Mutation: the claim is a plain store, it does not compare.
CasOkNoCompare(t) ==
    /\ pc[t] = "cas"
    /\ claim' = cur[t] + 1
    /\ idx' = [idx EXCEPT ![t] = cur[t]]
    /\ cur' = [cur EXCEPT ![t] = 0]
    /\ Go(t, "check")
    /\ UNCHANGED <<shutdown, limit, pending, cap, ring, sem, cancelled, pflag,
                   task, plan, i, nd, ghosts>>

CasOk(t) ==
    /\ pc[t] = "cas"
    /\ claim = cur[t]
    /\ claim' = cur[t] + 1
    /\ idx' = [idx EXCEPT ![t] = cur[t]]
    /\ cur' = [cur EXCEPT ![t] = 0]
    /\ Go(t, "check")
    /\ UNCHANGED <<shutdown, limit, pending, cap, ring, sem, cancelled, pflag,
                   task, plan, i, nd, ghosts>>

\* The value moved on, or the weak compare-and-swap failed spuriously.
CasFail(t) ==
    /\ pc[t] = "cas"
    /\ cur' = [cur EXCEPT ![t] = claim]
    /\ Go(t, "limit")
    /\ UNCHANGED <<shared, idx, task, plan, i, nd, ghosts>>

\* Mutation: a skipped task does not count down pending.
CheckCancelledNoDec(t) ==
    /\ pc[t] = "check"
    /\ Go(t, IF cancelled THEN "load" ELSE "fetch")
    /\ skipped' = (skipped \/ cancelled)
    /\ UNCHANGED <<shared, cur, idx, task, plan, i, nd, open, hits>>

CheckCancelled(t) ==
    /\ pc[t] = "check"
    /\ Go(t, IF cancelled THEN "dec" ELSE "fetch")
    /\ skipped' = (skipped \/ cancelled)
    /\ UNCHANGED <<shared, cur, idx, task, plan, i, nd, open, hits>>

\* t = &pool->tasks[idx & (task_cap - 1)] and the reads of its fields
Fetch(t) ==
    /\ pc[t] = "fetch"
    /\ task' = [task EXCEPT ![t] = ring[Slot(idx[t], cap)]]
    /\ Go(t, "run")
    /\ UNCHANGED <<shared, cur, idx, plan, i, nd, ghosts>>

Run(t) ==
    /\ pc[t] = "run"
    /\ hits' = [e \in Elems |->
                  IF task[t].start <= e /\ e < task[t].end
                  THEN hits[e] + 1 ELSE hits[e]]
    /\ Go(t, "dec")
    /\ UNCHANGED <<shared, cur, idx, task, plan, i, nd, open, skipped>>

Retire(t) ==
    /\ pc[t] = "dec"
    /\ pending' = pending - 1
    /\ open' = open \ {idx[t]}
    /\ idx' = [idx EXCEPT ![t] = 0]
    /\ task' = [task EXCEPT ![t] = NoTask]
    /\ Go(t, "load")
    /\ UNCHANGED <<shutdown, claim, limit, cap, ring, sem, cancelled, pflag,
                   cur, plan, i, nd, hits, skipped>>

-----------------------------------------------------------------------------
(* The rest of the worker, shutdown, cancellation.                         *)

SemWait(w) ==
    /\ pc[w] = "wait"
    /\ sem > 0
    /\ sem' = sem - 1
    /\ Go(w, "awake")
    /\ UNCHANGED <<shutdown, claim, limit, pending, cap, ring, cancelled, pflag,
                   cur, idx, task, plan, i, nd, ghosts>>

CheckShutdown(w) ==
    /\ pc[w] = "awake"
    /\ Go(w, IF shutdown THEN "exit" ELSE "load")
    /\ UNCHANGED <<shared, cur, idx, task, plan, i, nd, ghosts>>

Free ==
    /\ pc[Main] = "idle"
    /\ shutdown' = TRUE
    /\ i' = 0
    /\ Go(Main, "stop")
    /\ UNCHANGED <<claim, limit, pending, cap, ring, sem, cancelled, pflag,
                   cur, idx, task, plan, nd, ghosts>>

StopSignal ==
    /\ pc[Main] = "stop"
    /\ i < Cardinality(Started)
    /\ sem' = sem + 1
    /\ i' = i + 1
    /\ UNCHANGED <<shutdown, claim, limit, pending, cap, ring, cancelled, pflag,
                   pc, cur, idx, task, plan, nd, ghosts>>

\* ray_thread_join of every started thread returned; ring and semaphore go.
Join ==
    /\ pc[Main] = "stop"
    /\ i >= Cardinality(Started)
    /\ \A w \in Started : pc[w] = "exit"
    /\ Go(Main, "freed")
    /\ UNCHANGED <<shared, cur, idx, task, plan, i, nd, ghosts>>

\* ray_cancel, from a signal handler at any moment of the pool's life.
Cancel ==
    /\ pc[Main] \notin {"spawn", "stop", "freed"}
    /\ cancelled' = TRUE
    /\ UNCHANGED <<shutdown, claim, limit, pending, cap, ring, sem, pflag,
                   locals, ghosts>>

\* ray_cancel_reset, by the main thread at a query boundary.
CancelReset ==
    /\ pc[Main] = "idle"
    /\ cancelled' = FALSE
    /\ UNCHANGED <<shutdown, claim, limit, pending, cap, ring, sem, pflag,
                   locals, ghosts>>

\* The pool is gone: nothing happens any more.
Terminated == pc[Main] = "freed" /\ UNCHANGED vars

-----------------------------------------------------------------------------
MainStep ==
    \/ SpawnFail \/ SpawnDone
    \/ \E w \in Workers : SpawnOk(w)
    \/ \E total \in Totals : Dispatch(total)
    \/ \E n \in Counts : DispatchN(n)
    \/ GrowDouble \/ GrowOk \/ GrowNo \/ Clamp \/ Carve
    \/ FillSlot \/ PublishPending \/ PublishLimit \/ RaiseFlag
    \/ SignalOne \/ SignalDone
    \/ Barrier \/ LowerFlag
    \/ Free \/ StopSignal \/ Join

ClaimStep(t) ==
    \/ LoadClaim(t) \/ LoadLimit(t) \/ CasOk(t) \/ CasFail(t)
    \/ CheckCancelled(t) \/ Fetch(t) \/ Run(t) \/ Retire(t)

WorkerStep(w) == SemWait(w) \/ CheckShutdown(w)

Next ==
    \/ MainStep
    \/ \E t \in Threads : ClaimStep(t)
    \/ \E w \in Workers : WorkerStep(w)
    \/ Cancel \/ CancelReset
    \/ Terminated

Spec == Init /\ [][Next]_vars

\* The scheduler runs every thread that can take a step; a caller need not
\* start another dispatch, spawn or free.  A compare-and-swap that is retried
\* for ever succeeds in the end: x86 has no spurious failures, and LL/SC
\* machines guarantee forward progress of such a loop.
MainProgress ==
    \/ GrowDouble \/ GrowOk \/ GrowNo \/ Clamp \/ Carve
    \/ FillSlot \/ PublishPending \/ PublishLimit \/ RaiseFlag
    \/ SignalOne \/ SignalDone
    \/ Barrier \/ LowerFlag \/ StopSignal \/ Join

Fairness ==
    /\ WF_vars(MainProgress)
    /\ \A t \in Threads : WF_vars(ClaimStep(t))
    /\ \A w \in Workers : WF_vars(WorkerStep(w))
    /\ SF_vars(CasOk(Main))

FairSpec == Spec /\ Fairness

-----------------------------------------------------------------------------
(* Correctness.                                                            *)

Tasks == [disp : Nat, start : Int, end : Int]
Plans == [kind : {"elems", "n"}, total : Nat, n : Nat, grain : Nat, base : Nat,
          newcap : Nat]

ClaimPoints  == {"load", "limit", "cas"} \cup Holding
WorkerPoints == {"unborn", "wait", "awake", "exit"} \cup ClaimPoints
MainPoints   == {"spawn", "idle", "grow", "clamp", "carve", "fill", "publish",
                 "flag", "signal", "spin", "lower", "stop", "freed"}
                    \cup ClaimPoints

\* Control points of main between PublishLimit and LowerFlag.
Parallel == {"flag", "signal", "spin", "lower"} \cup ClaimPoints

\* Type invariant: the values the fields of struct ray_pool and the locals of
\* its loops range over; pending, an unsigned counter, never goes below zero.
TypeOK ==
    /\ shutdown \in BOOLEAN
    /\ claim \in Nat /\ limit \in Nat /\ pending \in Nat
    /\ cap \in Nat \ {0}
    /\ ring \in [0 .. cap - 1 -> Tasks]
    /\ sem \in Nat
    /\ cancelled \in BOOLEAN
    /\ pflag \in {0, 1}
    /\ pc \in [Threads -> WorkerPoints \cup MainPoints]
    /\ pc[Main] \in MainPoints
    /\ \A w \in Workers : pc[w] \in WorkerPoints
    /\ cur \in [Threads -> Nat]
    /\ idx \in [Threads -> Nat]
    /\ task \in [Threads -> Tasks]
    /\ plan \in Plans
    /\ i \in Nat
    /\ nd \in Nat
    /\ open \in SUBSET Nat
    /\ hits \in [Elems -> Nat]
    /\ skipped \in BOOLEAN

\* The tickets that are published and not retired: those still to be claimed
\* and those some thread holds, each held by one thread.
TicketInv ==
    /\ claim <= limit
    /\ open = (claim .. limit - 1) \cup {idx[t] : t \in Holders}
    /\ \A t \in Holders : plan.base <= idx[t] /\ idx[t] < claim
    /\ \A s, t \in Holders : idx[s] = idx[t] => s = t
    /\ \A t \in Threads : pc[t] = "cas" => cur[t] < limit

\* What main knows at each of its control points: the window is closed outside
\* Parallel, pending counts the open tickets inside, nothing is open after the
\* barrier.
WindowInv ==
    /\ pc[Main] \notin Parallel \/ pc[Main] = "lower" => open = {}
    /\ pc[Main] \in {"fill", "publish"} => plan.base = limit
    /\ pc[Main] = "publish" => pending = plan.n
    /\ pc[Main] \in Parallel => /\ limit = plan.base + plan.n
                               /\ pending = Cardinality(open)
                               /\ plan.base <= claim

\* The slots of the window hold the tasks of the window, and so does every
\* thread that is executing one.
Filled == IF pc[Main] = "fill" THEN i
          ELSE IF pc[Main] = "publish" \/ pc[Main] \in Parallel THEN plan.n ELSE 0

RingInv ==
    /\ pc[Main] \in {"carve", "fill", "publish"} \cup Parallel => plan.n <= cap
    /\ pc[Main] = "fill" => i <= plan.n
    /\ \A j \in 0 .. Filled - 1 :
           ring[Slot(plan.base + j, cap)] = TaskAt(plan, nd, j)
    /\ \A t \in Threads :
           pc[t] = "run" => task[t] = TaskAt(plan, nd, idx[t] - plan.base)

\* The inductive invariant behind OwnSlot and Quiescent.
PoolInv == TypeOK /\ TicketInv /\ WindowInv /\ RingInv

\* A thread only ever executes the task that the current dispatch wrote for
\* the ticket it claimed, and that slot keeps its contents until the ticket is
\* retired (worker_loop reads t->end again after fn returned).  A worker woken
\* by a surplus signal of an earlier dispatch therefore never executes a stale
\* or half-written slot (pool.h, "can no longer claim a half-republished slot").
OwnSlot ==
    \A t \in Holders :
        LET mine == TaskAt(plan, nd, idx[t] - plan.base)
        IN  /\ ring[Slot(idx[t], cap)] = mine
            /\ pc[t] = "run" => task[t] = mine

\* While main is outside the window it published - growing or filling the ring,
\* modifying worker heaps after the barrier, freeing the pool - no thread owns
\* a ticket: "All tasks done, workers heading to sem_wait".
Quiescent == pc[Main] \notin Parallel => Holders = {} /\ claim = limit

\* No element is handed to fn twice, and when a dispatch that was not cancelled
\* returns every element has been handed out once.  ray_pool_dispatch promises
\* this for every size whose task count fits a uint32_t; ray_pool_dispatch_n
\* for the callers that stay within RAY_POOL_INIT_TASKS (pool.h).
Promised ==
    \/ plan.kind = "elems" /\ CeilDiv(plan.total, Grain) < U32
    \/ plan.kind = "n" /\ plan.total <= InitCap

ExactlyOnce ==
    /\ \A e \in Elems : hits[e] <= 1
    /\ pc[Main] \in {"lower", "idle"} /\ ~skipped /\ Promised =>
           \A e \in 0 .. plan.total - 1 : hits[e] = 1

\* What pool.c and pool.h say of ray_parallel_flag: it is raised while workers
\* run tasks, so that code inside a task (the cross-heap paths of mem/heap.c,
\* ray_pool_par_dispatch_ok) can rely on seeing it set.
FlagCoversTasks == \A w \in Workers : pc[w] = "run" => pflag = 1

\* qstats.h says that rows_done counts "elements processed": a task reports
\* end - start of them, so the range it is given must not be inverted.
RangesProper == \A t \in Threads : pc[t] = "run" => task[t].start <= task[t].end

\* A dispatch that was started returns, whatever the workers and ray_cancel do.
DispatchReturns ==
    pc[Main] \notin {"spawn", "idle", "stop", "freed"} ~> pc[Main] = "idle"

\* ray_pool_free, and the clean-up of a partial creation, join every thread
\* they started: the shutdown signals suffice whatever surplus is left over.
FreeReturns == pc[Main] = "stop" ~> pc[Main] = "freed"

\* No call of main hangs: every dispatch and the final ray_pool_free return.
MainReturns == DispatchReturns /\ FreeReturns

\* The pool implements the abstract fork-join of ForkJoin.tla.
FJ == INSTANCE ForkJoin WITH
        next    <- limit,
        waiting <- claim .. limit - 1,
        active  <- {idx[t] : t \in Holders},
        busy    <- pc[Main] \in Parallel

\* Every step of the pool is a step of the abstract fork-join or leaves its
\* state alone: tickets are issued once, started once, and the join only
\* happens when no ticket is waiting or being executed.
ForkJoinImplemented == FJ!Spec
=============================================================================
