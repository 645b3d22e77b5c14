-------------------------------- MODULE Heap --------------------------------
(***************************************************************************)
(* The buddy heaps of src/mem/heap.c and the reference counts of           *)
(* src/mem/cow.c that drive them.  Every thread owns a heap: pools of      *)
(* memory, free lists, slab caches and a list of foreign blocks, which it  *)
(* freed but does not own.  Main returns its foreign blocks to their       *)
(* owners when it collects (ray_heap_gc), which it may do only while no    *)
(* worker runs; workers run between the opening of a window by a dispatch  *)
(* and the barrier (module Pool, whose Quiescent says so).                 *)
(*                                                                         *)
(* Sizes are in units of the smallest block (64 bytes), so order 0 is      *)
(* RAY_ORDER_MIN.  An address is <<pool, offset>>.  Lists are sets: which  *)
(* of two equal blocks is reused first decides nothing.  The avail bitmap  *)
(* is derived (ray_alloc clears stale bits as it meets them).  File maps,  *)
(* direct blocks (one mmap each, no list) and the release of pages to the  *)
(* system (gc pass 5, which changes no list) are left out.                 *)
(***************************************************************************)
EXTENDS Integers, FiniteSets, FiniteSetsExt

CONSTANTS
    Main,       \* the main thread
    Workers,    \* the worker threads of the pool
    PoolOrder,  \* RAY_HEAP_POOL_ORDER: order of a standard pool
    SlabMax,    \* RAY_SLAB_MAX: largest order that slabs cache
    SlabCap,    \* slab_cap: blocks a slab caches per order
    NPools,     \* bound: address ranges that can be mapped at a time
    MaxRc,      \* bound: references to one block
    MaxOut,     \* bound: blocks out of their heap, live or on foreign lists
    MaxRounds,  \* bound: dispatches and pool restarts
    GcInTasks,  \* whether main also collects inside its tasks (the code allows it)
    Gap         \* whether other threads see a count of 0 before ray_free

ASSUME Sizes == /\ Main \notin Workers /\ PoolOrder \in Nat \ {0}
                /\ SlabMax \in 0 .. PoolOrder /\ {SlabCap, NPools, MaxRc, MaxOut, MaxRounds} \subseteq Nat
                /\ {Gap, GcInTasks} \subseteq BOOLEAN

Threads == {Main} \cup Workers
Pools == 1 .. NPools
MaxOrder == PoolOrder + 1   \* an oversized pool: order + 1 for the largest request
Addr == Pools \X (0 .. 2 ^ MaxOrder - 1)
NoOrder == -1               \* inside a block: no header here

VARIABLES
    owner,    \* heap_id in the pool header, "none" when not mapped
    porder,   \* pool_order
    ord,      \* order in the header of a block, at its first address
    rc,       \* reference count in the header; 0 marks a free block
    free,     \* free[t]: blocks on t's free lists
    slab,     \* slab[t]: blocks in t's slab caches
    foreign,  \* foreign[t]: blocks t freed for other heaps
    bytes,    \* stats.bytes_allocated
    alive,    \* heaps in ray_heap_registry
    refs,     \* refs[t][a]: references that t holds
    freeing,  \* freeing[t]: blocks between rc-- and the store in ray_free
    lost,     \* history: blocks that a destroyed heap had on its foreign list
    par,      \* progress of the dispatch that main is in
    rounds

lists == <<owner, porder, ord, rc, free, slab, foreign, bytes>>
vars == <<owner, porder, ord, rc, free, slab, foreign, bytes, alive, refs, freeing, lost, par, rounds>>

Flag == par \in {"flagged", "joined"}      \* ray_parallel_flag
Size(o) == 2 ^ o

(* The part of the state that the list operations change, so that passes   *)
(* over several blocks can be folds.                                        *)
Heaps == [owner |-> owner, porder |-> porder, ord |-> ord, rc |-> rc, free |-> free,
          slab |-> slab, foreign |-> foreign, bytes |-> bytes]

Becomes(s) ==
    /\ owner' = s.owner /\ porder' = s.porder /\ ord' = s.ord /\ rc' = s.rc
    /\ free' = s.free /\ slab' = s.slab /\ foreign' = s.foreign /\ bytes' = s.bytes

Init ==
    /\ owner = [p \in Pools |-> "none"]
    /\ porder = [p \in Pools |-> 0]
    /\ ord = [a \in Addr |-> NoOrder]
    /\ rc = [a \in Addr |-> 0]
    /\ free = [t \in Threads |-> {}]
    /\ slab = [t \in Threads |-> {}]
    /\ foreign = [t \in Threads |-> {}]
    /\ bytes = [t \in Threads |-> 0]
    /\ alive = Threads
    /\ refs = [t \in Threads |-> [a \in Addr |-> 0]]
    /\ freeing = [t \in Threads |-> {}]
    /\ lost = {}
    /\ par = "serial"
    /\ rounds = 0

-----------------------------------------------------------------------------
(* List operations: functions from heaps to heaps.                         *)

(* heap_insert_block: header and list entry of a free block of order o.     *)
Insert(s, h, a, o) ==
    [s EXCEPT !.free[h] = @ \cup {a}, !.ord[a] = o, !.rc[a] = 0]

(* The block of order k that a lies in, and that block's buddy              *)
(* (ray_buddy_of).                                                          *)
Base(a, k) == <<a[1], a[2] - (a[2] % Size(k))>>
Buddy(a, k) ==
    LET b == Base(a, k)
    IN IF (b[2] % Size(k + 1)) = 0 THEN <<b[1], b[2] + Size(k)>> ELSE <<b[1], b[2] - Size(k)>>

(* The test of heap_coalesce on the buddy at level k.  While the flag is up *)
(* only buddies in pools of h are touched.                                  *)
Mergeable(s, h, b, k, flag) ==
    s.rc[b] = 0 /\ s.ord[b] = k /\ (flag => s.owner[b[1]] = h)

(* Levels the block can climb: every buddy below is free.                   *)
MergedOrder(s, h, a, flag) ==
    LET o == s.ord[a]
    IN Max({m \in o .. s.porder[a[1]] : \A k \in o .. m - 1 : Mergeable(s, h, Buddy(a, k), k, flag)})

(* heap_coalesce: unlink the buddies from whatever list holds them, put     *)
(* the merged block on h's free list.                                       *)
Coalesce(s, h, a, flag) ==
    LET o == s.ord[a]
        m == MergedOrder(s, h, a, flag)
        gone == {Buddy(a, k) : k \in o .. m - 1} \cup {a}
    IN Insert([s EXCEPT !.free = [t \in Threads |-> @[t] \ gone],
                        !.ord = [x \in Addr |-> IF x \in gone THEN NoOrder ELSE @[x]],
                        !.rc = [x \in Addr |-> IF x \in gone THEN 0 ELSE @[x]]],
              h, Base(a, m), m)

(* heap_add_pool: header in the first unit, the rest split down from the    *)
(* top, right halves on the free lists.                                     *)
AddPool(s, h, o) ==
    LET p == Min({q \in Pools : s.owner[q] = "none"})
        po == IF o >= PoolOrder THEN o + 1 ELSE PoolOrder
        halves == {<<p, Size(k)>> : k \in 0 .. po - 1}
    IN [s EXCEPT !.owner[p] = h, !.porder[p] = po, !.free[h] = @ \cup halves,
                 !.ord = [a \in Addr |-> IF a = <<p, 0>> THEN 0
                                         ELSE IF a \in halves THEN CHOOSE k \in 0 .. po - 1 : a[2] = Size(k)
                                         ELSE @[a]],
                 !.rc = [a \in Addr |-> IF a = <<p, 0>> THEN 1 ELSE @[a]]]

Fitting(s, h, o) == {a \in s.free[h] : s.ord[a] >= o}
WithPool(s, h, o) == IF Fitting(s, h, o) = {} THEN AddPool(s, h, o) ELSE s

(* heap_split_block after the pop: the right half of every level between is *)
(* free, the leftmost block is the caller's.                                *)
Split(s, h, a, o) ==
    LET top == s.ord[a]
        halves == {<<a[1], a[2] + Size(k)>> : k \in o .. top - 1}
    IN [s EXCEPT !.free[h] = (@ \ {a}) \cup halves,
                 !.ord = [x \in Addr |-> IF x = a THEN o
                                         ELSE IF x \in halves THEN CHOOSE k \in o .. top - 1 : x[2] = a[2] + Size(k)
                                         ELSE @[x]],
                 !.rc[a] = 1]

(* Mutant: a block in a slab cache looks free.                              *)
FreedSlabUnmarked(s, t, a, flag) ==
    LET o == s.ord[a]
        local == s.owner[a[1]] = t
        cached == o <= SlabMax /\ Cardinality({b \in s.slab[t] : s.ord[b] = o}) < SlabCap
    IN IF ~local THEN [s EXCEPT !.rc[a] = 1, !.foreign[t] = @ \cup {a}]
       ELSE IF cached THEN [s EXCEPT !.rc[a] = 0, !.slab[t] = @ \cup {a}, !.bytes[t] = @ - Size(o)]
       ELSE [Coalesce([s EXCEPT !.rc[a] = 1], t, a, flag) EXCEPT !.bytes[t] = @ - Size(o)]

(* ray_free from the store of rc = 1 on: local blocks go to the slab cache  *)
(* or coalesce, others wait on the foreign list with rc = 1.                *)
Freed(s, t, a, flag) ==
    LET kept == [s EXCEPT !.rc[a] = 1]
        o == s.ord[a]
        local == s.owner[a[1]] = t
        cached == o <= SlabMax /\ Cardinality({b \in s.slab[t] : s.ord[b] = o}) < SlabCap
    IN IF ~local THEN [kept EXCEPT !.foreign[t] = @ \cup {a}]
       ELSE IF cached THEN [kept EXCEPT !.slab[t] = @ \cup {a}, !.bytes[t] = @ - Size(o)]
       ELSE [Coalesce(kept, t, a, flag) EXCEPT !.bytes[t] = @ - Size(o)]

-----------------------------------------------------------------------------
(* Threads use their heaps: main outside a dispatch and in its tasks, the   *)
(* workers from the opening of the window, which precedes the flag, on.     *)
Runs(t) ==
    /\ freeing[t] = {}
    /\ IF t = Main THEN par \in {"serial", "flagged"}
                   ELSE t \in alive /\ par \in {"open", "flagged"}

LiveBlocks == {a \in Addr : \E t \in Threads : refs[t][a] > 0}
Out == LiveBlocks \cup lost \cup UNION {foreign[t] \cup freeing[t] : t \in Threads}

(* ray_alloc of order o.  An order that needs an oversized pool gets here   *)
(* only when the direct mmap failed.                                        *)
AllocSlab(t, o) ==
    \E a \in {b \in slab[t] : ord[b] = o} :
        /\ Becomes([Heaps EXCEPT !.slab[t] = @ \ {a}, !.rc[a] = 1, !.bytes[t] = @ + Size(o)])
        /\ refs' = [refs EXCEPT ![t][a] = 1]

CanMap(s, t, o) == Fitting(s, t, o) # {} \/ \E p \in Pools : s.owner[p] = "none"

AllocBlock(t, o) ==
    /\ ~ \E b \in slab[t] : ord[b] = o
    /\ CanMap(Heaps, t, o)
    /\ LET s == WithPool(Heaps, t, o)
           best == Min({s.ord[a] : a \in Fitting(s, t, o)})
       IN \E a \in {b \in s.free[t] : s.ord[b] = best} :
             /\ Becomes([Split(s, t, a, o) EXCEPT !.bytes[t] = @ + Size(o)])
             /\ refs' = [refs EXCEPT ![t][a] = 1]

Alloc(t, o) ==
    /\ Runs(t) /\ Cardinality(Out) < MaxOut
    /\ AllocSlab(t, o) \/ AllocBlock(t, o)
    /\ UNCHANGED <<alive, freeing, lost, par, rounds>>

(* ray_retain, the new reference being handed to thread u.                  *)
Retain(t, u, a) ==
    /\ refs[t][a] > 0 /\ Runs(t) /\ rc[a] < MaxRc
    /\ rc' = [rc EXCEPT ![a] = @ + 1]
    /\ refs' = [refs EXCEPT ![u][a] = @ + 1]
    /\ UNCHANGED <<owner, porder, ord, free, slab, foreign, bytes, alive, freeing, lost, par, rounds>>

(* ray_release: the last reference calls ray_free, which first stores       *)
(* rc = 1 so that buddies are not merged with the block.  With Gap, other   *)
(* threads may look at the count before that store.                         *)
Release(t, a) ==
    /\ refs[t][a] > 0 /\ Runs(t)
    /\ refs' = [refs EXCEPT ![t][a] = @ - 1]
    /\ rc' = [rc EXCEPT ![a] = IF @ = 1 /\ ~Gap THEN 1 ELSE @ - 1]
    /\ freeing' = [freeing EXCEPT ![t] = IF rc[a] = 1 THEN {a} ELSE {}]
    /\ UNCHANGED <<owner, porder, ord, free, slab, foreign, bytes, alive, lost, par, rounds>>

Free(t, a) ==
    /\ a \in freeing[t]
    /\ freeing' = [freeing EXCEPT ![t] = {}]
    /\ Becomes(Freed(Heaps, t, a, Flag))
    /\ UNCHANGED <<alive, refs, lost, par, rounds>>

-----------------------------------------------------------------------------
(* ray_heap_gc, called by main.                                             *)

(* heap_flush_foreign: to the owner when it is registered, else to h.       *)
ReturnOne(a, s) ==
    LET o == s.owner[a[1]]
        size == Size(s.ord[a])
    IN IF o \in alive /\ o # Main
       THEN Coalesce([s EXCEPT !.bytes[o] = @ - size], o, a, FALSE)
       ELSE Coalesce(s, Main, a, FALSE)

(* Mutant: foreign blocks are absorbed by main.                             *)
ReturnOneHere(a, s) == Coalesce(s, Main, a, FALSE)
FlushForeignHere(s) == [FoldSet(ReturnOneHere, s, s.foreign[Main]) EXCEPT !.foreign[Main] = {}]

FlushForeign(s) == [FoldSet(ReturnOne, s, s.foreign[Main]) EXCEPT !.foreign[Main] = {}]

(* heap_flush_slabs.                                                        *)
FlushSlabs(s, flag) ==
    LET one(a, x) == Coalesce(x, Main, a, flag)
    IN FoldSet(one, [s EXCEPT !.slab[Main] = {}], s.slab[Main])

(* heap_return_foreign_freelist: blocks of other heaps on main's lists.     *)
ReturnFreelist(s) ==
    LET one(a, x) == Coalesce([x EXCEPT !.free[Main] = @ \ {a}], x.owner[a[1]], a, FALSE)
    IN FoldSet(one, s, {a \in s.free[Main] : s.owner[a[1]] \in alive \ {Main}})

(* Pass 4: an oversized pool that is free to the last block is unmapped,    *)
(* unless it is its heap's only pool or some heap has a block of it on its  *)
(* foreign list.                                                            *)
InPool(S, p) == {a \in S : a[1] = p}
SizeOf(s, S) == FoldSet(LAMBDA a, n : n + Size(s.ord[a]), 0, S)
Reclaimable(s, p) ==
    LET h == s.owner[p]
    IN /\ h \in alive /\ s.porder[p] > PoolOrder
       /\ Cardinality({q \in Pools : s.owner[q] = h}) > 1
       /\ SizeOf(s, InPool(s.free[h] \cup s.slab[h], p)) >= Size(s.porder[p]) - 1
       /\ \A t \in alive \ {h} : InPool(s.foreign[t], p) = {}

Unmap(s, p) ==
    [s EXCEPT !.owner[p] = "none", !.porder[p] = 0,
              !.free = [t \in Threads |-> @[t] \ InPool(@[t], p)],
              !.slab = [t \in Threads |-> @[t] \ InPool(@[t], p)],
              !.foreign = [t \in Threads |-> @[t] \ InPool(@[t], p)],
              !.ord = [a \in Addr |-> IF a[1] = p THEN NoOrder ELSE @[a]],
              !.rc = [a \in Addr |-> IF a[1] = p THEN 0 ELSE @[a]]]

Reclaim(s) ==
    LET one(p, x) == IF Reclaimable(x, p) THEN Unmap(x, p) ELSE x
    IN FoldSet(one, s, Pools)

Safe == ~Flag
Gc ==
    /\ Runs(Main) /\ (GcInTasks \/ par = "serial")
    /\ Becomes(IF Safe THEN Reclaim(ReturnFreelist(FlushSlabs(FlushForeign(Heaps), Flag)))
                       ELSE FlushSlabs(Heaps, Flag))
    /\ UNCHANGED <<alive, refs, freeing, lost, par, rounds>>

-----------------------------------------------------------------------------
(* The pool around the heaps.                                               *)
OpenWindow == par = "serial" /\ freeing[Main] = {} /\ rounds < MaxRounds /\ par' = "open" /\ rounds' = rounds + 1
RaiseFlag == par = "open" /\ par' = "flagged" /\ UNCHANGED rounds
Barrier == par = "flagged" /\ (\A t \in Threads : freeing[t] = {}) /\ par' = "joined" /\ UNCHANGED rounds
LowerFlag == par = "joined" /\ par' = "serial" /\ UNCHANGED rounds

Dispatch ==
    /\ OpenWindow \/ RaiseFlag \/ Barrier \/ LowerFlag
    /\ UNCHANGED <<lists, alive, refs, freeing, lost>>

(* ray_heap_destroy when the pool is freed: unregister, purge the foreign   *)
(* lists of the others, unmap.  Its own foreign list is not flushed.  The   *)
(* program holds no block of the worker by then.                            *)
Destroy(w) ==
    /\ par = "serial" /\ freeing[Main] = {} /\ w \in alive
    /\ \A a \in LiveBlocks : owner[a[1]] # w
    /\ alive' = alive \ {w}
    /\ lost' = {a \in lost : owner[a[1]] # w} \cup foreign[w]
    /\ LET s == FoldSet(LAMBDA p, x : IF owner[p] = w THEN Unmap(x, p) ELSE x, Heaps, Pools)
       IN Becomes([s EXCEPT !.foreign[w] = {}, !.bytes[w] = 0])
    /\ UNCHANGED <<refs, freeing, par, rounds>>

(* ray_heap_init in a new worker: the bitmap hands out the id again.        *)
InitHeap(w) ==
    /\ par = "serial" /\ w \notin alive /\ rounds < MaxRounds
    /\ alive' = alive \cup {w} /\ rounds' = rounds + 1
    /\ UNCHANGED <<lists, refs, freeing, lost, par>>

ThreadStep(t) ==
    \/ \E o \in 0 .. PoolOrder : Alloc(t, o)
    \/ \E a \in Addr : Release(t, a) \/ Free(t, a) \/ \E u \in alive \ {t} : Retain(t, u, a)

Next ==
    \/ \E t \in Threads : ThreadStep(t)
    \/ Gc
    \/ Dispatch
    \/ \E w \in Workers : Destroy(w) \/ InitHeap(w)

Spec == Init /\ [][Next]_vars

-----------------------------------------------------------------------------
(* Types.  bytes_allocated is unsigned: it must never fall below zero.      *)
TypeOK ==
    /\ owner \in [Pools -> Threads \cup {"none"}]
    /\ porder \in [Pools -> {0, PoolOrder, MaxOrder}]
    /\ ord \in [Addr -> {NoOrder} \cup 0 .. MaxOrder]
    /\ rc \in [Addr -> 0 .. MaxRc]
    /\ {free, slab, foreign, freeing} \subseteq [Threads -> SUBSET Addr]
    /\ bytes \in [Threads -> Nat]
    /\ alive \subseteq Threads /\ Main \in alive
    /\ lost \subseteq Addr
    /\ par \in {"serial", "open", "flagged", "joined"} /\ rounds \in 0 .. MaxRounds

Extent(a) == IF ord[a] = NoOrder THEN {a} ELSE {<<a[1], x>> : x \in a[2] .. a[2] + Size(ord[a]) - 1}
Mapped == {a \in Addr : owner[a[1]] # "none" /\ a[2] < Size(porder[a[1]])}

(* Every place a block can be in: a client's, a list, or on its way.        *)
Headers == {<<p, 0>> : p \in {q \in Pools : owner[q] # "none"}}
Claims(place, blocks) == UNION {{<<place, a, u>> : u \in Extent(a)} : a \in blocks}
AllClaims ==
    UNION {Claims(<<"pool">>, Headers), Claims(<<"live">>, LiveBlocks), Claims(<<"lost">>, lost)}
    \cup UNION {Claims(<<"free", t>>, free[t]) \cup Claims(<<"slab", t>>, slab[t])
                 \cup Claims(<<"foreign", t>>, foreign[t])
                 \cup Claims(<<"freeing", t>>, freeing[t]) : t \in Threads}

(* The blocks tile the pools: every unit of mapped memory lies in exactly   *)
(* one block, and every block is in exactly one place (a client, one free   *)
(* list, one slab, one foreign list).  Splits, merges, slab caching, frees  *)
(* by other threads, returns and unmapping all have to keep it.             *)
Tiling ==
    /\ {c[3] : c \in AllClaims} = Mapped
    /\ Cardinality(AllClaims) = Cardinality(Mapped)

(* Free memory does not stay in pieces: two free buddies of the same order  *)
(* are never both on free lists.                                            *)
Merged ==
    \A t \in Threads : \A a \in free[t] :
        ord[a] < porder[a[1]] => LET b == Buddy(a, ord[a])
                                 IN ~(ord[b] = ord[a] /\ \E u \in Threads : b \in free[u])

(* bytes_allocated of a registered heap is the size of its blocks that      *)
(* clients hold or that wait on a foreign list (.sys.mem reports it).       *)
StatsExact ==
    \A t \in alive :
        bytes[t] = SizeOf(Heaps, {a \in Out : owner[a[1]] = t})

(* What heap.c keeps in its lists and counters is what is there: types,     *)
(* free buddies merged (heap_coalesce), bytes counted once.                 *)
Accounted == TypeOK /\ Merged /\ StatsExact

(* What the comments on foreign lists promise: a foreign block is returned. *)
(* A worker never flushes its list, and its heap's destruction drops it.    *)
NothingLost == lost = {}
=============================================================================
