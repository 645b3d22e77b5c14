-------------------------------- MODULE Timers --------------------------------
(***************************************************************************)
(* The timer scheduler of src/core/timer.c: a binary min-heap of timers    *)
(* keyed on (exp_ms, id), filled by .time.timer.set and .time.timer.del    *)
(* (ops/system.c) and drained by ray_timers_fire_expired from the poll     *)
(* loop.  A callback runs between the pop of its timer and the push that   *)
(* re-schedules it, and may itself set and delete timers.                  *)
(*                                                                         *)
(* The heap is the sequence heap[0 .. n-1]; sequences count from 1.        *)
(***************************************************************************)
EXTENDS Integers, Sequences, FiniteSets

CONSTANTS
    InitCap,     \* slots the heap is created with (16 in the code)
    Kinds,       \* the <<ms, num>> that timers are set with
    InCallback,  \* what callbacks do: subset of {"add", "del", "self"}
    AllocFails,  \* heap_grow may fail
    MaxTimers,   \* bound on the timers set
    MaxNow       \* bound on the clock

ASSUME TimersAssumption ==
    /\ InitCap \in Nat \ {0}
    /\ Kinds \subseteq Nat \X Nat
    /\ InCallback \subseteq {"add", "del", "self"}
    /\ AllocFails \in BOOLEAN
    /\ MaxTimers \in Nat /\ MaxNow \in Nat

VARIABLES
    heap, cap, nextId,   \* ray_timers_t: heap[0..n), cap, next_id
    clock,               \* ray_time_now_ms()
    pc,                  \* "idle", or inside ray_timers_fire_expired
    now, timer,          \* its locals
    set,                 \* ghost: id -> num the timer was set with
    fired,               \* ghost: id -> number of fires, up to num + 1
    deleted              \* ghost: ids of live timers that were deleted

tvars == <<heap, cap, nextId, clock, pc, now, timer, set, fired, deleted>>

Ids == 0 .. MaxTimers - 1
NoTimer == [id |-> -1, tic |-> 0, exp |-> 0, num |-> 0]

-----------------------------------------------------------------------------
(* The heap, as functions of the sequence                                  *)

\* heap_less
Less(a, b) == a.exp < b.exp \/ (a.exp = b.exp /\ a.id < b.id)

\* heap_swap
Swap(h, i, j) == [h EXCEPT ![i] = h[j], ![j] = h[i]]

RECURSIVE HeapUp(_, _)
HeapUp(h, i) ==
    IF i > 1 /\ Less(h[i], h[i \div 2])
    THEN HeapUp(Swap(h, i, i \div 2), i \div 2)
    ELSE h

RECURSIVE HeapDown(_, _)
HeapDown(h, i) ==
    LET below == {k \in {2 * i, 2 * i + 1} : k <= Len(h) /\ Less(h[k], h[i])}
        best  == CHOOSE k \in below : \A j \in below : j = k \/ Less(h[k], h[j])
    IN  IF below = {} THEN h ELSE HeapDown(Swap(h, i, best), best)

\* Append and sift up: the end of ray_timers_add and of a re-schedule.
Push(h, t) == HeapUp(Append(h, t), Len(h) + 1)

\* Slot i is filled with the tail.
FillFromTail(h, i) ==
    LET tail == h[Len(h)]
        rest == SubSeq(h, 1, Len(h) - 1)
    IN  IF i <= Len(rest) THEN [rest EXCEPT ![i] = tail] ELSE rest

\* Mutation: the moved tail is only sifted down.
DelAtNoUp(h, i) ==
    LET g == FillFromTail(h, i)
    IN  IF i > Len(g) THEN g ELSE HeapDown(g, i)

\* ray_timers_del
DelAt(h, i) ==
    LET g == FillFromTail(h, i)
    IN  IF i > Len(g) THEN g ELSE HeapUp(HeapDown(g, i), i)

PopHead(h) ==
    LET g == FillFromTail(h, 1) IN IF g = <<>> THEN g ELSE HeapDown(g, 1)

-----------------------------------------------------------------------------
TInit ==
    /\ heap = <<>> /\ cap = InitCap /\ nextId = 0
    /\ clock = 0
    /\ pc = "idle" /\ now = 0 /\ timer = NoTimer
    /\ set = [i \in Ids |-> 0] /\ fired = [i \in Ids |-> 0] /\ deleted = {}

MayInvoke(what) == pc = "idle" \/ (pc = "call" /\ what \in InCallback)

\* ray_timers_add; heap_grow doubles the array when it is full.
Add(kind) ==
    /\ MayInvoke("add")
    /\ nextId < MaxTimers
    /\ cap' = IF Len(heap) >= cap THEN 2 * cap ELSE cap
    /\ heap' = Push(heap, [id |-> nextId, tic |-> kind[1],
                           exp |-> clock + kind[1], num |-> kind[2]])
    /\ set' = [set EXCEPT ![nextId] = kind[2]]
    /\ nextId' = nextId + 1
    /\ UNCHANGED <<clock, pc, now, timer, fired, deleted>>

\* heap_grow or, after it, the allocation of the timer fails: -1; a larger array
\* is kept.
AddFails ==
    /\ MayInvoke("add")
    /\ AllocFails
    /\ \/ Len(heap) >= cap /\ UNCHANGED cap
       \/ cap' = IF Len(heap) >= cap THEN 2 * cap ELSE cap
    /\ UNCHANGED <<heap, nextId, clock, pc, now, timer, set, fired, deleted>>

\* ray_timers_del of a timer in the heap; an unknown id changes nothing
Del(i) ==
    /\ MayInvoke("del")
    /\ heap' = DelAt(heap, i)
    /\ deleted' = deleted \cup {heap[i].id}
    /\ UNCHANGED <<cap, nextId, clock, pc, now, timer, set, fired>>

\* ray_timers_del by a callback of its own timer: it is not in the heap, so
\* nothing happens (on its last fire it is freed all the same).
DelSelf ==
    /\ pc = "call"
    /\ "self" \in InCallback
    /\ timer.num # 1
    /\ deleted' = deleted \cup {timer.id}
    /\ UNCHANGED <<heap, cap, nextId, clock, pc, now, timer, set, fired>>

-----------------------------------------------------------------------------
(* ray_timers_fire_expired *)

Due == heap # <<>> /\ heap[1].exp <= now

FireBegin ==
    /\ pc = "idle"
    /\ heap # <<>>
    /\ now' = clock
    /\ pc' = "loop"
    /\ UNCHANGED <<heap, cap, nextId, clock, timer, set, fired, deleted>>

Pop ==
    /\ pc = "loop"
    /\ Due
    /\ timer' = heap[1]
    /\ heap' = PopHead(heap)
    /\ fired' = [fired EXCEPT ![heap[1].id] = IF @ < set[heap[1].id] + 1 THEN @ + 1 ELSE @]
    /\ pc' = "call"
    /\ UNCHANGED <<cap, nextId, clock, now, set, deleted>>

FireEnd ==
    /\ pc = "loop"
    /\ ~Due
    /\ pc' = "idle"
    /\ UNCHANGED <<heap, cap, nextId, clock, now, timer, set, fired, deleted>>

\* Mutation: the deadline is not advanced.
RescheduleSameDeadline ==
    /\ pc = "call"
    /\ heap' = IF timer.num = 1 THEN heap
               ELSE Push(heap, [timer EXCEPT !.num = IF @ = 0 THEN 0 ELSE @ - 1])
    /\ timer' = NoTimer
    /\ now' = clock
    /\ pc' = "loop"
    /\ UNCHANGED <<cap, nextId, clock, set, fired, deleted>>

\* The callback returned: re-schedule the timer or free it, refresh now.
Reschedule ==
    /\ pc = "call"
    /\ heap' = IF timer.num = 1 THEN heap
               ELSE Push(heap, [timer EXCEPT !.exp = @ + timer.tic,
                                             !.num = IF @ = 0 THEN 0 ELSE @ - 1])
    /\ timer' = NoTimer
    /\ now' = clock
    /\ pc' = "loop"
    /\ UNCHANGED <<cap, nextId, clock, set, fired, deleted>>

Tick ==
    /\ clock < MaxNow
    /\ clock' = clock + 1
    /\ UNCHANGED <<heap, cap, nextId, pc, now, timer, set, fired, deleted>>

Fire == FireBegin \/ Pop \/ FireEnd \/ Reschedule

\* The poll loop has nothing to do.
Waiting == pc = "idle" /\ UNCHANGED tvars

TNext ==
    \/ \E kind \in Kinds : Add(kind)
    \/ AddFails
    \/ \E i \in 1 .. Len(heap) : Del(i)
    \/ DelSelf
    \/ Fire \/ Tick \/ Waiting

TSpec == TInit /\ [][TNext]_tvars

-----------------------------------------------------------------------------
(* Correctness                                                             *)

Timer == [id : Ids, tic : Nat, exp : Nat, num : Nat]
\* Type invariant: the heap holds timers with distinct ids that were handed out,
\* and the time a pass works with is never ahead of the clock.
TimersTypeOK ==
    /\ heap \in Seq(Timer)
    /\ cap \in Nat /\ nextId \in 0 .. MaxTimers
    /\ pc \in {"idle", "loop", "call"}
    /\ timer \in Timer \cup {NoTimer}
    /\ now \in 0 .. clock
    /\ \A j, k \in 1 .. Len(heap) : j # k => heap[j].id # heap[k].id

\* The array is a heap: no timer precedes its parent, so heap[0] is the next
\* deadline of ray_timers_next_deadline_ms.
HeapOrder == \A k \in 2 .. Len(heap) : ~Less(heap[k], heap[k \div 2])

\* A callback runs when its timer is due, and no other timer of the heap is to
\* fire before it (docs: ties are broken by id).
DueFirst ==
    pc = "call" => /\ timer.exp <= now
                   /\ \A k \in 1 .. Len(heap) : Less(timer, heap[k])

\* A timer set to fire N times fires exactly N times unless it is deleted.
FiresExactly ==
    \A i \in 0 .. nextId - 1 :
        set[i] # 0 =>
            /\ fired[i] <= set[i]
            /\ \/ fired[i] = set[i]
               \/ i \in deleted
               \/ i \in {timer.id} \cup {heap[k].id : k \in 1 .. Len(heap)}

\* ray_timers_fire_expired returns to the poll loop.
FireReturns == pc # "idle" ~> pc = "idle"

\* A deleted timer is gone and never fires again (docs, .time.timer.del:
\* "Removes the timer with that id from the heap").
DeletedGone == \A k \in 1 .. Len(heap) : heap[k].id \notin deleted

\* The timers fit into the array that was allocated for them.
HeapFits == Len(heap) <= cap
=============================================================================
