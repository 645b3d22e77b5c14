----------------------------- MODULE PoolProofs -----------------------------
(***************************************************************************)
(* Proofs about the thread pool for every number of workers, ring size and *)
(* sequence of dispatches.                                                 *)
(***************************************************************************)
EXTENDS Pool, FiniteSetTheorems, TLAPS

\* Two tickets less than a ring apart occupy different slots, so the window of
\* a dispatch (at most task_cap tickets) never aliases itself.
LEMMA SlotDistinct ==
    ASSUME NEW a \in Nat, NEW b \in Nat, NEW c \in Nat \ {0},
           a < b, b < a + c
    PROVE  Slot(a, c) # Slot(b, c)
<1> DEFINE qa == a \div c
           qb == b \div c
<1>1. /\ qa \in Int /\ qb \in Int
      /\ a = c * qa + (a % c)
      /\ b = c * qb + (b % c)
  OBVIOUS
<1>2. SUFFICES ASSUME a % c = b % c PROVE FALSE
  BY DEF Slot
<1>3. b - a = c * (qb - qa)
  BY <1>1, <1>2
<1>4. CASE qb - qa >= 1
  <2>1. c * (qb - qa) >= c
    BY <1>4, <1>1
  <2> QED BY <2>1, <1>3
<1>5. CASE qb - qa <= 0
  <2>1. c * (qb - qa) <= 0
    BY <1>5, <1>1
  <2> QED BY <2>1, <1>3
<1> QED BY <1>1, <1>4, <1>5

LEMMA SlotType ==
    ASSUME NEW a \in Nat, NEW c \in Nat \ {0}
    PROVE  Slot(a, c) \in 0 .. c - 1
BY DEF Slot

LEMMA ThreadsFacts == Main \in Threads /\ Main \notin Workers /\ \A w \in Workers : w \in Threads
BY PoolAssumption DEF Threads

\* A step that moves one thread and does not make it take or give up a ticket
\* leaves the set of ticket holders alone.
LEMMA HoldersFrame ==
    ASSUME TypeOK, NEW t \in Threads, NEW p, Go(t, p),
           pc[t] \in Holding <=> p \in Holding
    PROVE  Holders' = Holders
BY DEF TypeOK, Go, Holders

\* A step that changes neither the holders nor the window keeps TicketInv.
LEMMA TicketFrame ==
    ASSUME TicketInv, Holders' = Holders, idx' = idx, claim' = claim,
           limit' = limit, open' = open, Holders = {} \/ plan'.base = plan.base,
           \A t \in Threads : pc'[t] = "cas" => cur'[t] < limit
    PROVE  TicketInv'
BY DEF TicketInv

LEMMA NoHolders ==
    ASSUME TicketInv, open = {}
    PROVE  Holders = {}
BY DEF TicketInv

\* Outside the window main published nothing is claimed or executed.
LEMMA ClosedWindow ==
    ASSUME PoolInv, pc[Main] \notin Parallel
    PROVE  /\ Holders = {} /\ open = {} /\ claim = limit
           /\ \A t \in Threads : pc[t] # "run"
<1>1. open = {}
  BY DEF PoolInv, WindowInv
<1>2. Holders = {}
  BY <1>1, NoHolders DEF PoolInv
<1>3. claim = limit
  <2>1. claim .. limit - 1 = {}
    BY <1>1 DEF PoolInv, TicketInv
  <2>2. claim \notin claim .. limit - 1
    BY <2>1
  <2> QED BY <2>2 DEF PoolInv, TicketInv, TypeOK
<1> QED BY <1>1, <1>2, <1>3 DEF Holders, Holding

LEMMA TaskAtType ==
    ASSUME NEW p \in Plans, NEW d \in Nat, NEW j \in Nat
    PROVE  TaskAt(p, d, j) \in Tasks
<1>1. p.grain \in Int /\ p.total \in Int /\ j * p.grain \in Int /\ (j + 1) * p.grain \in Int
  BY DEF Plans
<1>2. Minimum((j + 1) * p.grain, p.total) \in Int
  BY <1>1 DEF Minimum
<1> QED BY <1>1, <1>2 DEF TaskAt, Tasks

\* The open tickets are a part of the window, hence finitely many.
LEMMA OpenFinite ==
    ASSUME PoolInv, pc[Main] \in Parallel
    PROVE  IsFiniteSet(open)
<1>1. open \subseteq plan.base .. limit - 1
  BY DEF PoolInv, TypeOK, TicketInv, WindowInv, Holders, Plans
<1>2. IsFiniteSet(plan.base .. limit - 1)
  BY FS_Interval DEF PoolInv, TypeOK, Plans
<1> QED BY <1>1, <1>2, FS_Subset

\* The slot of a ticket somebody holds contains the task of that ticket.
LEMMA HeldSlot ==
    ASSUME PoolInv, NEW t \in Holders
    PROVE  ring[Slot(idx[t], cap)] = TaskAt(plan, nd, idx[t] - plan.base)
<1>1. pc[Main] \in Parallel
  BY ClosedWindow
<1>2. Filled = plan.n
  BY <1>1 DEF Filled, Parallel, ClaimPoints, Holding
<1>3. /\ plan.base \in Nat /\ plan.n \in Nat /\ idx[t] \in Nat /\ claim \in Nat
      /\ plan.base <= idx[t] /\ idx[t] < claim /\ claim <= limit
      /\ limit = plan.base + plan.n
  BY <1>1 DEF PoolInv, TypeOK, TicketInv, WindowInv, Plans, Holders
<1> DEFINE j == idx[t] - plan.base
<1>4. j \in 0 .. plan.n - 1 /\ plan.base + j = idx[t]
  BY <1>3
<1>5. ring[Slot(plan.base + j, cap)] = TaskAt(plan, nd, j)
  BY <1>2, <1>4 DEF PoolInv, RingInv
<1> QED BY <1>4, <1>5

LEMMA CeilDivType ==
    ASSUME NEW a \in Nat, NEW b \in Nat \ {0}
    PROVE  CeilDiv(a, b) \in Nat
BY DEF CeilDiv

LEMMA ModType ==
    ASSUME NEW a \in Nat, NEW b \in Nat \ {0}
    PROVE  a % b \in Nat
OBVIOUS

LEMMA GrowDoubleStep ==
    ASSUME PoolInv, GrowDouble
    PROVE  PoolInv'
<1>1. TypeOK'
  <2>1. plan' \in Plans
    <3>1. 2 * plan.newcap \in Nat
      BY DEF PoolInv, TypeOK, Plans
    <3> QED BY <3>1 DEF PoolInv, TypeOK, GrowDouble, Plans
  <2>2. pc' \in [Threads -> WorkerPoints \cup MainPoints] /\ pc'[Main] \in MainPoints
        /\ \A w \in Workers : pc'[w] \in WorkerPoints
    BY ThreadsFacts DEF PoolInv, TypeOK, GrowDouble, Go, shared, ghosts, MainPoints
  <2>3. i' \in Nat /\ nd' \in Nat /\ skipped' \in BOOLEAN
    BY DEF PoolInv, TypeOK, GrowDouble, Go, shared, ghosts
  <2>4. hits' \in [Elems -> Nat]
    BY DEF PoolInv, TypeOK, GrowDouble, Go, shared, ghosts
  <2> QED BY <2>1, <2>2, <2>3, <2>4 DEF PoolInv, TypeOK, GrowDouble, Go, shared, ghosts
<1>2. TicketInv'
  <2>1. Holders = {}
    BY ClosedWindow DEF GrowDouble, Parallel, ClaimPoints, Holding
  <2>2. Holders' = Holders
    BY ThreadsFacts, <2>1 DEF PoolInv, TypeOK, GrowDouble, Go, shared, ghosts, Holders, Holding
  <2>3. \A t \in Threads : pc'[t] = "cas" => cur'[t] < limit
    BY ThreadsFacts DEF PoolInv, TypeOK, TicketInv, GrowDouble, Go, shared, ghosts
  <2> QED BY <2>1, <2>2, <2>3, TicketFrame DEF PoolInv, GrowDouble, Go, shared, ghosts
<1>3. WindowInv'
  BY PoolAssumption DEF PoolInv, WindowInv, Parallel, TicketInv, Holders, GrowDouble, Go,
     shared, ghosts, TypeOK, Threads, WorkerPoints, MainPoints, ClaimPoints, Holding,
        Tasks, Plans, Elems
<1>4. RingInv'
  <2>1. \A t \in Threads : pc'[t] # "run"
    BY ClosedWindow, ThreadsFacts DEF PoolInv, TypeOK, GrowDouble, Go, shared, ghosts,
       Parallel, ClaimPoints, Holding
  <2>2. Filled' = 0
    BY ThreadsFacts DEF PoolInv, TypeOK, GrowDouble, Go, shared, ghosts, Filled, Parallel,
       ClaimPoints, Holding
  <2>3. pc'[Main] \in {"carve", "fill", "publish"} \cup Parallel => plan'.n <= cap'
    BY DEF PoolInv, TypeOK, GrowDouble, Go, Parallel, ClaimPoints, Holding
  <2>4. pc'[Main] = "fill" => i' <= plan'.n
    BY <1>1, ThreadsFacts DEF PoolInv, TypeOK, GrowDouble, Go, Plans
  <2> QED BY <2>1, <2>2, <2>3, <2>4 DEF RingInv
<1> QED BY <1>1, <1>2, <1>3, <1>4 DEF PoolInv

LEMMA ClampStep ==
    ASSUME PoolInv, Clamp
    PROVE  PoolInv'
<1>1. TypeOK'
  <2>1. plan' \in Plans
    BY CeilDivType DEF PoolInv, TypeOK, Clamp, Plans
  <2>2. pc' \in [Threads -> WorkerPoints \cup MainPoints] /\ pc'[Main] \in MainPoints
        /\ \A w \in Workers : pc'[w] \in WorkerPoints
    BY ThreadsFacts DEF PoolInv, TypeOK, Clamp, CeilDiv, Go, shared, ghosts, MainPoints
  <2>3. i' \in Nat /\ nd' \in Nat /\ skipped' \in BOOLEAN
    BY DEF PoolInv, TypeOK, Clamp, CeilDiv, Go, shared, ghosts
  <2>4. hits' \in [Elems -> Nat]
    BY DEF PoolInv, TypeOK, Clamp, CeilDiv, Go, shared, ghosts
  <2> QED BY <2>1, <2>2, <2>3, <2>4 DEF PoolInv, TypeOK, Clamp, CeilDiv, Go, shared, ghosts
<1>2. TicketInv'
  <2>1. Holders = {}
    BY ClosedWindow DEF Clamp, Parallel, ClaimPoints, Holding
  <2>2. Holders' = Holders
    BY ThreadsFacts, <2>1 DEF PoolInv, TypeOK, Clamp, CeilDiv, Go, shared, ghosts, Holders,
       Holding
  <2>3. \A t \in Threads : pc'[t] = "cas" => cur'[t] < limit
    BY ThreadsFacts DEF PoolInv, TypeOK, TicketInv, Clamp, CeilDiv, Go, shared, ghosts
  <2> QED BY <2>1, <2>2, <2>3, TicketFrame DEF PoolInv, Clamp, CeilDiv, Go, shared, ghosts
<1>3. WindowInv'
  BY PoolAssumption DEF PoolInv, WindowInv, Parallel, TicketInv, Holders, Clamp, CeilDiv,
     Go, shared, ghosts, TypeOK, Threads, WorkerPoints, MainPoints, ClaimPoints, Holding,
        Tasks, Plans, Elems
<1>4. RingInv'
  <2>1. \A t \in Threads : pc'[t] # "run"
    BY ClosedWindow, ThreadsFacts DEF PoolInv, TypeOK, Clamp, CeilDiv, Go, shared, ghosts,
       Parallel, ClaimPoints, Holding
  <2>2. Filled' = 0
    BY ThreadsFacts DEF PoolInv, TypeOK, Clamp, CeilDiv, Go, shared, ghosts, Filled,
       Parallel, ClaimPoints, Holding
  <2>3. pc'[Main] \in {"carve", "fill", "publish"} \cup Parallel => plan'.n <= cap'
    BY DEF PoolInv, TypeOK, Clamp, Plans, Go, shared
  <2>4. pc'[Main] = "fill" => i' <= plan'.n
    BY <1>1, ThreadsFacts DEF PoolInv, TypeOK, Clamp, Go, Plans
  <2> QED BY <2>1, <2>2, <2>3, <2>4 DEF RingInv
<1> QED BY <1>1, <1>2, <1>3, <1>4 DEF PoolInv

LEMMA BeginDispatchStep ==
    ASSUME PoolInv, NEW kind \in {"elems", "n"}, NEW total \in Nat, NEW n \in Nat,
       NEW grain \in Nat,
           BeginDispatch(kind, total, n, grain)
    PROVE  PoolInv'
<1>1. TypeOK'
  <2>1. plan' \in Plans
    BY DEF PoolInv, TypeOK, BeginDispatch, Plans
  <2>2. pc' \in [Threads -> WorkerPoints \cup MainPoints] /\ pc'[Main] \in MainPoints
        /\ \A w \in Workers : pc'[w] \in WorkerPoints
    BY ThreadsFacts DEF PoolInv, TypeOK, BeginDispatch, Go, shared, ghosts, MainPoints
  <2>3. i' \in Nat /\ nd' \in Nat
    BY DEF PoolInv, TypeOK, BeginDispatch
  <2>5. skipped' \in BOOLEAN
    BY DEF BeginDispatch
  <2>4. hits' \in [Elems -> Nat]
    BY DEF PoolInv, TypeOK, BeginDispatch, Go, shared, ghosts
  <2> QED BY <2>1, <2>2, <2>3, <2>4, <2>5 DEF PoolInv, TypeOK, BeginDispatch, Go, shared, ghosts
<1>2. TicketInv'
  <2>1. Holders = {}
    BY ClosedWindow DEF BeginDispatch, Parallel, ClaimPoints, Holding
  <2>2. Holders' = Holders
    BY ThreadsFacts, <2>1 DEF PoolInv, TypeOK, BeginDispatch, Go, shared, ghosts, Holders,
       Holding
  <2>3. \A t \in Threads : pc'[t] = "cas" => cur'[t] < limit
    BY ThreadsFacts DEF PoolInv, TypeOK, TicketInv, BeginDispatch, Go, shared, ghosts
  <2> QED BY <2>1, <2>2, <2>3, TicketFrame DEF PoolInv, BeginDispatch, Go, shared, ghosts
<1>3. WindowInv'
  BY PoolAssumption DEF PoolInv, WindowInv, Parallel, TicketInv, Holders, BeginDispatch,
     Go, shared, ghosts, TypeOK, Threads, WorkerPoints, MainPoints, ClaimPoints, Holding,
        Tasks, Plans, Elems
<1>4. RingInv'
  <2>1. \A t \in Threads : pc'[t] # "run"
    BY ClosedWindow, ThreadsFacts DEF PoolInv, TypeOK, BeginDispatch, Go, shared, ghosts,
       Parallel, ClaimPoints, Holding
  <2>2. Filled' = 0
    BY ThreadsFacts DEF PoolInv, TypeOK, BeginDispatch, Go, shared, ghosts, Filled,
       Parallel, ClaimPoints, Holding
  <2>3. pc'[Main] \in {"carve", "fill", "publish"} \cup Parallel => plan'.n <= cap'
    BY ThreadsFacts DEF PoolInv, TypeOK, BeginDispatch, Go, shared, Parallel, ClaimPoints,
       Holding
  <2>4. pc'[Main] = "fill" => i' <= plan'.n
    BY <1>1, ThreadsFacts DEF PoolInv, TypeOK, BeginDispatch, Go, Plans
  <2> QED BY <2>1, <2>2, <2>3, <2>4 DEF RingInv
<1> QED BY <1>1, <1>2, <1>3, <1>4 DEF PoolInv

LEMMA CarveStep ==
    ASSUME PoolInv, Carve
    PROVE  PoolInv'
<1>1. TypeOK'
  <2>1. plan' \in Plans
    BY DEF PoolInv, TypeOK, Carve, Plans
  <2>2. pc' \in [Threads -> WorkerPoints \cup MainPoints] /\ pc'[Main] \in MainPoints
        /\ \A w \in Workers : pc'[w] \in WorkerPoints
    BY ThreadsFacts DEF PoolInv, TypeOK, Carve, Go, shared, ghosts, MainPoints
  <2>3. i' \in Nat /\ nd' \in Nat /\ skipped' \in BOOLEAN
    BY DEF PoolInv, TypeOK, Carve, Go, shared, ghosts
  <2>4. hits' \in [Elems -> Nat]
    BY DEF PoolInv, TypeOK, Carve, Go, shared, ghosts
  <2> QED BY <2>1, <2>2, <2>3, <2>4 DEF PoolInv, TypeOK, Carve, Go, shared, ghosts
<1>2. TicketInv'
  <2>1. Holders = {}
    BY ClosedWindow DEF Carve, Parallel, ClaimPoints, Holding
  <2>2. Holders' = Holders
    BY ThreadsFacts, <2>1 DEF PoolInv, TypeOK, Carve, Go, shared, ghosts, Holders, Holding
  <2>3. \A t \in Threads : pc'[t] = "cas" => cur'[t] < limit
    BY ThreadsFacts DEF PoolInv, TypeOK, TicketInv, Carve, Go, shared, ghosts
  <2> QED BY <2>1, <2>2, <2>3, TicketFrame DEF PoolInv, Carve, Go, shared, ghosts
<1>3. WindowInv'
  BY PoolAssumption DEF PoolInv, WindowInv, Parallel, TicketInv, Holders, Carve, Go,
     shared, ghosts, TypeOK, Threads, WorkerPoints, MainPoints, ClaimPoints, Holding,
        Tasks, Plans, Elems
<1>4. RingInv'
  <2>1. \A t \in Threads : pc'[t] # "run"
    BY ClosedWindow, ThreadsFacts DEF PoolInv, TypeOK, Carve, Go, shared, ghosts, Parallel,
       ClaimPoints, Holding
  <2>2. Filled' = 0
    BY ThreadsFacts DEF PoolInv, TypeOK, Carve, Go, shared, ghosts, Filled, Parallel,
       ClaimPoints, Holding
  <2>3. pc'[Main] \in {"carve", "fill", "publish"} \cup Parallel => plan'.n <= cap'
    BY DEF PoolInv, RingInv, TypeOK, Carve, Plans, Go, shared
  <2>4. pc'[Main] = "fill" => i' <= plan'.n
    BY <1>1, ThreadsFacts DEF PoolInv, TypeOK, Carve, Go, Plans
  <2> QED BY <2>1, <2>2, <2>3, <2>4 DEF RingInv
<1> QED BY <1>1, <1>2, <1>3, <1>4 DEF PoolInv

LEMMA SpawnOkStep ==
    ASSUME PoolInv, NEW w \in Workers, SpawnOk(w)
    PROVE  PoolInv'
<1>1. TypeOK'
  BY PoolAssumption DEF PoolInv, TypeOK, SpawnOk, Go, shared, ghosts, Threads,
     WorkerPoints, MainPoints, ClaimPoints, Holding, Tasks, Plans, Elems
<1>2. TicketInv'
  <2>1. Holders' = Holders
    BY HoldersFrame, ThreadsFacts DEF PoolInv, SpawnOk, Holding
  <2>2. \A x \in Threads : pc'[x] = "cas" => cur'[x] < limit
    BY ThreadsFacts DEF PoolInv, TypeOK, TicketInv, SpawnOk, Go, shared, ghosts
  <2> QED BY <2>1, <2>2, TicketFrame DEF PoolInv, SpawnOk, Go, shared, ghosts
<1>3. WindowInv'
  BY PoolAssumption DEF PoolInv, WindowInv, Parallel, TicketInv, Holders, SpawnOk, Go,
     shared, ghosts, TypeOK, Threads, WorkerPoints, MainPoints, ClaimPoints, Holding,
        Tasks, Plans, Elems
<1>4. RingInv'
  BY PoolAssumption DEF PoolInv, RingInv, Filled, Parallel, Slot, TaskAt, Minimum, SpawnOk,
     Go, shared, ghosts, TypeOK, Threads, WorkerPoints, MainPoints, ClaimPoints, Holding,
        Tasks, Plans, Elems
<1> QED BY <1>1, <1>2, <1>3, <1>4 DEF PoolInv

LEMMA SpawnFailStep ==
    ASSUME PoolInv, SpawnFail
    PROVE  PoolInv'
<1>1. TypeOK'
  BY PoolAssumption DEF PoolInv, TypeOK, SpawnFail, Go, shared, ghosts, Threads,
     WorkerPoints, MainPoints, ClaimPoints, Holding, Tasks, Plans, Elems
<1>2. TicketInv'
  <2>1. Holders' = Holders
    BY HoldersFrame, ThreadsFacts DEF PoolInv, SpawnFail, Holding
  <2>2. \A x \in Threads : pc'[x] = "cas" => cur'[x] < limit
    BY ThreadsFacts DEF PoolInv, TypeOK, TicketInv, SpawnFail, Go, shared, ghosts
  <2> QED BY <2>1, <2>2, TicketFrame DEF PoolInv, SpawnFail, Go, shared, ghosts
<1>3. WindowInv'
  BY PoolAssumption DEF PoolInv, WindowInv, Parallel, TicketInv, Holders, SpawnFail, Go,
     shared, ghosts, TypeOK, Threads, WorkerPoints, MainPoints, ClaimPoints, Holding,
        Tasks, Plans, Elems
<1>4. RingInv'
  BY PoolAssumption DEF PoolInv, RingInv, Filled, Parallel, Slot, TaskAt, Minimum,
     SpawnFail, Go, shared, ghosts, TypeOK, Threads, WorkerPoints, MainPoints, ClaimPoints,
        Holding, Tasks, Plans, Elems
<1> QED BY <1>1, <1>2, <1>3, <1>4 DEF PoolInv

LEMMA SpawnDoneStep ==
    ASSUME PoolInv, SpawnDone
    PROVE  PoolInv'
<1>1. TypeOK'
  BY PoolAssumption DEF PoolInv, TypeOK, SpawnDone, Go, shared, ghosts, Threads,
     WorkerPoints, MainPoints, ClaimPoints, Holding, Tasks, Plans, Elems
<1>2. TicketInv'
  <2>1. Holders' = Holders
    BY HoldersFrame, ThreadsFacts DEF PoolInv, SpawnDone, Holding
  <2>2. \A x \in Threads : pc'[x] = "cas" => cur'[x] < limit
    BY ThreadsFacts DEF PoolInv, TypeOK, TicketInv, SpawnDone, Go, shared, ghosts
  <2> QED BY <2>1, <2>2, TicketFrame DEF PoolInv, SpawnDone, Go, shared, ghosts
<1>3. WindowInv'
  BY PoolAssumption DEF PoolInv, WindowInv, Parallel, TicketInv, Holders, SpawnDone, Go,
     shared, ghosts, TypeOK, Threads, WorkerPoints, MainPoints, ClaimPoints, Holding,
        Tasks, Plans, Elems
<1>4. RingInv'
  BY PoolAssumption DEF PoolInv, RingInv, Filled, Parallel, Slot, TaskAt, Minimum,
     SpawnDone, Go, shared, ghosts, TypeOK, Threads, WorkerPoints, MainPoints, ClaimPoints,
        Holding, Tasks, Plans, Elems
<1> QED BY <1>1, <1>2, <1>3, <1>4 DEF PoolInv

LEMMA GrowNoStep ==
    ASSUME PoolInv, GrowNo
    PROVE  PoolInv'
<1>1. TypeOK'
  BY PoolAssumption DEF PoolInv, TypeOK, GrowNo, Go, shared, ghosts, Threads, WorkerPoints,
     MainPoints, ClaimPoints, Holding, Tasks, Plans, Elems
<1>2. TicketInv'
  <2>1. Holders' = Holders
    BY HoldersFrame, ThreadsFacts DEF PoolInv, GrowNo, Holding
  <2>2. \A x \in Threads : pc'[x] = "cas" => cur'[x] < limit
    BY ThreadsFacts DEF PoolInv, TypeOK, TicketInv, GrowNo, Go, shared, ghosts
  <2> QED BY <2>1, <2>2, TicketFrame DEF PoolInv, GrowNo, Go, shared, ghosts
<1>3. WindowInv'
  BY PoolAssumption DEF PoolInv, WindowInv, Parallel, TicketInv, Holders, GrowNo, Go,
     shared, ghosts, TypeOK, Threads, WorkerPoints, MainPoints, ClaimPoints, Holding,
        Tasks, Plans, Elems
<1>4. RingInv'
  BY PoolAssumption DEF PoolInv, RingInv, Filled, Parallel, Slot, TaskAt, Minimum, GrowNo,
     Go, shared, ghosts, TypeOK, Threads, WorkerPoints, MainPoints, ClaimPoints, Holding,
        Tasks, Plans, Elems
<1> QED BY <1>1, <1>2, <1>3, <1>4 DEF PoolInv

LEMMA RaiseFlagStep ==
    ASSUME PoolInv, RaiseFlag
    PROVE  PoolInv'
<1>1. TypeOK'
  BY PoolAssumption DEF PoolInv, TypeOK, RaiseFlag, Go, shared, ghosts, Threads,
     WorkerPoints, MainPoints, ClaimPoints, Holding, Tasks, Plans, Elems
<1>2. TicketInv'
  <2>1. Holders' = Holders
    BY HoldersFrame, ThreadsFacts DEF PoolInv, RaiseFlag, Holding
  <2>2. \A x \in Threads : pc'[x] = "cas" => cur'[x] < limit
    BY ThreadsFacts DEF PoolInv, TypeOK, TicketInv, RaiseFlag, Go, shared, ghosts
  <2> QED BY <2>1, <2>2, TicketFrame DEF PoolInv, RaiseFlag, Go, shared, ghosts
<1>3. WindowInv'
  BY PoolAssumption DEF PoolInv, WindowInv, Parallel, TicketInv, Holders, RaiseFlag, Go,
     shared, ghosts, TypeOK, Threads, WorkerPoints, MainPoints, ClaimPoints, Holding,
        Tasks, Plans, Elems
<1>4. RingInv'
  BY PoolAssumption DEF PoolInv, RingInv, Filled, Parallel, Slot, TaskAt, Minimum,
     RaiseFlag, Go, shared, ghosts, TypeOK, Threads, WorkerPoints, MainPoints, ClaimPoints,
        Holding, Tasks, Plans, Elems
<1> QED BY <1>1, <1>2, <1>3, <1>4 DEF PoolInv

LEMMA SignalDoneStep ==
    ASSUME PoolInv, SignalDone
    PROVE  PoolInv'
<1>1. TypeOK'
  BY PoolAssumption DEF PoolInv, TypeOK, SignalDone, Go, shared, ghosts, Threads,
     WorkerPoints, MainPoints, ClaimPoints, Holding, Tasks, Plans, Elems
<1>2. TicketInv'
  <2>1. Holders' = Holders
    BY HoldersFrame, ThreadsFacts DEF PoolInv, SignalDone, Holding
  <2>2. \A x \in Threads : pc'[x] = "cas" => cur'[x] < limit
    BY ThreadsFacts DEF PoolInv, TypeOK, TicketInv, SignalDone, Go, shared, ghosts
  <2> QED BY <2>1, <2>2, TicketFrame DEF PoolInv, SignalDone, Go, shared, ghosts
<1>3. WindowInv'
  BY PoolAssumption DEF PoolInv, WindowInv, Parallel, TicketInv, Holders, SignalDone, Go,
     shared, ghosts, TypeOK, Threads, WorkerPoints, MainPoints, ClaimPoints, Holding,
        Tasks, Plans, Elems
<1>4. RingInv'
  BY PoolAssumption DEF PoolInv, RingInv, Filled, Parallel, Slot, TaskAt, Minimum,
     SignalDone, Go, shared, ghosts, TypeOK, Threads, WorkerPoints, MainPoints,
        ClaimPoints, Holding, Tasks, Plans, Elems
<1> QED BY <1>1, <1>2, <1>3, <1>4 DEF PoolInv

LEMMA FreeStep ==
    ASSUME PoolInv, Free
    PROVE  PoolInv'
<1>1. TypeOK'
  BY PoolAssumption DEF PoolInv, TypeOK, Free, Go, shared, ghosts, Threads, WorkerPoints,
     MainPoints, ClaimPoints, Holding, Tasks, Plans, Elems
<1>2. TicketInv'
  <2>1. Holders' = Holders
    BY HoldersFrame, ThreadsFacts DEF PoolInv, Free, Holding
  <2>2. \A x \in Threads : pc'[x] = "cas" => cur'[x] < limit
    BY ThreadsFacts DEF PoolInv, TypeOK, TicketInv, Free, Go, shared, ghosts
  <2> QED BY <2>1, <2>2, TicketFrame DEF PoolInv, Free, Go, shared, ghosts
<1>3. WindowInv'
  BY PoolAssumption DEF PoolInv, WindowInv, Parallel, TicketInv, Holders, Free, Go, shared,
     ghosts, TypeOK, Threads, WorkerPoints, MainPoints, ClaimPoints, Holding, Tasks, Plans,
        Elems
<1>4. RingInv'
  BY PoolAssumption DEF PoolInv, RingInv, Filled, Parallel, Slot, TaskAt, Minimum, Free,
     Go, shared, ghosts, TypeOK, Threads, WorkerPoints, MainPoints, ClaimPoints, Holding,
        Tasks, Plans, Elems
<1> QED BY <1>1, <1>2, <1>3, <1>4 DEF PoolInv

LEMMA JoinStep ==
    ASSUME PoolInv, Join
    PROVE  PoolInv'
<1>1. TypeOK'
  BY PoolAssumption DEF PoolInv, TypeOK, Join, Go, shared, ghosts, Threads, WorkerPoints,
     MainPoints, ClaimPoints, Holding, Tasks, Plans, Elems
<1>2. TicketInv'
  <2>1. Holders' = Holders
    BY HoldersFrame, ThreadsFacts DEF PoolInv, Join, Holding
  <2>2. \A x \in Threads : pc'[x] = "cas" => cur'[x] < limit
    BY ThreadsFacts DEF PoolInv, TypeOK, TicketInv, Join, Go, shared, ghosts
  <2> QED BY <2>1, <2>2, TicketFrame DEF PoolInv, Join, Go, shared, ghosts
<1>3. WindowInv'
  BY PoolAssumption DEF PoolInv, WindowInv, Parallel, TicketInv, Holders, Join, Go, shared,
     ghosts, TypeOK, Threads, WorkerPoints, MainPoints, ClaimPoints, Holding, Tasks, Plans,
        Elems
<1>4. RingInv'
  BY PoolAssumption DEF PoolInv, RingInv, Filled, Parallel, Slot, TaskAt, Minimum, Join,
     Go, shared, ghosts, TypeOK, Threads, WorkerPoints, MainPoints, ClaimPoints, Holding,
        Tasks, Plans, Elems
<1> QED BY <1>1, <1>2, <1>3, <1>4 DEF PoolInv

LEMMA LoadClaimStep ==
    ASSUME PoolInv, NEW t \in Threads, LoadClaim(t)
    PROVE  PoolInv'
<1>1. TypeOK'
  BY PoolAssumption DEF PoolInv, TypeOK, LoadClaim, Go, shared, ghosts, Threads,
     WorkerPoints, MainPoints, ClaimPoints, Holding, Tasks, Plans, Elems
<1>2. TicketInv'
  <2>1. Holders' = Holders
    BY HoldersFrame, ThreadsFacts DEF PoolInv, LoadClaim, Holding
  <2>2. \A x \in Threads : pc'[x] = "cas" => cur'[x] < limit
    BY ThreadsFacts DEF PoolInv, TypeOK, TicketInv, LoadClaim, Go, shared, ghosts
  <2> QED BY <2>1, <2>2, TicketFrame DEF PoolInv, LoadClaim, Go, shared, ghosts
<1>3. WindowInv'
  BY PoolAssumption DEF PoolInv, WindowInv, Parallel, TicketInv, Holders, LoadClaim, Go,
     shared, ghosts, TypeOK, Threads, WorkerPoints, MainPoints, ClaimPoints, Holding,
        Tasks, Plans, Elems
<1>4. RingInv'
  BY PoolAssumption DEF PoolInv, RingInv, Filled, Parallel, Slot, TaskAt, Minimum,
     LoadClaim, Go, shared, ghosts, TypeOK, Threads, WorkerPoints, MainPoints, ClaimPoints,
        Holding, Tasks, Plans, Elems
<1> QED BY <1>1, <1>2, <1>3, <1>4 DEF PoolInv

LEMMA CasFailStep ==
    ASSUME PoolInv, NEW t \in Threads, CasFail(t)
    PROVE  PoolInv'
<1>1. TypeOK'
  BY PoolAssumption DEF PoolInv, TypeOK, CasFail, Go, shared, ghosts, Threads,
     WorkerPoints, MainPoints, ClaimPoints, Holding, Tasks, Plans, Elems
<1>2. TicketInv'
  <2>1. Holders' = Holders
    BY HoldersFrame, ThreadsFacts DEF PoolInv, CasFail, Holding
  <2>2. \A x \in Threads : pc'[x] = "cas" => cur'[x] < limit
    BY ThreadsFacts DEF PoolInv, TypeOK, TicketInv, CasFail, Go, shared, ghosts
  <2> QED BY <2>1, <2>2, TicketFrame DEF PoolInv, CasFail, Go, shared, ghosts
<1>3. WindowInv'
  BY PoolAssumption DEF PoolInv, WindowInv, Parallel, TicketInv, Holders, CasFail, Go,
     shared, ghosts, TypeOK, Threads, WorkerPoints, MainPoints, ClaimPoints, Holding,
        Tasks, Plans, Elems
<1>4. RingInv'
  BY PoolAssumption DEF PoolInv, RingInv, Filled, Parallel, Slot, TaskAt, Minimum, CasFail,
     Go, shared, ghosts, TypeOK, Threads, WorkerPoints, MainPoints, ClaimPoints, Holding,
        Tasks, Plans, Elems
<1> QED BY <1>1, <1>2, <1>3, <1>4 DEF PoolInv

LEMMA CheckCancelledStep ==
    ASSUME PoolInv, NEW t \in Threads, CheckCancelled(t)
    PROVE  PoolInv'
<1>1. TypeOK'
  BY PoolAssumption DEF PoolInv, TypeOK, CheckCancelled, Go, shared, ghosts, Threads,
     WorkerPoints, MainPoints, ClaimPoints, Holding, Tasks, Plans, Elems
<1>2. TicketInv'
  <2>1. Holders' = Holders
    BY HoldersFrame, ThreadsFacts DEF PoolInv, CheckCancelled, Holding
  <2>2. \A x \in Threads : pc'[x] = "cas" => cur'[x] < limit
    BY ThreadsFacts DEF PoolInv, TypeOK, TicketInv, CheckCancelled, Go, shared, ghosts
  <2> QED BY <2>1, <2>2, TicketFrame DEF PoolInv, CheckCancelled, Go, shared, ghosts
<1>3. WindowInv'
  BY PoolAssumption DEF PoolInv, WindowInv, Parallel, TicketInv, Holders, CheckCancelled,
     Go, shared, ghosts, TypeOK, Threads, WorkerPoints, MainPoints, ClaimPoints, Holding,
        Tasks, Plans, Elems
<1>4. RingInv'
  BY PoolAssumption DEF PoolInv, RingInv, Filled, Parallel, Slot, TaskAt, Minimum,
     CheckCancelled, Go, shared, ghosts, TypeOK, Threads, WorkerPoints, MainPoints,
        ClaimPoints, Holding, Tasks, Plans, Elems
<1> QED BY <1>1, <1>2, <1>3, <1>4 DEF PoolInv

LEMMA CheckShutdownStep ==
    ASSUME PoolInv, NEW w \in Workers, CheckShutdown(w)
    PROVE  PoolInv'
<1>1. TypeOK'
  BY PoolAssumption DEF PoolInv, TypeOK, CheckShutdown, Go, shared, ghosts, Threads,
     WorkerPoints, MainPoints, ClaimPoints, Holding, Tasks, Plans, Elems
<1>2. TicketInv'
  <2>1. Holders' = Holders
    BY HoldersFrame, ThreadsFacts DEF PoolInv, CheckShutdown, Holding
  <2>2. \A x \in Threads : pc'[x] = "cas" => cur'[x] < limit
    BY ThreadsFacts DEF PoolInv, TypeOK, TicketInv, CheckShutdown, Go, shared, ghosts
  <2> QED BY <2>1, <2>2, TicketFrame DEF PoolInv, CheckShutdown, Go, shared, ghosts
<1>3. WindowInv'
  BY PoolAssumption DEF PoolInv, WindowInv, Parallel, TicketInv, Holders, CheckShutdown,
     Go, shared, ghosts, TypeOK, Threads, WorkerPoints, MainPoints, ClaimPoints, Holding,
        Tasks, Plans, Elems
<1>4. RingInv'
  BY PoolAssumption DEF PoolInv, RingInv, Filled, Parallel, Slot, TaskAt, Minimum,
     CheckShutdown, Go, shared, ghosts, TypeOK, Threads, WorkerPoints, MainPoints,
        ClaimPoints, Holding, Tasks, Plans, Elems
<1> QED BY <1>1, <1>2, <1>3, <1>4 DEF PoolInv

LEMMA SignalOneStep ==
    ASSUME PoolInv, SignalOne
    PROVE  PoolInv'
<1>1. TypeOK'
  <2>1. sem' \in Nat /\ i' \in Nat
    BY DEF PoolInv, TypeOK, SignalOne
  <2> QED BY <2>1 DEF PoolInv, TypeOK, SignalOne, ghosts
<1>2. TicketInv'
  BY DEF PoolInv, TicketInv, Holders, SignalOne, ghosts
<1>3. WindowInv'
  BY DEF PoolInv, WindowInv, SignalOne, ghosts
<1>4. RingInv'
  BY DEF PoolInv, RingInv, Filled, SignalOne, ghosts
<1> QED BY <1>1, <1>2, <1>3, <1>4 DEF PoolInv

LEMMA StopSignalStep ==
    ASSUME PoolInv, StopSignal
    PROVE  PoolInv'
<1>1. TypeOK'
  <2>1. sem' \in Nat /\ i' \in Nat
    BY DEF PoolInv, TypeOK, StopSignal
  <2> QED BY <2>1 DEF PoolInv, TypeOK, StopSignal, ghosts
<1>2. TicketInv'
  BY DEF PoolInv, TicketInv, Holders, StopSignal, ghosts
<1>3. WindowInv'
  BY DEF PoolInv, WindowInv, StopSignal, ghosts
<1>4. RingInv'
  BY DEF PoolInv, RingInv, Filled, StopSignal, ghosts
<1> QED BY <1>1, <1>2, <1>3, <1>4 DEF PoolInv

LEMMA SemWaitStep ==
    ASSUME PoolInv, NEW w \in Workers, SemWait(w)
    PROVE  PoolInv'
<1>1. TypeOK'
  <2>1. sem' \in Nat
    BY DEF PoolInv, TypeOK, SemWait
  <2>2. pc' \in [Threads -> WorkerPoints \cup MainPoints] /\ pc'[Main] \in MainPoints
        /\ \A x \in Workers : pc'[x] \in WorkerPoints
    BY ThreadsFacts DEF PoolInv, TypeOK, SemWait, Go, WorkerPoints
  <2> QED BY <2>1, <2>2 DEF PoolInv, TypeOK, SemWait, ghosts
<1>2. TicketInv'
  <2>1. Holders' = Holders
    BY HoldersFrame, ThreadsFacts DEF PoolInv, SemWait, Holding
  <2>2. \A x \in Threads : pc'[x] = "cas" => cur'[x] < limit
    BY ThreadsFacts DEF PoolInv, TypeOK, TicketInv, SemWait, Go, shared, ghosts
  <2> QED BY <2>1, <2>2, TicketFrame DEF PoolInv, SemWait, Go, shared, ghosts
<1>3. WindowInv'
  BY PoolAssumption DEF PoolInv, WindowInv, Parallel, TicketInv, Holders, SemWait, Go,
     shared, ghosts, TypeOK, Threads, WorkerPoints, MainPoints, ClaimPoints, Holding,
        Tasks, Plans, Elems
<1>4. RingInv'
  BY PoolAssumption DEF PoolInv, RingInv, Filled, Parallel, Slot, TaskAt, Minimum, SemWait,
     Go, shared, ghosts, TypeOK, Threads, WorkerPoints, MainPoints, ClaimPoints, Holding,
        Tasks, Plans, Elems
<1> QED BY <1>1, <1>2, <1>3, <1>4 DEF PoolInv

LEMMA LoadLimitStep ==
    ASSUME PoolInv, NEW t \in Threads, LoadLimit(t)
    PROVE  PoolInv'
<1>1. TypeOK'
  <2>1. cur' \in [Threads -> Nat]
    BY DEF PoolInv, TypeOK, LoadLimit
  <2>2. pc' \in [Threads -> WorkerPoints \cup MainPoints] /\ pc'[Main] \in MainPoints
        /\ \A x \in Workers : pc'[x] \in WorkerPoints
    BY ThreadsFacts DEF PoolInv, TypeOK, LoadLimit, Go, WorkerPoints, MainPoints, ClaimPoints
  <2> QED BY <2>1, <2>2 DEF PoolInv, TypeOK, LoadLimit, ghosts, shared
<1>2. TicketInv'
  <2>1. Holders' = Holders
    BY HoldersFrame DEF PoolInv, LoadLimit, Holding
  <2>2. \A x \in Threads : pc'[x] = "cas" => cur'[x] < limit
    BY DEF PoolInv, TypeOK, TicketInv, LoadLimit, Go
  <2> QED BY <2>1, <2>2, TicketFrame DEF PoolInv, LoadLimit, ghosts, shared
<1>3. WindowInv'
  BY PoolAssumption DEF PoolInv, WindowInv, Parallel, TicketInv, Holders, LoadLimit, Go,
     shared, ghosts, TypeOK, Threads, WorkerPoints, MainPoints, ClaimPoints, Holding,
        Tasks, Plans, Elems
<1>4. RingInv'
  <2>1. Filled' = Filled
    BY ThreadsFacts DEF PoolInv, TypeOK, LoadLimit, Go, Filled, Parallel, ClaimPoints, Holding
  <2>2. pc'[Main] \in {"carve", "fill", "publish"} \cup Parallel => plan'.n <= cap'
    BY ThreadsFacts DEF PoolInv, TypeOK, RingInv, LoadLimit, Go, shared, Parallel,
       ClaimPoints, Holding
  <2>3. pc'[Main] = "fill" => i' <= plan'.n
    BY ThreadsFacts DEF PoolInv, TypeOK, RingInv, LoadLimit, Go
  <2>4. \A x \in Threads : pc'[x] = "run" => pc[x] = "run"
    BY DEF PoolInv, TypeOK, LoadLimit, Go
  <2> QED BY <2>1, <2>2, <2>3, <2>4 DEF PoolInv, RingInv, LoadLimit, shared
<1> QED BY <1>1, <1>2, <1>3, <1>4 DEF PoolInv

LEMMA PublishPendingStep ==
    ASSUME PoolInv, PublishPending
    PROVE  PoolInv'
<1>1. TypeOK'
  BY PoolAssumption DEF PoolInv, TypeOK, PublishPending, Go, shared, ghosts, Threads,
     WorkerPoints, MainPoints, ClaimPoints, Holding, Tasks, Plans, Elems
<1>2. TicketInv'
  <2>1. Holders' = Holders
    BY HoldersFrame, ThreadsFacts DEF PoolInv, PublishPending, Holding
  <2>2. \A x \in Threads : pc'[x] = "cas" => cur'[x] < limit
    BY ThreadsFacts DEF PoolInv, TypeOK, TicketInv, PublishPending, Go, shared, ghosts
  <2> QED BY <2>1, <2>2, TicketFrame DEF PoolInv, PublishPending, Go, shared, ghosts
<1>3. WindowInv'
  BY PoolAssumption DEF PoolInv, WindowInv, Parallel, TicketInv, Holders, PublishPending,
     Go, shared, ghosts, TypeOK, Threads, WorkerPoints, MainPoints, ClaimPoints, Holding,
        Tasks, Plans, Elems
<1>4. RingInv'
  <2>1. Filled' = plan.n /\ Filled = plan.n
    BY ThreadsFacts DEF PoolInv, TypeOK, RingInv, PublishPending, Go, Filled, Plans
  <2>2. \A x \in Threads : pc'[x] = "run" => pc[x] = "run"
    BY DEF PoolInv, TypeOK, PublishPending, Go
  <2> QED BY <2>1, <2>2, ThreadsFacts DEF PoolInv, TypeOK, RingInv, PublishPending, Go, Plans
<1> QED BY <1>1, <1>2, <1>3, <1>4 DEF PoolInv

LEMMA GrowOkStep ==
    ASSUME PoolInv, GrowOk
    PROVE  PoolInv'
<1>1. TypeOK'
  <2>1. cap' \in Nat \ {0}
    BY DEF PoolInv, TypeOK, GrowOk, Plans
  <2>2. NoTask \in Tasks
    BY DEF NoTask, Tasks
  <2>3. ring' \in [0 .. cap' - 1 -> Tasks]
    BY <2>1, <2>2 DEF PoolInv, TypeOK, GrowOk
  <2>4. pc' \in [Threads -> WorkerPoints \cup MainPoints] /\ pc'[Main] \in MainPoints
        /\ \A x \in Workers : pc'[x] \in WorkerPoints
    BY ThreadsFacts DEF PoolInv, TypeOK, GrowOk, Go, MainPoints
  <2> QED BY <2>1, <2>3, <2>4 DEF PoolInv, TypeOK, GrowOk, ghosts
<1>2. TicketInv'
  <2>1. Holders' = Holders
    BY HoldersFrame, ThreadsFacts DEF PoolInv, GrowOk, Holding
  <2>2. \A x \in Threads : pc'[x] = "cas" => cur'[x] < limit
    BY ThreadsFacts DEF PoolInv, TypeOK, TicketInv, GrowOk, GrowEnd, NoTask, Go, shared, ghosts
  <2> QED BY <2>1, <2>2, TicketFrame DEF PoolInv, GrowOk, GrowEnd, NoTask, Go, shared, ghosts
<1>3. WindowInv'
  BY PoolAssumption DEF PoolInv, WindowInv, Parallel, TicketInv, Holders, GrowOk, GrowEnd,
     NoTask, Go, shared, ghosts, TypeOK, Threads, WorkerPoints, MainPoints, ClaimPoints,
        Holding, Tasks, Plans, Elems
<1>4. RingInv'
  <2>1. \A t \in Threads : pc'[t] # "run"
    BY ClosedWindow, ThreadsFacts DEF PoolInv, TypeOK, GrowOk, Go, Parallel, ClaimPoints,
       Holding
  <2>2. Filled' = 0 /\ pc'[Main] = "clamp"
    BY ThreadsFacts DEF PoolInv, TypeOK, GrowOk, Go, Filled, Parallel, ClaimPoints, Holding
  <2> QED BY <2>1, <2>2 DEF RingInv, Parallel, ClaimPoints, Holding
<1> QED BY <1>1, <1>2, <1>3, <1>4 DEF PoolInv

LEMMA FillSlotStep ==
    ASSUME PoolInv, FillSlot
    PROVE  PoolInv'
<1>1. TypeOK'
  <2>1. TaskAt(plan, nd, i) \in Tasks
    BY TaskAtType DEF PoolInv, TypeOK
  <2>2. ring' \in [0 .. cap - 1 -> Tasks]
    BY <2>1 DEF PoolInv, TypeOK, FillSlot
  <2>3. i' \in Nat
    BY DEF PoolInv, TypeOK, FillSlot
  <2> QED BY <2>2, <2>3 DEF PoolInv, TypeOK, FillSlot, ghosts
<1>2. TicketInv'
  BY DEF PoolInv, TicketInv, Holders, FillSlot, ghosts
<1>3. WindowInv'
  BY DEF PoolInv, WindowInv, FillSlot, ghosts
<1>4. RingInv'
  <2>1. \A t \in Threads : pc'[t] # "run"
    BY ClosedWindow DEF FillSlot, Parallel, ClaimPoints, Holding
  <2>2. /\ Filled = i /\ Filled' = i + 1 /\ i \in Nat /\ i < plan.n
        /\ plan.n <= cap /\ plan.n \in Nat /\ plan.base \in Nat /\ cap \in Nat \ {0}
    BY DEF PoolInv, TypeOK, RingInv, FillSlot, Filled, Plans
  <2>3. ASSUME NEW j \in 0 .. i
        PROVE  ring'[Slot(plan.base + j, cap)] = TaskAt(plan, nd, j)
    <3>1. CASE j = i
      BY <3>1, <2>2, SlotType DEF PoolInv, TypeOK, FillSlot
    <3>2. CASE j < i
      <4>1. Slot(plan.base + j, cap) # Slot(plan.base + i, cap)
        BY <3>2, <2>2, SlotDistinct
      <4>2. Slot(plan.base + j, cap) \in 0 .. cap - 1
        BY <2>2, SlotType
      <4>3. ring[Slot(plan.base + j, cap)] = TaskAt(plan, nd, j)
        BY <3>2, <2>2 DEF PoolInv, RingInv
      <4> QED BY <4>1, <4>2, <4>3 DEF PoolInv, TypeOK, FillSlot
    <3> QED BY <3>1, <3>2, <2>2
  <2> QED BY <2>1, <2>2, <2>3 DEF RingInv, FillSlot, PoolInv
<1> QED BY <1>1, <1>2, <1>3, <1>4 DEF PoolInv

LEMMA PublishLimitStep ==
    ASSUME PoolInv, PublishLimit
    PROVE  PoolInv'
<1>1. TypeOK'
  <2>1. limit' \in Nat /\ open' \in SUBSET Nat
    BY DEF PoolInv, TypeOK, PublishLimit, Plans
  <2>2. pc' \in [Threads -> WorkerPoints \cup MainPoints] /\ pc'[Main] \in MainPoints
        /\ \A x \in Workers : pc'[x] \in WorkerPoints
    BY ThreadsFacts DEF PoolInv, TypeOK, PublishLimit, Go, MainPoints
  <2> QED BY <2>1, <2>2 DEF PoolInv, TypeOK, PublishLimit
<1>2. TicketInv'
  <2>1. Holders = {} /\ claim = limit
    BY ClosedWindow DEF PublishLimit, Parallel, ClaimPoints, Holding
  <2>2. Holders' = {}
    BY <2>1, HoldersFrame, ThreadsFacts DEF PoolInv, PublishLimit, Holding
  <2>3. /\ plan.base = limit /\ plan.n \in Nat /\ limit \in Nat
        /\ limit' = plan.base + plan.n
    BY DEF PoolInv, TypeOK, WindowInv, PublishLimit, Plans
  <2>4. \A t \in Threads : pc'[t] = "cas" => cur'[t] < limit'
    BY <2>3, ThreadsFacts DEF PoolInv, TypeOK, TicketInv, PublishLimit, Go
  <2>5. {idx'[t] : t \in Holders'} = {}
    BY <2>2
  <2> QED BY <2>1, <2>2, <2>3, <2>4, <2>5 DEF TicketInv, PublishLimit
<1>3. WindowInv'
  <2>1. pc'[Main] = "flag"
    BY ThreadsFacts DEF PoolInv, TypeOK, PublishLimit, Go
  <2>2. /\ plan.base = limit /\ plan.n \in Nat /\ limit \in Nat /\ claim = limit
        /\ pending = plan.n
    BY ClosedWindow DEF PoolInv, TypeOK, WindowInv, PublishLimit, Plans, Parallel,
       ClaimPoints, Holding
  <2>3. Cardinality(plan.base .. plan.base + plan.n - 1) = plan.n
    BY <2>2, FS_Interval
  <2> QED BY <2>1, <2>2, <2>3 DEF WindowInv, PublishLimit, Parallel
<1>4. RingInv'
  <2>1. Filled' = plan.n /\ Filled = plan.n
    BY ThreadsFacts DEF PoolInv, TypeOK, PublishLimit, Go, Filled, Parallel
  <2>2. \A x \in Threads : pc'[x] = "run" => pc[x] = "run"
    BY DEF PoolInv, TypeOK, PublishLimit, Go
  <2> QED BY <2>1, <2>2, ThreadsFacts DEF PoolInv, TypeOK, RingInv, PublishLimit, Go
<1> QED BY <1>1, <1>2, <1>3, <1>4 DEF PoolInv

LEMMA BarrierStep ==
    ASSUME PoolInv, Barrier
    PROVE  PoolInv'
<1>1. TypeOK'
  BY PoolAssumption DEF PoolInv, TypeOK, Barrier, Go, shared, ghosts, Threads,
     WorkerPoints, MainPoints, ClaimPoints, Holding, Tasks, Plans, Elems
<1>2. TicketInv'
  <2>1. Holders' = Holders
    BY HoldersFrame, ThreadsFacts DEF PoolInv, Barrier, Holding
  <2>2. \A x \in Threads : pc'[x] = "cas" => cur'[x] < limit
    BY ThreadsFacts DEF PoolInv, TypeOK, TicketInv, Barrier, Go, shared, ghosts
  <2> QED BY <2>1, <2>2, TicketFrame DEF PoolInv, Barrier, Go, shared, ghosts
<1>3. WindowInv'
  <2>1. pc'[Main] = "lower"
    BY ThreadsFacts DEF PoolInv, TypeOK, Barrier, Go
  <2>2. Cardinality(open) = 0
    BY DEF PoolInv, WindowInv, Barrier, Parallel
  <2>3. open = {}
    BY <2>2, OpenFinite, FS_EmptySet DEF Barrier, Parallel
  <2> QED BY <2>1, <2>3 DEF PoolInv, WindowInv, Barrier, shared, ghosts, Parallel
<1>4. RingInv'
  BY PoolAssumption DEF PoolInv, RingInv, Filled, Parallel, Slot, TaskAt, Minimum, Barrier,
     Go, shared, ghosts, TypeOK, Threads, WorkerPoints, MainPoints, ClaimPoints, Holding,
        Tasks, Plans, Elems
<1> QED BY <1>1, <1>2, <1>3, <1>4 DEF PoolInv

LEMMA LowerFlagStep ==
    ASSUME PoolInv, LowerFlag
    PROVE  PoolInv'
<1>1. TypeOK'
  BY PoolAssumption DEF PoolInv, TypeOK, LowerFlag, Go, shared, ghosts, Threads,
     WorkerPoints, MainPoints, ClaimPoints, Holding, Tasks, Plans, Elems
<1>2. TicketInv'
  <2>1. Holders' = Holders
    BY HoldersFrame, ThreadsFacts DEF PoolInv, LowerFlag, Holding
  <2>2. \A x \in Threads : pc'[x] = "cas" => cur'[x] < limit
    BY ThreadsFacts DEF PoolInv, TypeOK, TicketInv, LowerFlag, Go, shared, ghosts
  <2> QED BY <2>1, <2>2, TicketFrame DEF PoolInv, LowerFlag, Go, shared, ghosts
<1>3. WindowInv'
  BY PoolAssumption DEF PoolInv, WindowInv, Parallel, TicketInv, Holders, LowerFlag, Go,
     shared, ghosts, TypeOK, Threads, WorkerPoints, MainPoints, ClaimPoints, Holding,
        Tasks, Plans, Elems
<1>4. RingInv'
  BY PoolAssumption DEF PoolInv, RingInv, Filled, Parallel, Slot, TaskAt, Minimum,
     LowerFlag, Go, shared, ghosts, TypeOK, Threads, WorkerPoints, MainPoints, ClaimPoints,
        Holding, Tasks, Plans, Elems
<1> QED BY <1>1, <1>2, <1>3, <1>4 DEF PoolInv

LEMMA FetchStep ==
    ASSUME PoolInv, NEW t \in Threads, Fetch(t)
    PROVE  PoolInv'
<1>1. TypeOK'
  <2>1. ring[Slot(idx[t], cap)] \in Tasks
    BY SlotType DEF PoolInv, TypeOK
  <2>2. task' \in [Threads -> Tasks]
    BY <2>1 DEF PoolInv, TypeOK, Fetch
  <2>3. pc' \in [Threads -> WorkerPoints \cup MainPoints] /\ pc'[Main] \in MainPoints
        /\ \A x \in Workers : pc'[x] \in WorkerPoints
    BY ThreadsFacts DEF PoolInv, TypeOK, Fetch, Go, WorkerPoints, MainPoints, ClaimPoints,
       Holding
  <2> QED BY <2>2, <2>3 DEF PoolInv, TypeOK, Fetch, shared, ghosts
<1>2. TicketInv'
  <2>1. Holders' = Holders
    BY HoldersFrame, ThreadsFacts DEF PoolInv, Fetch, Holding
  <2>2. \A x \in Threads : pc'[x] = "cas" => cur'[x] < limit
    BY ThreadsFacts DEF PoolInv, TypeOK, TicketInv, Fetch, Go, shared, ghosts
  <2> QED BY <2>1, <2>2, TicketFrame DEF PoolInv, Fetch, Go, shared, ghosts
<1>3. WindowInv'
  BY PoolAssumption DEF PoolInv, WindowInv, Parallel, TicketInv, Holders, Fetch, Go,
     shared, ghosts, TypeOK, Threads, WorkerPoints, MainPoints, ClaimPoints, Holding,
        Tasks, Plans, Elems
<1>4. RingInv'
  <2>1. ring[Slot(idx[t], cap)] = TaskAt(plan, nd, idx[t] - plan.base)
    BY HeldSlot DEF Fetch, Holders, Holding
  <2>2. Filled' = Filled
    BY ThreadsFacts DEF PoolInv, TypeOK, Fetch, Go, Filled, Parallel, ClaimPoints, Holding
  <2>3. pc'[Main] \in {"carve", "fill", "publish"} \cup Parallel => plan'.n <= cap'
    BY ThreadsFacts DEF PoolInv, TypeOK, RingInv, Fetch, Go, shared, Parallel, ClaimPoints,
       Holding
  <2>4. pc'[Main] = "fill" => i' <= plan'.n
    BY ThreadsFacts DEF PoolInv, TypeOK, RingInv, Fetch, Go
  <2>5. \A x \in Threads : pc'[x] = "run" => task'[x] = TaskAt(plan, nd, idx[x] - plan.base)
    BY <2>1 DEF PoolInv, TypeOK, RingInv, Fetch, Go
  <2> QED BY <2>2, <2>3, <2>4, <2>5 DEF PoolInv, RingInv, Fetch, shared
<1> QED BY <1>1, <1>2, <1>3, <1>4 DEF PoolInv

LEMMA RunStep ==
    ASSUME PoolInv, NEW t \in Threads, Run(t)
    PROVE  PoolInv'
<1>1. TypeOK'
  <2>1. hits' \in [Elems -> Nat]
    BY DEF PoolInv, TypeOK, Run
  <2>2. pc' \in [Threads -> WorkerPoints \cup MainPoints] /\ pc'[Main] \in MainPoints
        /\ \A x \in Workers : pc'[x] \in WorkerPoints
    BY ThreadsFacts DEF PoolInv, TypeOK, Run, Go, WorkerPoints, MainPoints, ClaimPoints, Holding
  <2> QED BY <2>1, <2>2 DEF PoolInv, TypeOK, Run, shared
<1>2. TicketInv'
  <2>1. Holders' = Holders
    BY HoldersFrame, ThreadsFacts DEF PoolInv, Run, Holding
  <2>2. \A x \in Threads : pc'[x] = "cas" => cur'[x] < limit
    BY ThreadsFacts DEF PoolInv, TypeOK, TicketInv, Run, Go, shared, ghosts
  <2> QED BY <2>1, <2>2, TicketFrame DEF PoolInv, Run, Go, shared, ghosts
<1>3. WindowInv'
  BY PoolAssumption DEF PoolInv, WindowInv, Parallel, TicketInv, Holders, Run, Go, shared,
     ghosts, TypeOK, Threads, WorkerPoints, MainPoints, ClaimPoints, Holding, Tasks, Plans,
        Elems
<1>4. RingInv'
  BY PoolAssumption DEF PoolInv, RingInv, Filled, Parallel, Slot, TaskAt, Minimum, Run, Go,
     shared, ghosts, TypeOK, Threads, WorkerPoints, MainPoints, ClaimPoints, Holding,
        Tasks, Plans, Elems
<1> QED BY <1>1, <1>2, <1>3, <1>4 DEF PoolInv

LEMMA CasOkStep ==
    ASSUME PoolInv, NEW t \in Threads, CasOk(t)
    PROVE  PoolInv'
<1>1. TypeOK'
  <2>1. claim' \in Nat /\ cur' \in [Threads -> Nat] /\ idx' \in [Threads -> Nat]
    BY DEF PoolInv, TypeOK, CasOk
  <2>2. pc' \in [Threads -> WorkerPoints \cup MainPoints] /\ pc'[Main] \in MainPoints
        /\ \A x \in Workers : pc'[x] \in WorkerPoints
    BY ThreadsFacts DEF PoolInv, TypeOK, CasOk, Go, WorkerPoints, MainPoints, ClaimPoints,
       Holding
  <2> QED BY <2>1, <2>2 DEF PoolInv, TypeOK, CasOk, ghosts
<1>a. /\ claim \in Nat /\ limit \in Nat /\ claim < limit /\ claim' = claim + 1 /\ limit' = limit
      /\ open' = open /\ plan' = plan
  BY DEF PoolInv, TypeOK, TicketInv, CasOk, ghosts
<1>b. pc[Main] \in Parallel
  BY <1>a, ClosedWindow
<1>c. plan.base <= claim /\ plan.base \in Nat
  BY <1>b DEF PoolInv, WindowInv, TypeOK, Plans
<1>2. TicketInv'
  <2>1. Holders' = Holders \cup {t} /\ t \notin Holders
    BY DEF PoolInv, TypeOK, CasOk, Go, Holders, Holding
  <2>2. idx'[t] = claim /\ \A x \in Holders : idx'[x] = idx[x]
    BY <2>1 DEF PoolInv, TypeOK, CasOk, Holders
  <2>3. {idx'[x] : x \in Holders'} = {idx[x] : x \in Holders} \cup {claim}
    BY <2>1, <2>2
  <2>4. claim .. limit - 1 = {claim} \cup (claim' .. limit' - 1)
    BY <1>a
  <2>5. open' = (claim' .. limit' - 1) \cup {idx'[x] : x \in Holders'}
    BY <2>3, <2>4, <1>a DEF PoolInv, TicketInv
  <2>6. \A x \in Holders' : plan'.base <= idx'[x] /\ idx'[x] < claim'
    BY <2>1, <2>2, <1>a, <1>c DEF PoolInv, TicketInv, TypeOK, Holders
  <2>7. \A x, y \in Holders' : idx'[x] = idx'[y] => x = y
    BY <2>1, <2>2, <1>a DEF PoolInv, TicketInv, TypeOK, Holders
  <2>8. \A x \in Threads : pc'[x] = "cas" => cur'[x] < limit'
    BY <1>a DEF PoolInv, TicketInv, TypeOK, CasOk, Go
  <2> QED BY <2>5, <2>6, <2>7, <2>8, <1>a DEF TicketInv
<1>3. WindowInv'
  <2>1. pc'[Main] \in Parallel /\ pc'[Main] # "lower"
    <3>1. claim \in open
      BY <1>a DEF PoolInv, TicketInv
    <3>2. pc[Main] # "lower"
      BY <3>1 DEF PoolInv, WindowInv
    <3> QED BY <3>2, <1>b, ThreadsFacts DEF PoolInv, TypeOK, CasOk, Go, Parallel,
       ClaimPoints, Holding
  <2>2. pending' = pending
    BY DEF CasOk
  <2> QED BY <2>1, <2>2, <1>a, <1>b, <1>c DEF PoolInv, WindowInv, Parallel, ClaimPoints, Holding
<1>4. RingInv'
  <2>1. Filled' = Filled
    BY <1>b, ThreadsFacts DEF PoolInv, TypeOK, CasOk, Go, Filled, Parallel, ClaimPoints, Holding
  <2>2. pc'[Main] \in Parallel /\ pc'[Main] # "fill"
    BY <1>b, ThreadsFacts DEF PoolInv, TypeOK, CasOk, Go, Parallel, ClaimPoints, Holding
  <2>3. \A x \in Threads : pc'[x] = "run" => pc[x] = "run" /\ idx'[x] = idx[x]
    BY DEF PoolInv, TypeOK, CasOk, Go
  <2> QED BY <2>1, <2>2, <2>3, <1>b DEF PoolInv, RingInv, CasOk
<1> QED BY <1>1, <1>2, <1>3, <1>4 DEF PoolInv

LEMMA RetireStep ==
    ASSUME PoolInv, NEW t \in Threads, Retire(t)
    PROVE  PoolInv'
<1>a. t \in Holders
  BY DEF Retire, Holders, Holding
<1>b. pc[Main] \in Parallel
  BY <1>a, ClosedWindow
<1>c. idx[t] \in open /\ IsFiniteSet(open)
  BY <1>a, <1>b, OpenFinite DEF PoolInv, TicketInv
<1>d. /\ pending = Cardinality(open)
      /\ Cardinality(open \ {idx[t]}) = Cardinality(open) - 1
      /\ Cardinality(open \ {idx[t]}) \in Nat
  <2>1. IsFiniteSet(open \ {idx[t]})
    BY <1>c, FS_RemoveElement
  <2> QED BY <1>b, <1>c, <2>1, FS_RemoveElement, FS_CardinalityType DEF PoolInv, WindowInv
<1>e. /\ open' = open \ {idx[t]} /\ pending' = pending - 1
      /\ claim' = claim /\ limit' = limit /\ plan' = plan
  BY DEF Retire
<1>1. TypeOK'
  <2>1. pending' \in Nat /\ open' \in SUBSET Nat
    BY <1>d, <1>e DEF PoolInv, TypeOK
  <2>2. idx' \in [Threads -> Nat]
    BY DEF PoolInv, TypeOK, Retire
  <2>3. task' \in [Threads -> Tasks]
    BY DEF PoolInv, TypeOK, Retire, NoTask, Tasks
  <2>4. pc' \in [Threads -> WorkerPoints \cup MainPoints] /\ pc'[Main] \in MainPoints
        /\ \A x \in Workers : pc'[x] \in WorkerPoints
    BY ThreadsFacts DEF PoolInv, TypeOK, Retire, Go, WorkerPoints, MainPoints, ClaimPoints
  <2> QED BY <2>1, <2>2, <2>3, <2>4 DEF PoolInv, TypeOK, Retire
<1>2. TicketInv'
  <2>1. Holders' = Holders \ {t}
    BY DEF PoolInv, TypeOK, Retire, Go, Holders, Holding
  <2>2. \A x \in Holders' : idx'[x] = idx[x] /\ idx[x] # idx[t] /\ x \in Threads
    BY <2>1, <1>a DEF PoolInv, TypeOK, TicketInv, Retire, Holders
  <2>3. {idx'[x] : x \in Holders'} = {idx[x] : x \in Holders} \ {idx[t]}
    BY <2>1, <2>2
  <2>4. idx[t] \notin claim .. limit - 1
    BY <1>a DEF PoolInv, TypeOK, TicketInv, Holders
  <2>5. open' = (claim' .. limit' - 1) \cup {idx'[x] : x \in Holders'}
    BY <2>3, <2>4, <1>e DEF PoolInv, TicketInv
  <2>6. \A x \in Threads : pc'[x] = "cas" => cur'[x] < limit'
    BY <1>e DEF PoolInv, TicketInv, TypeOK, Retire, Go
  <2> QED BY <2>1, <2>2, <2>5, <2>6, <1>e DEF PoolInv, TicketInv
<1>3. WindowInv'
  <2>1. pc'[Main] \in Parallel /\ pc'[Main] # "lower"
    <3>1. pc[Main] # "lower"
      BY <1>c DEF PoolInv, WindowInv
    <3> QED BY <3>1, <1>b, ThreadsFacts DEF PoolInv, TypeOK, Retire, Go, Parallel,
       ClaimPoints, Holding
  <2> QED BY <2>1, <1>b, <1>d, <1>e DEF PoolInv, WindowInv, Parallel, ClaimPoints, Holding
<1>4. RingInv'
  <2>1. Filled' = Filled
    BY <1>b, ThreadsFacts DEF PoolInv, TypeOK, Retire, Go, Filled, Parallel, ClaimPoints,
       Holding
  <2>2. pc'[Main] \in Parallel /\ pc'[Main] # "fill"
    BY <1>b, ThreadsFacts DEF PoolInv, TypeOK, Retire, Go, Parallel, ClaimPoints, Holding
  <2>3. \A x \in Threads : pc'[x] = "run" => pc[x] = "run" /\ idx'[x] = idx[x] /\ task'[x] = task[x]
    BY DEF PoolInv, TypeOK, Retire, Go
  <2> QED BY <2>1, <2>2, <2>3, <1>b DEF PoolInv, RingInv, Retire
<1> QED BY <1>1, <1>2, <1>3, <1>4 DEF PoolInv

LEMMA CancelStep ==
    ASSUME PoolInv, Cancel
    PROVE  PoolInv'
<1>1. TypeOK'
  BY DEF PoolInv, TypeOK, Cancel, locals, ghosts
<1>2. TicketInv'
  BY DEF PoolInv, TicketInv, Holders, Cancel, locals, ghosts
<1>3. WindowInv'
  BY DEF PoolInv, WindowInv, Cancel, locals, ghosts
<1>4. RingInv'
  BY DEF PoolInv, RingInv, Filled, Cancel, locals, ghosts
<1> QED BY <1>1, <1>2, <1>3, <1>4 DEF PoolInv

LEMMA CancelResetStep ==
    ASSUME PoolInv, CancelReset
    PROVE  PoolInv'
<1>1. TypeOK'
  BY DEF PoolInv, TypeOK, CancelReset, locals, ghosts
<1>2. TicketInv'
  BY DEF PoolInv, TicketInv, Holders, CancelReset, locals, ghosts
<1>3. WindowInv'
  BY DEF PoolInv, WindowInv, CancelReset, locals, ghosts
<1>4. RingInv'
  BY DEF PoolInv, RingInv, Filled, CancelReset, locals, ghosts
<1> QED BY <1>1, <1>2, <1>3, <1>4 DEF PoolInv

LEMMA StutterStep ==
    ASSUME PoolInv, UNCHANGED vars
    PROVE  PoolInv'
<1>1. TypeOK'
  BY DEF PoolInv, TypeOK, vars, shared, locals, ghosts
<1>2. TicketInv'
  BY DEF PoolInv, TicketInv, Holders, vars, shared, locals, ghosts
<1>3. WindowInv'
  BY DEF PoolInv, WindowInv, vars, shared, locals, ghosts
<1>4. RingInv'
  BY DEF PoolInv, RingInv, Filled, vars, shared, locals, ghosts
<1> QED BY <1>1, <1>2, <1>3, <1>4 DEF PoolInv

-----------------------------------------------------------------------------
(* The theorems.                                                           *)

LEMMA InitInv == Init => PoolInv
<1> SUFFICES ASSUME Init PROVE PoolInv
  OBVIOUS
<1>1. TypeOK
  <2>1. NoTask \in Tasks /\ NoPlan \in Plans
    BY DEF NoTask, Tasks, NoPlan, Plans
  <2>2. ring \in [0 .. cap - 1 -> Tasks] /\ task \in [Threads -> Tasks] /\ plan \in Plans
    BY <2>1 DEF Init
  <2>3. /\ pc \in [Threads -> WorkerPoints \cup MainPoints] /\ pc[Main] \in MainPoints
        /\ \A w \in Workers : pc[w] \in WorkerPoints
    BY ThreadsFacts DEF Init, WorkerPoints, MainPoints
  <2>4. cap \in Nat \ {0} /\ hits \in [Elems -> Nat]
    BY PoolAssumption DEF Init
  <2> QED BY <2>2, <2>3, <2>4 DEF Init, TypeOK
<1>2. Holders = {}
  BY DEF Init, Holders, Holding
<1>3. pc[Main] = "spawn"
  BY ThreadsFacts DEF Init
<1>4. TicketInv
  BY <1>2 DEF Init, TicketInv
<1>5. WindowInv
  BY <1>3 DEF Init, WindowInv, Parallel, ClaimPoints, Holding
<1>6. RingInv
  BY <1>3 DEF Init, RingInv, Filled, Parallel, ClaimPoints, Holding
<1> QED BY <1>1, <1>4, <1>5, <1>6 DEF PoolInv

LEMMA NextInv == PoolInv /\ [Next]_vars => PoolInv'
<1> SUFFICES ASSUME PoolInv, [Next]_vars PROVE PoolInv'
  OBVIOUS
<1>1. CASE MainStep
  <2>1. ASSUME NEW total \in Totals, Dispatch(total) PROVE PoolInv'
    <3>1. total \in Nat /\ Grain \in Nat \ {0} /\ CeilDiv(total, Grain) % U32 \in Nat
      BY PoolAssumption, CeilDivType, ModType
    <3> QED BY <2>1, <3>1, BeginDispatchStep DEF Dispatch
  <2>2. ASSUME NEW n \in Counts, DispatchN(n) PROVE PoolInv'
    <3>1. n \in Nat
      BY PoolAssumption
    <3> QED BY <2>2, <3>1, BeginDispatchStep DEF DispatchN
  <2> QED BY <1>1, <2>1, <2>2, SpawnFailStep, SpawnDoneStep, SpawnOkStep, GrowDoubleStep,
          GrowOkStep, GrowNoStep, ClampStep, CarveStep, FillSlotStep, PublishPendingStep,
          PublishLimitStep, RaiseFlagStep, SignalOneStep, SignalDoneStep, BarrierStep,
          LowerFlagStep, FreeStep, StopSignalStep, JoinStep DEF MainStep
<1>2. ASSUME NEW t \in Threads, ClaimStep(t) PROVE PoolInv'
  BY <1>2, LoadClaimStep, LoadLimitStep, CasOkStep, CasFailStep, CheckCancelledStep,
     FetchStep, RunStep, RetireStep DEF ClaimStep
<1>3. ASSUME NEW w \in Workers, WorkerStep(w) PROVE PoolInv'
  BY <1>3, SemWaitStep, CheckShutdownStep DEF WorkerStep
<1>4. CASE Cancel \/ CancelReset
  BY <1>4, CancelStep, CancelResetStep
<1>5. CASE UNCHANGED vars
  BY <1>5, StutterStep
<1> QED BY <1>1, <1>2, <1>3, <1>4, <1>5 DEF Next, Terminated

\* The inductive invariant holds in every state of the pool, for every number
\* of workers, ring size and sequence of dispatches.
THEOREM PoolInvariant == Spec => []PoolInv
BY InitInv, NextInv, PTL DEF Spec

\* Types: in particular pool->pending, an unsigned counter, never wraps below 0.
THEOREM PoolTypes == Spec => []TypeOK
<1>1. PoolInv => TypeOK
  BY DEF PoolInv
<1> QED BY <1>1, PoolInvariant, PTL

\* Whatever surplus signals are left over, main is alone whenever it is outside
\* the window it published: growing and filling the ring and touching worker
\* heaps between dispatches are safe.
THEOREM PoolQuiescent == Spec => []Quiescent
<1>1. PoolInv => Quiescent
  BY ClosedWindow DEF Quiescent
<1> QED BY <1>1, PoolInvariant, PTL

\* No thread of pool.c ever executes a stale, aliased or half-written slot.
THEOREM PoolOwnSlot == Spec => []OwnSlot
<1>1. ASSUME PoolInv, NEW t \in Holders
      PROVE  /\ ring[Slot(idx[t], cap)] = TaskAt(plan, nd, idx[t] - plan.base)
             /\ pc[t] = "run" => task[t] = TaskAt(plan, nd, idx[t] - plan.base)
  BY <1>1, HeldSlot DEF PoolInv, RingInv, Holders
<1>2. PoolInv => OwnSlot
  BY <1>1 DEF OwnSlot
<1> QED BY <1>2, PoolInvariant, PTL

-----------------------------------------------------------------------------
(* Refinement: the pool implements the abstract fork-join.                 *)

\* The part of the state that ForkJoin sees does not change.
Quiet ==
    /\ claim' = claim /\ limit' = limit /\ idx' = idx /\ Holders' = Holders
    /\ pc'[Main] \in Parallel <=> pc[Main] \in Parallel

LEMMA QuietIsStutter ==
    ASSUME Quiet
    PROVE  UNCHANGED FJ!fjvars
<1>1. {idx'[t] : t \in Holders'} = {idx[t] : t \in Holders}
  BY DEF Quiet
<1> QED BY <1>1 DEF Quiet, FJ!fjvars

LEMMA QuietMain ==
    ASSUME PoolInv, MainStep
    PROVE  Quiet \/ PublishLimit \/ LowerFlag
<1>1. CASE SpawnFail
  BY <1>1, HoldersFrame, ThreadsFacts DEF PoolInv, TypeOK, SpawnFail, Go, shared, Quiet, Parallel,
     ClaimPoints, Holding
<1>2. CASE SpawnDone
  BY <1>2, HoldersFrame, ThreadsFacts DEF PoolInv, TypeOK, SpawnDone, Go, shared, Quiet, Parallel,
     ClaimPoints, Holding
<1>3. CASE GrowOk
  BY <1>3, HoldersFrame, ThreadsFacts DEF PoolInv, TypeOK, GrowOk, Go, shared, Quiet, Parallel,
     ClaimPoints, Holding
<1>4. CASE GrowNo
  BY <1>4, HoldersFrame, ThreadsFacts DEF PoolInv, TypeOK, GrowNo, Go, shared, Quiet, Parallel,
     ClaimPoints, Holding
<1>5. CASE Clamp
  BY <1>5, HoldersFrame, ThreadsFacts DEF PoolInv, TypeOK, Clamp, Go, shared, Quiet, Parallel,
     ClaimPoints, Holding
<1>6. CASE Carve
  BY <1>6, HoldersFrame, ThreadsFacts DEF PoolInv, TypeOK, Carve, Go, shared, Quiet, Parallel,
     ClaimPoints, Holding
<1>7. CASE PublishPending
  BY <1>7, HoldersFrame, ThreadsFacts DEF PoolInv, TypeOK, PublishPending, Go, shared, Quiet, Parallel,
     ClaimPoints, Holding
<1>8. CASE RaiseFlag
  BY <1>8, HoldersFrame, ThreadsFacts DEF PoolInv, TypeOK, RaiseFlag, Go, shared, Quiet, Parallel,
     ClaimPoints, Holding
<1>9. CASE SignalDone
  BY <1>9, HoldersFrame, ThreadsFacts DEF PoolInv, TypeOK, SignalDone, Go, shared, Quiet, Parallel,
     ClaimPoints, Holding
<1>10. CASE Barrier
  BY <1>10, HoldersFrame, ThreadsFacts DEF PoolInv, TypeOK, Barrier, Go, shared, Quiet, Parallel,
     ClaimPoints, Holding
<1>11. CASE Free
  BY <1>11, HoldersFrame, ThreadsFacts DEF PoolInv, TypeOK, Free, Go, shared, Quiet, Parallel,
     ClaimPoints, Holding
<1>12. CASE Join
  BY <1>12, HoldersFrame, ThreadsFacts DEF PoolInv, TypeOK, Join, Go, shared, Quiet, Parallel,
     ClaimPoints, Holding
<1>13. CASE GrowDouble
  BY <1>13 DEF GrowDouble, shared, Quiet, Holders
<1>14. CASE FillSlot
  BY <1>14 DEF FillSlot, shared, Quiet, Holders
<1>15. CASE SignalOne
  BY <1>15 DEF SignalOne, shared, Quiet, Holders
<1>16. CASE StopSignal
  BY <1>16 DEF StopSignal, shared, Quiet, Holders
<1>17. ASSUME NEW w \in Workers, SpawnOk(w) PROVE Quiet
  BY <1>17, HoldersFrame, ThreadsFacts DEF PoolInv, TypeOK, SpawnOk, Go, shared, Quiet, Parallel,
     ClaimPoints, Holding
<1>18. ASSUME NEW total \in Totals, Dispatch(total) PROVE Quiet
  <2>1. Holders' = Holders
    BY <1>18, HoldersFrame, ThreadsFacts DEF PoolInv, Dispatch, BeginDispatch, Holding
  <2> QED BY <1>18, <2>1, ThreadsFacts DEF PoolInv, TypeOK, Dispatch, BeginDispatch, Go, shared, Quiet,
          Parallel, ClaimPoints, Holding
<1>19. ASSUME NEW n \in Counts, DispatchN(n) PROVE Quiet
  <2>1. Holders' = Holders
    BY <1>19, HoldersFrame, ThreadsFacts DEF PoolInv, DispatchN, BeginDispatch, Holding
  <2> QED BY <1>19, <2>1, ThreadsFacts DEF PoolInv, TypeOK, DispatchN, BeginDispatch, Go, shared, Quiet,
          Parallel, ClaimPoints, Holding
<1> QED BY <1>1, <1>2, <1>3, <1>4, <1>5, <1>6, <1>7, <1>8, <1>9, <1>10, <1>11, <1>12, <1>13, <1>14,
        <1>15, <1>16, <1>17, <1>18, <1>19 DEF MainStep

LEMMA QuietClaim ==
    ASSUME PoolInv, NEW t \in Threads, ClaimStep(t)
    PROVE  Quiet \/ CasOk(t) \/ Retire(t)
<1>1. CASE LoadClaim(t)
  <2>1. Holders' = Holders
    BY <1>1, HoldersFrame DEF PoolInv, LoadClaim, Holding
  <2> QED BY <1>1, <2>1, ThreadsFacts DEF PoolInv, TypeOK, LoadClaim, Go, shared, Quiet, Parallel,
          ClaimPoints, Holding
<1>2. CASE LoadLimit(t)
  <2>1. Holders' = Holders
    BY <1>2, HoldersFrame DEF PoolInv, LoadLimit, Holding
  <2> QED BY <1>2, <2>1, ThreadsFacts DEF PoolInv, TypeOK, LoadLimit, Go, shared, Quiet, Parallel,
          ClaimPoints, Holding
<1>3. CASE CasFail(t)
  <2>1. Holders' = Holders
    BY <1>3, HoldersFrame DEF PoolInv, CasFail, Holding
  <2> QED BY <1>3, <2>1, ThreadsFacts DEF PoolInv, TypeOK, CasFail, Go, shared, Quiet, Parallel,
          ClaimPoints, Holding
<1>4. CASE CheckCancelled(t)
  <2>1. Holders' = Holders
    BY <1>4, HoldersFrame DEF PoolInv, CheckCancelled, Holding
  <2> QED BY <1>4, <2>1, ThreadsFacts DEF PoolInv, TypeOK, CheckCancelled, Go, shared, Quiet, Parallel,
          ClaimPoints, Holding
<1>5. CASE Fetch(t)
  <2>1. Holders' = Holders
    BY <1>5, HoldersFrame DEF PoolInv, Fetch, Holding
  <2> QED BY <1>5, <2>1, ThreadsFacts DEF PoolInv, TypeOK, Fetch, Go, shared, Quiet, Parallel,
          ClaimPoints, Holding
<1>6. CASE Run(t)
  <2>1. Holders' = Holders
    BY <1>6, HoldersFrame DEF PoolInv, Run, Holding
  <2> QED BY <1>6, <2>1, ThreadsFacts DEF PoolInv, TypeOK, Run, Go, shared, Quiet, Parallel,
          ClaimPoints, Holding
<1> QED BY <1>1, <1>2, <1>3, <1>4, <1>5, <1>6 DEF ClaimStep

LEMMA QuietWorker ==
    ASSUME PoolInv, NEW w \in Workers, WorkerStep(w)
    PROVE  Quiet
<1>1. CASE SemWait(w)
  BY <1>1, HoldersFrame, ThreadsFacts DEF PoolInv, TypeOK, SemWait, Go, Quiet, Holding
<1>2. CASE CheckShutdown(w)
  BY <1>2, HoldersFrame, ThreadsFacts DEF PoolInv, TypeOK, CheckShutdown, Go, shared, Quiet, Holding
<1> QED BY <1>1, <1>2 DEF WorkerStep

LEMMA PublishIsFork ==
    ASSUME PoolInv, PublishLimit
    PROVE  FJ!Fork
<1>1. claim = limit /\ pc[Main] \notin Parallel /\ pc'[Main] \in Parallel
  BY ClosedWindow, ThreadsFacts
     DEF PoolInv, TypeOK, PublishLimit, Go, Parallel, ClaimPoints, Holding
<1>2. Holders' = Holders
  BY HoldersFrame, ThreadsFacts DEF PoolInv, PublishLimit, Holding
<1>3. {idx'[t] : t \in Holders'} = {idx[t] : t \in Holders}
  BY <1>2 DEF PublishLimit
<1>4. limit' >= limit /\ claim' = limit
  BY <1>1 DEF PoolInv, TypeOK, WindowInv, PublishLimit, Plans
<1> QED BY <1>1, <1>3, <1>4 DEF FJ!Fork

LEMMA ClaimIsStart ==
    ASSUME PoolInv, NEW t \in Threads, CasOk(t)
    PROVE  FJ!Start
<1>1. /\ claim \in Nat /\ limit \in Nat /\ claim < limit /\ claim' = claim + 1 /\ limit' = limit
  BY DEF PoolInv, TypeOK, TicketInv, CasOk
<1>2. Holders' = Holders \cup {t} /\ t \notin Holders
  BY DEF PoolInv, TypeOK, CasOk, Go, Holders, Holding
<1>3. idx'[t] = claim /\ \A x \in Holders : idx'[x] = idx[x]
  BY <1>2 DEF PoolInv, TypeOK, CasOk, Holders
<1>4. {idx'[x] : x \in Holders'} = {idx[x] : x \in Holders} \cup {claim}
  BY <1>2, <1>3
<1>5. claim \in claim .. limit - 1 /\ claim' .. limit' - 1 = (claim .. limit - 1) \ {claim}
  BY <1>1
<1>6. pc'[Main] \in Parallel <=> pc[Main] \in Parallel
  BY ThreadsFacts DEF PoolInv, TypeOK, CasOk, Go, Parallel, ClaimPoints, Holding
<1> QED BY <1>1, <1>4, <1>5, <1>6 DEF FJ!Start

LEMMA RetireIsFinish ==
    ASSUME PoolInv, NEW t \in Threads, Retire(t)
    PROVE  FJ!Finish
<1>1. t \in Holders /\ Holders' = Holders \ {t}
  BY DEF PoolInv, TypeOK, Retire, Go, Holders, Holding
<1>2. \A x \in Holders' : idx'[x] = idx[x] /\ idx[x] # idx[t]
  BY <1>1 DEF PoolInv, TypeOK, TicketInv, Retire, Holders
<1>3. {idx'[x] : x \in Holders'} = {idx[x] : x \in Holders} \ {idx[t]}
  BY <1>1, <1>2
<1>4. idx[t] \in {idx[x] : x \in Holders}
  BY <1>1
<1>5. pc'[Main] \in Parallel <=> pc[Main] \in Parallel
  BY ThreadsFacts DEF PoolInv, TypeOK, Retire, Go, Parallel, ClaimPoints, Holding
<1>6. claim' = claim /\ limit' = limit
  BY DEF Retire
<1>7. UNCHANGED <<limit, claim .. limit - 1, pc[Main] \in Parallel>>
  BY <1>5, <1>6
<1> DEFINE held == {idx[x] : x \in Holders}
<1>8. held' = held \ {idx[t]} /\ idx[t] \in held
  BY <1>3, <1>4
<1> HIDE DEF held
<1>9. \E k \in held : held' = held \ {k} /\ UNCHANGED <<limit, claim .. limit - 1, pc[Main] \in Parallel>>
  BY <1>7, <1>8
<1> QED BY <1>9 DEF FJ!Finish, held

LEMMA LowerIsJoin ==
    ASSUME PoolInv, LowerFlag
    PROVE  FJ!JoinAll
<1>1. open = {}
  BY DEF PoolInv, WindowInv, LowerFlag
<1>2. claim .. limit - 1 = {} /\ {idx[t] : t \in Holders} = {}
  BY <1>1 DEF PoolInv, TicketInv
<1>3. Holders' = Holders
  BY HoldersFrame, ThreadsFacts DEF PoolInv, LowerFlag, Holding
<1>4. {idx'[t] : t \in Holders'} = {idx[t] : t \in Holders}
  BY <1>3 DEF LowerFlag
<1>5. pc[Main] \in Parallel /\ pc'[Main] \notin Parallel
  BY ThreadsFacts DEF PoolInv, TypeOK, LowerFlag, Go, Parallel, ClaimPoints, Holding
<1>6. claim' = claim /\ limit' = limit
  BY DEF LowerFlag
<1>7. UNCHANGED <<limit, claim .. limit - 1, {idx[t] : t \in Holders}>>
  BY <1>4, <1>6
<1>8. (pc[Main] \in Parallel)' = FALSE
  BY <1>5
<1> QED BY <1>2, <1>5, <1>7, <1>8 DEF FJ!JoinAll

LEMMA InitForkJoin == Init => FJ!Init
<1> SUFFICES ASSUME Init PROVE FJ!Init
  OBVIOUS
<1>1. Holders = {} /\ claim .. limit - 1 = {} /\ limit = 0
  BY DEF Init, Holders, Holding
<1>2. pc[Main] \notin Parallel
  BY ThreadsFacts DEF Init, Parallel, ClaimPoints, Holding
<1> QED BY <1>1, <1>2 DEF FJ!Init

LEMMA NextForkJoin == PoolInv /\ [Next]_vars => [FJ!Next]_(FJ!fjvars)
<1> SUFFICES ASSUME PoolInv, [Next]_vars PROVE FJ!Next \/ UNCHANGED FJ!fjvars
  OBVIOUS
<1>1. CASE MainStep
  BY <1>1, QuietMain, QuietIsStutter, PublishIsFork, LowerIsJoin DEF FJ!Next
<1>2. ASSUME NEW t \in Threads, ClaimStep(t) PROVE FJ!Next \/ UNCHANGED FJ!fjvars
  BY <1>2, QuietClaim, QuietIsStutter, ClaimIsStart, RetireIsFinish DEF FJ!Next
<1>3. ASSUME NEW w \in Workers, WorkerStep(w) PROVE UNCHANGED FJ!fjvars
  BY <1>3, QuietWorker, QuietIsStutter
<1>4. CASE Cancel \/ CancelReset
  <2>1. Quiet
    BY <1>4 DEF Cancel, CancelReset, locals, Quiet, Holders
  <2> QED BY <2>1, QuietIsStutter
<1>5. CASE UNCHANGED vars
  <2>1. Quiet
    BY <1>5 DEF vars, shared, locals, Quiet, Holders
  <2> QED BY <2>1, QuietIsStutter
<1> QED BY <1>1, <1>2, <1>3, <1>4, <1>5 DEF Next, Terminated

\* pool.c implements ForkJoin: every dispatch issues fresh tickets, each is
\* claimed by one thread and retired once, and ray_pool_dispatch leaves its
\* parallel region only when none is waiting or being executed.
THEOREM PoolForkJoin == Spec => ForkJoinImplemented
BY InitForkJoin, NextForkJoin, PoolInvariant, PTL DEF Spec, ForkJoinImplemented, FJ!Spec

-----------------------------------------------------------------------------
(* Every element is handed out once.                                       *)

\* Tickets of the window whose task has been neither executed nor skipped.
Runners == {t \in Threads : pc[t] \in {"check", "fetch", "run"}}
Unrun   == (claim .. limit - 1) \cup {idx[t] : t \in Runners}

\* Element e belongs to the j-th task of plan p.
Covers(p, j, e) == j * p.grain <= e /\ e < (j + 1) * p.grain /\ e < p.total

\* Control points of main before the window is published.
Before == {"grow", "clamp", "carve", "fill", "publish"}

\* The tasks of a plan cover all its elements, if it is one of those promised.
SizeInv ==
    /\ InitCap <= cap
    /\ plan.grain >= 1 /\ plan.total <= MaxElems
    /\ plan.kind = "n" => plan.n <= plan.total
    /\ pc[Main] \in {"grow", "clamp"} => plan.total >= 1
    /\ Promised => plan.total <= plan.n * plan.grain

\* The elements of the tasks still to be run are untouched; those of the other
\* tasks were processed, unless something was skipped.
HitsInv ==
    /\ pc[Main] \in Before => ~skipped /\ \A e \in Elems : hits[e] = 0
    /\ \A e \in Elems : hits[e] <= 1
    /\ pc[Main] \in Parallel =>
           \A k \in Unrun : \A e \in Elems :
               Covers(plan, k - plan.base, e) => hits[e] = 0
    /\ pc[Main] \notin Before /\ ~skipped =>
           \A j \in 0 .. plan.n - 1 : \A e \in Elems :
               plan.base + j \notin Unrun /\ Covers(plan, j, e) => hits[e] = 1

\* The inductive invariant behind ExactlyOnce.
OnceInv == PoolInv /\ SizeInv /\ HitsInv

LEMMA CoverUnique ==
    ASSUME NEW p \in Plans, p.grain >= 1, NEW j \in Int, NEW k \in Int, NEW e \in Int,
           Covers(p, j, e), Covers(p, k, e)
    PROVE  j = k
<1> DEFINE g == p.grain
<1>1. g \in Nat /\ g >= 1
  BY DEF Plans
<1>2. j * g <= e /\ e < (j + 1) * g /\ k * g <= e /\ e < (k + 1) * g
  BY DEF Covers
<1> HIDE DEF g
<1>3. ASSUME NEW x \in Int, NEW y \in Int, x < y PROVE (x + 1) * g <= y * g
  BY <1>1, <1>3
<1>4. ~(j < k)
  BY <1>1, <1>2, <1>3
<1>5. ~(k < j)
  BY <1>1, <1>2, <1>3
<1> QED BY <1>4, <1>5

\* An element of a plan whose n tasks reach to its end is in one of them.
LEMMA CoverExists ==
    ASSUME NEW p \in Plans, p.grain >= 1, p.total <= p.n * p.grain,
           NEW e \in 0 .. p.total - 1
    PROVE  \E j \in 0 .. p.n - 1 : Covers(p, j, e)
<1> DEFINE g == p.grain
           j == e \div g
<1>1. g \in Nat /\ g >= 1 /\ p.n \in Nat /\ p.total \in Nat /\ e \in Nat /\ e < p.total /\ p.total <= p.n * g
  BY DEF Plans
<1> HIDE DEF g
<1>2. j \in Nat /\ e = g * j + (e % g) /\ e % g \in 0 .. g - 1
  BY <1>1
<1>3. j * g <= e /\ e < (j + 1) * g
  BY <1>1, <1>2
<1>4. j < p.n
  <2>1. SUFFICES ASSUME p.n <= j PROVE FALSE
    BY <1>1, <1>2
  <2>2. p.n * g <= j * g
    BY <2>1, <1>1, <1>2
  <2> QED BY <1>1, <1>2, <1>3, <2>2
<1>5. Covers(p, j, e)
  BY <1>1, <1>3 DEF Covers, g
<1> QED BY <1>1, <1>2, <1>4, <1>5

\* CeilDiv pieces of size b reach to the end of a.
LEMMA CeilDivCovers ==
    ASSUME NEW a \in Nat, NEW b \in Nat \ {0}
    PROVE  /\ a <= CeilDiv(a, b) * b /\ a <= b * CeilDiv(a, b)
           /\ a >= 1 => CeilDiv(a, b) >= 1
<1> DEFINE q == (a + b - 1) \div b
<1>1. q \in Nat /\ a + b - 1 = b * q + ((a + b - 1) % b) /\ (a + b - 1) % b \in 0 .. b - 1
  OBVIOUS
<1>2. a <= b * q
  BY <1>1
<1>3. b * q = q * b
  BY <1>1
<1>4. a >= 1 => q >= 1
  BY <1>1, <1>2
<1> QED BY <1>2, <1>3, <1>4 DEF CeilDiv

\* A step that does not touch what OnceInv talks about.
Steady ==
    /\ Unrun' = Unrun /\ hits' = hits /\ skipped' = skipped
    /\ cap' = cap /\ plan' = plan
    /\ pc'[Main] \in Before <=> pc[Main] \in Before
    /\ pc'[Main] \in Parallel => pc[Main] \in Parallel
    /\ pc'[Main] \in {"grow", "clamp"} => pc[Main] \in {"grow", "clamp"}

LEMMA SteadyKeeps ==
    ASSUME SizeInv, HitsInv, Steady
    PROVE  SizeInv' /\ HitsInv'
<1>1. SizeInv'
  BY DEF SizeInv, Steady, Promised
<1>2. HitsInv'
  BY DEF HitsInv, Steady, Covers
<1> QED BY <1>1, <1>2

LEMMA UnrunFrame ==
    ASSUME Runners' = Runners, idx' = idx, claim' = claim, limit' = limit
    PROVE  Unrun' = Unrun
BY DEF Unrun

\* A step that moves one thread, neither into nor out of Runners.
LEMMA RunnersFrame ==
    ASSUME TypeOK, NEW t \in Threads, NEW p, Go(t, p),
           pc[t] \in {"check", "fetch", "run"} <=> p \in {"check", "fetch", "run"}
    PROVE  Runners' = Runners
BY DEF TypeOK, Go, Runners

LEMMA SteadyMain ==
    ASSUME PoolInv,
           \/ SpawnFail \/ SpawnDone \/ GrowNo \/ FillSlot \/ PublishPending
           \/ RaiseFlag \/ SignalOne \/ SignalDone \/ Barrier \/ LowerFlag
           \/ Free \/ StopSignal \/ Join
    PROVE  Steady
<1>1. CASE SpawnFail
  <2>1. Runners' = Runners
    BY <1>1, ThreadsFacts DEF PoolInv, TypeOK, SpawnFail, Go, Runners
  <2>2. Unrun' = Unrun
    BY <1>1, <2>1, UnrunFrame DEF SpawnFail, shared
  <2> QED BY <1>1, <2>2, ThreadsFacts DEF PoolInv, TypeOK, SpawnFail, Go, shared, ghosts, Steady, Before, Parallel, ClaimPoints, Holding
<1>2. CASE SpawnDone
  <2>1. Runners' = Runners
    BY <1>2, ThreadsFacts DEF PoolInv, TypeOK, SpawnDone, Go, Runners
  <2>2. Unrun' = Unrun
    BY <1>2, <2>1, UnrunFrame DEF SpawnDone, shared
  <2> QED BY <1>2, <2>2, ThreadsFacts DEF PoolInv, TypeOK, SpawnDone, Go, shared, ghosts, Steady, Before, Parallel, ClaimPoints, Holding
<1>3. CASE GrowNo
  <2>1. Runners' = Runners
    BY <1>3, ThreadsFacts DEF PoolInv, TypeOK, GrowNo, Go, Runners
  <2>2. Unrun' = Unrun
    BY <1>3, <2>1, UnrunFrame DEF GrowNo, shared
  <2> QED BY <1>3, <2>2, ThreadsFacts DEF PoolInv, TypeOK, GrowNo, Go, shared, ghosts, Steady, Before, Parallel, ClaimPoints, Holding
<1>4. CASE FillSlot
  <2>1. Runners' = Runners
    BY <1>4, ThreadsFacts DEF PoolInv, TypeOK, FillSlot, Go, Runners
  <2>2. Unrun' = Unrun
    BY <1>4, <2>1, UnrunFrame DEF FillSlot, shared
  <2> QED BY <1>4, <2>2, ThreadsFacts DEF PoolInv, TypeOK, FillSlot, Go, shared, ghosts, Steady, Before, Parallel, ClaimPoints, Holding
<1>5. CASE PublishPending
  <2>1. Runners' = Runners
    BY <1>5, ThreadsFacts DEF PoolInv, TypeOK, PublishPending, Go, Runners
  <2>2. Unrun' = Unrun
    BY <1>5, <2>1, UnrunFrame DEF PublishPending, shared
  <2> QED BY <1>5, <2>2, ThreadsFacts DEF PoolInv, TypeOK, PublishPending, Go, shared, ghosts, Steady, Before, Parallel, ClaimPoints, Holding
<1>6. CASE RaiseFlag
  <2>1. Runners' = Runners
    BY <1>6, ThreadsFacts DEF PoolInv, TypeOK, RaiseFlag, Go, Runners
  <2>2. Unrun' = Unrun
    BY <1>6, <2>1, UnrunFrame DEF RaiseFlag, shared
  <2> QED BY <1>6, <2>2, ThreadsFacts DEF PoolInv, TypeOK, RaiseFlag, Go, shared, ghosts, Steady, Before, Parallel, ClaimPoints, Holding
<1>7. CASE SignalOne
  <2>1. Runners' = Runners
    BY <1>7, ThreadsFacts DEF PoolInv, TypeOK, SignalOne, Go, Runners
  <2>2. Unrun' = Unrun
    BY <1>7, <2>1, UnrunFrame DEF SignalOne, shared
  <2> QED BY <1>7, <2>2, ThreadsFacts DEF PoolInv, TypeOK, SignalOne, Go, shared, ghosts, Steady, Before, Parallel, ClaimPoints, Holding
<1>8. CASE SignalDone
  <2>1. Runners' = Runners
    BY <1>8, ThreadsFacts DEF PoolInv, TypeOK, SignalDone, Go, Runners
  <2>2. Unrun' = Unrun
    BY <1>8, <2>1, UnrunFrame DEF SignalDone, shared
  <2> QED BY <1>8, <2>2, ThreadsFacts DEF PoolInv, TypeOK, SignalDone, Go, shared, ghosts, Steady, Before, Parallel, ClaimPoints, Holding
<1>9. CASE Barrier
  <2>1. Runners' = Runners
    BY <1>9, ThreadsFacts DEF PoolInv, TypeOK, Barrier, Go, Runners
  <2>2. Unrun' = Unrun
    BY <1>9, <2>1, UnrunFrame DEF Barrier, shared
  <2> QED BY <1>9, <2>2, ThreadsFacts DEF PoolInv, TypeOK, Barrier, Go, shared, ghosts, Steady, Before, Parallel, ClaimPoints, Holding
<1>10. CASE LowerFlag
  <2>1. Runners' = Runners
    BY <1>10, ThreadsFacts DEF PoolInv, TypeOK, LowerFlag, Go, Runners
  <2>2. Unrun' = Unrun
    BY <1>10, <2>1, UnrunFrame DEF LowerFlag, shared
  <2> QED BY <1>10, <2>2, ThreadsFacts DEF PoolInv, TypeOK, LowerFlag, Go, shared, ghosts, Steady, Before, Parallel, ClaimPoints, Holding
<1>11. CASE Free
  <2>1. Runners' = Runners
    BY <1>11, ThreadsFacts DEF PoolInv, TypeOK, Free, Go, Runners
  <2>2. Unrun' = Unrun
    BY <1>11, <2>1, UnrunFrame DEF Free, shared
  <2> QED BY <1>11, <2>2, ThreadsFacts DEF PoolInv, TypeOK, Free, Go, shared, ghosts, Steady, Before, Parallel, ClaimPoints, Holding
<1>12. CASE StopSignal
  <2>1. Runners' = Runners
    BY <1>12, ThreadsFacts DEF PoolInv, TypeOK, StopSignal, Go, Runners
  <2>2. Unrun' = Unrun
    BY <1>12, <2>1, UnrunFrame DEF StopSignal, shared
  <2> QED BY <1>12, <2>2, ThreadsFacts DEF PoolInv, TypeOK, StopSignal, Go, shared, ghosts, Steady, Before, Parallel, ClaimPoints, Holding
<1>13. CASE Join
  <2>1. Runners' = Runners
    BY <1>13, ThreadsFacts DEF PoolInv, TypeOK, Join, Go, Runners
  <2>2. Unrun' = Unrun
    BY <1>13, <2>1, UnrunFrame DEF Join, shared
  <2> QED BY <1>13, <2>2, ThreadsFacts DEF PoolInv, TypeOK, Join, Go, shared, ghosts, Steady, Before, Parallel, ClaimPoints, Holding
<1> QED BY <1>1, <1>2, <1>3, <1>4, <1>5, <1>6, <1>7, <1>8, <1>9, <1>10, <1>11, <1>12, <1>13

LEMMA SteadyThread ==
    ASSUME PoolInv, NEW t \in Threads,
           \/ LoadClaim(t) \/ LoadLimit(t) \/ CasFail(t) \/ Fetch(t)
    PROVE  Steady
<1>1. CASE LoadClaim(t)
  <2>1. Runners' = Runners
    BY <1>1 DEF PoolInv, TypeOK, LoadClaim, Go, Runners
  <2>2. Unrun' = Unrun
    BY <1>1, <2>1, UnrunFrame DEF LoadClaim, shared
  <2> QED BY <1>1, <2>2, ThreadsFacts DEF PoolInv, TypeOK, LoadClaim, Go, shared, ghosts, Steady, Before, Parallel, ClaimPoints, Holding
<1>2. CASE LoadLimit(t)
  <2>1. Runners' = Runners
    BY <1>2 DEF PoolInv, TypeOK, LoadLimit, Go, Runners
  <2>2. Unrun' = Unrun
    BY <1>2, <2>1, UnrunFrame DEF LoadLimit, shared
  <2> QED BY <1>2, <2>2, ThreadsFacts DEF PoolInv, TypeOK, LoadLimit, Go, shared, ghosts, Steady, Before, Parallel, ClaimPoints, Holding
<1>3. CASE CasFail(t)
  <2>1. Runners' = Runners
    BY <1>3 DEF PoolInv, TypeOK, CasFail, Go, Runners
  <2>2. Unrun' = Unrun
    BY <1>3, <2>1, UnrunFrame DEF CasFail, shared
  <2> QED BY <1>3, <2>2, ThreadsFacts DEF PoolInv, TypeOK, CasFail, Go, shared, ghosts, Steady, Before, Parallel, ClaimPoints, Holding
<1>4. CASE Fetch(t)
  <2>1. Runners' = Runners
    BY <1>4 DEF PoolInv, TypeOK, Fetch, Go, Runners
  <2>2. Unrun' = Unrun
    BY <1>4, <2>1, UnrunFrame DEF Fetch, shared
  <2> QED BY <1>4, <2>2, ThreadsFacts DEF PoolInv, TypeOK, Fetch, Go, shared, ghosts, Steady, Before, Parallel, ClaimPoints, Holding
<1> QED BY <1>1, <1>2, <1>3, <1>4

LEMMA SteadyWorker ==
    ASSUME PoolInv, NEW w \in Workers, SpawnOk(w) \/ SemWait(w) \/ CheckShutdown(w)
    PROVE  Steady
<1>1. CASE SpawnOk(w)
  <2>1. Runners' = Runners
    BY <1>1, ThreadsFacts DEF PoolInv, TypeOK, SpawnOk, Go, Runners
  <2>2. Unrun' = Unrun
    BY <1>1, <2>1, UnrunFrame DEF SpawnOk, shared
  <2> QED BY <1>1, <2>2, ThreadsFacts DEF PoolInv, TypeOK, SpawnOk, Go, shared, ghosts, Steady
<1>2. CASE SemWait(w)
  <2>1. Runners' = Runners
    BY <1>2, ThreadsFacts DEF PoolInv, TypeOK, SemWait, Go, Runners
  <2>2. Unrun' = Unrun
    BY <1>2, <2>1, UnrunFrame DEF SemWait, shared
  <2> QED BY <1>2, <2>2, ThreadsFacts DEF PoolInv, TypeOK, SemWait, Go, shared, ghosts, Steady
<1>3. CASE CheckShutdown(w)
  <2>1. Runners' = Runners
    BY <1>3, ThreadsFacts DEF PoolInv, TypeOK, CheckShutdown, Go, Runners
  <2>2. Unrun' = Unrun
    BY <1>3, <2>1, UnrunFrame DEF CheckShutdown, shared
  <2> QED BY <1>3, <2>2, ThreadsFacts DEF PoolInv, TypeOK, CheckShutdown, Go, shared, ghosts, Steady
<1> QED BY <1>1, <1>2, <1>3

LEMMA SteadyElse ==
    ASSUME Cancel \/ CancelReset \/ UNCHANGED vars
    PROVE  Steady
<1>1. Runners' = Runners
  BY DEF Cancel, CancelReset, vars, locals, Runners
<1>2. Unrun' = Unrun
  BY <1>1, UnrunFrame DEF Cancel, CancelReset, vars, shared, locals
<1> QED BY <1>2 DEF Cancel, CancelReset, vars, shared, locals, ghosts, Steady

\* The ticket moves from the cursor to the thread that claimed it.
LEMMA SteadyCas ==
    ASSUME PoolInv, NEW t \in Threads, CasOk(t)
    PROVE  Steady
<1>1. Runners' = Runners \cup {t}
  BY DEF PoolInv, TypeOK, CasOk, Go, Runners
<1>2. /\ claim \in Nat /\ limit \in Nat /\ claim < limit /\ claim' = claim + 1
      /\ limit' = limit /\ idx' = [idx EXCEPT ![t] = claim] /\ t \notin Runners
  BY DEF PoolInv, TypeOK, TicketInv, CasOk, Runners
<1>3. claim .. limit - 1 = {claim} \cup (claim' .. limit' - 1)
  BY <1>2
<1>4. {idx'[s] : s \in Runners'} = {idx[s] : s \in Runners} \cup {claim}
  BY <1>1, <1>2 DEF PoolInv, TypeOK, Runners
<1>5. Unrun' = Unrun
  BY <1>3, <1>4 DEF Unrun
<1> QED BY <1>5, ThreadsFacts DEF PoolInv, TypeOK, CasOk, Go, ghosts, Steady, Before, Parallel, ClaimPoints, Holding

\* A retired ticket was run or skipped before.
LEMMA SteadyRetire ==
    ASSUME PoolInv, NEW t \in Threads, Retire(t)
    PROVE  Steady
<1>1. Runners' = Runners /\ t \notin Runners
  BY DEF PoolInv, TypeOK, Retire, Go, Runners
<1>2. {idx'[s] : s \in Runners'} = {idx[s] : s \in Runners}
  BY <1>1 DEF PoolInv, TypeOK, Retire, Runners
<1>3. Unrun' = Unrun
  BY <1>2 DEF Unrun, Retire
<1> QED BY <1>3, ThreadsFacts DEF PoolInv, TypeOK, Retire, Go, Steady, Before, Parallel, ClaimPoints, Holding

LEMMA OnceBegin ==
    ASSUME OnceInv, NEW kind \in {"elems", "n"}, NEW total \in 1 .. MaxElems, NEW n \in Nat,
           NEW grain \in Nat \ {0}, BeginDispatch(kind, total, n, grain),
           kind = "n" => n <= total,
           \/ kind = "elems" /\ CeilDiv(total, Grain) < U32
           \/ kind = "n" /\ total <= InitCap
           => total <= n * grain
    PROVE  SizeInv' /\ HitsInv'
<1>1. /\ plan'.kind = kind /\ plan'.total = total /\ plan'.n = n /\ plan'.grain = grain
      /\ cap' = cap
  BY DEF BeginDispatch, shared
<1>2. pc'[Main] \in Before /\ pc'[Main] \notin Parallel
  BY ThreadsFacts DEF OnceInv, PoolInv, TypeOK, BeginDispatch, Go, Before, Parallel,
     ClaimPoints, Holding
<1>3. SizeInv'
  BY <1>1, PoolAssumption DEF OnceInv, SizeInv, Promised
<1>4. HitsInv'
  BY <1>2 DEF BeginDispatch, HitsInv
<1> QED BY <1>3, <1>4

LEMMA OnceGrowDouble ==
    ASSUME OnceInv, GrowDouble
    PROVE  SizeInv' /\ HitsInv'
<1>1. /\ plan'.kind = plan.kind /\ plan'.total = plan.total /\ plan'.n = plan.n
      /\ plan'.grain = plan.grain /\ cap' = cap /\ pc' = pc /\ hits' = hits
      /\ skipped' = skipped
  BY DEF OnceInv, PoolInv, TypeOK, Plans, GrowDouble, shared, ghosts
<1>2. pc'[Main] \in Before /\ pc'[Main] \notin Parallel
  BY <1>1 DEF GrowDouble, Before, Parallel, ClaimPoints, Holding
<1>3. SizeInv'
  BY <1>1 DEF OnceInv, SizeInv, Promised
<1>4. HitsInv'
  BY <1>1, <1>2 DEF OnceInv, HitsInv
<1> QED BY <1>3, <1>4

LEMMA OnceGrowOk ==
    ASSUME OnceInv, GrowOk
    PROVE  SizeInv' /\ HitsInv'
<1>1. /\ plan' = plan /\ cap' > cap /\ hits' = hits /\ skipped' = skipped
      /\ cap \in Nat /\ cap' \in Nat /\ pc[Main] = "grow" /\ pc'[Main] = "clamp"
  BY ThreadsFacts DEF OnceInv, PoolInv, TypeOK, Plans, GrowOk, Go, ghosts
<1>2. pc'[Main] \in Before /\ pc'[Main] \notin Parallel /\ pc[Main] \in Before
  BY <1>1 DEF Before, Parallel, ClaimPoints, Holding
<1>3. SizeInv'
  BY <1>1, PoolAssumption DEF OnceInv, SizeInv, Promised
<1>4. HitsInv'
  BY <1>1, <1>2 DEF OnceInv, HitsInv
<1> QED BY <1>3, <1>4

\* The clamp re-derives the grain, so that fewer tasks still reach to the end.
LEMMA OnceClamp ==
    ASSUME OnceInv, Clamp
    PROVE  SizeInv' /\ HitsInv'
<1>1. /\ cap' = cap /\ hits' = hits /\ skipped' = skipped
      /\ pc[Main] = "clamp" /\ pc'[Main] = "carve"
  BY ThreadsFacts DEF OnceInv, PoolInv, TypeOK, Clamp, Go, shared, ghosts
<1>2. pc'[Main] \in Before /\ pc'[Main] \notin Parallel /\ pc[Main] \in Before
  BY <1>1 DEF Before, Parallel, ClaimPoints, Holding
<1>3. SizeInv'
  <2>1. CASE plan.n <= cap
    BY <1>1, <2>1 DEF OnceInv, SizeInv, Promised, Clamp
  <2>2. CASE plan.n > cap /\ plan.kind = "elems"
    <3>1. /\ plan.total \in Nat /\ cap \in Nat \ {0} /\ plan.total >= 1
      BY <1>1 DEF OnceInv, PoolInv, TypeOK, Plans, SizeInv
    <3>2. plan' = [plan EXCEPT !.n = cap, !.grain = CeilDiv(plan.total, cap)]
      BY <2>2, <3>1 DEF OnceInv, PoolInv, TypeOK, Plans, Clamp
    <3>3. /\ plan'.kind = "elems" /\ plan'.total = plan.total /\ plan'.n = cap
          /\ plan'.grain = CeilDiv(plan.total, cap)
      BY <2>2, <3>2 DEF OnceInv, PoolInv, TypeOK, Plans
    <3>4. plan'.grain >= 1 /\ plan'.total <= plan'.n * plan'.grain
      BY <3>1, <3>3, CeilDivCovers
    <3> QED BY <1>1, <3>3, <3>4 DEF OnceInv, SizeInv, Promised
  <2>3. CASE plan.n > cap /\ plan.kind = "n"
    <3>1. plan' = [plan EXCEPT !.n = cap] /\ cap \in Nat /\ plan.n \in Nat /\ plan.total \in Nat
      BY <2>3 DEF OnceInv, PoolInv, TypeOK, Plans, Clamp
    <3>2. /\ plan'.kind = "n" /\ plan'.total = plan.total /\ plan'.n = cap
          /\ plan'.grain = plan.grain
      BY <2>3, <3>1 DEF OnceInv, PoolInv, TypeOK, Plans
    <3>3. plan.total > InitCap /\ plan'.n <= plan'.total
      BY <2>3, <3>1, <3>2, PoolAssumption DEF OnceInv, SizeInv
    <3>4. ~Promised'
      <4>1. plan'.total > InitCap /\ plan'.total \in Nat /\ InitCap \in Nat
        BY <3>1, <3>2, <3>3, PoolAssumption
      <4>2. ~(plan'.total <= InitCap)
        BY <4>1
      <4> QED BY <3>2, <4>2 DEF Promised
    <3> QED BY <1>1, <3>2, <3>3, <3>4 DEF OnceInv, SizeInv
  <2> QED BY <2>1, <2>2, <2>3 DEF OnceInv, PoolInv, TypeOK, Plans
<1>4. HitsInv'
  BY <1>1, <1>2 DEF OnceInv, HitsInv
<1> QED BY <1>3, <1>4

LEMMA OnceCarve ==
    ASSUME OnceInv, Carve
    PROVE  SizeInv' /\ HitsInv'
<1>1. /\ plan'.kind = plan.kind /\ plan'.total = plan.total /\ plan'.n = plan.n
      /\ plan'.grain = plan.grain /\ cap' = cap /\ hits' = hits
      /\ skipped' = skipped /\ pc[Main] = "carve" /\ pc'[Main] = "fill"
  BY ThreadsFacts DEF OnceInv, PoolInv, TypeOK, Plans, Carve, Go, shared, ghosts
<1>2. pc'[Main] \in Before /\ pc'[Main] \notin Parallel /\ pc[Main] \in Before
  BY <1>1 DEF Before, Parallel, ClaimPoints, Holding
<1>3. SizeInv'
  BY <1>1 DEF OnceInv, SizeInv, Promised
<1>4. HitsInv'
  BY <1>1, <1>2 DEF OnceInv, HitsInv
<1> QED BY <1>3, <1>4

\* The whole window is still to be run when it is published.
LEMMA OncePublish ==
    ASSUME OnceInv, PublishLimit
    PROVE  SizeInv' /\ HitsInv'
<1>1. /\ plan' = plan /\ cap' = cap /\ hits' = hits /\ skipped' = skipped
      /\ claim' = claim /\ limit' = plan.base + plan.n
      /\ pc[Main] = "publish" /\ pc'[Main] = "flag"
  BY ThreadsFacts DEF OnceInv, PoolInv, TypeOK, PublishLimit, Go
<1>2. pc'[Main] \notin Before /\ pc[Main] \in Before /\ pc[Main] \notin Parallel
  BY <1>1 DEF Before, Parallel, ClaimPoints, Holding
<1>3. SizeInv'
  BY <1>1 DEF OnceInv, SizeInv, Promised
<1>4. claim = limit /\ plan.base = limit /\ limit \in Nat /\ plan.n \in Nat
  BY <1>1, <1>2, ClosedWindow DEF OnceInv, PoolInv, TypeOK, Plans, WindowInv
<1>5. \A j \in 0 .. plan.n - 1 : plan.base + j \in Unrun'
  BY <1>1, <1>4 DEF Unrun
<1>6. HitsInv'
  BY <1>1, <1>2, <1>5 DEF OnceInv, HitsInv
<1> QED BY <1>3, <1>6

LEMMA OnceCheck ==
    ASSUME OnceInv, NEW t \in Threads, CheckCancelled(t)
    PROVE  SizeInv' /\ HitsInv'
<1>1. /\ plan' = plan /\ cap' = cap /\ hits' = hits /\ claim' = claim /\ limit' = limit
      /\ idx' = idx /\ skipped' = (skipped \/ cancelled)
  BY DEF CheckCancelled, shared
<1>2. /\ pc'[Main] \in Before <=> pc[Main] \in Before
      /\ pc'[Main] \in Parallel => pc[Main] \in Parallel
      /\ pc'[Main] \notin {"grow", "clamp"} \/ pc'[Main] = pc[Main]
  BY ThreadsFacts DEF OnceInv, PoolInv, TypeOK, CheckCancelled, Go, Before, Parallel,
     ClaimPoints, Holding
<1>3. SizeInv'
  BY <1>1, <1>2 DEF OnceInv, SizeInv, Promised
<1>4. Runners' \subseteq Runners /\ (~cancelled => Runners' = Runners)
  BY DEF OnceInv, PoolInv, TypeOK, CheckCancelled, Go, Runners
<1>5. Unrun' \subseteq Unrun /\ (~cancelled => Unrun' = Unrun)
  BY <1>1, <1>4 DEF Unrun
<1>6. pc[Main] \in Parallel
  BY ClosedWindow DEF OnceInv, CheckCancelled, Holders, Holding
<1>7. pc[Main] \notin Before
  BY <1>6 DEF Before, Parallel, ClaimPoints, Holding
<1>8. skipped' \/ (~skipped /\ Unrun' = Unrun)
  BY <1>1, <1>5
<1>9. HitsInv'
  BY <1>1, <1>2, <1>5, <1>6, <1>7, <1>8 DEF OnceInv, HitsInv
<1> QED BY <1>3, <1>9

\* The task a thread runs is the one of its ticket, which no other thread holds
\* and whose elements are untouched.
LEMMA OnceRun ==
    ASSUME OnceInv, NEW t \in Threads, Run(t)
    PROVE  SizeInv' /\ HitsInv'
<1> DEFINE k == idx[t]
           mine == k - plan.base
<1>1. /\ plan' = plan /\ cap' = cap /\ skipped' = skipped /\ claim' = claim
      /\ limit' = limit /\ idx' = idx
  BY DEF Run, shared
<1>2. /\ pc'[Main] \in Before <=> pc[Main] \in Before
      /\ pc'[Main] \in Parallel => pc[Main] \in Parallel
      /\ pc'[Main] \notin {"grow", "clamp"} \/ pc'[Main] = pc[Main]
  BY ThreadsFacts DEF OnceInv, PoolInv, TypeOK, Run, Go, Before, Parallel,
     ClaimPoints, Holding
<1>3. SizeInv'
  BY <1>1, <1>2 DEF OnceInv, SizeInv, Promised
<1>4. t \in Holders /\ t \in Runners /\ pc[t] = "run"
  BY DEF Run, Holders, Holding, Runners
<1>5. pc[Main] \in Parallel
  BY <1>4, ClosedWindow DEF OnceInv
<1>6. pc[Main] \notin Before
  BY <1>5 DEF Before, Parallel, ClaimPoints, Holding
<1>7. /\ plan \in Plans /\ plan.grain >= 1 /\ plan.base \in Nat /\ plan.n \in Nat
      /\ plan.grain \in Nat /\ plan.total \in Nat
      /\ k \in Nat /\ k < claim /\ claim \in Nat /\ limit \in Nat /\ mine \in Int
  BY <1>4 DEF OnceInv, PoolInv, TypeOK, TicketInv, Plans, SizeInv
<1>8. task[t] = TaskAt(plan, nd, mine)
  BY <1>4 DEF OnceInv, PoolInv, RingInv
<1>9. \A e \in Elems : (task[t].start <= e /\ e < task[t].end) <=> Covers(plan, mine, e)
  <2> TAKE e \in Elems
  <2>1. task[t].start = mine * plan.grain
    BY <1>8 DEF TaskAt
  <2>2. task[t].end = Minimum((mine + 1) * plan.grain, plan.total)
    BY <1>8 DEF TaskAt
  <2>3. e \in Int /\ mine * plan.grain \in Int /\ (mine + 1) * plan.grain \in Int
    BY <1>7 DEF Elems
  <2> HIDE DEF mine
  <2> QED BY <1>7, <2>1, <2>2, <2>3 DEF Minimum, Covers
<1>10. \A e \in Elems : hits[e] \in Nat
                        /\ hits'[e] = IF Covers(plan, mine, e) THEN hits[e] + 1 ELSE hits[e]
  BY <1>9 DEF Run, OnceInv, PoolInv, TypeOK
<1>11. k \in Unrun
  BY <1>4 DEF Unrun
<1>12. Unrun' = Unrun \ {k}
  <2>1. Runners' = Runners \ {t}
    BY DEF OnceInv, PoolInv, TypeOK, Run, Go, Runners
  <2>2. \A s \in Runners : s # t => idx[s] # k
    BY <1>4 DEF OnceInv, PoolInv, TicketInv, Runners, Holders, Holding
  <2>3. k \notin claim .. limit - 1
    BY <1>7
  <2> QED BY <1>1, <1>4, <2>1, <2>2, <2>3 DEF Unrun
<1>13. \A e \in Elems : Covers(plan, mine, e) => hits[e] = 0
  BY <1>5, <1>11 DEF OnceInv, HitsInv
<1>14. \A j \in Int : \A e \in Elems :
          Covers(plan, j, e) /\ Covers(plan, mine, e) => j = mine
  BY <1>7, CoverUnique DEF Elems
<1>15. Unrun \subseteq Int
  BY <1>7 DEF Unrun, OnceInv, PoolInv, TypeOK, Runners
<1> HIDE DEF k, mine
<1>16. \A e \in Elems : hits'[e] <= 1
  BY <1>10, <1>13 DEF OnceInv, HitsInv
<1>17. \A u \in Unrun' : \A e \in Elems : Covers(plan, u - plan.base, e) => hits'[e] = 0
  <2> SUFFICES ASSUME NEW u \in Unrun', NEW e \in Elems, Covers(plan, u - plan.base, e)
               PROVE  hits'[e] = 0
    OBVIOUS
  <2>1. u \in Unrun /\ u # k /\ u \in Int
    BY <1>12, <1>15
  <2>2. hits[e] = 0
    BY <1>5, <2>1 DEF OnceInv, HitsInv
  <2>3. u - plan.base # mine /\ u - plan.base \in Int
    BY <2>1, <1>7 DEF mine
  <2>4. ~Covers(plan, mine, e)
    BY <2>3, <1>14
  <2> QED BY <1>10, <2>2, <2>4
<1>18. ASSUME ~skipped, NEW j \in 0 .. plan.n - 1, NEW e \in Elems,
              plan.base + j \notin Unrun', Covers(plan, j, e)
       PROVE  hits'[e] = 1
  <2>1. CASE plan.base + j = k
    <3>1. j = mine
      BY <1>7, <2>1 DEF mine
    <3> QED BY <3>1, <1>18, <1>10, <1>13
  <2>2. CASE plan.base + j # k
    <3>1. hits[e] = 1
      BY <1>6, <1>12, <1>18, <2>2 DEF OnceInv, HitsInv
    <3> QED BY <3>1, <1>10, <1>13
  <2> QED BY <2>1, <2>2
<1>19. HitsInv'
  BY <1>1, <1>2, <1>5, <1>6, <1>16, <1>17, <1>18 DEF HitsInv, Covers
<1> QED BY <1>3, <1>19

LEMMA OnceInit == Init => SizeInv /\ HitsInv
<1> SUFFICES ASSUME Init PROVE SizeInv /\ HitsInv
  OBVIOUS
<1>1. pc[Main] = "spawn"
  BY ThreadsFacts DEF Init
<1>2. SizeInv
  BY <1>1, PoolAssumption DEF Init, SizeInv, NoPlan, Promised
<1>3. HitsInv
  BY <1>1 DEF Init, HitsInv, NoPlan, Before, Parallel, ClaimPoints, Holding
<1> QED BY <1>2, <1>3

LEMMA OnceNext == OnceInv /\ [Next]_vars => OnceInv'
<1> SUFFICES ASSUME OnceInv, [Next]_vars PROVE SizeInv' /\ HitsInv'
  BY NextInv DEF OnceInv
<1>1. CASE MainStep
  <2>1. ASSUME NEW total \in Totals, Dispatch(total) PROVE SizeInv' /\ HitsInv'
    <3> DEFINE n == CeilDiv(total, Grain) % U32
    <3>1. total \in 1 .. MaxElems /\ Grain \in Nat \ {0} /\ n \in Nat
      BY PoolAssumption, CeilDivType, ModType
    <3>2. CeilDiv(total, Grain) < U32 => total <= n * Grain
      <4>1. /\ CeilDiv(total, Grain) \in Nat /\ U32 \in Nat \ {0}
            /\ total <= CeilDiv(total, Grain) * Grain
        BY <3>1, PoolAssumption, CeilDivType, CeilDivCovers
      <4>2. CeilDiv(total, Grain) < U32 => n = CeilDiv(total, Grain)
        BY <4>1
      <4> QED BY <4>1, <4>2
    <3> QED BY <2>1, <3>1, <3>2, OnceBegin DEF Dispatch
  <2>2. ASSUME NEW n \in Counts, DispatchN(n) PROVE SizeInv' /\ HitsInv'
    <3>1. n \in 1 .. MaxElems /\ n <= n * 1
      BY PoolAssumption
    <3> QED BY <2>2, <3>1, OnceBegin DEF DispatchN
  <2>3. CASE \E w \in Workers : SpawnOk(w)
    BY <2>3, SteadyWorker, SteadyKeeps DEF OnceInv
  <2> QED BY <1>1, <2>1, <2>2, <2>3, SteadyMain, SteadyKeeps, OnceGrowDouble, OnceGrowOk,
          OnceClamp, OnceCarve, OncePublish DEF MainStep, OnceInv
<1>2. ASSUME NEW t \in Threads, ClaimStep(t) PROVE SizeInv' /\ HitsInv'
  BY <1>2, SteadyThread, SteadyCas, SteadyRetire, SteadyKeeps, OnceCheck, OnceRun
     DEF ClaimStep, OnceInv
<1>3. ASSUME NEW w \in Workers, WorkerStep(w) PROVE SizeInv' /\ HitsInv'
  BY <1>3, SteadyWorker, SteadyKeeps DEF WorkerStep, OnceInv
<1>4. CASE Cancel \/ CancelReset \/ UNCHANGED vars
  BY <1>4, SteadyElse, SteadyKeeps DEF OnceInv
<1> QED BY <1>1, <1>2, <1>3, <1>4 DEF Next, Terminated

\* ray_pool_dispatch and ray_pool_dispatch_n hand every element to fn at most
\* once, and exactly once when they return without having been cancelled: for
\* every number of workers, ring size, grain, and sequence of dispatches.
THEOREM PoolExactlyOnce == Spec => []ExactlyOnce
<1>1. ASSUME OnceInv PROVE ExactlyOnce
  <2>1. \A e \in Elems : hits[e] <= 1
    BY <1>1 DEF OnceInv, HitsInv
  <2>2. ASSUME pc[Main] \in {"lower", "idle"}, ~skipped, Promised,
               NEW e \in 0 .. plan.total - 1
        PROVE  hits[e] = 1
    <3>1. Holders = {} /\ claim = limit
      <4>1. open = {}
        BY <1>1, <2>2 DEF OnceInv, PoolInv, WindowInv, Parallel, ClaimPoints, Holding
      <4>2. claim \notin claim .. limit - 1
        BY <1>1, <4>1 DEF OnceInv, PoolInv, TicketInv
      <4>3. claim = limit
        BY <1>1, <4>2 DEF OnceInv, PoolInv, TicketInv, TypeOK
      <4> QED BY <1>1, <4>1, <4>3, NoHolders DEF OnceInv, PoolInv
    <3>2. Unrun = {}
      BY <1>1, <3>1 DEF Unrun, Runners, Holders, Holding, OnceInv, PoolInv, TypeOK
    <3>3. plan \in Plans /\ plan.grain >= 1 /\ plan.total <= plan.n * plan.grain
      BY <1>1, <2>2 DEF OnceInv, SizeInv, PoolInv, TypeOK
    <3>4. PICK j \in 0 .. plan.n - 1 : Covers(plan, j, e)
      BY <3>3, CoverExists
    <3>5. e \in Elems
      BY <1>1, <3>3, PoolAssumption DEF OnceInv, SizeInv, Elems, Plans
    <3> QED BY <1>1, <2>2, <3>2, <3>4, <3>5 DEF OnceInv, HitsInv, Before
  <2> QED BY <2>1, <2>2 DEF ExactlyOnce
<1>2. Init => OnceInv
  BY InitInv, OnceInit DEF OnceInv
<1>3. OnceInv => ExactlyOnce
  BY <1>1
<1> QED BY <1>2, <1>3, OnceNext, PTL DEF Spec
=============================================================================
