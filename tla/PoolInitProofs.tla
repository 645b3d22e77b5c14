--------------------------- MODULE PoolInitProofs ---------------------------
(***************************************************************************)
(* The pool singleton has one owner at a time and ray_pool_get is honest,  *)
(* for every set of callers and every number of calls.                     *)
(***************************************************************************)
EXTENDS PoolInit, FiniteSetTheorems, TLAPS

Builders == {t \in Callers : pc[t] \in {"create", "ready", "failed"}}
Breakers == {t \in Callers : pc[t] \in {"free", "freed"}}
Owners   == Builders \cup Breakers

\* The state word says who owns g_pool, and at most one thread does.
Ownership ==
    /\ state = 1 <=> Builders # {}
    /\ state = 3 <=> Breakers # {}
    /\ \A s, t \in Owners : s = t

\* What the owner knows of g_pool at each of its steps; without an owner the
\* state word alone tells whether it is built.
Contents ==
    /\ state = 2 => built
    /\ state = 0 => ~built
    /\ \A t \in Callers : /\ pc[t] = "ready" => built
                          /\ pc[t] \in {"failed", "freed"} => ~built

\* A call has seen the value the state word has now.
Watched == \A t \in Callers : pc[t] # "out" => state \in seen[t]

\* The inductive invariant behind OneOwner and GetHonest.
InitInv == SingleTypeOK /\ Ownership /\ Contents /\ Watched /\ GetHonest

-----------------------------------------------------------------------------
LEMMA InitHolds == SingleInit => InitInv
<1> SUFFICES ASSUME SingleInit PROVE InitInv
  OBVIOUS
<1>1. SingleTypeOK
  <2>1. built \in BOOLEAN
    BY DEF SingleInit
  <2> QED BY <2>1 DEF SingleInit, SingleTypeOK
<1>2. Builders = {} /\ Breakers = {}
  BY DEF SingleInit, Builders, Breakers
<1>3. Ownership
  BY <1>2 DEF SingleInit, Ownership, Owners
<1> QED BY <1>1, <1>3 DEF SingleInit, InitInv, Contents, Watched, GetHonest

LEMMA CallTypes ==
    ASSUME SingleTypeOK, NEW t \in Callers, NEW o \in {"get", "init", "destroy"}, Call(t, o)
    PROVE  SingleTypeOK'
BY DEF SingleTypeOK, Call, Go

LEMMA StepTypes ==
    ASSUME SingleTypeOK, NEW t \in Callers, Step(t)
    PROVE  SingleTypeOK'
<1>1. CASE GetLoad(t) BY <1>1 DEF SingleTypeOK, GetLoad, Go, Return
<1>2. CASE ClaimInit(t) BY <1>2 DEF SingleTypeOK, ClaimInit, Go, SetState, Watch
<1>3. CASE GetLost(t) BY <1>3 DEF SingleTypeOK, GetLost, Go
<1>4. CASE GetSpin(t) BY <1>4 DEF SingleTypeOK, GetSpin, Go, Return
<1>5. CASE InitLost(t) BY <1>5 DEF SingleTypeOK, InitLost, Go, Return
<1>6. CASE InitSpin(t) BY <1>6 DEF SingleTypeOK, InitSpin, Go, Return
<1>7. CASE Create(t) BY <1>7 DEF SingleTypeOK, Create, Go
<1>8. CASE StoreReady(t) BY <1>8 DEF SingleTypeOK, StoreReady, Go, Return, SetState, Watch
<1>9. CASE StoreFailed(t) BY <1>9 DEF SingleTypeOK, StoreFailed, Go, Return, SetState, Watch
<1>10. CASE ClaimDestroy(t) BY <1>10 DEF SingleTypeOK, ClaimDestroy, Go, SetState, Watch
<1>11. CASE DestroyNothing(t) BY <1>11 DEF SingleTypeOK, DestroyNothing, Go, Return
<1>12. CASE FreePool(t) BY <1>12 DEF SingleTypeOK, FreePool, Go
<1>13. CASE StoreFreed(t) BY <1>13 DEF SingleTypeOK, StoreFreed, Go, Return, SetState, Watch
<1> QED BY <1>1, <1>2, <1>3, <1>4, <1>5, <1>6, <1>7, <1>8, <1>9, <1>10, <1>11, <1>12, <1>13 DEF Step

\* Only the compare-and-swap from "uninitialized" makes a builder and only the
\* one from "ready" a breaker, and each gives the pool up with its last store.
LEMMA StepOwnership ==
    ASSUME SingleTypeOK, Ownership, NEW t \in Callers, Step(t)
    PROVE  Ownership'
<1>1. CASE GetLoad(t)
  BY <1>1 DEF SingleTypeOK, Ownership, Owners, Builders, Breakers, GetLoad, Go, Return
<1>2. CASE ClaimInit(t)
  BY <1>2 DEF SingleTypeOK, Ownership, Owners, Builders, Breakers, ClaimInit, Go, Return, SetState, Watch
<1>3. CASE GetLost(t)
  BY <1>3 DEF SingleTypeOK, Ownership, Owners, Builders, Breakers, GetLost, Go, Return
<1>4. CASE GetSpin(t)
  BY <1>4 DEF SingleTypeOK, Ownership, Owners, Builders, Breakers, GetSpin, Go, Return
<1>5. CASE InitLost(t)
  BY <1>5 DEF SingleTypeOK, Ownership, Owners, Builders, Breakers, InitLost, Go, Return
<1>6. CASE InitSpin(t)
  BY <1>6 DEF SingleTypeOK, Ownership, Owners, Builders, Breakers, InitSpin, Go, Return
<1>7. CASE Create(t)
  BY <1>7 DEF SingleTypeOK, Ownership, Owners, Builders, Breakers, Create, Go, Return
<1>8. CASE StoreReady(t)
  BY <1>8 DEF SingleTypeOK, Ownership, Owners, Builders, Breakers, StoreReady, Go, Return, SetState, Watch
<1>9. CASE StoreFailed(t)
  BY <1>9 DEF SingleTypeOK, Ownership, Owners, Builders, Breakers, StoreFailed, Go, Return, SetState, Watch
<1>10. CASE ClaimDestroy(t)
  BY <1>10 DEF SingleTypeOK, Ownership, Owners, Builders, Breakers, ClaimDestroy, Go, Return, SetState, Watch
<1>11. CASE DestroyNothing(t)
  BY <1>11 DEF SingleTypeOK, Ownership, Owners, Builders, Breakers, DestroyNothing, Go, Return
<1>12. CASE FreePool(t)
  BY <1>12 DEF SingleTypeOK, Ownership, Owners, Builders, Breakers, FreePool, Go, Return
<1>13. CASE StoreFreed(t)
  BY <1>13 DEF SingleTypeOK, Ownership, Owners, Builders, Breakers, StoreFreed, Go, Return, SetState, Watch
<1> QED BY <1>1, <1>2, <1>3, <1>4, <1>5, <1>6, <1>7, <1>8, <1>9, <1>10, <1>11, <1>12, <1>13 DEF Step

LEMMA StepContents ==
    ASSUME SingleTypeOK, Ownership, Contents, NEW t \in Callers, Step(t)
    PROVE  Contents'
<1>1. CASE GetLoad(t)
  BY <1>1 DEF SingleTypeOK, Ownership, Contents, Owners, Builders, Breakers, GetLoad, Go, Return
<1>2. CASE ClaimInit(t)
  BY <1>2 DEF SingleTypeOK, Ownership, Contents, Owners, Builders, Breakers, ClaimInit, Go, Return, SetState, Watch
<1>3. CASE GetLost(t)
  BY <1>3 DEF SingleTypeOK, Ownership, Contents, Owners, Builders, Breakers, GetLost, Go, Return
<1>4. CASE GetSpin(t)
  BY <1>4 DEF SingleTypeOK, Ownership, Contents, Owners, Builders, Breakers, GetSpin, Go, Return
<1>5. CASE InitLost(t)
  BY <1>5 DEF SingleTypeOK, Ownership, Contents, Owners, Builders, Breakers, InitLost, Go, Return
<1>6. CASE InitSpin(t)
  BY <1>6 DEF SingleTypeOK, Ownership, Contents, Owners, Builders, Breakers, InitSpin, Go, Return
<1>7. CASE Create(t)
  BY <1>7 DEF SingleTypeOK, Ownership, Contents, Owners, Builders, Breakers, Create, Go, Return
<1>8. CASE StoreReady(t)
  BY <1>8 DEF SingleTypeOK, Ownership, Contents, Owners, Builders, Breakers, StoreReady, Go, Return, SetState, Watch
<1>9. CASE StoreFailed(t)
  BY <1>9 DEF SingleTypeOK, Ownership, Contents, Owners, Builders, Breakers, StoreFailed, Go, Return, SetState, Watch
<1>10. CASE ClaimDestroy(t)
  BY <1>10 DEF SingleTypeOK, Ownership, Contents, Owners, Builders, Breakers, ClaimDestroy, Go, Return, SetState, Watch
<1>11. CASE DestroyNothing(t)
  BY <1>11 DEF SingleTypeOK, Ownership, Contents, Owners, Builders, Breakers, DestroyNothing, Go, Return
<1>12. CASE FreePool(t)
  BY <1>12 DEF SingleTypeOK, Ownership, Contents, Owners, Builders, Breakers, FreePool, Go, Return
<1>13. CASE StoreFreed(t)
  BY <1>13 DEF SingleTypeOK, Ownership, Contents, Owners, Builders, Breakers, StoreFreed, Go, Return, SetState, Watch
<1> QED BY <1>1, <1>2, <1>3, <1>4, <1>5, <1>6, <1>7, <1>8, <1>9, <1>10, <1>11, <1>12, <1>13 DEF Step

LEMMA StepWatched ==
    ASSUME SingleTypeOK, Watched, NEW t \in Callers, Step(t)
    PROVE  Watched'
<1>1. CASE GetLoad(t)
  BY <1>1 DEF SingleTypeOK, Watched, GetLoad, Go, Return
<1>2. CASE ClaimInit(t)
  BY <1>2 DEF SingleTypeOK, Watched, ClaimInit, Go, Return, SetState, Watch
<1>3. CASE GetLost(t)
  BY <1>3 DEF SingleTypeOK, Watched, GetLost, Go, Return
<1>4. CASE GetSpin(t)
  BY <1>4 DEF SingleTypeOK, Watched, GetSpin, Go, Return
<1>5. CASE InitLost(t)
  BY <1>5 DEF SingleTypeOK, Watched, InitLost, Go, Return
<1>6. CASE InitSpin(t)
  BY <1>6 DEF SingleTypeOK, Watched, InitSpin, Go, Return
<1>7. CASE Create(t)
  BY <1>7 DEF SingleTypeOK, Watched, Create, Go, Return
<1>8. CASE StoreReady(t)
  BY <1>8 DEF SingleTypeOK, Watched, StoreReady, Go, Return, SetState, Watch
<1>9. CASE StoreFailed(t)
  BY <1>9 DEF SingleTypeOK, Watched, StoreFailed, Go, Return, SetState, Watch
<1>10. CASE ClaimDestroy(t)
  BY <1>10 DEF SingleTypeOK, Watched, ClaimDestroy, Go, Return, SetState, Watch
<1>11. CASE DestroyNothing(t)
  BY <1>11 DEF SingleTypeOK, Watched, DestroyNothing, Go, Return
<1>12. CASE FreePool(t)
  BY <1>12 DEF SingleTypeOK, Watched, FreePool, Go, Return
<1>13. CASE StoreFreed(t)
  BY <1>13 DEF SingleTypeOK, Watched, StoreFreed, Go, Return, SetState, Watch
<1> QED BY <1>1, <1>2, <1>3, <1>4, <1>5, <1>6, <1>7, <1>8, <1>9, <1>10, <1>11, <1>12, <1>13 DEF Step

LEMMA StepHonest ==
    ASSUME SingleTypeOK, Watched, GetHonest, NEW t \in Callers, Step(t)
    PROVE  GetHonest'
<1>1. CASE GetLoad(t)
  BY <1>1 DEF SingleTypeOK, Watched, GetHonest, GetLoad, Go, Return
<1>2. CASE ClaimInit(t)
  BY <1>2 DEF SingleTypeOK, Watched, GetHonest, ClaimInit, Go, Return, SetState, Watch
<1>3. CASE GetLost(t)
  BY <1>3 DEF SingleTypeOK, Watched, GetHonest, GetLost, Go, Return
<1>4. CASE GetSpin(t)
  BY <1>4 DEF SingleTypeOK, Watched, GetHonest, GetSpin, Go, Return
<1>5. CASE InitLost(t)
  BY <1>5 DEF SingleTypeOK, Watched, GetHonest, InitLost, Go, Return
<1>6. CASE InitSpin(t)
  BY <1>6 DEF SingleTypeOK, Watched, GetHonest, InitSpin, Go, Return
<1>7. CASE Create(t)
  BY <1>7 DEF SingleTypeOK, Watched, GetHonest, Create, Go, Return
<1>8. CASE StoreReady(t)
  BY <1>8 DEF SingleTypeOK, Watched, GetHonest, StoreReady, Go, Return, SetState, Watch
<1>9. CASE StoreFailed(t)
  BY <1>9 DEF SingleTypeOK, Watched, GetHonest, StoreFailed, Go, Return, SetState, Watch
<1>10. CASE ClaimDestroy(t)
  BY <1>10 DEF SingleTypeOK, Watched, GetHonest, ClaimDestroy, Go, Return, SetState, Watch
<1>11. CASE DestroyNothing(t)
  BY <1>11 DEF SingleTypeOK, Watched, GetHonest, DestroyNothing, Go, Return
<1>12. CASE FreePool(t)
  BY <1>12 DEF SingleTypeOK, Watched, GetHonest, FreePool, Go, Return
<1>13. CASE StoreFreed(t)
  BY <1>13 DEF SingleTypeOK, Watched, GetHonest, StoreFreed, Go, Return, SetState, Watch
<1> QED BY <1>1, <1>2, <1>3, <1>4, <1>5, <1>6, <1>7, <1>8, <1>9, <1>10, <1>11, <1>12, <1>13 DEF Step

LEMMA CallKeeps ==
    ASSUME InitInv, NEW t \in Callers, NEW o \in {"get", "init", "destroy"}, Call(t, o)
    PROVE  InitInv'
<1>1. SingleTypeOK'
  BY CallTypes DEF InitInv
<1>2. Builders' = Builders /\ Breakers' = Breakers
  BY DEF InitInv, SingleTypeOK, Call, Go, Builders, Breakers
<1>3. Ownership'
  BY <1>2 DEF InitInv, Call, Ownership, Owners
<1>4. Contents'
  BY DEF InitInv, SingleTypeOK, Call, Go, Contents
<1>5. Watched' /\ GetHonest'
  BY DEF InitInv, SingleTypeOK, Call, Go, Watched, GetHonest
<1> QED BY <1>1, <1>3, <1>4, <1>5 DEF InitInv

LEMMA NextKeeps == InitInv /\ [SingleNext]_svars => InitInv'
<1> SUFFICES ASSUME InitInv, [SingleNext]_svars PROVE InitInv'
  OBVIOUS
<1>1. CASE \E t \in Callers : Step(t)
  <2> PICK t \in Callers : Step(t)
    BY <1>1
  <2> QED BY StepTypes, StepOwnership, StepContents, StepWatched, StepHonest DEF InitInv
<1>2. CASE \E t \in Callers, o \in {"get", "init", "destroy"} : Call(t, o)
  BY <1>2, CallKeeps
<1>3. CASE UNCHANGED svars
  BY <1>3 DEF InitInv, SingleTypeOK, Ownership, Owners, Builders, Breakers, Contents, Watched, GetHonest, svars
<1> QED BY <1>1, <1>2, <1>3 DEF SingleNext, Finished

\* The inductive invariant holds of every reachable state.
THEOREM InitInvariant == SingleSpec => []InitInv
<1> QED BY InitHolds, NextKeeps, PTL DEF SingleSpec

LEMMA OwnershipCounts ==
    ASSUME InitInv
    PROVE  OneOwner
<1> DEFINE owners == {t \in Callers : pc[t] \in {"create", "ready", "failed", "free", "freed"}}
<1>1. owners = Owners
  BY DEF Owners, Builders, Breakers
<1>2. CASE state \in {1, 3}
  <2> PICK t \in Callers : owners = {t}
    BY <1>1, <1>2 DEF InitInv, Ownership, Owners, Builders, Breakers
  <2>1. Cardinality(owners) = 1
    BY FS_Singleton
  <2> QED BY <1>2, <2>1 DEF OneOwner
<1>3. CASE state \in {0, 2}
  <2>1. owners = {}
    BY <1>1, <1>3 DEF InitInv, Ownership, Owners
  <2>2. Cardinality(owners) = 0
    BY <2>1, FS_EmptySet
  <2>3. built = (state = 2)
    BY <1>3 DEF InitInv, SingleTypeOK, Contents
  <2> QED BY <1>3, <2>2, <2>3 DEF OneOwner
<1> QED BY <1>2, <1>3 DEF InitInv, SingleTypeOK

\* g_pool is built or torn down by one thread at a time, whatever the number
\* of threads that race on the compare-and-swaps of pool.c.
THEOREM InitOneOwner == SingleSpec => []OneOwner
<1> QED BY InitInvariant, OwnershipCounts, PTL

\* ray_pool_get returns the pool only if it was ready during the call, and NULL
\* only if it was uninitialized during the call.
THEOREM InitGetHonest == SingleSpec => []GetHonest
<1>1. InitInv => GetHonest
  BY DEF InitInv
<1> QED BY <1>1, InitInvariant, PTL
=============================================================================
