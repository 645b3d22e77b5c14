-------------------------------- MODULE Vec --------------------------------
(***************************************************************************)
(* Vectors as values (vec/vec.c, vec/list.c, mem/cow.c, the ownership      *)
(* rules of mem/heap.c and the attachment of indexes in ops/idxop.c).      *)
(*                                                                         *)
(* A block is a vector, a slice of one, a list, the pool that holds the    *)
(* long strings of a string vector, or an index.  Blocks refer to blocks   *)
(* and count their holders.  A client works through handles, each of which *)
(* owns one reference; an operation consumes the reference it is given or  *)
(* makes a new block, and whoever else holds the old block must not see    *)
(* the change.  Memory never runs out; capacity is the allocator's affair, *)
(* so growing may or may not move a block.                                 *)
(*                                                                         *)
(* A cell of an integer vector is a number, Null the smallest; a cell of a *)
(* string vector is a short string (>= 0, the empty one 0) or minus the    *)
(* position of a long one in the pool; a cell of a list is a block.        *)
(***************************************************************************)
EXTENDS Integers, Sequences, FiniteSets, SequencesExt

CONSTANTS
    NHandles,       \* references of the client
    NBlocks,        \* bound: blocks
    MaxLen,         \* bound: cells of a vector
    MaxSteps,       \* bound: operations
    IndexStrings,   \* TRUE: string vectors get indexes too
    WriteSlices     \* TRUE: a slice is written in place

Null == 0
Numbers == {1, 2}
Short == 1
Longs == {8, 9}
Strings == {Short} \cup Longs
Garbage == -9
Blocks == 1 .. NBlocks
Handles == 1 .. NHandles

VARIABLES
    heap,   \* heap[b]: block b
    hold,   \* hold[h]: the block of handle h, 0 when it has none
    want,   \* what handle h stands for
    type,   \* the type of vector this client works with
    steps

vars == <<heap, hold, want, type, steps>>

Free == [t |-> "free", rc |-> 0, cells |-> <<>>, parent |-> 0, off |-> 0, len |-> 0,
         pool |-> 0, idx |-> 0, sorted |-> FALSE, nulls |-> FALSE, dead |-> 0, unique |-> FALSE]
Block(t, cells) == [Free EXCEPT !.t = t, !.rc = 1, !.cells = cells]
IsSlice(r) == r.parent # 0

-----------------------------------------------------------------------------
(* Reference counts.                                                        *)
FirstFree(H) == CHOOSE b \in Blocks : H[b].t = "free" /\ \A c \in Blocks : H[c].t = "free" => b <= c
Room(H, n) == Cardinality({b \in Blocks : H[b].t = "free"}) >= n

Retain(H, b) == IF b = 0 THEN H ELSE [H EXCEPT ![b].rc = @ + 1]
RetainAll(H, bs) == FoldLeft(Retain, H, bs)

(* What a block holds references to, and so retains when it is copied and   *)
(* releases when it goes.  An index owns nothing of the pool it displaced.  *)
Owned(r) ==
    CASE IsSlice(r) -> <<r.parent>>
      [] r.t = "index" -> <<>>
      [] r.idx # 0 -> <<r.idx>>
      [] r.pool # 0 -> <<r.pool>>
      [] r.t = "list" -> r.cells
      [] OTHER -> <<>>

RECURSIVE Release(_, _)
Release(H, b) ==
    IF b = 0 THEN H
    ELSE IF H[b].rc # 1 THEN [H EXCEPT ![b].rc = @ - 1]
    ELSE FoldLeft(Release, [H EXCEPT ![b] = Free], Owned(H[b]))

(* ray_alloc and ray_alloc_copy.                                            *)
Made(H, r) == [h |-> [H EXCEPT ![FirstFree(H)] = r], b |-> FirstFree(H)]
AllocCopy(H, b) ==
    LET m == Made(H, [H[b] EXCEPT !.rc = 1]) IN [m EXCEPT !.h = RetainAll(@, Owned(H[b]))]
(* Mutant: a block is written although someone else holds it.               *)
CowNever(H, b) == [h |-> H, b |-> b]
(* ray_cow: a sole owner writes in place.                                   *)
Cow(H, b) ==
    IF H[b].rc = 1 THEN [h |-> H, b |-> b]
    ELSE LET c == AllocCopy(H, b) IN [c EXCEPT !.h = Release(@, b)]

(* ray_detach_owned_refs before ray_free: what the block held is not        *)
(* released, the block that replaces it holds it now.                       *)
Detached(H, b) == [H EXCEPT ![b] = Free]
(* ray_scratch_realloc: the references move with the block.                 *)
Moved(H, b, full) ==
    IF ~full THEN [h |-> H, b |-> b]
    ELSE LET m == Made(H, [H[b] EXCEPT !.rc = 1]) IN [m EXCEPT !.h = Detached(@, b)]

-----------------------------------------------------------------------------
(* Indexes.                                                                 *)
(* vec_drop_index_inplace: the displaced pool comes back with the snapshot. *)
DropIndexInplace(H, b) ==
    LET i == H[b].idx IN
    IF i = 0 THEN [H EXCEPT ![b].sorted = FALSE]
    ELSE Release([H EXCEPT ![b].sorted = FALSE, ![b].idx = 0, ![b].pool = H[i].pool,
                           ![i].pool = IF H[i].rc > 1 THEN @ ELSE 0], i)

(* ray_index_drop.                                                          *)
IndexDrop(H, b) ==
    IF H[b].idx = 0 THEN [h |-> H, b |-> b]
    ELSE LET c == Cow(H, b) IN
         [c EXCEPT !.h = [DropIndexInplace(@, c.b) EXCEPT ![c.b].sorted = H[b].sorted]]

(* attach_finalize: the index remembers what it took the place of.          *)
AttachFinalize(H, b, index) ==
    LET m == Made(H, [index EXCEPT !.pool = H[b].pool]) IN [h |-> [m.h EXCEPT ![b].idx = m.b], b |-> b]
(* prepare_attach_ex.                                                       *)
Indexable(r) == ~IsSlice(r) /\ r.t \in {"int"} \cup (IF IndexStrings THEN {"str"} ELSE {})
PrepareAttach(H, b) == LET d == IndexDrop(H, b) IN Cow(d.h, d.b)

Resolve(H, c, pool) ==
    CASE c >= 0 -> c
      [] pool = 0 -> Garbage
      [] -c \in DOMAIN H[pool].cells -> H[pool].cells[-c]
      [] OTHER -> Garbage
(* The cells of a vector: a slice looks through its parent.                 *)
RawCells(H, b) ==
    IF IsSlice(H[b]) THEN SubSeq(H[H[b].parent].cells, H[b].off + 1, H[b].off + H[b].len)
    ELSE H[b].cells
PoolOf(H, b) == IF IsSlice(H[b]) THEN H[H[b].parent].pool ELSE H[b].pool
Plain(H, b) ==
    IF H[b].t = "str" THEN [i \in DOMAIN RawCells(H, b) |-> Resolve(H, RawCells(H, b)[i], PoolOf(H, b))]
    ELSE RawCells(H, b)
Value(H, b) ==
    IF H[b].t = "list" THEN [i \in DOMAIN H[b].cells |-> Plain(H, H[b].cells[i])] ELSE Plain(H, b)

(* ray_index_attach_zone, _hash, _sort, _part, _dict: built from the cells. *)
AttachIndex(H, b) ==
    LET p == PrepareAttach(H, b) IN AttachFinalize(p.h, p.b, Block("index", Plain(p.h, p.b)))

Ascending(s) == \A i \in 1 .. Len(s) - 1 : s[i] <= s[i + 1]
Distinct(s) == \A i, j \in DOMAIN s : i # j => s[i] # s[j]
(* attr_set_unique, clone_index_block: a copy of the index gets the marker. *)
SetUnique(H, b) ==
    LET c == Cow(H, b)  i == H[b].idx IN
    IF i # 0
    THEN LET m == Made(c.h, [H[i] EXCEPT !.rc = 1, !.unique = TRUE])
         IN [c EXCEPT !.h = Release([m.h EXCEPT ![c.b].idx = m.b], i)]
    ELSE AttachFinalize(c.h, c.b, [Block("index", Plain(H, b)) EXCEPT !.unique = TRUE])
(* attach_backing_index_carry_markers: the marker of the old index stays.   *)
SetGrouped(H, b) ==
    LET a == AttachIndex(H, b)  was == H[b].idx # 0 /\ H[H[b].idx].unique IN
    [a EXCEPT !.h[a.h[a.b].idx].unique = was]
SetSorted(H, b) == LET c == Cow(H, b) IN [c EXCEPT !.h[c.b].sorted = TRUE]
(* ray_attr_drop_fn.                                                        *)
AttrDrop(H, b) ==
    LET d == IndexDrop(H, b) IN
    IF ~d.h[d.b].sorted THEN d ELSE LET c == Cow(d.h, d.b) IN [c EXCEPT !.h[c.b].sorted = FALSE]

-----------------------------------------------------------------------------
(* Writing a vector of fixed-width cells.                                   *)
Write(H, b, cells) == [H EXCEPT ![b].cells = cells]
OwnedToWrite(H, b) == LET c == Cow(H, b) IN [c EXCEPT !.h = DropIndexInplace(@, c.b)]
(* ray_vec_append.                                                          *)
VecAppend(H, b, x, full) ==
    LET o == OwnedToWrite(H, b)  m == Moved(o.h, o.b, full)
    IN [m EXCEPT !.h = Write(@, m.b, Append(@[m.b].cells, x))]
(* ray_vec_set; an unshared slice shows through to its parent.              *)
VecSet(H, b, i, x) ==
    LET o == OwnedToWrite(H, b)  r == o.h[o.b] IN
    IF IsSlice(r) THEN [o EXCEPT !.h[r.parent].cells[r.off + i] = x]
    ELSE [o EXCEPT !.h[o.b].cells[i] = x]
(* ray_vec_insert_at.                                                       *)
VecInsertAt(H, b, i, x, full) ==
    LET o == OwnedToWrite(H, b)  m == Moved(o.h, o.b, full)
    IN [m EXCEPT !.h = Write(@, m.b, InsertAt(@[m.b].cells, i, x))]
(* ray_vec_set_null_checked on a vector its caller owns.                    *)
SetNull(H, b, i) ==
    LET c == Cow(H, b)  D == DropIndexInplace(c.h, c.b)
    IN [c EXCEPT !.h = [D EXCEPT ![c.b].cells[i] = Null, ![c.b].nulls = D[c.b].t = "int"]]

IsNull(H, b, i) ==
    LET p == IF IsSlice(H[b]) THEN H[b].parent ELSE b IN
    H[p].t = "int" /\ H[p].nulls /\ RawCells(H, b)[i] = Null
AnyNull(H, b) == \E i \in DOMAIN RawCells(H, b) : IsNull(H, b, i)

(* ray_vec_insert_many, ray_list_insert_many: before row r come the values  *)
(* for it, in the order they were given.                                    *)
Spread(cells, at, xs) ==
    LET For(r) == SelectSeq([k \in DOMAIN at |-> k], LAMBDA k : at[k] = r)
        Row(r) == [j \in DOMAIN For(r) |-> xs[For(r)[j]]] \o (IF r < Len(cells) THEN <<cells[r + 1]>> ELSE <<>>)
    IN FlattenSeq([r \in 1 .. Len(cells) + 1 |-> Row(r - 1)])
InsertMany(H, b, at, xs) ==
    Made(H, [Block("int", Spread(RawCells(H, b), at, xs)) EXCEPT !.nulls = AnyNull(H, b) \/ Null \in {xs[k] : k \in DOMAIN xs}])

(* ray_vec_slice: of the vector at the root.                                *)
Slice(H, b, off, len) ==
    LET p == IF IsSlice(H[b]) THEN H[b].parent ELSE b
        m == Made(H, [Block(H[b].t, <<>>) EXCEPT !.parent = p, !.off = H[b].off + off, !.len = len])
    IN [m EXCEPT !.h = Retain(@, p)]

(* The cells of the second vector of a concatenation: its pool follows the  *)
(* first one's.                                                             *)
Shifted(cells, n) == [i \in DOMAIN cells |-> IF cells[i] < 0 THEN cells[i] - n ELSE cells[i]]
PoolCells(H, b) == IF PoolOf(H, b) = 0 THEN <<>> ELSE H[PoolOf(H, b)].cells
ConcatStr(H, a, b) ==
    LET pool == PoolCells(H, a) \o PoolCells(H, b)
        m == Made(H, Block("str", RawCells(H, a) \o Shifted(RawCells(H, b), Len(PoolCells(H, a)))))
        p == Made(m.h, Block("pool", pool))
    IN IF pool = <<>> THEN m ELSE [h |-> [p.h EXCEPT ![m.b].pool = p.b], b |-> m.b]
(* ray_vec_concat.                                                          *)
Concat(H, a, b) ==
    LET cells == RawCells(H, a) \o RawCells(H, b)
        m == Made(H, [Block(H[a].t, cells) EXCEPT !.nulls = AnyNull(H, a) \/ AnyNull(H, b)])
    IN IF H[a].t = "str" THEN ConcatStr(H, a, b)
       ELSE IF H[a].t = "list" THEN [m EXCEPT !.h = RetainAll(@, cells)] ELSE m
(* ray_vec_insert_vec_at.                                                   *)
InsertVecAt(H, b, i, src) ==
    IF i = Len(RawCells(H, b)) THEN Concat(H, b, src)
    ELSE IF i = 0 THEN Concat(H, src, b)
    ELSE LET head == Slice(H, b, 0, i)
             tail == Slice(head.h, b, i, Len(RawCells(H, b)) - i)
             mid == Concat(tail.h, head.b, src)
             all == Concat(Release(mid.h, head.b), mid.b, tail.b)
         IN [all EXCEPT !.h = Release(Release(@, mid.b), tail.b)]

-----------------------------------------------------------------------------
(* Strings.                                                                 *)
(* str_pool_cow.                                                            *)
StrPoolCow(H, b) ==
    LET p == H[b].pool IN
    IF p = 0 \/ H[p].rc = 1 THEN H
    ELSE LET m == Made(H, [H[p] EXCEPT !.rc = 1]) IN Release([m.h EXCEPT ![b].pool = m.b], p)
StrOwned(H, b) == LET c == Cow(H, b) IN [c EXCEPT !.h = StrPoolCow(@, c.b)]
(* A long string goes to the end of the pool, which is made when needed.    *)
Pooled(H, b, s) ==
    LET m == Made(H, Block("pool", <<s>>)) IN
    IF H[b].pool = 0 THEN [m.h EXCEPT ![b].pool = m.b]
    ELSE [H EXCEPT ![H[b].pool].cells = Append(@, s)]
StrCell(H, b) == -Len(H[H[b].pool].cells)
(* ray_str_vec_append.                                                      *)
StrAppend(H, b, s, full) ==
    LET o == StrOwned(H, b)
        P == IF s \in Longs THEN Pooled(o.h, o.b, s) ELSE o.h
        m == Moved(P, o.b, full)
    IN [m EXCEPT !.h[m.b].cells = Append(@, IF s \in Longs THEN StrCell(P, o.b) ELSE s)]
(* ray_str_vec_set: what it overwrites is dead in the pool.                 *)
StrSet(H, b, i, s) ==
    LET o == StrOwned(H, b)
        P == IF s \in Longs THEN Pooled(o.h, o.b, s) ELSE o.h
        p == P[o.b].pool
        D == IF o.h[o.b].cells[i] < 0 /\ p # 0 THEN [P EXCEPT ![p].dead = @ + 1] ELSE P
    IN [o EXCEPT !.h = [D EXCEPT ![o.b].cells[i] = IF s \in Longs THEN StrCell(P, o.b) ELSE s]]
(* ray_str_vec_insert_at: through a vector of one.                          *)
StrInsertAt(H, b, i, s) ==
    LET one == StrAppend(Made(H, Block("str", <<>>)).h, Made(H, Block("str", <<>>)).b, s, FALSE)
        all == InsertVecAt(one.h, b, i, one.b)
    IN [all EXCEPT !.h = Release(@, one.b)]

(* The strings in use, one behind the other.                                *)
Packed(cells, pool) ==
    LET RECURSIVE Go(_, _)
        Go(s, i) == IF i > Len(cells) THEN s
                    ELSE IF cells[i] >= 0 THEN Go([s EXCEPT !.cells = Append(@, cells[i])], i + 1)
                    ELSE Go([cells |-> Append(s.cells, -(Len(s.pool) + 1)), pool |-> Append(s.pool, pool[-cells[i]])], i + 1)
    IN Go([cells |-> <<>>, pool |-> <<>>], 1)
(* ray_str_vec_compact.                                                     *)
StrCompact(H, b) ==
    IF H[b].pool = 0 \/ H[H[b].pool].dead = 0 THEN [h |-> H, b |-> b]
    ELSE LET o == StrOwned(H, b)
             old == o.h[o.b].pool
             k == Packed(o.h[o.b].cells, o.h[old].cells)
             m == Made(o.h, Block("pool", k.pool))
         IN IF k.pool = <<>> THEN [o EXCEPT !.h = Release([@ EXCEPT ![o.b].pool = 0], old)]
            ELSE [o EXCEPT !.h = Release([m.h EXCEPT ![o.b].pool = m.b, ![o.b].cells = k.cells], old)]

(* ray_str_vec_from_parts.                                                  *)
StrFromParts(H, ss) ==
    LET k == Packed([i \in DOMAIN ss |-> IF ss[i] \in Longs THEN -i ELSE ss[i]], ss)
        m == Made(H, Block("str", k.cells))
        p == Made(m.h, Block("pool", k.pool))
    IN IF k.pool = <<>> THEN m ELSE [h |-> [p.h EXCEPT ![m.b].pool = p.b], b |-> m.b]

-----------------------------------------------------------------------------
(* Lists.                                                                   *)
ListAppend(H, b, item, full) ==
    LET c == Cow(H, b)  m == Moved(c.h, c.b, full)
    IN [m EXCEPT !.h = Retain([@ EXCEPT ![m.b].cells = Append(@, item)], item)]
(* ray_list_set: the old item goes before the new one is retained.          *)
ListSet(H, b, i, item) ==
    LET c == Cow(H, b)  D == Release(c.h, c.h[c.b].cells[i])
    IN [c EXCEPT !.h = Retain([D EXCEPT ![c.b].cells[i] = item], item)]
ListInsertAt(H, b, i, item, full) ==
    LET c == Cow(H, b)  m == Moved(c.h, c.b, full)
    IN [m EXCEPT !.h = Retain([@ EXCEPT ![m.b].cells = InsertAt(@, i, item)], item)]
ListInsertMany(H, b, at, items) ==
    LET cells == Spread(H[b].cells, at, items)
        m == Made(H, Block("list", cells))
    IN [m EXCEPT !.h = RetainAll(@, cells)]

-----------------------------------------------------------------------------
(* The client.  Consume: the handle's reference becomes the result.  Give:  *)
(* the first handle without a block gets a new one.                         *)
NewHandle == IF \E h \in Handles : hold[h] = 0 THEN CHOOSE h \in Handles : hold[h] = 0 /\ \A g \in 1 .. h - 1 : hold[g] # 0 ELSE 0
Consume(h, res, val) ==
    /\ heap' = res.h /\ hold' = [hold EXCEPT ![h] = res.b] /\ want' = [want EXCEPT ![h] = val]
    /\ steps' = steps + 1 /\ UNCHANGED type
Give(h, res, val) == h = NewHandle /\ Consume(h, res, val)

Has(h, t) == hold[h] # 0 /\ heap[hold[h]].t = t
Writable(h) == WriteSlices \/ ~IsSlice(heap[hold[h]])
Grows(h) == Len(want[h]) < MaxLen
(* Enough blocks for any operation.                                         *)
Ready == steps < MaxSteps /\ Room(heap, 8)

Init ==
    /\ heap = [b \in Blocks |-> Free] /\ hold = [h \in Handles |-> 0] /\ want = [h \in Handles |-> <<>>]
    /\ type \in {"int", "str", "list"} /\ steps = 0

(* ray_vec_from_raw, ray_list_new, ray_str_vec_from_parts.                  *)
New(h) ==
    \/ type # "str" /\ \E s \in {<<2>>, <<1, 2>>} : Give(h, Made(heap, Block("int", s)), s)
    \/ type = "str" /\ \E s \in {<<9>>, <<Short, 8>>} : Give(h, StrFromParts(heap, s), s)
    \/ type = "list" /\ Give(h, Made(heap, Block("list", <<>>)), <<>>)
Share(h, g) == hold[g] # 0 /\ Give(h, [h |-> Retain(heap, hold[g]), b |-> hold[g]], want[g])
Drop(h) == hold[h] # 0 /\ Consume(h, [h |-> Release(heap, hold[h]), b |-> 0], <<>>)

DoAppend(h, full) ==
    /\ hold[h] # 0 /\ Grows(h) /\ Writable(h)
    /\ \/ Has(h, "int") /\ type = "int" /\ \E x \in Numbers : Consume(h, VecAppend(heap, hold[h], x, full), Append(want[h], x))
       \/ Has(h, "str") /\ \E s \in Strings : Consume(h, StrAppend(heap, hold[h], s, full), Append(want[h], s))
       \/ Has(h, "list") /\ \E g \in Handles : Has(g, "int") /\ Consume(h, ListAppend(heap, hold[h], hold[g], full), Append(want[h], want[g]))
DoSet(h) ==
    /\ hold[h] # 0 /\ want[h] # <<>> /\ Writable(h)
    /\ \E i \in {1, Len(want[h])} :
       \/ Has(h, "int") /\ \E x \in Numbers : Consume(h, VecSet(heap, hold[h], i, x), [want[h] EXCEPT ![i] = x])
       \/ Has(h, "str") /\ \E s \in Strings : Consume(h, StrSet(heap, hold[h], i, s), [want[h] EXCEPT ![i] = s])
       \/ Has(h, "list") /\ \E g \in Handles : Has(g, "int") /\ Consume(h, ListSet(heap, hold[h], i, hold[g]), [want[h] EXCEPT ![i] = want[g]])
DoInsert(h, full) ==
    /\ hold[h] # 0 /\ Grows(h)
    /\ \E i \in 1 .. Len(want[h]) :
       \/ Has(h, "int") /\ type = "int" /\ Writable(h) /\ Consume(h, VecInsertAt(heap, hold[h], i, 2, full), InsertAt(want[h], i, 2))
       \/ Has(h, "list") /\ \E g \in Handles : Has(g, "int") /\ Consume(h, ListInsertAt(heap, hold[h], i, hold[g], full), InsertAt(want[h], i, want[g]))
DoStrInsert(h, g) ==
    /\ Has(g, "str") /\ Grows(g)
    /\ \E i \in 0 .. Len(want[g]) : Give(h, StrInsertAt(heap, hold[g], i, 8), InsertAt(want[g], i + 1, 8))
(* Two values put in one by one, the later place first.                     *)
Inserted(s, at, xs) ==
    IF at[1] <= at[2] THEN InsertAt(InsertAt(s, at[2] + 1, xs[2]), at[1] + 1, xs[1])
    ELSE InsertAt(InsertAt(s, at[1] + 1, xs[1]), at[2] + 1, xs[2])
DoInsertMany(h, g) ==
    /\ hold[g] # 0 /\ Len(want[g]) \in 1 .. MaxLen - 2
    /\ \E at \in [1 .. 2 -> {0, Len(want[g])}] :
       \/ Has(g, "int") /\ type = "int" /\ \E xs \in {<<2, 1>>, <<Null, 2>>} : Give(h, InsertMany(heap, hold[g], at, xs), Inserted(want[g], at, xs))
       \/ Has(g, "list") /\ LET items == <<heap[hold[g]].cells[1], Last(heap[hold[g]].cells)>>
                            IN Give(h, ListInsertMany(heap, hold[g], at, items), Inserted(want[g], at, <<want[g][1], Last(want[g])>>))
DoSetNull(h) ==
    /\ Has(h, type) /\ type \in {"int", "str"} /\ want[h] # <<>> /\ ~IsSlice(heap[hold[h]])
    /\ Consume(h, SetNull(heap, hold[h], 1), [want[h] EXCEPT ![1] = Null])
DoSlice(h, g) ==
    /\ hold[g] # 0 /\ ~Has(g, "list")
    /\ \E off \in 0 .. Len(want[g]), len \in 1 .. Len(want[g]) : off + len <= Len(want[g])
       /\ Give(h, Slice(heap, hold[g], off, len), SubSeq(want[g], off + 1, off + len))
DoConcat(h, g, k) ==
    /\ hold[g] # 0 /\ hold[k] # 0 /\ heap[hold[g]].t = heap[hold[k]].t /\ Len(want[g]) + Len(want[k]) <= MaxLen
    /\ Give(h, Concat(heap, hold[g], hold[k]), want[g] \o want[k])
DoInsertVec(h, g, k) ==
    /\ Has(g, type) /\ Has(k, type) /\ type # "list" /\ Len(want[g]) = 2 /\ Len(want[g]) + Len(want[k]) <= MaxLen
    /\ Give(h, InsertVecAt(heap, hold[g], 1, hold[k]), <<want[g][1]>> \o want[k] \o <<want[g][2]>>)
DoCompact(h) == Has(h, "str") /\ Writable(h) /\ Consume(h, StrCompact(heap, hold[h]), want[h])

DoAttach(h) == hold[h] # 0 /\ Indexable(heap[hold[h]]) /\ Consume(h, AttachIndex(heap, hold[h]), want[h])
DoGrouped(h) == Has(h, "int") /\ Indexable(heap[hold[h]]) /\ Consume(h, SetGrouped(heap, hold[h]), want[h])
DoUnique(h) ==
    /\ Has(h, "int") /\ Indexable(heap[hold[h]]) /\ Distinct(want[h])
    /\ Consume(h, SetUnique(heap, hold[h]), want[h])
DoSorted(h) == Has(h, "int") /\ Ascending(want[h]) /\ Consume(h, SetSorted(heap, hold[h]), want[h])
DoIndexDrop(h) == hold[h] # 0 /\ heap[hold[h]].idx # 0 /\ Consume(h, IndexDrop(heap, hold[h]), want[h])
DoAttrDrop(h) == hold[h] # 0 /\ Consume(h, AttrDrop(heap, hold[h]), want[h])

Next ==
    Ready /\ \E h \in Handles :
        \/ New(h) \/ Drop(h) \/ DoSet(h) \/ DoSetNull(h) \/ DoCompact(h)
        \/ \E full \in BOOLEAN : DoAppend(h, full) \/ DoInsert(h, full)
        \/ \E g \in Handles : Share(h, g) \/ DoStrInsert(h, g) \/ DoInsertMany(h, g) \/ DoSlice(h, g)
        \/ \E g, k \in Handles : DoConcat(h, g, k) \/ DoInsertVec(h, g, k)
        \/ DoAttach(h) \/ DoGrouped(h) \/ DoUnique(h) \/ DoSorted(h) \/ DoIndexDrop(h) \/ DoAttrDrop(h)

Spec == Init /\ [][Next]_vars

-----------------------------------------------------------------------------
(* A handle's vector is what its own operations made of it: no operation on *)
(* another handle, whatever the two share (the block, its slice, the pool,  *)
(* an item of a list), changes it.                                          *)
ValuesKept == \A h \in Handles : hold[h] # 0 => Value(heap, hold[h]) = want[h]

AllRefs == FoldLeft(LAMBDA acc, b : acc \o Owned(heap[b]), SelectSeq(hold, LAMBDA b : b # 0),
                    SelectSeq([b \in Blocks |-> b], LAMBDA b : heap[b].t # "free"))
(* A block lives exactly as long as somebody holds it: its count is the     *)
(* number of handles and blocks that own a reference, so nothing is freed   *)
(* while it is reachable and nothing is left behind (ray_retain,            *)
(* ray_release, ray_retain_owned_refs, ray_detach_owned_refs).              *)
RefsCounted ==
    LET refs == AllRefs IN
    \A b \in Blocks : /\ heap[b].rc = Cardinality({i \in DOMAIN refs : refs[i] = b})
                      /\ (heap[b].t = "free") = (heap[b].rc = 0)

(* What a vector says of its cells is true of the cells it has: an index    *)
(* was built from them, a vector marked unique or sorted is, and a vector   *)
(* with nulls says so (vec_drop_index_inplace, RAY_ATTR_SORTED,             *)
(* RAY_ATTR_HAS_NULLS).                                                     *)
MarksHonest ==
    \A b \in Blocks : heap[b].t \in {"int", "str"} =>
        /\ heap[b].idx # 0 => /\ heap[heap[b].idx].cells = Plain(heap, b)
                              /\ heap[heap[b].idx].unique => Distinct(Plain(heap, b))
        /\ heap[b].sorted => Ascending(Plain(heap, b))
        /\ heap[b].t = "int" /\ ~IsSlice(heap[b]) /\ Null \in {heap[b].cells[i] : i \in DOMAIN heap[b].cells} => heap[b].nulls
=============================================================================
