-------------------------------- MODULE Join --------------------------------
(***************************************************************************)
(* Joins of two tables (ops/join.c): the radix-partitioned hash join, the  *)
(* chained hash join it falls back to, streaming over the segments of a    *)
(* parted side, the anti join, and the as-of join with its index, cursor   *)
(* and sort-merge variants.                                                *)
(*                                                                         *)
(* A table is a record: k, the key column, of ids into the names dom (of   *)
(* values themselves where dom is Plain), and for as-of joins also j, a    *)
(* second key, and t, the time column.  Rows count from 1; 0 is no row.    *)
(***************************************************************************)
EXTENDS Input, Integers, Sequences, FiniteSets, SequencesExt, FiniteSetsExt

CONSTANTS
    Threshold,  \* RAY_PARALLEL_THRESHOLD: more rows take the radix path
    Workers,    \* pool->n_workers + 1
    DupMax,     \* RADIX_DUP_RUN_MAX
    MinCap,     \* smallest hash table
    BuildRows,  \* rows of each task of the parallel build
    MaxSide,    \* bound: rows of a side
    MaxBoth,    \* bound: rows of both sides
    MaxAsof     \* bound: rows of both sides of an as-of join

Null == 0
Plain == <<>>                   \* dom of a column that is not of type SYM
Runtime == <<0, 1, 2, 3>>       \* the process-wide symbol domain
NoRow == 0
Inner == 0
LeftOuter == 1
FullOuter == 2

Rows(T) == DOMAIN T.k
Name(T, id) == IF T.dom = Plain THEN id ELSE T.dom[id]

-----------------------------------------------------------------------------
(* Names 0 and 3 have the same hash; a null hashes by its row.              *)
HashRow(T, r) == IF T.k[r] = Null THEN r % 4 ELSE Name(T, T.k[r]) % 3

KeysEq(A, a, B, b) ==
    /\ A.k[a] # Null /\ B.k[b] # Null
    /\ IF A.dom = B.dom \/ Plain \in {A.dom, B.dom} THEN A.k[a] = B.k[b]
                                                    ELSE Name(A, A.k[a]) = Name(B, B.k[b])

RECURSIVE Doubled(_, _)
Doubled(cap, target) == IF cap < target THEN Doubled(2 * cap, target) ELSE cap
HtCap(rows) == Doubled(MinCap, 2 * rows)

-----------------------------------------------------------------------------
(* Radix partitioning into two parts by the upper bit of the hash.  Every   *)
(* task counts and then scatters the same fixed range of rows.              *)
Parts == 0 .. 1
Part(h) == h \div 2

Tasks(n) == IF n > Threshold THEN 0 .. Workers - 1 ELSE {0}
ChunkRows(n, w) ==
    LET c == (n + Cardinality(Tasks(n)) - 1) \div Cardinality(Tasks(n))
    IN {r \in 1 .. n : (r - 1) \div c = w}

Histogram(hs, w, p) == {r \in ChunkRows(Len(hs), w) : Part(hs[r]) = p}
PartCount(hs, p) == MapThenSumSet(LAMBDA w : Cardinality(Histogram(hs, w, p)), Tasks(Len(hs)))
Offsets(hs, w, p) ==
    MapThenSumSet(LAMBDA v : Cardinality(Histogram(hs, v, p)), {v \in Tasks(Len(hs)) : v < w})

Scatter(hs, p) ==
    UNION {LET mine == Histogram(hs, w, p)
           IN {<<Offsets(hs, w, p) + Cardinality({q \in mine : q < r}), r>> : r \in mine} : w \in Tasks(Len(hs))}

Entries(hs, p) ==
    LET written == Scatter(hs, p)
    IN [i \in 1 .. PartCount(hs, p) |-> CHOOSE r \in 1 .. Len(hs) : <<i - 1, r>> \in written]

-----------------------------------------------------------------------------
(* Open addressing: the occupied slots from s on.                           *)
RECURSIVE ProbeRun(_, _)
ProbeRun(ht, s) ==
    IF ht[s] = NoRow THEN <<>> ELSE <<ht[s]>> \o ProbeRun(ht, (s + 1) % Cardinality(DOMAIN ht))

(* The table over a build partition, or that a key has too many rows.       *)
BuildHt(hs, entries) ==
    LET cap == HtCap(Len(entries))
        put(b, r) == LET seen == ProbeRun(b.ht, hs[r] % cap)
                         dup == Cardinality({i \in DOMAIN seen : hs[seen[i]] = hs[r]}) > DupMax
                     IN IF b.dup \/ dup THEN [b EXCEPT !.dup = TRUE]
                        ELSE [b EXCEPT !.ht[(hs[r] + Len(seen)) % cap] = r]
    IN FoldLeft(put, [ht |-> [s \in 0 .. cap - 1 |-> NoRow], dup |-> FALSE], entries)

(* Matches of a row, or its unmatched pair in an outer join.                *)
Emit(type, row, hits) ==
    IF hits = <<>> THEN (IF type # Inner THEN <<<<row, NoRow>>>> ELSE <<>>)
                   ELSE [i \in DOMAIN hits |-> <<row, hits[i]>>]

BuildProbe(P, B, type, ph, bh, p) ==
    LET b == BuildHt(bh, Entries(bh, p))
        hits(r) == SelectSeq(ProbeRun(b.ht, ph[r] % HtCap(PartCount(bh, p))),
                             LAMBDA q : bh[q] = ph[r] /\ KeysEq(P, r, B, q))
    IN [dup |-> b.dup,
        pairs |-> FlattenSeq([i \in 1 .. PartCount(ph, p) |-> LET r == Entries(ph, p)[i] IN Emit(type, r, hits(r))])]

(* A full join appends the right rows that matched nothing.                 *)
RightOnly(R, pairs) ==
    LET free == SelectSeq([r \in Rows(R) |-> r], LAMBDA r : \A i \in DOMAIN pairs : pairs[i][2] # r)
    IN [i \in DOMAIN free |-> <<NoRow, free[i]>>]

Completed(R, type, pairs) == IF type = FullOuter THEN pairs \o RightOnly(R, pairs) ELSE pairs

SwapSides(L, R, type) == type = Inner /\ Len(L.k) < Len(R.k)
Remap(swap, pairs) == IF swap THEN [i \in DOMAIN pairs |-> <<pairs[i][2], pairs[i][1]>>] ELSE pairs

Hashes(T) == [r \in Rows(T) |-> HashRow(T, r)]
RadixProbe(P, B, type) == [p \in Parts |-> BuildProbe(P, B, type, Hashes(P), Hashes(B), p)]
Combined(R, type, swap, out) ==
    [dup |-> \E p \in Parts : out[p].dup,
     pairs |-> Completed(R, type, Remap(swap, out[0].pairs \o out[1].pairs))]

RadixJoin(L, R, type) ==
    IF SwapSides(L, R, type) THEN Combined(R, type, TRUE, RadixProbe(R, L, type))
                             ELSE Combined(R, type, FALSE, RadixProbe(L, R, type))

-----------------------------------------------------------------------------
(* join_build_fn pushes the rows of a task onto the chains of a shared      *)
(* table without a lock.  One chain b: its head, the links, and for each    *)
(* task its next row and the head it last read.                             *)
RowOf(b, w) == w * BuildRows + b.at[w]
LoadHead(b, w) == [b EXCEPT !.old[w] = b.head, !.pc[w] = "cas"]
SwapHeadOnce(b, w) ==
    {[b EXCEPT !.head = RowOf(b, w), !.next[RowOf(b, w)] = b.old[w], !.at[w] = @ + 1, !.pc[w] = "load"]}
SwapHead(b, w) ==
    LET linked == [b EXCEPT !.next[RowOf(b, w)] = b.old[w]]
    IN {[linked EXCEPT !.old[w] = b.head]}     \* failed, or failed spuriously
       \cup IF b.head = b.old[w] THEN {[linked EXCEPT !.head = RowOf(b, w), !.at[w] = @ + 1, !.pc[w] = "load"]} ELSE {}

-----------------------------------------------------------------------------
(* The chained join.  Keys of one side screen the rows of the other when    *)
(* the sizes differ: the right rows if the left is factorized, or the left. *)
Screens(keys, T, r) == T.k[r] # Null /\ T.k[r] <= Max({0} \cup keys) /\ T.k[r] \notin keys
PlainKeys(T) == {T.k[r] : r \in Rows(T)} \ {Null}

AspSkips(L, R, type, r) ==
    type = Inner /\ L.dom = Plain /\ L.factorized /\ Len(R.k) > 2 * Len(L.k) /\ Screens(PlainKeys(L), R, r)
SjoinSkips(L, R, type, l) ==
    type = Inner /\ L.dom = Plain /\ R.dom = Plain /\ Len(L.k) > 2 * Len(R.k) /\ Screens(PlainKeys(R), L, l)

Chain(L, R, type, h) ==
    Reverse(SelectSeq([r \in Rows(R) |-> r],
                      LAMBDA r : HashRow(R, r) % HtCap(Len(R.k)) = h % HtCap(Len(R.k)) /\ ~AspSkips(L, R, type, r)))

ChainedJoin(L, R, type) ==
    LET hits(l) == IF SjoinSkips(L, R, type, l) THEN <<>>
                   ELSE SelectSeq(Chain(L, R, type, HashRow(L, l)), LAMBDA r : KeysEq(L, l, R, r))
    IN Completed(R, type, FlattenSeq([l \in Rows(L) |-> Emit(type, l, hits(l))]))

(* The key cell of a row: the left one, or in a right-only row of a full    *)
(* join the right one, written into the domain of the left column.          *)
KeyCell(L, R, pair) ==
    IF pair[1] # NoRow THEN (IF L.k[pair[1]] = Null THEN Null ELSE Name(L, L.k[pair[1]]) + 1)
    ELSE IF R.k[pair[2]] = Null THEN Null ELSE Name(R, R.k[pair[2]]) + 1
Storable(L, R, pair) ==
    pair[1] # NoRow \/ R.k[pair[2]] = Null \/ L.dom = Plain \/ Name(R, R.k[pair[2]]) \in ToSet(L.dom)

Gathered(L, R, pairs) ==
    IF \A i \in DOMAIN pairs : Storable(L, R, pairs[i])
    THEN [ok |-> TRUE, rows |-> [i \in DOMAIN pairs |-> <<KeyCell(L, R, pairs[i]), pairs[i][1], pairs[i][2]>>]]
    ELSE [ok |-> FALSE, rows |-> <<>>]

(* Few rows, or a key with too many, go to the chained join.                *)
PairsFrom(L, R, type, radix) ==
    IF Len(R.k) > Threshold /\ ~radix.dup THEN radix.pairs ELSE ChainedJoin(L, R, type)
JoinFlat(L, R, type) == Gathered(L, R, PairsFrom(L, R, type, RadixJoin(L, R, type)))

AntiFlat(L, R) ==
    IF R.k = <<>> \/ L.k = <<>> THEN [l \in Rows(L) |-> l]
    ELSE SelectSeq([l \in Rows(L) |-> l],
                   LAMBDA l : \A r \in ToSet(Chain(L, R, LeftOuter, HashRow(L, l))) : ~KeysEq(L, l, R, r))

(* A parted side is streamed one segment (rows a + 1 .. b) at a time when   *)
(* no pair of the result depends on two segments.                           *)
Eligible(type, leftParted) == type = Inner \/ (type = LeftOuter /\ leftParted)

Segment(T, a, b) == [T EXCEPT !.k = SubSeq(@, a + 1, b)]
ShiftRow(r, a) == IF r = NoRow THEN NoRow ELSE r + a
Shifted(rows, a, b) == [i \in DOMAIN rows |-> <<rows[i][1], ShiftRow(rows[i][2], a), ShiftRow(rows[i][3], b)>>]
StreamLeft(L, R, type, cut) ==
    JoinFlat(Segment(L, 0, cut), R, type).rows
    \o Shifted(JoinFlat(Segment(L, cut, Len(L.k)), R, type).rows, cut, 0)
StreamRight(L, R, type, cut) ==
    JoinFlat(L, Segment(R, 0, cut), type).rows
    \o Shifted(JoinFlat(L, Segment(R, cut, Len(R.k)), type).rows, 0, cut)

(* Side "left" or "right" is parted in two at cut; neither or both flatten. *)
JoinParted(L, R, type, side, cut) ==
    IF ~Eligible(type, side = "left") THEN JoinFlat(L, R, type).rows
    ELSE IF side = "left" THEN StreamLeft(L, R, type, cut) ELSE StreamRight(L, R, type, cut)

AntiParted(L, R, cut) ==
    AntiFlat(Segment(L, 0, cut), R) \o
    LET x == AntiFlat(Segment(L, cut, Len(L.k)), R) IN [i \in DOMAIN x |-> x[i] + cut]

-----------------------------------------------------------------------------
(* As-of join: for each left row the last right row of its key at or before *)
(* its time.  ne keys (0, 1 or 2) must be equal; a null key or time matches *)
(* nothing.                                                                 *)
Absent == -1
NullRow(T, ne, r) == T.t[r] = Null \/ (ne >= 1 /\ T.k[r] = Null)

(* A left key in the domain of the right side.                              *)
EqLeft(L, R, l) ==
    IF L.dom = R.dom THEN L.k[l]
    ELSE IF \E i \in DOMAIN R.dom : R.dom[i] = L.dom[L.k[l]] THEN CHOOSE i \in DOMAIN R.dom : R.dom[i] = L.dom[L.k[l]]
    ELSE Absent

LeftKey(L, R, ne, l) == SubSeq(<<EqLeft(L, R, l), L.j[l]>>, 1, ne)
RightKey(R, ne, r) == SubSeq(<<R.k[r], R.j[r]>>, 1, ne)

RowsWhere(R, Test(_)) == SelectSeq([r \in Rows(R) |-> r], Test)
Ascends(R, s) == \A i \in 1 .. Len(s) - 1 : R.t[s[i]] <= R.t[s[i + 1]]

(* Position of the last row of s with time at most t, by binary search.     *)
RECURSIVE LastAt(_, _, _, _, _, _)
LastAt(R, s, t, lo, hi, best) ==
    IF lo >= hi THEN best
    ELSE LET mid == lo + (hi - lo) \div 2
         IN IF R.t[s[mid + 1]] <= t THEN LastAt(R, s, t, mid + 1, hi, mid + 1)
                                    ELSE LastAt(R, s, t, lo, mid, best)
AtOrBefore(R, s, t) == LET b == LastAt(R, s, t, 0, Len(s), 0) IN IF b = 0 THEN NoRow ELSE s[b]

(* One walk over right rows: a left row, in order of time, gets the row     *)
(* before the first whose time is past its own.                             *)
CursorMerge(L, R, lefts, rows) ==
    LET ls == SortSeq(lefts, LAMBDA a, b : L.t[a] < L.t[b] \/ (L.t[a] = L.t[b] /\ a < b))
        step(s, r) == LET past == {i \in s.cur .. Len(ls) : \A h \in s.cur .. i : L.t[ls[h]] < R.t[r]}
                      IN [cur |-> s.cur + Cardinality(past), prev |-> r,
                          m |-> [l \in DOMAIN s.m |-> IF \E i \in past : ls[i] = l THEN s.prev ELSE s.m[l]]]
        end == FoldLeft(step, [cur |-> 1, prev |-> NoRow, m |-> [l \in ToSet(lefts) |-> NoRow]], rows)
    IN [l \in ToSet(lefts) |-> IF \E i \in end.cur .. Len(ls) : ls[i] = l THEN end.prev ELSE end.m[l]]

(* Rows of the same first key are searched back from the last at the time,  *)
(* with one budget of steps for all left rows.                              *)
SparseWalk(L, R, ne, budget) ==
    LET live == SelectSeq([l \in Rows(L) |-> l], LAMBDA l : ~NullRow(L, ne, l))
        slice(l) == RowsWhere(R, LAMBDA r : R.k[r] = EqLeft(L, R, l))
        last(l) == LastAt(R, slice(l), L.t[l], 0, Len(slice(l)), 0)
        found(l) == Max({0} \cup {i \in 1 .. last(l) : RightKey(R, ne, slice(l)[i]) = LeftKey(L, R, ne, l)})
        cost(l) == IF found(l) = 0 THEN last(l) ELSE last(l) - found(l) + 1
    IN [ok |-> FoldLeft(LAMBDA a, l : a + cost(l), 0, live) <= budget,
        m |-> [l \in Rows(L) |-> IF NullRow(L, ne, l) \/ found(l) = 0 THEN NoRow ELSE slice(l)[found(l)]]]

LexBefore(a, b) == \E i \in DOMAIN a : a[i] < b[i] /\ \A h \in 1 .. i - 1 : a[h] = b[h]

(* Bottom-up merge sort of row numbers by key; the left run wins ties.      *)
RECURSIVE MergeRuns(_, _, _), MergePass(_, _, _), MergeSort(_, _, _)
MergeRuns(a, b, key) ==
    IF a = <<>> THEN b ELSE IF b = <<>> THEN a
    ELSE IF LexBefore(key[b[1]], key[a[1]]) THEN <<b[1]>> \o MergeRuns(a, Tail(b), key)
                                            ELSE <<a[1]>> \o MergeRuns(Tail(a), b, key)
MergePass(s, w, key) ==
    IF Len(s) <= w THEN s
    ELSE MergeRuns(SubSeq(s, 1, w), SubSeq(s, w + 1, Min({2 * w, Len(s)})), key)
         \o MergePass(SubSeq(s, 2 * w + 1, Len(s)), w, key)
MergeSort(s, w, key) == IF w >= Len(s) THEN s ELSE MergeSort(MergePass(s, w, key), 2 * w, key)

SortKey(T, ne, r, key) == <<IF NullRow(T, ne, r) THEN 1 ELSE 0>> \o key \o <<T.t[r]>>

(* The merge of both sides in the order of key and time.  A left partition  *)
(* that is not after the one before it rewinds the right side.              *)
RECURSIVE Rewind(_, _, _, _), Advance(_, _, _, _, _), Walk(_, _, _, _, _)
Rewind(R, ri, key, s) ==
    IF s.rp > 1 /\ ~NullRow(R, Len(key), ri[s.rp - 1])
                /\ \A i \in DOMAIN key : RightKey(R, Len(key), ri[s.rp - 1])[i] >= key[i]
    THEN Rewind(R, ri, key, [s EXCEPT !.rp = @ - 1]) ELSE [s EXCEPT !.best = NoRow]

Advance(R, ri, key, t, s) ==
    IF s.rp > Len(ri) THEN s
    ELSE LET r == ri[s.rp]
             rk == RightKey(R, Len(key), r)
             on == [s EXCEPT !.rp = @ + 1]
         IN IF NullRow(R, Len(key), r) \/ LexBefore(rk, key) THEN Advance(R, ri, key, t, on)
            ELSE IF rk = key /\ R.t[r] <= t THEN Advance(R, ri, key, t, [on EXCEPT !.best = r])
            ELSE s

Walk(L, R, ne, order, s) ==
    IF order.l = <<>> THEN s.m
    ELSE LET l == order.l[1]
             key == LeftKey(L, R, ne, l)
             rest == [order EXCEPT !.l = Tail(@)]
             moved == s.before # NoRow /\ SubSeq(<<L.k[l], L.j[l]>>, 1, ne) # SubSeq(<<L.k[s.before], L.j[s.before]>>, 1, ne)
             at == Advance(R, order.r, key, L.t[l], IF moved THEN Rewind(R, order.r, key, s) ELSE s)
         IN IF NullRow(L, ne, l) THEN Walk(L, R, ne, rest, s)
            ELSE Walk(L, R, ne, rest, [at EXCEPT !.before = l, !.m[l] = at.best])

(* A side that is parted by its key, in time order within each part, is not *)
(* sorted again.                                                            *)
Contiguous(T) == \A a, b \in Rows(T) : a < b /\ T.k[a] = T.k[b] => \A c \in a .. b : T.k[c] = T.k[a]
Presorted(T, ne, parted) ==
    \/ ne = 0 /\ Ascends(T, [r \in Rows(T) |-> r]) /\ Null \notin ToSet(T.t) /\ parted
    \/ ne = 1 /\ parted /\ Null \notin ToSet(T.t)
       /\ \A a \in 1 .. Len(T.k) - 1 : T.k[a] = T.k[a + 1] => T.t[a] <= T.t[a + 1]

SortMerge(L, R, ne, lparted, rparted) ==
    LET all(T) == [r \in Rows(T) |-> r]
        lk == [l \in Rows(L) |-> SortKey(L, ne, l, IF NullRow(L, ne, l) THEN [i \in 1 .. ne |-> 0] ELSE LeftKey(L, R, ne, l))]
        rk == [r \in Rows(R) |-> SortKey(R, ne, r, RightKey(R, ne, r))]
        order == [l |-> IF (ne = 0 \/ L.dom = R.dom) /\ Presorted(L, ne, lparted) THEN all(L) ELSE MergeSort(all(L), 1, lk),
                  r |-> IF Presorted(R, ne, rparted) THEN all(R) ELSE MergeSort(all(R), 1, rk)]
    IN Walk(L, R, ne, order, [rp |-> 1, best |-> NoRow, before |-> NoRow, m |-> [l \in Rows(L) |-> NoRow]])

(* The variants that need no sort.  idx is the index on the first right key *)
(* ("none", "hash" or "part"), claim that it records rows in time order.    *)
Served == "served"
HashGroup(L, R, ne, idx, claim) ==
    LET live == {l \in Rows(L) : ~NullRow(L, ne, l)}
        noNulls == \A r \in Rows(R) : ~NullRow(R, 2, r)
        sorted == Ascends(R, [r \in Rows(R) |-> r])
        slice(l) == RowsWhere(R, LAMBDA r : R.k[r] = EqLeft(L, R, l))
        group(l) == RowsWhere(R, LAMBDA r : ~NullRow(R, ne, r) /\ RightKey(R, ne, r) = LeftKey(L, R, ne, l))
        lefts(l) == SelectSeq([i \in Rows(L) |-> i], LAMBDA i : i \in live /\ LeftKey(L, R, ne, i) = LeftKey(L, R, ne, l))
        inOrder == sorted \/ claim \/ \A l \in live : Ascends(R, slice(l))
        total == MapThenSumSet(LAMBDA k : Cardinality({r \in Rows(R) : R.k[r] = k}), {EqLeft(L, R, l) : l \in live})
        sparse == SparseWalk(L, R, ne, IF total > 0 THEN total ELSE 1)
        none == [l \in Rows(L) |-> NoRow]
        merged == [l \in Rows(L) |-> IF l \in live THEN CursorMerge(L, R, lefts(l), group(l))[l] ELSE NoRow]
        searched == [l \in Rows(L) |-> IF l \in live THEN AtOrBefore(R, group(l), L.t[l]) ELSE NoRow]
    IN IF R.k = <<>> THEN [by |-> Served, m |-> none]
       ELSE IF ne = 1 /\ noNulls /\ idx # "none" /\ inOrder
            THEN [by |-> Served, m |-> [l \in Rows(L) |-> IF l \in live THEN AtOrBefore(R, slice(l), L.t[l]) ELSE NoRow]]
       ELSE IF ne = 2 /\ noNulls /\ live # {} /\ idx # "none" /\ inOrder /\ claim /\ sparse.ok
            THEN [by |-> Served, m |-> sparse.m]
       ELSE IF sorted \/ (ne = 2 /\ noNulls /\ live # {} /\ idx # "none" /\ inOrder /\ total <= Len(R.k) \div 2)
            THEN [by |-> Served, m |-> merged]
       ELSE IF \A l \in live : Ascends(R, group(l)) THEN [by |-> Served, m |-> searched]
       ELSE [by |-> "sort", m |-> none]

AsofMatch(L, R, ne, idx, claim, lparted) ==
    LET g == HashGroup(L, R, ne, idx, claim)
    IN IF L.k = <<>> \/ g.by = Served THEN g.m ELSE SortMerge(L, R, ne, lparted, idx = "part")

(* Rows of the result: all left rows, or those with a match.                *)
AsofJoin(L, R, ne, type, idx, claim, lparted) ==
    LET m == AsofMatch(L, R, ne, idx, claim, lparted)
        kept == SelectSeq([l \in Rows(L) |-> l], LAMBDA l : type = LeftOuter \/ m[l] # NoRow)
    IN [i \in DOMAIN kept |-> <<kept[i], m[kept[i]]>>]

-----------------------------------------------------------------------------
(* Inputs: every pair of small tables.                                      *)
Doms == {<<Runtime, Runtime>>, <<<<0, 1>>, <<3, 0>>>>, <<Runtime, <<1, 3>>>>}
Ids(dom) == IF dom \in {Runtime, Plain} THEN {1, 2, 4} ELSE {1, 2}

Side(dom, fact) == [dom |-> dom, k |-> <<>>, factorized |-> fact]
JoinInit ==
    in \in {[kind |-> "join", l |-> Side(d[1], FALSE), r |-> Side(d[2], FALSE)] : d \in Doms}
          \cup {[kind |-> "join", l |-> Side(Plain, f), r |-> Side(Plain, FALSE)] : f \in BOOLEAN}

AddLeft ==
    /\ in.kind = "join" /\ in.r.k = <<>> /\ Len(in.l.k) < MaxSide
    /\ \E id \in Ids(in.l.dom) \cup {Null} : in' = [in EXCEPT !.l.k = Append(@, id)]
AddRight ==
    /\ in.kind = "join" /\ Len(in.r.k) < MaxSide /\ Len(in.l.k) + Len(in.r.k) < MaxBoth
    /\ \E id \in Ids(in.r.dom) \cup {Null} : in' = [in EXCEPT !.r.k = Append(@, id)]

Timed(dom) == [dom |-> dom, k |-> <<>>, j |-> <<>>, t |-> <<>>]
AsofInit ==
    in \in {[kind |-> "asof", l |-> Timed(d[1]), r |-> Timed(d[2])] : d \in {<<<<0, 1>>, <<0, 1>>>>, <<<<0, 1>>, <<3, 0>>>>}}

Grow(T, id, j, t) == [T EXCEPT !.k = Append(@, id), !.j = Append(@, j), !.t = Append(@, t)]
AddTimedLeft ==
    /\ in.kind = "asof" /\ in.r.k = <<>> /\ Len(in.l.k) < 2
    /\ \E id \in 1 .. 2, t \in {Null, 1, 3} : in' = [in EXCEPT !.l = Grow(@, id, 1, t)]
AddTimedRight ==
    /\ in.kind = "asof" /\ in.l.k # <<>> /\ Len(in.l.k) + Len(in.r.k) < MaxAsof
    /\ \E id \in 0 .. 2, j \in 1 .. 2, t \in {1, 2, 3} : (id = Null => j = 1) /\ in' = [in EXCEPT !.r = Grow(@, id, j, t)]

-----------------------------------------------------------------------------
(* join_build_fn: two workers push their rows onto the chain of one slot.   *)
BuildInit ==
    in \in {[kind |-> "build", head |-> NoRow, next |-> [r \in 1 .. 2 * BuildRows |-> NoRow],
             at |-> [w \in 0 .. 1 |-> 1], old |-> [w \in 0 .. 1 |-> NoRow], pc |-> [w \in 0 .. 1 |-> "load"]]}

BuildStep ==
    /\ in.kind = "build"
    /\ \E w \in 0 .. 1 :
          /\ in.at[w] <= BuildRows
          /\ \/ in.pc[w] = "load" /\ in' = LoadHead(in, w)
             \/ in.pc[w] = "cas" /\ in' \in SwapHead(in, w)

RECURSIVE ChainFrom(_, _, _)
ChainFrom(b, r, fuel) == IF r = NoRow \/ fuel = 0 THEN <<>> ELSE <<r>> \o ChainFrom(b, b.next[r], fuel - 1)

(* At every moment the chain holds the rows whose insertion has finished,   *)
(* each once, whatever the other worker does.                               *)
ChainComplete ==
    in.kind = "build" =>
        LET c == ChainFrom(in, in.head, 2 * BuildRows + 1)
        IN IsInjective(c) /\ ToSet(c) = UNION {{w * BuildRows + i : i \in 1 .. in.at[w] - 1} : w \in 0 .. 1}

-----------------------------------------------------------------------------
(* Reference: nested loops over names.                                      *)
NameAt(T, r) == IF T.k[r] = Null THEN Null ELSE Name(T, T.k[r]) + 1
Same(L, l, R, r) == NameAt(L, l) # Null /\ NameAt(L, l) = NameAt(R, r)
Reference(L, R, type) ==
    {<<NameAt(L, x[1]), x[1], x[2]>> : x \in {y \in Rows(L) \X Rows(R) : Same(L, y[1], R, y[2])}}
    \cup (IF type = Inner THEN {} ELSE {<<NameAt(L, l), l, NoRow>> : l \in {i \in Rows(L) : \A r \in Rows(R) : ~Same(L, i, R, r)}})
    \cup (IF type # FullOuter THEN {} ELSE {<<NameAt(R, r), NoRow, r>> : r \in {i \in Rows(R) : \A l \in Rows(L) : ~Same(L, l, R, i)}})
Holds(rows, set) == IsInjective(rows) /\ ToSet(rows) = set

JoinedRight(L, R, type, out) ==
    IF out.ok THEN Holds(out.rows, Reference(L, R, type))
    ELSE type = FullOuter /\ \E r \in Rows(R) : NameAt(R, r) # Null /\ NameAt(R, r) - 1 \notin ToSet(L.dom)

(* The join, by whichever path, has every pair once.  A full join fails     *)
(* only when a right key is not in the left column's domain.                *)
JoinExact ==
    in.kind = "join" =>
        \A type \in Inner .. FullOuter :
            JoinedRight(in.l, in.r, type, JoinFlat(in.l, in.r, type))

AgreesWith(radix, pairs) == ~radix.dup => IsInjective(radix.pairs) /\ ToSet(radix.pairs) = ToSet(pairs)

(* The radix and the chained path agree, so falling back is unobservable.   *)
PathsAgree ==
    in.kind = "join" =>
        \A type \in Inner .. FullOuter :
            AgreesWith(RadixJoin(in.l, in.r, type), ChainedJoin(in.l, in.r, type))

(* Scattering writes every cell of every partition once, and keeps the      *)
(* order of the rows.                                                       *)
ScatterExact ==
    in.kind = "join" =>
        LET hs == [r \in Rows(in.r) |-> HashRow(in.r, r)]
        IN \A p \in Parts :
              /\ {x[1] : x \in Scatter(hs, p)} = 0 .. PartCount(hs, p) - 1
              /\ Entries(hs, p) = SelectSeq([r \in Rows(in.r) |-> r], LAMBDA r : Part(hs[r]) = p)

(* Streaming the segments of a parted side, wherever it is cut, gives the   *)
(* rows of the join of the whole.                                           *)
StreamExact ==
    in.kind = "join" =>
        /\ \A type \in Inner .. FullOuter, side \in {"left", "right"} : JoinFlat(in.l, in.r, type).ok =>
              \A cut \in 0 .. Len(IF side = "left" THEN in.l.k ELSE in.r.k) :
                  Holds(JoinParted(in.l, in.r, type, side, cut), Reference(in.l, in.r, type))
        /\ \A cut \in 0 .. Len(in.l.k) : AntiParted(in.l, in.r, cut) = AntiFlat(in.l, in.r)

AntiExact ==
    in.kind = "join" => AntiFlat(in.l, in.r) = SelectSeq([l \in Rows(in.l) |-> l], LAMBDA l : \A r \in Rows(in.r) : ~Same(in.l, l, in.r, r))

(* Every variant of the as-of join returns the last row, in order of time   *)
(* and then of position, of the key at or before the time.                  *)
AsofReference(L, R, ne, l) ==
    LET c == {r \in Rows(R) : /\ ~NullRow(L, ne, l) /\ ~NullRow(R, ne, r) /\ R.t[r] <= L.t[l]
                              /\ ne >= 1 => Same(L, l, R, r)
                              /\ ne = 2 => L.j[l] = R.j[r]}
    IN IF c = {} THEN NoRow ELSE CHOOSE r \in c : \A q \in c : R.t[q] < R.t[r] \/ (R.t[q] = R.t[r] /\ q <= r)

AsofPairs(L, R, ne, type) ==
    SelectSeq([l \in Rows(L) |-> <<l, AsofReference(L, R, ne, l)>>], LAMBDA p : type = LeftOuter \/ p[2] # NoRow)

Indexes(R) == {"none"} \cup (IF Null \in ToSet(R.k) THEN {} ELSE {"hash"} \cup (IF Contiguous(R) THEN {"part"} ELSE {}))
InTimeOrder(R) == \A a, b \in Rows(R) : a < b /\ R.k[a] = R.k[b] => R.t[a] <= R.t[b]

AsofExact ==
    in.kind = "asof" =>
        \A ne \in 0 .. 2, idx \in Indexes(in.r), claim \in {FALSE, InTimeOrder(in.r)}, lp \in {FALSE, Contiguous(in.l)} :
            (claim => idx # "none") =>
            \A type \in {Inner, LeftOuter} : AsofJoin(in.l, in.r, ne, type, idx, claim, lp) = AsofPairs(in.l, in.r, ne, type)

(* Not so when the times were updated after the index was told their order. *)
AsofStale ==
    in.kind = "asof" /\ Contiguous(in.r) /\ Null \notin ToSet(in.r.k) =>
        AsofMatch(in.l, in.r, 1, "part", TRUE, FALSE) = [l \in Rows(in.l) |-> AsofReference(in.l, in.r, 1, l)]

Init == JoinInit \/ AsofInit \/ BuildInit
Next == AddLeft \/ AddRight \/ AddTimedLeft \/ AddTimedRight \/ BuildStep
Spec == Init /\ [][Next]_in
=============================================================================
