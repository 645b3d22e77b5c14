------------------------------- MODULE Index -------------------------------
(***************************************************************************)
(* Column indexes, the row selections they answer with (ops/idxop.c,       *)
(* ops/rowsel.c), the filter that chooses between them (ops/exec.c) and    *)
(* the ways selected rows are gathered (ops/filter.c).                     *)
(*                                                                         *)
(* A column is a record: t, its type; cells; nulls, the HAS_NULLS mark;    *)
(* sorted, the SORTED mark; ix, its index.  Rows count from 0.  A sym      *)
(* column holds ids that place names in its own domain dom, and a literal  *)
(* names a symbol by its id in the process-wide domain, where id is name.  *)
(***************************************************************************)
EXTENDS Integers, Sequences, FiniteSets, SequencesExt, FiniteSetsExt

CONSTANTS
    Morsel,     \* RAY_MORSEL_ELEMS
    Dense,      \* 64: fewer matching rows are never too many
    RangeRows,  \* 64: shorter columns take the range path always
    RangeFrac,  \* IDX_RANGE_MAX_FRAC
    Chunk,      \* rows of a zone of a chunked index
    Threshold,  \* RAY_PARALLEL_THRESHOLD
    ChunkRows,  \* FIDX_CHUNK_ROWS
    MaxTasks    \* RAY_POOL_INIT_TASKS

Compares == {"eq", "ne", "lt", "le", "gt", "ge"}
NaN == 99
Floats == {"f64"}
MinOf(t) == CASE t = "i64" -> -4 [] t = "i32" -> -2 [] OTHER -> 0
MaxOf(t) == CASE t = "i64" -> 3 [] t = "i32" -> 1 [] t = "u8" -> 3 [] OTHER -> 3
Listed(f) == SubSeq(f, 1, Len(f))
SizeOf(n) == IF n < 0 THEN 0 ELSE n
RowIds(n) == [i \in 1 .. n |-> i - 1]

Cell(col, r) == col.cells[r + 1]
NRows(col) == Len(col.cells)
(* The null of an integer type is its least value; u8 has none.             *)
IsNull(col, r) ==
    col.nulls /\ CASE col.t = "f64" -> Cell(col, r) = NaN
                   [] col.t \in {"i64", "i32"} -> Cell(col, r) = MinOf(col.t)
                   [] OTHER -> FALSE
NoIndex == [kind |-> "none"]

-----------------------------------------------------------------------------
(* A row selection: for each morsel whether none, all or some of its rows   *)
(* pass, and for the last kind where in idx their places in the morsel are. *)
NoSel == [n |-> -1, total |-> 0, flags |-> <<>>, offs |-> <<0>>, idx |-> <<>>]
Segs(n) == (n + Morsel - 1) \div Morsel
SegStart(s) == (s - 1) * Morsel
SegEnd(n, s) == IF s * Morsel > n THEN n ELSE s * Morsel
SegLen(n, s) == SegEnd(n, s) - SegStart(s)
Flag(pc, len) == IF pc = 0 THEN "none" ELSE IF pc = len THEN "all" ELSE "mix"

(* The selection whose morsel s passes the local places locals[s].          *)
PackSel(n, total, locals) ==
    LET flags == [s \in 1 .. Segs(n) |-> Flag(Len(locals[s]), SegLen(n, s))]
        stored == [s \in 1 .. Segs(n) |-> IF flags[s] = "mix" THEN locals[s] ELSE <<>>]
    IN [n |-> n, total |-> total, flags |-> flags,
        offs |-> [s \in 1 .. Segs(n) + 1 |-> FoldLeft(LAMBDA a, q : a + Len(q), 0, SubSeq(stored, 1, s - 1))],
        idx |-> FlattenSeq(stored)]

Stored(sel, s) == SubSeq(sel.idx, sel.offs[s] + 1, sel.offs[s + 1])
(* Local places of morsel s that pass.                                      *)
Locals(sel, s) ==
    CASE sel.flags[s] = "none" -> <<>>
      [] sel.flags[s] = "all" -> RowIds(SegLen(sel.n, s))
      [] OTHER -> Stored(sel, s)
SegIds(sel, s) == LET l == Locals(sel, s) IN [i \in DOMAIN l |-> SegStart(s) + l[i]]
ToIndices(sel) == FlattenSeq([s \in DOMAIN sel.flags |-> SegIds(sel, s)])

(* A selection from one byte per row; none at all when every row passes.    *)
FromPred(bits) ==
    LET n == Len(bits)
        locals == [s \in 1 .. Segs(n) |-> SelectSeq(RowIds(SegLen(n, s)), LAMBDA i : bits[SegStart(s) + i + 1])]
        total == Cardinality({r \in DOMAIN bits : bits[r]})
    IN IF n > 0 /\ total = n THEN NoSel ELSE PackSel(n, total, locals)

(* A worker's builder: its morsels, numbered from its own first one.        *)
EmitSegments(bits, first, last) ==
    LET n == Len(bits)
        locals == [s \in 1 .. last - first + 1 |->
                     SelectSeq(RowIds(SegLen(n, first + s - 1)), LAMBDA i : bits[SegStart(first + s - 1) + i + 1])]
    IN [flags |-> [s \in DOMAIN locals |-> Flag(Len(locals[s]), SegLen(n, first + s - 1))],
        locals |-> locals, total |-> FoldLeft(LAMBDA a, q : a + Len(q), 0, locals)]
(* Builders over consecutive ranges of morsels make one selection.          *)
BuilderFinish(builders, n) ==
    LET locals == FlattenSeq([w \in DOMAIN builders |-> builders[w].locals])
        total == FoldLeft(LAMBDA a, b : a + b.total, 0, builders)
    IN PackSel(n, total, [s \in 1 .. Segs(n) |-> IF s \in DOMAIN locals THEN locals[s] ELSE <<>>])

(* Ascending ids are taken morsel by morsel from where the last one ended.  *)
FromSortedIds(n, ids) ==
    LET take(b, s) == LET rest == SubSeq(ids, b.mi + 1, Len(ids))
                          own == SelectInSeq(rest, LAMBDA r : r >= SegEnd(n, s))
                          pc == IF own = 0 THEN Len(rest) ELSE own - 1
                      IN [mi |-> b.mi + pc, locals |-> Append(b.locals, [i \in 1 .. pc |-> rest[i] - SegStart(s)])]
        walk == FoldLeft(take, [mi |-> 0, locals |-> <<>>], [s \in 1 .. Segs(n) |-> s])
    IN PackSel(n, Len(ids), walk.locals)

Clip(n, s, lo, hi) ==
    LET a == IF lo > SegStart(s) THEN lo ELSE SegStart(s)
        b == IF hi < SegEnd(n, s) THEN hi ELSE SegEnd(n, s)
    IN [i \in 1 .. SizeOf(b - a) |-> a - SegStart(s) + i - 1]
FromContiguous(n, lo, hi) ==
    IF lo < 0 \/ hi < lo \/ hi > n THEN NoSel
    ELSE PackSel(n, hi - lo, [s \in 1 .. Segs(n) |-> Clip(n, s, lo, hi)])

(* Spans that overlap or step back, or do not add up to total, are refused. *)
FromSpans(n, spans, total) ==
    LET ends == [i \in DOMAIN spans |-> spans[i].start + spans[i].len]
        sound == \A i \in DOMAIN spans :
                    /\ spans[i].len > 0 /\ spans[i].start >= 0 /\ ends[i] <= n
                    /\ i > 1 => spans[i].start >= ends[i - 1]
        counted == FoldLeft(LAMBDA a, p : a + p.len, 0, spans)
    IN IF spans = <<>> THEN FromSortedIds(n, <<>>)
       ELSE IF ~sound \/ counted # total THEN NoSel
       ELSE PackSel(n, total, [s \in 1 .. Segs(n) |-> FlattenSeq([i \in DOMAIN spans |-> Clip(n, s, spans[i].start, ends[i])])])

(* Rows of a selection that also pass a predicate over every row.           *)
Refine(sel, bits) ==
    IF sel = NoSel THEN FromPred(bits)
    ELSE IF Len(bits) # sel.n THEN NoSel
    ELSE LET locals == [s \in DOMAIN sel.flags |-> SelectSeq(Locals(sel, s), LAMBDA i : bits[SegStart(s) + i + 1])]
             total == FoldLeft(LAMBDA a, q : a + Len(q), 0, locals)
         IN IF total = sel.n THEN NoSel ELSE PackSel(sel.n, total, locals)

(* Two ascending lists meet like a merge: the smaller head is dropped.      *)
RECURSIVE Meet(_, _)
Meet(a, b) ==
    IF a = <<>> \/ b = <<>> THEN <<>>
    ELSE IF Head(a) < Head(b) THEN Meet(Tail(a), b)
    ELSE IF Head(b) < Head(a) THEN Meet(a, Tail(b))
    ELSE <<Head(a)>> \o Meet(Tail(a), Tail(b))
MeetEither(a, b, s) == IF a.flags[s] = "all" \/ b.flags[s] = "all" THEN RowIds(SegLen(a.n, s)) ELSE Meet(Locals(a, s), Locals(b, s))
MeetFlag(a, b, s) ==
    IF a.flags[s] = "none" \/ b.flags[s] = "none" THEN <<>>
    ELSE IF a.flags[s] = "all" THEN Locals(b, s)
    ELSE IF b.flags[s] = "all" THEN Locals(a, s)
    ELSE Meet(Stored(a, s), Stored(b, s))
Intersect(a, b) ==
    IF a = NoSel \/ b = NoSel \/ a.n # b.n THEN NoSel
    ELSE LET locals == [s \in DOMAIN a.flags |-> MeetFlag(a, b, s)]
         IN PackSel(a.n, FoldLeft(LAMBDA t, q : t + Len(q), 0, locals), locals)

-----------------------------------------------------------------------------
(* Attributes and indexes of a column.                                      *)
Lt(t, a, b) == IF t \in Floats /\ NaN \in {a, b} THEN FALSE ELSE a < b
Ascending(col) ==
    \/ NRows(col) < 2
    \/ /\ col.t # "sym"
       /\ ~\E r \in 0 .. NRows(col) - 1 : IsNull(col, r) \/ (col.t = "f64" /\ Cell(col, r) = NaN)
       /\ \A r \in 1 .. NRows(col) - 1 : ~Lt(col.t, Cell(col, r), Cell(col, r - 1))

Mix(k) == (k * k + k) % 8
NextPow2(n) == CHOOSE p \in {1, 2, 4, 8, 16, 32} : p >= n /\ \A q \in {1, 2, 4, 8, 16, 32} : q >= n => p <= q
Cap(n) == NextPow2(IF n < 4 THEN 8 ELSE 2 * n)
(* The slot that holds a member equal to k, or the free one where it goes.  *)
RECURSIVE Probe(_, _, _, _)
Probe(tab, keys, k, slot) ==
    IF tab[slot] = 0 \/ keys[tab[slot]] = k THEN slot ELSE Probe(tab, keys, k, (slot + 1) % Cardinality(DOMAIN tab))
EmptyTable(cap) == [s \in 0 .. cap - 1 |-> 0]

AllDistinct(col) ==
    LET n == NRows(col)
        cap == NextPow2(IF 2 * n + 1 < 16 THEN 16 ELSE 2 * n + 1)
        step(b, r) == IF ~b.ok \/ IsNull(col, r) THEN b
                      ELSE LET s == Probe(b.tab, b.keys, Cell(col, r), Mix(Cell(col, r)) % cap)
                           IN IF b.tab[s] # 0 THEN [b EXCEPT !.ok = FALSE]
                              ELSE [b EXCEPT !.tab[s] = Len(b.keys) + 1, !.keys = Append(@, Cell(col, r))]
    IN n < 2 \/ FoldLeft(step, [ok |-> TRUE, tab |-> EmptyTable(cap), keys |-> <<>>], RowIds(n)).ok

(* Rows grouped by key in the order the keys appear, behind a probe table.  *)
HashIndex(col) ==
    LET n == NRows(col)
        b0 == [tab |-> EmptyTable(Cap(n)), keys |-> <<>>, gid |-> <<>>]
        step(b, r) == IF IsNull(col, r) THEN [b EXCEPT !.gid = Append(@, 0)]
                      ELSE LET k == Cell(col, r)
                               s == Probe(b.tab, b.keys, k, Mix(k) % Cap(n))
                           IN IF b.tab[s] = 0
                              THEN [tab |-> [b.tab EXCEPT ![s] = Len(b.keys) + 1], keys |-> Append(b.keys, k),
                                    gid |-> Append(b.gid, Len(b.keys) + 1)]
                              ELSE [b EXCEPT !.gid = Append(@, b.tab[s])]
        built == FoldLeft(step, b0, RowIds(n))
        rows(g) == SelectSeq(RowIds(n), LAMBDA r : built.gid[r + 1] = g)
        cap == Cap(Len(built.keys))
        put(tab, g) == [tab EXCEPT ![Probe(tab, built.keys, built.keys[g], Mix(built.keys[g]) % cap)] = g]
    IN [kind |-> "hash", len |-> n, keys |-> built.keys, rows |-> [g \in DOMAIN built.keys |-> rows(g)],
        tab |-> FoldLeft(put, EmptyTable(cap), [g \in DOMAIN built.keys |-> g])]

(* The least and greatest cell that is no null, or zero.                    *)
Extremes(col, rows) ==
    LET vals == {Cell(col, r) : r \in {q \in rows : ~IsNull(col, q) /\ ~(col.t = "f64" /\ Cell(col, q) = NaN)}}
    IN [any |-> vals # {}, mn |-> IF vals = {} THEN 0 ELSE Min(vals), mx |-> IF vals = {} THEN 0 ELSE Max(vals)]
ZoneIndex(col) ==
    LET e == Extremes(col, 0 .. NRows(col) - 1)
    IN [kind |-> "zone", len |-> NRows(col), mn |-> e.mn, mx |-> e.mx]

ChunkRowsOf(col, g) == {r \in 0 .. NRows(col) - 1 : r \div Chunk = g - 1}
ChunkZoneIndex(col) ==
    [kind |-> "chunk", len |-> NRows(col),
     zones |-> [g \in 1 .. (NRows(col) + Chunk - 1) \div Chunk |->
                  LET e == Extremes(col, ChunkRowsOf(col, g))
                  IN [any |-> e.any, mn |-> e.mn, mx |-> e.mx,
                      nulls |-> \E r \in ChunkRowsOf(col, g) : IsNull(col, r) \/ (col.t = "f64" /\ Cell(col, r) = NaN)]]]

SortIndex(col) ==
    LET n == NRows(col)
        rank(v) == IF v = NaN THEN -99 ELSE v
        before(a, b) == rank(Cell(col, a)) < rank(Cell(col, b)) \/ (Cell(col, a) = Cell(col, b) /\ a < b)
        place(r) == Cardinality({q \in 0 .. n - 1 : before(q, r)})
    IN [kind |-> "sort", len |-> n, perm |-> [i \in 1 .. n |-> CHOOSE r \in 0 .. n - 1 : place(r) = i - 1]]

BloomBits(k) == LET h == Mix(k) IN {(h + kk * (2 * (h % 3) + 1)) % 16 : kk \in 0 .. 2}
BloomIndex(col) ==
    [kind |-> "bloom", len |-> NRows(col), bits |-> UNION {BloomBits(Cell(col, r)) : r \in {q \in 0 .. NRows(col) - 1 : ~IsNull(col, q)}}]

(* Contiguous blocks of one value each, or refused.                         *)
RunStarts(col) == SelectSeq(RowIds(NRows(col)), LAMBDA r : r = 0 \/ Cell(col, r) # Cell(col, r - 1))
PartIndex(col) ==
    LET starts == RunStarts(col)
        ends == [p \in DOMAIN starts |-> IF p = Len(starts) THEN NRows(col) ELSE starts[p + 1]]
        keys == [p \in DOMAIN starts |-> Cell(col, starts[p])]
        laidOut == IF col.t # "sym" THEN Ascending(col) ELSE IsInjective(keys)
    IN IF ~laidOut THEN NoIndex
       ELSE [kind |-> "part", len |-> NRows(col), keys |-> keys, starts |-> starts, lens |-> [p \in DOMAIN starts |-> ends[p] - starts[p]]]

(* Codes of strings by first appearance.                                    *)
DictIndex(cells) ==
    LET step(b, c) == IF \E i \in DOMAIN b.first : b.first[i] = c
                      THEN [b EXCEPT !.codes = Append(@, CHOOSE i \in DOMAIN b.first : b.first[i] = c)]
                      ELSE [first |-> Append(b.first, c), codes |-> Append(b.codes, Len(b.first) + 1)]
    IN FoldLeft(step, [first |-> <<>>, codes |-> <<>>], cells)

-----------------------------------------------------------------------------
(* Questions to an index.  NoSel says the index declines and a scan answers.*)
Fresh(col, kind) == col.ix.kind = kind /\ col.ix.len = NRows(col)
FreshNoNull(col, kind) == Fresh(col, kind) /\ ~col.nulls

InRange(t, k) == CASE t = "sym" -> k >= 0 [] t \in Floats -> FALSE [] OTHER -> k >= MinOf(t) /\ k <= MaxOf(t)

ZoneClass(col, op, key) ==
    IF ~FreshNoNull(col, "zone") \/ (col.t = "f64" /\ key = NaN) \/ col.t = "sym" THEN "unknown"
    ELSE LET mn == col.ix.mn
             mx == col.ix.mx
             out == key < mn \/ key > mx
             only == mn = mx /\ mn = key
             class(all, none) == IF all THEN "all" ELSE IF none THEN "none" ELSE "unknown"
         IN CASE op = "eq" -> IF out THEN "none" ELSE class(only, FALSE)
              [] op = "ne" -> IF only THEN "none" ELSE class(out, FALSE)
              [] op = "lt" -> class(mx < key, mn >= key)
              [] op = "le" -> class(mx <= key, mn > key)
              [] op = "gt" -> class(mn > key, mx <= key)
              [] OTHER -> class(mn >= key, mx < key)

(* The group of a key: 0 when there is none.                                *)
HashGroup(ix, key) == ix.tab[Probe(ix.tab, ix.keys, key, Mix(key) % Cardinality(DOMAIN ix.tab))]
TooDense(rows, limit) == rows > Dense /\ rows > limit

HashEq(col, key) ==
    IF ~Fresh(col, "hash") \/ ~InRange(col.t, key) THEN NoSel
    ELSE LET g == HashGroup(col.ix, key)
         IN IF g = 0 THEN FromSortedIds(NRows(col), <<>>)
            ELSE IF TooDense(Len(col.ix.rows[g]), NRows(col) \div 8) THEN NoSel
            ELSE FromSortedIds(NRows(col), col.ix.rows[g])

PartEq(col, key) ==
    IF ~FreshNoNull(col, "part") \/ col.t \in Floats THEN NoSel
    ELSE LET hit == {p \in DOMAIN col.ix.keys : col.ix.keys[p] = key}
             p == Min(hit)
         IN IF (col.t # "sym" /\ ~InRange(col.t, key)) \/ hit = {} THEN FromSortedIds(NRows(col), <<>>)
            ELSE IF TooDense(col.ix.lens[p], NRows(col) \div 2) THEN NoSel
            ELSE FromSpans(NRows(col), <<[start |-> col.ix.starts[p], len |-> col.ix.lens[p]]>>, col.ix.lens[p])

DomId(col, name) == IF \E i \in DOMAIN col.dom : col.dom[i] = name THEN (CHOOSE i \in DOMAIN col.dom : col.dom[i] = name) - 1 ELSE -1
(* The set's members as the column would store them: those it cannot store  *)
(* match nothing.  A set of symbols goes by name.                           *)
Probes(col, set) ==
    IF col.t = "sym" THEN {DomId(col, v) : v \in ToSet(set)} \ {-1} ELSE {v \in ToSet(set) : InRange(col.t, v)}
SortedSeq(S) == LET rank(v) == Cardinality({w \in S : w < v}) + 1
                IN [i \in 1 .. Cardinality(S) |-> CHOOSE v \in S : rank(v) = i]
InSel(col, set) ==
    LET n == NRows(col)
        probes == Probes(col, set)
        spans == LET hit == SelectSeq([p \in DOMAIN col.ix.keys |-> p], LAMBDA p : col.ix.keys[p] \in probes)
                 IN [i \in DOMAIN hit |-> [start |-> col.ix.starts[hit[i]], len |-> col.ix.lens[hit[i]]]]
        groups == {HashGroup(col.ix, v) : v \in probes} \ {0}
        ids == UNION {ToSet(col.ix.rows[g]) : g \in groups}
    IN IF col.t \in Floats \/ ~(FreshNoNull(col, "hash") \/ FreshNoNull(col, "part")) THEN NoSel
       ELSE IF probes = {} THEN FromSortedIds(n, <<>>)
       ELSE IF col.ix.kind = "part" THEN FromSpans(n, spans, FoldLeft(LAMBDA a, p : a + p.len, 0, spans))
       ELSE IF TooDense(Cardinality(ids), n \div 16) THEN NoSel
       ELSE FromSortedIds(n, SortedSeq(ids))

(* Binary search: the first place in 0 .. n whose cell is not before key.   *)
RECURSIVE Search(_, _, _, _, _)
Search(vals, key, upper, lo, hi) ==
    IF lo >= hi THEN lo
    ELSE LET mid == lo + (hi - lo) \div 2
             v == vals[mid + 1]
             right == NaN \notin {v, key} /\ (v < key \/ (upper /\ v = key))
         IN IF right THEN Search(vals, key, upper, mid + 1, hi) ELSE Search(vals, key, upper, lo, mid)
Bounds(op, lower, upper, n) ==
    CASE op = "lt" -> <<0, lower>> [] op = "le" -> <<0, upper>> [] op = "gt" -> <<upper, n>>
      [] op = "ge" -> <<lower, n>> [] OTHER -> <<lower, upper>>

RangeSel(col, op, key) ==
    IF op = "ne" \/ ~FreshNoNull(col, "sort") THEN NoSel
    ELSE LET n == NRows(col)
             vals == [i \in 1 .. n |-> Cell(col, col.ix.perm[i])]
             b == Bounds(op, Search(vals, key, FALSE, 0, n), Search(vals, key, TRUE, 0, n), n)
             span == b[2] - b[1]
         IN IF span <= 0 THEN FromSortedIds(n, <<>>)
            ELSE IF n >= RangeRows /\ span > n \div RangeFrac THEN NoSel
            ELSE FromSortedIds(n, SortedSeq({col.ix.perm[i] : i \in b[1] + 1 .. b[2]}))

SortedRangeSel(col, op, key) ==
    IF op = "ne" \/ ~col.sorted \/ col.nulls \/ col.t = "sym" THEN NoSel
    ELSE LET n == NRows(col)
             lower == Search(col.cells, key, FALSE, 0, n)
             b == Bounds(op, lower, Search(col.cells, key, TRUE, lower, n), n)
         IN FromContiguous(n, b[1], b[2])

BloomAbsent(col, key) == FreshNoNull(col, "bloom") /\ col.t \notin Floats /\ \E b \in BloomBits(key) : b \notin col.ix.bits

(* -2: ask a scan; -1: there is no such row.                                *)
FindRow(col, key) ==
    IF col.t \in Floats \/ ~FreshNoNull(col, "hash") THEN -2
    ELSE IF ~InRange(col.t, key) THEN -1
    ELSE LET g == HashGroup(col.ix, key) IN IF g = 0 THEN -1 ELSE col.ix.rows[g][1]

DistinctIds(col) ==
    LET p == col.ix.perm
    IN SelectSeq(Listed([i \in DOMAIN p |-> IF i = 1 \/ Cell(col, p[i]) # Cell(col, p[i - 1]) THEN p[i] ELSE -1]), LAMBDA r : r >= 0)
(* The rows of each symbol asked for, in the order of their ids.            *)
SymSlices(col, names) ==
    LET doms == SortedSeq({DomId(col, v) : v \in ToSet(names)} \ {-1})
        rows(d) == IF col.ix.kind = "hash" THEN LET g == HashGroup(col.ix, d) IN IF g = 0 THEN <<>> ELSE col.ix.rows[g]
                   ELSE LET hit == {p \in DOMAIN col.ix.keys : col.ix.keys[p] = d}
                        IN IF hit = {} THEN <<>> ELSE LET p == Min(hit) IN [i \in 1 .. col.ix.lens[p] |-> col.ix.starts[p] + i - 1]
    IN SelectSeq(Listed([i \in DOMAIN doms |-> [dom |-> doms[i], rows |-> rows(doms[i])]]), LAMBDA s : s.rows # <<>>)
=============================================================================
