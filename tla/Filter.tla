------------------------------- MODULE Filter -------------------------------
(***************************************************************************)
(* WHERE: how a filter of a query asks the indexes and the marks of its    *)
(* columns before it scans (OP_FILTER of ops/exec.c), how selections of    *)
(* successive filters combine, and how rows are gathered (ops/filter.c).   *)
(*                                                                         *)
(* A predicate compares a column with a literal, tests it for membership,  *)
(* or is a conjunction.  Columns in a partitioned table are parted (segs)  *)
(* or the partition key itself (vals, and counts of rows).                 *)
(***************************************************************************)
EXTENDS Index

(* Nulls are least, and equal to one another (expr.c).                      *)
Rank(t, v) == IF t = "f64" /\ v = NaN THEN -99 ELSE v
CompareCells(t, op, a, b) ==
    LET x == Rank(t, a)
        y == Rank(t, b)
    IN CASE op = "eq" -> x = y [] op = "ne" -> x # y [] op = "lt" -> x < y
         [] op = "le" -> x <= y [] op = "gt" -> x > y [] OTHER -> x >= y
Value(col, r) == IF col.t = "sym" THEN col.dom[Cell(col, r) + 1] ELSE Cell(col, r)

RECURSIVE Holds(_, _, _)
Holds(T, p, r) ==
    CASE p.k = "cmp" -> CompareCells(T[p.c].t, p.op, Value(T[p.c], r), p.key)
      [] p.k = "in" -> \E v \in ToSet(p.set) : v = Value(T[p.c], r)
      [] p.k = "or" -> Holds(T, p.l, r) \/ Holds(T, p.r, r)
      [] OTHER -> Holds(T, p.l, r) /\ Holds(T, p.r, r)
Scan(T, p) == [i \in 1 .. NRows(T[1]) |-> Holds(T, p, i - 1)]

-----------------------------------------------------------------------------
(* A float literal never asks an index of integers.                         *)
Decodes(T, p) == p.k = "cmp" /\ (p.float => T[p.c].t \in Floats)
RECURSIVE Conjuncts(_)
Conjuncts(p) == IF p.k = "and" THEN Conjuncts(p.r) \o Conjuncts(p.l) ELSE <<p>>

SortedAnswer(T, p) ==
    IF Decodes(T, p) /\ p.op # "ne" /\ T[p.c].sorted THEN SortedRangeSel(T[p.c], p.op, p.key) ELSE NoSel

(* What the column's index says of a comparison: everything passes (all),   *)
(* a selection, or neither.                                                 *)
Answer(all, sel) == [all |-> all, sel |-> sel]
Silent == Answer(FALSE, NoSel)
Nobody(col) == Answer(FALSE, FromSortedIds(NRows(col), <<>>))
EqAnswer(col, key) ==
    LET probe == IF col.t = "sym" THEN DomId(col, key) ELSE key
    IN IF col.nulls \/ col.t \in Floats THEN Silent
       ELSE IF col.t = "sym" /\ probe < 0 THEN Nobody(col)
       ELSE Answer(FALSE, IF col.ix.kind = "hash" THEN HashEq(col, probe) ELSE IF col.ix.kind = "part" THEN PartEq(col, probe) ELSE NoSel)
IndexAnswer(T, p) ==
    LET col == T[p.c]
        zone == ZoneClass(col, p.op, p.key)
        Else(eq) == IF eq.sel # NoSel THEN eq ELSE Answer(FALSE, RangeSel(col, p.op, p.key))
    IN CASE zone = "all" -> Answer(TRUE, NoSel)
         [] zone = "none" -> Nobody(col)
         [] p.op = "eq" /\ ~p.float /\ BloomAbsent(col, p.key) -> Nobody(col)
         [] OTHER -> Else(IF p.op = "eq" /\ ~p.float THEN EqAnswer(col, p.key) ELSE Silent)

(* An equality on a hashed column and bounds on one other column: the rows  *)
(* of the group are searched when that column ascends along them.           *)
LowOf(p) == CASE p.op = "ge" -> p.key [] p.op = "gt" -> p.key + 1 [] OTHER -> -100
HighOf(p) == CASE p.op = "le" -> p.key [] p.op = "lt" -> p.key - 1 [] OTHER -> 100
GroupAscends(T, c, rows) == \A i \in 2 .. Len(rows) : Cell(T[c], rows[i]) >= Cell(T[c], rows[i - 1])
GroupWithin(T, n, c, rows, lo, hi) ==
    LET vals == [i \in DOMAIN rows |-> Cell(T[c], rows[i])]
        Cut(first) == SubSeq(rows, first + 1, Search(vals, hi, TRUE, first, Len(rows)))
    IN IF ~GroupAscends(T, c, rows) THEN NoSel ELSE FromSortedIds(n, Cut(Search(vals, lo, FALSE, 0, Len(rows))))
GroupOf(col, probe) == IF ~InRange(col.t, probe) \/ (probe < 0 /\ col.t = "sym") THEN 0 ELSE HashGroup(col.ix, probe)
GroupRange(T, col, c, g, lo, hi) ==
    IF g = 0 \/ lo > hi THEN FromSortedIds(NRows(col), <<>>) ELSE GroupWithin(T, NRows(col), c, col.ix.rows[g], lo, hi)

EqsOf(T, conj) == {i \in DOMAIN conj : conj[i].k = "cmp" /\ conj[i].op = "eq" /\ T[conj[i].c].ix.kind = "hash" /\ ~T[conj[i].c].nulls}
BoundsOf(T, conj) == {i \in DOMAIN conj : conj[i].k = "cmp" /\ conj[i].op \in {"lt", "le", "gt", "ge"} /\ ~T[conj[i].c].nulls}
EqRangeShape(T, conj, eqs, bounds) ==
    /\ Len(conj) \in 2 .. 4
    /\ \A i \in DOMAIN conj : conj[i].k = "cmp" /\ Decodes(T, conj[i]) /\ T[conj[i].c].t \notin Floats
    /\ Cardinality(eqs) = 1 /\ bounds # {} /\ eqs \cup bounds = DOMAIN conj
    /\ \A i \in bounds : conj[i].c = conj[Min(bounds)].c
    /\ conj[Min(eqs)].c # conj[Min(bounds)].c
EqRange(T, conj, eqs, bounds) ==
    LET eq == conj[Min(eqs)]
        col == T[eq.c]
    IN IF ~EqRangeShape(T, conj, eqs, bounds) THEN NoSel
       ELSE GroupRange(T, col, conj[Min(bounds)].c, GroupOf(col, IF col.t = "sym" THEN DomId(col, eq.key) ELSE eq.key),
                       Max({LowOf(conj[i]) : i \in bounds}), Min({HighOf(conj[i]) : i \in bounds}))
EqRangeAnswer(T, p) == LET conj == Conjuncts(p) IN EqRange(T, conj, EqsOf(T, conj), BoundsOf(T, conj))

InAnswer(T, p) == IF p.k = "in" THEN InSel(T[p.c], p.set) ELSE NoSel

(* The extrema of a chunk may decide a comparison for all rows of a morsel: *)
(* 1 all pass, 0 none does, -1 undecided.                                   *)
ChunkDecision(z, op, key) ==
    LET one == z.mn = z.mx
        out == key < z.mn \/ key > z.mx
        tri(none, all) == IF none THEN 0 ELSE IF ~z.nulls /\ all THEN 1 ELSE -1
    IN IF ~z.any THEN -1
       ELSE CASE op = "eq" -> tri(out, one)
              [] op = "ne" -> tri(one /\ key = z.mn, out)
              [] op = "lt" -> tri(z.mn >= key, z.mx < key)
              [] op = "le" -> tri(z.mn > key, z.mx <= key)
              [] op = "gt" -> tri(z.mx <= key, z.mn > key)
              [] OTHER -> tri(z.mx < key, z.mn >= key)
TriAnd(a, b) == IF a = 0 \/ b = 0 THEN 0 ELSE IF a = 1 /\ b = 1 THEN 1 ELSE -1
TriOr(a, b) == IF a = 1 \/ b = 1 THEN 1 ELSE IF a = 0 /\ b = 0 THEN 0 ELSE -1
RECURSIVE DecideMorsel(_, _, _)
DecideMorsel(T, p, s) ==
    CASE p.k = "and" -> TriAnd(DecideMorsel(T, p.l, s), DecideMorsel(T, p.r, s))
      [] p.k = "or" -> TriOr(DecideMorsel(T, p.l, s), DecideMorsel(T, p.r, s))
      [] p.k = "in" -> -1
      [] OTHER -> LET col == T[p.c]
                      g == SegStart(s) \div Chunk
                  IN IF Fresh(col, "chunk") /\ col.t \notin Floats /\ ~p.float /\ (SegEnd(NRows(col), s) - 1) \div Chunk = g
                     THEN ChunkDecision(col.ix.zones[g + 1], p.op, p.key) ELSE -1
FusedScan(T, p) ==
    [i \in 1 .. NRows(T[1]) |-> LET d == DecideMorsel(T, p, (i - 1) \div Morsel + 1)
                                IN IF d = -1 THEN Holds(T, p, i - 1) ELSE d = 1]

(* The scan of a table without a selection fills one builder per worker.    *)
ScanAnswer(T, p) ==
    LET bits == FusedScan(T, p)
        n == Len(bits)
        half == Segs(n) \div 2
        sel == BuilderFinish(<<EmitSegments(bits, 1, half), EmitSegments(bits, half + 1, Segs(n))>>, n)
    IN IF sel.total = n THEN Answer(TRUE, NoSel) ELSE Answer(FALSE, sel)

-----------------------------------------------------------------------------
(* Gathering.  A gathered column has no index and no order; marked says     *)
(* whether its HAS_NULLS mark follows its cells.                            *)
Gathered(col, ids, marked) ==
    [col EXCEPT !.cells = [i \in DOMAIN ids |-> Cell(col, ids[i])], !.sorted = FALSE, !.ix = NoIndex,
                !.nulls = marked /\ \E i \in DOMAIN ids : IsNull(col, ids[i])]

(* The segment of each row, walking forward: rows ascend.                   *)
SegEnds(segs) == [s \in DOMAIN segs |-> FoldLeft(LAMBDA a, q : a + Len(q), 0, SubSeq(segs, 1, s))]
RECURSIVE WalkTo(_, _, _)
WalkTo(ends, seg, row) == IF seg < Len(ends) /\ row >= ends[seg] THEN WalkTo(ends, seg + 1, row) ELSE seg
GatherParted(segs, ids) ==
    LET ends == SegEnds(segs)
        step(b, row) == LET s == WalkTo(ends, b.seg, row)
                            local == row - (IF s > 1 THEN ends[s - 1] ELSE 0)
                        IN [seg |-> s, out |-> Append(b.out, IF local + 1 \in DOMAIN segs[s] THEN segs[s][local + 1] ELSE 0)]
    IN FoldLeft(step, [seg |-> 1, out |-> <<>>], ids).out
(* The same rows from the predicate, segment by segment.                    *)
FilterParted(segs, bits) ==
    LET ends == SegEnds(segs)
        off(s) == IF s > 1 THEN ends[s - 1] ELSE 0
        own(s) == SelectSeq([i \in DOMAIN segs[s] |-> i], LAMBDA i : bits[off(s) + i])
    IN FlattenSeq([s \in DOMAIN segs |-> LET o == own(s) IN [j \in DOMAIN o |-> segs[s][o[j]]]])

(* The partition key of each row: by the predicate, and by place.           *)
KeyByPred(vals, counts, bits) ==
    FilterParted([p \in DOMAIN vals |-> [i \in 1 .. counts[p] |-> vals[p]]], bits)
KeyOfRow(vals, counts, row) ==
    LET upTo(p) == FoldLeft(LAMBDA a, c : a + c, 0, SubSeq(counts, 1, p))
        hit == {p \in 1 .. Len(vals) - 1 : row < upTo(p)}
    IN vals[IF hit = {} THEN Len(vals) ELSE Min(hit)]

(* Two passes over chunks of the predicate: each task writes from where the *)
(* passing rows of the chunks before it end.                                *)
RECURSIVE ChunkSize(_, _)
ChunkSize(n, rows) == IF (n + rows - 1) \div rows > MaxTasks THEN ChunkSize(n, 2 * rows) ELSE rows
FillIndices(bits) ==
    LET size == ChunkSize(Len(bits), ChunkRows)
        chunks == (Len(bits) + size - 1) \div size
        own(ch) == SelectSeq(RowIds(Len(bits)), LAMBDA r : r \div size = ch - 1 /\ bits[r + 1])
        start(ch) == FoldLeft(LAMBDA a, c : a + Len(own(c)), 0, [c \in 1 .. ch - 1 |-> c])
        put == UNION {{<<start(ch) + j, own(ch)[j]>> : j \in DOMAIN own(ch)} : ch \in 1 .. chunks}
    IN [j \in 1 .. Cardinality({r \in DOMAIN bits : bits[r]}) |-> CHOOSE r \in 0 .. Len(bits) - 1 : <<j, r>> \in put]
Serial(bits) == SelectSeq(RowIds(Len(bits)), LAMBDA r : bits[r + 1])

OfCells(col, cells) == [form |-> "flat", cells |-> cells]
(* exec_filter: column by column on few rows, by row ids on many.           *)
FilterColumn(col, bits) ==
    CASE col.form = "parted" -> OfCells(col, FilterParted(col.segs, bits))
      [] col.form = "key" -> OfCells(col, KeyByPred(col.vals, col.counts, bits))
      [] OTHER -> Gathered(col, Serial(bits), TRUE)
GatherColumn(col, bits, ids) ==
    CASE col.form = "parted" -> OfCells(col, GatherParted(col.segs, ids))
      [] col.form = "key" -> OfCells(col, KeyByPred(col.vals, col.counts, bits))
      [] OTHER -> Gathered(col, ids, FALSE)
ExecFilter(T, bits) ==
    IF Len(bits) <= Threshold THEN [c \in DOMAIN T |-> FilterColumn(T[c], bits)]
    ELSE LET ids == FillIndices(bits) IN [c \in DOMAIN T |-> GatherColumn(T[c], bits, ids)]

(* exec_filter_head: the first rows that pass; no partition key.            *)
HeadColumn(col, ids) == IF col.form = "parted" THEN OfCells(col, GatherParted(col.segs, ids)) ELSE Gathered(col, ids, FALSE)
ExecFilterHead(T, bits, limit) ==
    LET ids == Serial(bits)
        kept == SelectSeq([c \in DOMAIN T |-> c], LAMBDA c : T[c].form # "key")
    IN IF limit <= 0 THEN <<>>
       ELSE [i \in DOMAIN kept |-> HeadColumn(T[kept[i]], SubSeq(ids, 1, IF limit < Len(ids) THEN limit ELSE Len(ids)))]

(* sel_compact: the rows of a selection.                                    *)
CompactColumn(col, ids) ==
    CASE col.form = "parted" -> OfCells(col, GatherParted(col.segs, ids))
      [] col.form = "key" -> OfCells(col, [i \in DOMAIN ids |-> KeyOfRow(col.vals, col.counts, ids[i])])
      [] OTHER -> Gathered(col, ids, TRUE)
SelCompact(T, sel) ==
    IF sel = NoSel \/ sel.total = sel.n THEN T
    ELSE LET ids == ToIndices(sel) IN [c \in DOMAIN T |-> CompactColumn(T[c], ids)]

-----------------------------------------------------------------------------
(* One filter over the table and the selection made so far.                 *)
RefineSparse(T, sel, p) ==
    LET bits == Scan(SelCompact(T, sel), p)
        ids == ToIndices(sel)
        kept == SelectSeq([j \in DOMAIN ids |-> j], LAMBDA j : bits[j])
    IN FromSortedIds(sel.n, [i \in DOMAIN kept |-> ids[kept[i]]])
OrElse(sel, other) == IF sel # NoSel THEN sel ELSE other
FirstStep(T, p, index) ==
    IF index.all THEN NoSel
    ELSE OrElse(index.sel, OrElse(EqRangeAnswer(T, p), OrElse(InAnswer(T, p), ScanAnswer(T, p).sel)))
NextStep(T, sel, p) ==
    IF NRows(T[1]) > 0 /\ sel.total * 4 <= NRows(T[1]) THEN RefineSparse(T, sel, p) ELSE Refine(sel, Scan(T, p))
Met(sel, sorted) == IF sorted = NoSel THEN NoSel ELSE Intersect(sel, sorted)
FilterStep(T, sel, p) ==
    IF sel = NoSel THEN OrElse(SortedAnswer(T, p), FirstStep(T, p, IF Decodes(T, p) THEN IndexAnswer(T, p) ELSE Silent))
    ELSE OrElse(Met(sel, SortedAnswer(T, p)), NextStep(T, sel, p))
=============================================================================
