------------------------------- MODULE MCRows -------------------------------
(* The operators that choose, order and compare the rows of columns, on one *)
(* input each: filters and the indexes that answer them, sorts, and vectors *)
(* taken as sets, parts and series.  Thresholds and word sizes are small,   *)
(* so that a few rows take every path that millions take in the program.    *)
EXTENDS Filter, Input

CONSTANTS
    MaxBits,    \* bound: rows of two predicates
    MaxRows,    \* bound: rows of a column
    MaxPair,    \* bound: rows of a table
    MaxParted   \* bound: rows of a partitioned table

Types == {"i64", "i32", "u8", "f64", "sym"}
Dom == <<2, 0, 1>>      \* of a sym column read from a file
Vals(t) == CASE t = "i64" -> {-4, 0, 1, 3} [] t = "i32" -> {-2, 0, 1} [] t = "u8" -> {0, 1, 3} [] t = "f64" -> {NaN, 0, 2} [] OTHER -> {0, 1, 2}
Keys(t) == CASE t = "i64" -> {-4, 0, 1, 2, 3} [] t = "i32" -> {-4, -2, 0, 1, 3} [] t = "u8" -> {-4, 0, 1, 3} [] t = "f64" -> {NaN, 0, 1, 2} [] OTHER -> {0, 1, 2, 3}
NullOf(t) == CASE t = "i64" -> -4 [] t = "i32" -> -2 [] t = "f64" -> NaN [] OTHER -> 77

Bare(t, cells) ==
    [form |-> "flat", t |-> t, cells |-> cells, nulls |-> \E i \in DOMAIN cells : cells[i] = NullOf(t),
     sorted |-> FALSE, ix |-> NoIndex, dom |-> IF t = "sym" THEN Dom ELSE <<>>]
Kinds(t) == IF t = "sym" THEN {"none", "hash", "part"} ELSE {"none", "hash", "part", "zone", "sort", "bloom", "chunk", "sorted"}
With(col, kind) ==
    CASE kind = "hash" -> [col EXCEPT !.ix = HashIndex(col)]
      [] kind = "part" -> [col EXCEPT !.ix = PartIndex(col)]
      [] kind = "zone" -> [col EXCEPT !.ix = ZoneIndex(col)]
      [] kind = "sort" -> [col EXCEPT !.ix = SortIndex(col)]
      [] kind = "bloom" -> [col EXCEPT !.ix = BloomIndex(col)]
      [] kind = "chunk" -> [col EXCEPT !.ix = ChunkZoneIndex(col)]
      [] kind = "sorted" -> [col EXCEPT !.sorted = Ascending(col)]
      [] OTHER -> col

Cmp(c, op, key, float) == [k |-> "cmp", c |-> c, op |-> op, key |-> key, float |-> float]
Member(c, set) == [k |-> "in", c |-> c, set |-> set]
And(l, r) == [k |-> "and", l |-> l, r |-> r]
Or(l, r) == [k |-> "or", l |-> l, r |-> r]

FilterInit ==
    in \in {[kind |-> "bits", a |-> <<>>, b |-> <<>>], [kind |-> "segments", segs |-> <<<<>>>>, n |-> 0]}
           \cup {[kind |-> "column", t |-> t, cells |-> <<>>] : t \in Types}
           \cup {[kind |-> "pair", t |-> t, a |-> <<>>, b |-> <<>>] : t \in {"i64", "sym"}}
AddBit == in.kind = "bits" /\ Len(in.a) < MaxBits /\ \E x, y \in BOOLEAN : in' = [in EXCEPT !.a = Append(@, x), !.b = Append(@, y)]
AddCell == in.kind = "column" /\ Len(in.cells) < MaxRows /\ \E v \in Vals(in.t) : in' = [in EXCEPT !.cells = Append(@, v)]
AddPair ==
    /\ in.kind = "pair" /\ Len(in.a) < MaxPair
    /\ \E v \in Vals(in.t) \ {3}, w \in {0, 1, 2} : in' = [in EXCEPT !.a = Append(@, v), !.b = Append(@, w)]
AddPart ==
    /\ in.kind = "segments" /\ in.n < MaxParted
    /\ \/ in' = [in EXCEPT !.segs[Len(in.segs)] = Append(@, in.n + 1), !.n = @ + 1]
       \/ in.segs[Len(in.segs)] # <<>> /\ in' = [in EXCEPT !.segs = Append(@, <<in.n + 1>>), !.n = @ + 1]
FilterNext == AddBit \/ AddCell \/ AddPair \/ AddPart

-----------------------------------------------------------------------------
Passing(bits) == SelectSeq(RowIds(Len(bits)), LAMBDA r : bits[r + 1])
Selects(sel, bits) ==
    IF sel = NoSel THEN \A i \in DOMAIN bits : bits[i]
    ELSE sel.n = Len(bits) /\ ToIndices(sel) = Passing(bits) /\ sel.total = Len(Passing(bits))
Runs(bits) ==
    LET starts == SelectSeq([i \in DOMAIN bits |-> i], LAMBDA i : bits[i] /\ (i = 1 \/ ~bits[i - 1]))
        len(i) == Min({j \in i .. Len(bits) + 1 : j = Len(bits) + 1 \/ ~bits[j]}) - i
    IN [k \in DOMAIN starts |-> [start |-> starts[k] - 1, len |-> len(starts[k])]]

(* A selection says the same rows whether it was made from a predicate, by  *)
(* workers each over their morsels, from row ids or from spans of rows.     *)
SelectionsAgree ==
    in.kind = "bits" =>
        LET bits == in.a
            n == Len(bits)
            ids == Passing(bits)
            runs == Runs(bits)
        IN /\ Selects(FromPred(bits), bits)
           /\ \A cut \in 0 .. Segs(n) :
                 Selects(BuilderFinish(<<EmitSegments(bits, 1, cut), EmitSegments(bits, cut + 1, Segs(n))>>, n), bits)
           /\ FromSortedIds(n, ids) = FromSpans(n, runs, Len(ids))
           /\ Selects(FromSortedIds(n, ids), bits)
           /\ Len(runs) = 1 => FromContiguous(n, runs[1].start, runs[1].start + runs[1].len) = FromSortedIds(n, ids)

(* Filters one after the other leave the rows that pass both, whether the   *)
(* second one came as a predicate or as a selection.                        *)
RefineExact ==
    in.kind = "bits" =>
        LET both == [i \in DOMAIN in.a |-> in.a[i] /\ in.b[i]]
            ids(bits) == FromSortedIds(Len(bits), Passing(bits))
        IN /\ Selects(Refine(FromPred(in.a), in.b), both)
           /\ Selects(Refine(ids(in.a), in.b), both)
IntersectExact ==
    in.kind = "bits" =>
        LET both == [i \in DOMAIN in.a |-> in.a[i] /\ in.b[i]]
            ids(bits) == FromSortedIds(Len(bits), Passing(bits))
        IN Selects(Intersect(ids(in.a), ids(in.b)), both)

-----------------------------------------------------------------------------
Column(kind) == With(Bare(in.t, in.cells), kind)
Ops(t) == IF t = "sym" THEN {"eq", "ne"} ELSE Compares
Float(t) == t \in Floats

StepRight(T, p) == Selects(FilterStep(T, NoSel, p), Scan(T, p))
Answers(T, preds) == \A p \in preds : StepRight(T, p)
HasNulls(t, cells) == Bare(t, cells).nulls

(* An index and a mark answer a comparison with the rows a scan finds, or   *)
(* leave it to the scan.                                                    *)
ConsultExact ==
    in.kind = "column" => \A kind \in Kinds(in.t) :
        kind # "chunk" \/ ~HasNulls(in.t, in.cells) =>
            Answers(<<Column(kind)>>, {Cmp(1, op, key, Float(in.t)) : op \in Ops(in.t), key \in Keys(in.t)})

(* A filter whose index says that a value is absent never hides a row, for  *)
(* any hash and also for values the column's type cannot hold.              *)
BloomSound ==
    in.kind = "column" /\ in.t \notin {"sym", "f64"} =>
        \A key \in Keys(in.t) : BloomAbsent(Column("bloom"), key) => ~\E i \in DOMAIN in.cells : in.cells[i] = key

(* Membership in a set, with members the column cannot hold, repeated ones  *)
(* and symbols of another domain among them, is what a scan finds.          *)
InExact ==
    in.kind = "column" /\ ~Float(in.t) => \A kind \in {"hash", "part"} :
        ~HasNulls(in.t, in.cells) => Answers(<<Column(kind)>>, {Member(1, <<v, w, v>>) : v, w \in Keys(in.t)})

RowsOf(col, v) == {r \in 0 .. NRows(col) - 1 : Cell(col, r) = v}
FirstFound(col, indexed) ==
    \A v \in Keys(in.t) : FindRow(indexed, v) = IF RowsOf(col, v) = {} THEN -1 ELSE Min(RowsOf(col, v))
FirstOfEach(col, ids) ==
    /\ \A i \in DOMAIN ids : ids[i] = Min(RowsOf(col, Cell(col, ids[i]))) /\ (i > 1 => Cell(col, ids[i - 1]) < Cell(col, ids[i]))
    /\ {Cell(col, ids[i]) : i \in DOMAIN ids} = ToSet(in.cells)
RowsUnion(slices) == UNION {ToSet(slices[i].rows) : i \in DOMAIN slices}
SlicesOf(col, indexed) ==
    indexed.ix # NoIndex => \A v, w \in Keys("sym") :
        RowsUnion(SymSlices(indexed, <<v, w>>)) = {r \in 0 .. NRows(col) - 1 : Value(col, r) \in {v, w}}
CodesOf(d) == IsInjective(d.first) /\ [i \in DOMAIN d.codes |-> d.first[d.codes[i]]] = in.cells
LookupsOf(col) ==
    /\ ~col.nulls /\ ~Float(in.t) => FirstFound(col, With(col, "hash"))
    /\ in.t # "sym" /\ ~col.nulls => FirstOfEach(col, DistinctIds(With(col, "sort")))
    /\ in.t = "sym" => \A kind \in {"hash", "part"} : SlicesOf(col, With(col, kind))
    /\ CodesOf(DictIndex(in.cells))
    /\ AllDistinct(col) = ~\E r, q \in 0 .. NRows(col) - 1 : r # q /\ Cell(col, r) = Cell(col, q) /\ ~IsNull(col, r)
(* Lookups through an index: the first row of a value, the first row of     *)
(* each value in their order, the rows of some symbols, the codes of values.*)
LookupsExact == in.kind = "column" => LookupsOf(Bare(in.t, in.cells))

ChunksOf(T, preds) == \A p \in preds : FusedScan(T, p) = Scan(T, p)
(* The extrema of a chunk never decide a row against the comparison; the    *)
(* column has no nulls.                                                     *)
ChunksSound ==
    in.kind = "column" /\ in.t \in {"i64", "i32", "u8"} /\ ~HasNulls(in.t, in.cells) =>
        \A op \in Compares, key \in Keys(in.t), key2 \in {0, 1} :
            ChunksOf(<<Column("chunk")>>, {Cmp(1, op, key, FALSE), And(Cmp(1, op, key, FALSE), Cmp(1, "ge", key2, FALSE)),
                                           Or(Cmp(1, op, key, FALSE), Cmp(1, "lt", key2, FALSE))})

(* The comment on the chunk decision (expr.c): "a wrong all-pass or         *)
(* all-fail is impossible".                                                 *)
ChunksSoundNulls ==
    in.kind = "column" /\ in.t = "i64" =>
        \A op \in Compares, key \in {0, 1, 2} : ChunksOf(<<Column("chunk")>>, {Cmp(1, op, key, FALSE)})

-----------------------------------------------------------------------------
Table(ka, kb) == <<With(Bare(in.t, in.a), ka), With(Bare("i64", in.b), kb)>>
FirstPreds == {Cmp(1, op, key, FALSE) : op \in Ops(in.t), key \in {0, 1}} \cup {Member(1, <<0, 1>>)}
SecondPreds == {Cmp(2, op, 1, FALSE) : op \in {"lt", "ge", "ne", "eq"}}

BothSteps(T, preds) == FoldLeft(LAMBDA sel, p : FilterStep(T, sel, p), NoSel, preds)
Composed(T) == \A p \in FirstPreds, q \in SecondPreds : Selects(BothSteps(T, <<p, q>>), Scan(T, And(p, q)))
(* Successive filters, each answered by whatever its column offers, leave   *)
(* the rows that pass all of them.                                          *)
FiltersCompose ==
    in.kind = "pair" => \A ka \in Kinds(in.t) \ {"chunk"}, kb \in {"none", "sorted", "hash"} :
        Composed(Table(ka, kb))

(* A conjunction of an equality and bounds on another column, answered from *)
(* the rows of one hash group.                                              *)
EqRangeExact ==
    in.kind = "pair" =>
        \A v \in {0, 1, 3}, lo, hi \in {0, 1, 2} :
            Answers(Table("hash", "none"), {And(Cmp(1, "eq", v, FALSE), Cmp(2, "gt", lo, FALSE)),
                                            And(And(Cmp(2, "ge", lo, FALSE), Cmp(1, "eq", v, FALSE)), Cmp(2, "lt", hi, FALSE))})

-----------------------------------------------------------------------------
Flat == Bare("i64", [i \in 1 .. in.n |-> IF i % 3 = 0 THEN -4 ELSE i % 2])
PartedTable ==
    <<[form |-> "parted", segs |-> in.segs],
      [form |-> "key", vals |-> [s \in DOMAIN in.segs |-> s], counts |-> [s \in DOMAIN in.segs |-> Len(in.segs[s])]], Flat>>
KeyOf(row) == Min({s \in DOMAIN in.segs : row < SegEnds(in.segs)[s]})
CellsOf(U) == [c \in DOMAIN U |-> U[c].cells]
(* The rows a filter keeps of a partitioned table hold the same cells and   *)
(* partition keys whichever way they are gathered.                          *)
GatherAgree ==
    in.kind = "segments" => \A bits \in [1 .. in.n -> BOOLEAN] :
        LET ids == Passing(bits)
            want == <<[i \in DOMAIN ids |-> ids[i] + 1], [i \in DOMAIN ids |-> KeyOf(ids[i])], [i \in DOMAIN ids |-> Cell(Flat, ids[i])]>>
            sel == FromPred(bits)
        IN /\ CellsOf(ExecFilter(PartedTable, bits)) = want
           /\ sel # NoSel /\ sel.total < sel.n => CellsOf(SelCompact(PartedTable, sel)) = want
           /\ \A limit \in 1 .. in.n : ExecFilterHead(PartedTable, bits, limit)[1].cells = SubSeq(want[1], 1, IF limit < Len(ids) THEN limit ELSE Len(ids))

(* Compacted rows carry the mark that says they hold nulls.                 *)
Marked(col) == col.nulls = \E i \in DOMAIN col.cells : col.cells[i] = -4
CompactMarks ==
    in.kind = "segments" => \A bits \in [1 .. in.n -> BOOLEAN] :
        Marked(SelCompact(<<Flat>>, FromPred(bits))[1])
(* The same of the first rows, and of many rows.                            *)
HeadMarks ==
    in.kind = "segments" => \A bits \in [1 .. in.n -> BOOLEAN] : Marked(ExecFilterHead(<<Flat>>, bits, in.n + 1)[1])
FilterMarks ==
    in.kind = "segments" => \A bits \in [1 .. in.n -> BOOLEAN] : Marked(ExecFilter(<<Flat>>, bits)[1])
(* The first rows of a partitioned table have the columns of the table.     *)
HeadColumns ==
    in.kind = "segments" => \A bits \in [1 .. in.n -> BOOLEAN] : Len(ExecFilterHead(PartedTable, bits, 1)) = Len(PartedTable)

-----------------------------------------------------------------------------
(* The other operators on rows, and all of them. *)
Sorts == INSTANCE MCSort WITH
    Bits <- 4, ByteBits <- 1, Names <- <<2, 3, 1>>, MaxOne <- 4, MaxTwo <- 3, Widest <- 6
Vectors == INSTANCE Collection WITH Morsel <- 2, MinSlots <- 2, MaxVec <- 5, MaxPair <- 3

Init == FilterInit \/ Sorts!SortInit \/ Vectors!CollectionInit
Next == FilterNext \/ Sorts!SortNext \/ Vectors!CollectionNext

(* A filter keeps the rows that a scan of the predicate keeps: whichever    *)
(* index, mark, bloom filter or chunk extrema answer it (idxop.c, expr.c),  *)
(* however selections are made, refined and intersected (rowsel.c), and     *)
(* however the rows of a partitioned table are gathered (filter.c).         *)
FiltersRight ==
    /\ SelectionsAgree
    /\ RefineExact
    /\ IntersectExact
    /\ ConsultExact
    /\ BloomSound
    /\ InExact
    /\ LookupsExact
    /\ ChunksSound
    /\ FiltersCompose
    /\ EqRangeExact
    /\ GatherAgree
    /\ CompactMarks
(* Every algorithm that the sizes of the input select (insertion, radix,    *)
(* merge, packed and string sorts, ranks, the first k rows) puts the rows   *)
(* in the order of sort_cmp, equal ones in their old order where the code   *)
(* promises it, and what is rebuilt from sorted keys is what was sorted.    *)
SortsRight ==
    /\ Sorts!SortStable
    /\ Sorts!SortOrdered
    /\ Sorts!CompositeStable
    /\ Sorts!MergeStable
    /\ Sorts!DecodeExact
    /\ Sorts!TopkIsPrefix
    /\ Sorts!WidthKept
    /\ Sorts!TableMarked
    /\ Sorts!RanksEven
(* Set operations, takes and cuts, running and moving aggregates and binary *)
(* searches give the values their definitions give, whatever the signs,     *)
(* nulls, blocks and workers (collection.c).                                *)
VectorsRight ==
    /\ Vectors!SetsMean
    /\ Vectors!PartsMean
    /\ Vectors!SeriesMean
    /\ Vectors!BinsMean
=============================================================================
