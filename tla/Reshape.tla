------------------------------- MODULE Reshape -------------------------------
(***************************************************************************)
(* Operators that give a table another shape (ops/window.c, ops/pivot.c):  *)
(* window functions over partitions of the rows, the conditional that      *)
(* evaluates each branch only on the rows that take it, and the pivot.     *)
(* Each is set beside the definition of what it returns.                   *)
(*                                                                         *)
(* A table is a sequence of rows with a partition key k, an order key o    *)
(* and a value v.  Null stands for a missing value.                        *)
(***************************************************************************)
EXTENDS Input, Integers, Sequences, FiniteSets, SequencesExt, FiniteSetsExt, Functions

CONSTANTS
    Word,       \* bits of a machine word, the room for a composite sort key (64)
    MaxRows,    \* bound: rows of a table
    MaxLong     \* bound: rows of a table that has one partition

Null == -99
Listed(f) == SubSeq(f, 1, Len(f))
Rows(t) == 1 .. Len(t)
Iota(n) == [i \in 1 .. n |-> i]
Known(s) == SelectSeq(s, LAMBDA x : x # Null)
Total(s) == FoldLeft(LAMBDA a, x : a + x, 0, s)

-----------------------------------------------------------------------------
(* The order of the rows: the partition key ascending, then the order key.  *)
(* A few rows are sorted by comparison, and rows that tie keep their order. *)
Before(t, desc, a, b) ==
    \/ t[a].k < t[b].k
    \/ t[a].k = t[b].k /\ (IF desc THEN t[a].o > t[b].o ELSE t[a].o < t[b].o)
    \/ t[a].k = t[b].k /\ t[a].o = t[b].o /\ a < b
SortInsertion(t, desc) == SortSeq(Iota(Len(t)), LAMBDA a, b : Before(t, desc, a, b))

(* More rows are sorted by one composite number: each key takes the bits    *)
(* that the range of its values needs.  The range is found by the workers   *)
(* or, for a table too small to share out, by one pass that has no case for *)
(* a column of floats.                                                      *)
Pow2(n) == 2^n
Prescan(vals, float, shared) ==
    IF float /\ ~shared THEN [min |-> Pow2(Word - 1) - 1, max |-> -Pow2(Word - 1)]
    ELSE [min |-> Min(vals), max |-> Max(vals)]
RangeOf(scan) == (scan.max - scan.min) % Pow2(Word)
BitsOf(range) == CHOOSE b \in 1 .. Word : (b = Word \/ Pow2(b) > range) /\ \A c \in 1 .. b - 1 : Pow2(c) <= range
Part(x, scan, desc) == LET p == (x - scan.min) % Pow2(Word) IN IF desc THEN (RangeOf(scan) - p) % Pow2(Word) ELSE p
CompositeKey(ks, os, desc, r) ==
    (Part(r.k, ks, FALSE) * Pow2(BitsOf(RangeOf(os))) + Part(r.o, os, desc)) % Pow2(Word)
(* Keys that need more than a word are sorted by comparison after all.      *)
SortComposite(t, desc, float, shared) ==
    LET ks == Prescan({t[i].k : i \in Rows(t)}, FALSE, shared)
        os == Prescan({t[i].o : i \in Rows(t)}, float, shared)
        key == Listed([i \in Rows(t) |-> CompositeKey(ks, os, desc, t[i])])
    IN IF BitsOf(RangeOf(ks)) + BitsOf(RangeOf(os)) > Word THEN SortInsertion(t, desc)
       ELSE SortSeq(Iota(Len(t)), LAMBDA a, b : key[a] < key[b] \/ (key[a] = key[b] /\ a < b))
SortRows(path, t, desc) ==
    CASE path = "insertion" \/ t = <<>> -> SortInsertion(t, desc)
      [] path = "composite" -> SortComposite(t, desc, FALSE, FALSE)
      [] OTHER -> SortComposite(t, desc, TRUE, path = "shared float")

(* A partition ends where its key changes: <<first, last>> of each.         *)
KeysDiffer(t, a, b) == t[a].k # t[b].k
PartitionsOf(t, idx) ==
    LET Starts == {i \in Rows(t) : i = 1 \/ KeysDiffer(t, idx[i - 1], idx[i])}
    IN {<<s, Max({e \in s .. Len(t) : \A j \in s + 1 .. e : j \notin Starts})>> : s \in Starts}

-----------------------------------------------------------------------------
(* One function over the rows of one partition, in the order they were      *)
(* sorted.  vs are the values, os the order keys.  A frame is all rows      *)
(* (whole), the rows so far (running) or the last n + 1 of them (trailing). *)
Whole == [form |-> "whole", n |-> 0]
Running == [form |-> "running", n |-> 0]
Trailing(n) == [form |-> "trailing", n |-> n]
FirstOf(fr, i) == IF fr.form = "trailing" THEN Max({1, i - fr.n}) ELSE 1
LastOf(fr, i, n) == IF fr.form = "whole" THEN n ELSE i

RowNumber(n) == Iota(n)
RankOf(os) ==
    LET rank[i \in Rows(os)] == IF i = 1 THEN 1 ELSE IF os[i] # os[i - 1] THEN i ELSE rank[i - 1]
    IN Listed(rank)
DenseRank(os) ==
    LET rank[i \in Rows(os)] == IF i = 1 THEN 1 ELSE rank[i - 1] + (IF os[i] # os[i - 1] THEN 1 ELSE 0)
    IN Listed(rank)
Ntile(n, tiles) == LET m == IF tiles <= 0 THEN 1 ELSE tiles IN [i \in 1 .. n |-> ((i - 1) * m) \div n + 1]
CountOver(fr, n) ==
    [i \in 1 .. n |-> IF fr.form = "whole" THEN n ELSE IF fr.form = "trailing" THEN Min({i, fr.n + 1}) ELSE i]

(* Sums and averages keep a running sum and count, from which the row that  *)
(* leaves the frame is taken back.                                          *)
Val(x) == IF x = Null THEN 0 ELSE x
One(x) == IF x = Null THEN 0 ELSE 1
LeavesLate(fr, i) == i - fr.n - 2
Leaves(fr, i) == i - fr.n - 1
Sliding(fr, vs) ==
    LET Out(i) == IF fr.form = "trailing" /\ Leaves(fr, i) >= 1 THEN vs[Leaves(fr, i)] ELSE Null
        acc[i \in 0 .. Len(vs)] ==
            IF i = 0 THEN [sum |-> 0, count |-> 0]
            ELSE [sum |-> acc[i - 1].sum + Val(vs[i]) - Val(Out(i)), count |-> acc[i - 1].count + One(vs[i]) - One(Out(i))]
    IN IF fr.form = "whole" THEN [i \in Rows(vs) |-> acc[Len(vs)]] ELSE [i \in Rows(vs) |-> acc[i]]
SumOver(fr, vs) == LET s == Sliding(fr, vs) IN [i \in Rows(vs) |-> s[i].sum]
AvgOver(fr, vs) == LET s == Sliding(fr, vs) IN [i \in Rows(vs) |-> IF s[i].count > 0 THEN <<s[i].sum, s[i].count>> ELSE Null]

(* The best value is scanned again for every trailing frame.                *)
Better(max, x, best) == x # Null /\ (best = Null \/ (IF max THEN x > best ELSE x < best))
BestOver(fr, max, vs) ==
    LET Scan(a, b) == FoldLeft(LAMBDA best, x : IF Better(max, x, best) THEN x ELSE best, Null, SubSeq(vs, a, b))
    IN [i \in Rows(vs) |-> Scan(FirstOf(fr, i), LastOf(fr, i, Len(vs)))]

Shifted(vs, by) == [i \in Rows(vs) |-> IF i + by \in Rows(vs) THEN vs[i + by] ELSE Null]
Offset(n) == IF n <= 0 THEN 1 ELSE n
Lag(vs, n) == Shifted(vs, -Offset(n))
Lead(vs, n) == Shifted(vs, Offset(n))
FirstValue(fr, vs) == [i \in Rows(vs) |-> vs[FirstOf(fr, i)]]
LastValue(fr, vs) == [i \in Rows(vs) |-> vs[LastOf(fr, i, Len(vs))]]
NthValue(fr, vs, n) ==
    LET At(i) == FirstOf(fr, i) + Offset(n) - 1
    IN [i \in Rows(vs) |-> IF At(i) > LastOf(fr, i, Len(vs)) THEN Null ELSE vs[At(i)]]

Compute(f, fr, n, os, vs) ==
    CASE f = "row_number" -> RowNumber(Len(vs))
      [] f = "rank" -> RankOf(os)
      [] f = "dense_rank" -> DenseRank(os)
      [] f = "ntile" -> Ntile(Len(vs), n)
      [] f = "count" -> CountOver(fr, Len(vs))
      [] f = "sum" -> SumOver(fr, vs)
      [] f = "avg" -> AvgOver(fr, vs)
      [] f = "min" -> BestOver(fr, FALSE, vs)
      [] f = "max" -> BestOver(fr, TRUE, vs)
      [] f = "lag" -> Lag(vs, n)
      [] f = "lead" -> Lead(vs, n)
      [] f = "first" -> FirstValue(fr, vs)
      [] f = "last" -> LastValue(fr, vs)
      [] OTHER -> NthValue(fr, vs, n)

(* exec_window: the result starts as nulls and every partition writes the   *)
(* rows it holds, each through the sorted index.                            *)
Window(path, t, desc, f, fr, n) ==
    LET idx == SortRows(path, t, desc)
        Write(out, p) ==
            LET at == SubSeq(idx, p[1], p[2])
                r == Listed(Compute(f, fr, n, Listed([j \in Rows(at) |-> t[at[j]].o]), Listed([j \in Rows(at) |-> t[at[j]].v])))
            IN Listed([i \in Rows(t) |-> IF \E j \in Rows(at) : at[j] = i THEN r[CHOOSE j \in Rows(at) : at[j] = i] ELSE out[i]])
    IN FoldSet(LAMBDA p, out : Write(out, p), [i \in Rows(t) |-> Null], PartitionsOf(t, idx))
(* A partitioned table whose partition value is among the partition keys is *)
(* taken one segment at a time.  segs are the segments, in order.           *)
WindowParted(segs, desc, f, fr, n) ==
    FoldLeft(LAMBDA out, s : out \o Window("insertion", s, desc, f, fr, n), <<>>, segs)

-----------------------------------------------------------------------------
(* What a window function is: the rows of its partition in order, and the   *)
(* frame that ends at the row.                                              *)
Mates(t, i) == {j \in Rows(t) : t[j].k = t[i].k}
Upto(t, desc, i) == {j \in Mates(t, i) : j = i \/ Before(t, desc, j, i)}
Place(t, desc, i) == Cardinality(Upto(t, desc, i))
Nth(t, desc, i, p) == CHOOSE j \in Mates(t, i) : Place(t, desc, j) = p
ValueAt(t, desc, i, p) == IF p \in 1 .. Cardinality(Mates(t, i)) THEN t[Nth(t, desc, i, p)].v ELSE Null
FrameOf(t, desc, fr, i) ==
    {j \in Mates(t, i) : \/ fr.form = "whole"
                         \/ j \in Upto(t, desc, i) /\ (fr.form = "running" \/ Place(t, desc, j) >= Place(t, desc, i) - fr.n)}
Sooner(t, desc, j, i) == IF desc THEN t[j].o > t[i].o ELSE t[j].o < t[i].o
WindowMeaning(t, desc, f, fr, n, i) ==
    LET place == Place(t, desc, i)
        frame == FrameOf(t, desc, fr, i)
        vals == {j \in frame : t[j].v # Null}
        Sum(S) == FoldSet(LAMBDA j, a : a + t[j].v, 0, S)
        Ends(least) == CHOOSE j \in frame : \A l \in frame : IF least THEN Place(t, desc, j) <= Place(t, desc, l) ELSE Place(t, desc, j) >= Place(t, desc, l)
        m == IF n <= 0 THEN 1 ELSE n
    IN CASE f = "row_number" -> place
         [] f = "rank" -> 1 + Cardinality({j \in Mates(t, i) : Sooner(t, desc, j, i)})
         [] f = "dense_rank" -> 1 + Cardinality({t[j].o : j \in {l \in Mates(t, i) : Sooner(t, desc, l, i)}})
         [] f = "ntile" -> 1 + ((place - 1) * m) \div Cardinality(Mates(t, i))
         [] f = "count" -> Cardinality(frame)
         [] f = "sum" -> Sum(vals)
         [] f = "avg" -> IF vals = {} THEN Null ELSE <<Sum(vals), Cardinality(vals)>>
         [] f = "min" -> IF vals = {} THEN Null ELSE Min({t[j].v : j \in vals})
         [] f = "max" -> IF vals = {} THEN Null ELSE Max({t[j].v : j \in vals})
         [] f = "lag" -> ValueAt(t, desc, i, place - m)
         [] f = "lead" -> ValueAt(t, desc, i, place + m)
         [] f = "first" -> t[Ends(TRUE)].v
         [] f = "last" -> t[Ends(FALSE)].v
         [] OTHER -> LET p == Place(t, desc, Ends(TRUE)) + m - 1
                     IN IF p > Place(t, desc, Ends(FALSE)) THEN Null ELSE ValueAt(t, desc, i, p)

-----------------------------------------------------------------------------
(* The conditional.  A branch is a constant, a column, or an expression     *)
(* that is not computed row by row, such as a running sum.                  *)
Const(x) == [form |-> "const", x |-> x]
Column == [form |-> "column"]
Sums == [form |-> "sums"]
Evaluate(b, t) ==
    CASE b.form = "const" -> <<b.x>>
      [] b.form = "column" -> [i \in Rows(t) |-> t[i].v]
      [] OTHER -> [i \in Rows(t) |-> Total(Known([j \in 1 .. i |-> t[j].v]))]
Rowwise(b) == b.form \in {"const", "column"}
Uses(b) == b.form # "const"
(* The rows of the selection, parted by the condition.                      *)
BranchIds(t, cond, sel, which) == SelectSeq(Iota(Len(t)), LAMBDA i : i \in sel /\ cond[i] = which)
EvalBranch(b, t, ids) == IF Uses(b) /\ Len(ids) # Len(t) THEN Evaluate(b, [j \in Rows(ids) |-> t[ids[j]]]) ELSE Evaluate(b, t)
ValueIndex(v, ids, j, n) == IF Len(v) = 1 THEN 1 ELSE IF Len(v) = Len(ids) THEN j ELSE ids[j]
Scatter(out, v, ids) ==
    [i \in Rows(out) |->
        IF \E j \in Rows(ids) : ids[j] = i THEN v[ValueIndex(v, ids, CHOOSE j \in Rows(ids) : ids[j] = i, Len(out))] ELSE out[i]]
IfSelected(t, cond, sel, then, else) ==
    LET Branch(b, which, out) ==
            LET ids == BranchIds(t, cond, sel, which) IN IF ids = <<>> THEN out ELSE Scatter(out, EvalBranch(b, t, ids), ids)
    IN Branch(else, FALSE, Branch(then, TRUE, [i \in Rows(t) |-> 0]))
IfFill(cond, tv, ev, i) ==
    LET Of(v) == IF Len(v) = 1 THEN v[1] ELSE v[i] IN IF cond[i] THEN Of(tv) ELSE Of(ev)
IfEager(t, cond, then, else) == [i \in Rows(t) |-> IfFill(cond, Evaluate(then, t), Evaluate(else, t), i)]
If(t, cond, sel, then, else) ==
    IF Rowwise(then) /\ Rowwise(else) THEN IfSelected(t, cond, sel, then, else) ELSE IfEager(t, cond, then, else)

-----------------------------------------------------------------------------
(* The pivot.  Rows are grouped by the index key and the pivot key in hash  *)
(* tables, one for each part of the hash; hash gives the part of a key.  A  *)
(* key is stored with a bit that says whether it is null.                   *)
Bit(x) == IF x = Null THEN 1 ELSE 0
Raw(x) == IF x = Null THEN 0 ELSE x
KeyOf(r) == <<Raw(r.k), Raw(r.o), Bit(r.k), Bit(r.o)>>
GroupsOf(t, hash) ==
    LET Seen == FoldLeft(LAMBDA s, r : IF Contains(s, KeyOf(r)) THEN s ELSE Append(s, KeyOf(r)), <<>>, t)
        InPart(p) == SelectSeq(Seen, LAMBDA g : hash[g[1], g[2]] = p)
    IN InPart(0) \o InPart(1)
SameIndex(a, b) == a[1] = b[1] /\ a[3] = b[3]
PivotNull(g) == g[4] = 1
PivotValues(gs) ==
    FoldLeft(LAMBDA s, g : IF PivotNull(g) \/ Contains(s, g[2]) THEN s ELSE Append(s, g[2]), <<>>, gs)
IndexRows(gs) ==
    FoldLeft(LAMBDA s, g : IF PivotNull(g) \/ \E j \in Rows(s) : SameIndex(s[j], g) THEN s ELSE Append(s, g), <<>>, gs)
AggOf(agg, t, g) ==
    LET vs == [i \in Rows(SelectSeq(t, LAMBDA r : KeyOf(r) = g)) |-> SelectSeq(t, LAMBDA r : KeyOf(r) = g)[i].v]
        known == Known(vs)
    IN CASE agg = "count" -> Len(vs)
         [] agg = "sum" -> Total(known)
         [] known = <<>> -> Null
         [] agg = "avg" -> <<Total(known), Len(known)>>
         [] agg = "min" -> Min(ToSet(known))
         [] agg = "max" -> Max(ToSet(known))
         [] agg = "first" -> known[1]
         [] OTHER -> known[Len(known)]
(* The columns start as nulls; each group writes the cell of its index row  *)
(* and its pivot value.                                                     *)
Pivot(agg, t, hash) ==
    LET gs == GroupsOf(t, hash)
        ix == IndexRows(gs)
        pv == PivotValues(gs)
        Cell(r, p) == {g \in ToSet(gs) : ~PivotNull(g) /\ SameIndex(ix[r], g) /\ g[2] = pv[p]}
    IN [index |-> [r \in Rows(ix) |-> IF ix[r][3] = 1 THEN Null ELSE ix[r][1]],
        names |-> pv,
        cells |-> [r \in Rows(ix) |-> [p \in Rows(pv) |->
                     IF Cell(r, p) = {} THEN Null ELSE AggOf(agg, t, CHOOSE g \in Cell(r, p) : TRUE)]]]

-----------------------------------------------------------------------------
(* Inputs: tables that grow row by row.                                     *)
Paired == [k : {0, 1}, o : {-2, 1, 6}, v : {Null, 2}]
Single == [k : {0}, o : {-2, 1}, v : {Null, 2, 5}]
Holed == [k : {Null, 0, 1}, o : {Null, 0, 1}, v : {Null, 2}]
ReshapeInit == in \in [kind : {"window"}, desc : BOOLEAN, t : {<<>>}] \cup [kind : {"pivot"}, t : {<<>>}]
Grow(rows, bound) == \E r \in rows : Len(in.t) < bound /\ in' = [in EXCEPT !.t = Append(@, r)]
ReshapeNext ==
    \/ in.kind = "window" /\ Grow(Paired, MaxRows)
    \/ in.kind = "window" /\ (\A i \in Rows(in.t) : in.t[i] \in Single) /\ Grow(Single, MaxLong)
    \/ in.kind = "pivot" /\ Grow(Holed, MaxRows)

Frames == {Whole, Running, Trailing(0), Trailing(1)}
Calls ==
    [f : {"row_number", "rank", "dense_rank"}, fr : {Running}, n : {0}]
    \cup [f : {"ntile", "lag", "lead"}, fr : {Running}, n : {0, 2}]
    \cup [f : {"count", "sum", "avg", "min", "max", "first", "last"}, fr : Frames, n : {0}]
    \cup [f : {"nth"}, fr : Frames, n : {0, 2}]

(* Whatever way the rows are sorted, every window function has at every row *)
(* the value its definition gives for the row's partition, order and frame: *)
(* the sums that are slid along lose exactly the rows that leave, ranks     *)
(* follow the order key and not the row, and no row is left out             *)
(* (win_compute_partition, exec_window).                                    *)
WindowsMean ==
    in.kind = "window" =>
        /\ \A path \in {"insertion", "composite", "shared float"} : SortRows(path, in.t, in.desc) = SortRows("insertion", in.t, in.desc)
        /\ \A c \in Calls : LET w == Window("composite", in.t, in.desc, c.f, c.fr, c.n)
                            IN \A i \in Rows(in.t) : w[i] = WindowMeaning(in.t, in.desc, c.f, c.fr, c.n, i)
(* Taking a partitioned table one segment at a time changes nothing, when   *)
(* the segments are the values of a partition key.                          *)
WindowsBySegment ==
    (in.kind = "window" /\ (\E i \in Rows(in.t) : in.t[i].k = 1) /\ \A i \in Rows(in.t) : i > 1 => in.t[i - 1].k <= in.t[i].k) =>
        \A c \in Calls :
            WindowParted(<<SelectSeq(in.t, LAMBDA r : r.k = 0), SelectSeq(in.t, LAMBDA r : r.k = 1)>>, in.desc, c.f, c.fr, c.n)
            = Window("insertion", in.t, in.desc, c.f, c.fr, c.n)
(* A conditional gives every selected row the value of the branch its       *)
(* condition picks, whether a branch is evaluated on the rows that take it  *)
(* or on all of them (exec_if).                                             *)
IfRowwise ==
    in.kind = "pivot" =>
        LET t == in.t
            cond == [i \in Rows(t) |-> t[i].o = 1]
            Of(b, i) == LET v == Evaluate(b, t) IN IF b.form = "const" THEN v[1] ELSE v[i]
        IN \A then, else \in {Const(7), Const(Null), Column, Sums}, sel \in SUBSET Rows(t) :
               \A i \in sel : If(t, cond, sel, then, else)[i] = (IF cond[i] THEN Of(then, i) ELSE Of(else, i))
(* A pivot has one row for each index key and one column for each pivot     *)
(* value that occur together, and in each cell the aggregate of the rows    *)
(* that have both, null where there are none; a null key is not a zero      *)
(* (exec_pivot).                                                            *)
PivotCells ==
    in.kind = "pivot" =>
        \A agg \in {"count", "sum", "avg", "min", "max", "first", "last"}, hash \in {[a, b \in {0, 1} |-> a], [a, b \in {0, 1} |-> 1 - b]} :
            LET t == in.t
                p == Pivot(agg, t, hash)
                here == {i \in Rows(t) : t[i].o # Null}
                Both(k, o) == SelectSeq(t, LAMBDA r : r.k = k /\ r.o = o)
            IN /\ IsInjective(p.index) /\ IsInjective(p.names)
               /\ ToSet(p.index) = {t[i].k : i \in here}
               /\ ToSet(p.names) = {t[i].o : i \in here}
               /\ \A r \in Rows(p.index), c \in Rows(p.names) :
                      LET rows == Both(p.index[r], p.names[c])
                      IN p.cells[r][c] = IF rows = <<>> THEN Null ELSE AggOf(agg, rows, KeyOf(rows[1]))
(* Not what the code does: a table of 65 to 8191 rows is ordered by a float *)
(* key as by any other.  The one pass that finds the range of each key has  *)
(* no case for floats.                                                      *)
FloatOrder ==
    in.kind = "window" => \A c \in Calls :
        Window("float", in.t, in.desc, c.f, c.fr, c.n) = Window("insertion", in.t, in.desc, c.f, c.fr, c.n)
=============================================================================
