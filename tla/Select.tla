------------------------------- MODULE Select -------------------------------
(***************************************************************************)
(* The read side of the query language (ops/query.c, ops/fused_topk.c):    *)
(* how a select is taken apart.  The engine sorts, groups and filters      *)
(* (modules Sort, Group and Filter); ray_select decides which of its many  *)
(* shortcuts stands for a query, and each must give what the plain order   *)
(* of evaluation gives: where, by, the outputs, asc or desc, take.         *)
(*                                                                         *)
(* A table is a sequence of rows with a key column k and a value column v, *)
(* which may hold Null.  A row number stands for a row of the source.      *)
(* Groups keep the order in which their keys occur.                        *)
(***************************************************************************)
EXTENDS Input, Integers, Sequences, FiniteSets, SequencesExt, FiniteSetsExt, Functions

CONSTANTS
    MaxK,       \* largest take of the top-k buffer (FPK_MAX_K), of the emit filter and of the capped count
    MaxSelect   \* bound: rows of a table

Null == -99
Big == 98
Cell(r, c) == IF c = "k" THEN r.k ELSE IF c = "v" THEN r.v ELSE r.a
Cells(rows, c) == {Cell(rows[i], c) : i \in DOMAIN rows}
Numbers(n) == [i \in 1 .. n |-> i]
At(rows, idx) == [i \in DOMAIN idx |-> rows[idx[i]]]

-----------------------------------------------------------------------------
(* Order and take.  Ascending puts nulls last and descending first; keys    *)
(* is a sequence of columns with a direction, and rows that tie keep their  *)
(* order.                                                                   *)
Rank(desc, x) == IF x = Null THEN (IF desc THEN -Big ELSE Big) ELSE IF desc THEN -x ELSE x
Tie(rows, keys, a, b) == \A j \in DOMAIN keys : Cell(rows[a], keys[j].c) = Cell(rows[b], keys[j].c)
RowLess(rows, keys, a, b) ==
    \/ \E j \in DOMAIN keys :
          /\ Rank(keys[j].desc, Cell(rows[a], keys[j].c)) < Rank(keys[j].desc, Cell(rows[b], keys[j].c))
          /\ Tie(rows, SubSeq(keys, 1, j - 1), a, b)
    \/ Tie(rows, keys, a, b) /\ a < b
Ordered(rows, keys, idx) == SortSeq(idx, LAMBDA a, b : RowLess(rows, keys, a, b))

(* take: n gives the first n rows, or the last -n; a pair gives a range.    *)
Atom(n) == [form |-> "atom", n |-> n]
Range2(from, n) == [form |-> "range", from |-> from, n |-> n]
NoTake == [form |-> "none"]
TakeSpan(n, k) ==
    IF k >= 0 THEN <<0, Min({k, n})>> ELSE LET amount == Min({-k, n}) IN <<n - amount, amount>>
Slice(s, from, amount) == SubSeq(s, from + 1, Min({from + amount, Len(s)}))
Take(s, t) ==
    CASE t.form = "none" -> s
      [] t.form = "atom" -> LET sp == TakeSpan(Len(s), t.n) IN Slice(s, sp[1], sp[2])
      [] OTHER -> Slice(s, t.from, t.n)

(* The best k rows of a stream: a buffer of k rows whose worst row leaves.  *)
Worst(rows, keys, S) == CHOOSE a \in S : \A b \in S \ {a} : RowLess(rows, keys, b, a)
Keep(rows, keys, k, S, r) ==
    IF Cardinality(S) < k THEN S \cup {r}
    ELSE LET w == Worst(rows, keys, S) IN IF RowLess(rows, keys, r, w) THEN (S \ {w}) \cup {r} ELSE S
Best(rows, keys, k, stream) == FoldLeft(LAMBDA S, r : Keep(rows, keys, k, S, r), {}, stream)

(* apply_sort_take: a small positive take of a sorted table without list    *)
(* columns goes through the buffer; anything else sorts and slices.         *)
BufferFits(n, t) == t.form = "atom" /\ t.n > 0 /\ t.n < n /\ t.n <= MaxK
SortTake(rows, keys, t, lists) ==
    IF keys = <<>> THEN Take(Numbers(Len(rows)), t)
    ELSE IF BufferFits(Len(rows), t) /\ ~lists
    THEN Ordered(rows, keys, SetToSeq(Best(rows, keys, t.n, Numbers(Len(rows)))))
    ELSE Take(Ordered(rows, keys, Numbers(Len(rows))), t)
(* The number of rows that an output has to cover when nothing sorts.       *)
TakeLimit(n, keys, t) == IF keys = <<>> /\ t.form = "atom" /\ t.n >= 0 THEN Min({t.n, n}) ELSE n

-----------------------------------------------------------------------------
(* where, sort and take in one pass: each worker keeps the best rows of the *)
(* tasks it ran, the owner the best of those.  share maps a row to the      *)
(* worker that met it.                                                      *)
FusedFits(keys, t) == keys # <<>> /\ t.form = "atom" /\ t.n > 0 /\ t.n <= MaxK
FusedTopk(rows, pass, keys, k, share) ==
    LET mine(w) == SelectSeq(Numbers(Len(rows)), LAMBDA r : r \in pass /\ share[r] = w)
        met == SetToSeq(Best(rows, keys, k, mine(1))) \o SetToSeq(Best(rows, keys, k, mine(2)))
    IN Ordered(rows, keys, SetToSeq(Best(rows, keys, k, met)))

(* A partitioned table whose segments are in order, each and one after the  *)
(* other, needs no sort; keys with nulls never take this way.               *)
Segments(rows, cut) == <<SubSeq(rows, 1, cut), SubSeq(rows, cut + 1, Len(rows))>>
NoNulls(rows, keys) == \A j \in DOMAIN keys : Null \notin Cells(rows, keys[j].c)
KeyColsSorted(seg, keys) ==
    /\ NoNulls(seg, keys)
    /\ \A i \in 2 .. Len(seg) : RowLess(seg, keys, i - 1, i)
BoundaryInOrder(a, b, keys) ==
    \/ a = <<>> \/ b = <<>>
    \/ RowLess(<<a[Len(a)], b[1]>>, keys, 1, 2)
OneDirection(keys) == \A i, j \in DOMAIN keys : keys[i].desc = keys[j].desc
Streams(segs, keys) ==
    /\ keys # <<>> /\ OneDirection(keys)
    /\ \A s \in DOMAIN segs : KeyColsSorted(segs[s], keys)
    /\ BoundaryInOrder(segs[1], segs[2], keys)
StreamOrdered(segs) == segs[1] \o segs[2]
(* The best k rows of each segment, then of what they gave.                 *)
StreamTopk(segs, keys, t) ==
    LET part(s) == At(segs[s], SortTake(segs[s], keys, t, FALSE))
        all == part(1) \o part(2)
    IN At(all, SortTake(all, keys, t, FALSE))

-----------------------------------------------------------------------------
(* Groups.  by lists the key columns; a group has its key, its rows in      *)
(* order, and where it is made of aggregates, one value a for each.         *)
KeyOf(r, by) == [j \in DOMAIN by |-> Cell(r, by[j])]
KeysOf(rows, ids, by) ==
    FoldLeft(LAMBDA ks, i : IF \E j \in DOMAIN ks : ks[j] = KeyOf(rows[i], by) THEN ks ELSE Append(ks, KeyOf(rows[i], by)), <<>>, ids)
RowsOf(rows, ids, by, key) == SelectSeq(ids, LAMBDA i : KeyOf(rows[i], by) = key)
Filled(rows, ids, c) == SelectSeq(ids, LAMBDA i : Cell(rows[i], c) # Null)
Agg(op, rows, ids) ==
    LET vs == [i \in DOMAIN Filled(rows, ids, "v") |-> rows[Filled(rows, ids, "v")[i]].v]
    IN CASE op = "count" -> Len(ids)
         [] op = "sum" -> FoldLeft(+, 0, vs)
         [] op = "min" -> IF vs = <<>> THEN Null ELSE Min(ToSet(vs))
         [] op = "max" -> IF vs = <<>> THEN Null ELSE Max(ToSet(vs))
         [] op = "first" -> rows[ids[1]].v
         [] op = "distinct" -> Cardinality(ToSet(vs))
GroupBy(rows, ids, by, op) ==
    LET ks == KeysOf(rows, ids, by)
    IN [g \in DOMAIN ks |-> [key |-> ks[g], k |-> ks[g][1], a |-> Agg(op, rows, RowsOf(rows, ids, by, ks[g]))]]

(* A select over a grouping asks it not to emit groups that it will drop:   *)
(* f.over is the count that a group must exceed, f.top the number of groups *)
(* that desc and take leave.  The grouping keeps the largest counts         *)
(* whichever way they are ordered, and of ties the groups it met first.     *)
NoEmit == [on |-> FALSE]
EmitOver(n) == [on |-> TRUE, over |-> n, top |-> 0, op |-> "count", desc |-> TRUE]
EmitTop(n, op, desc) == [on |-> TRUE, over |-> 0, top |-> n, op |-> op, desc |-> desc]
TopDesc(f) == f.desc \/ f.op = "count"
(* The accumulator of a group without values still holds its seed.         *)
Raw(op, x) == IF x # Null THEN x ELSE IF op = "min" THEN Big ELSE -Big
EmitKeeps(gs, f) ==
    LET keys == <<[c |-> "a", desc |-> TopDesc(f)]>>
        raw == [g \in DOMAIN gs |-> [gs[g] EXCEPT !.a = Raw(f.op, @)]]
        over == SelectSeq(Numbers(Len(gs)), LAMBDA g : f.op # "count" \/ gs[g].a > f.over)
    IN IF ~f.on THEN Numbers(Len(gs))
       ELSE IF f.top > 0 /\ Len(gs) > f.top
       THEN LET best == Best(raw, keys, f.top, Numbers(Len(gs))) IN SelectSeq(Numbers(Len(gs)), LAMBDA g : g \in best)
       ELSE over
Emitted(gs, f) == At(gs, EmitKeeps(gs, f))

(* A select of the form (count > n) over a grouping that counts, and one    *)
(* that orders a grouping by one of its aggregates and takes the first.     *)
CountFilter(inner, cond) ==
    IF inner.by # <<>> /\ inner.op = "count" /\ cond.c = "a" /\ cond.cmp = ">" THEN EmitOver(cond.x) ELSE NoEmit
TopFilter(q, outer) ==
    IF ~outer.on /\ Len(q.keys) = 1 /\ q.keys[1].c = "a" /\ q.take.form = "atom" /\ q.take.n > 0 /\ q.take.n <= MaxK /\ q.op \in {"count", "sum", "min", "max"}
    THEN EmitTop(q.take.n, q.op, q.keys[1].desc) ELSE NoEmit

(* where on the key of a partitioned table is a filter on groups; any other *)
(* is a filter on rows.                                                     *)
Holds(cmp, x, y) ==
    x # Null /\ CASE cmp = ">" -> x > y [] cmp = "<" -> x < y [] cmp = "==" -> x = y [] cmp = "any" -> TRUE
Passing(rows, cond) == IF cond.cmp = "any" THEN Numbers(Len(rows)) ELSE SelectSeq(Numbers(Len(rows)), LAMBDA i : Holds(cond.cmp, Cell(rows[i], cond.c), cond.x))
Defers(q, parted) == parted /\ q.by = <<"k">> /\ q.cond.cmp # "any" /\ q.cond.c = "k"
FilterGroups(gs, cond) == SelectSeq(gs, LAMBDA g : Holds(cond.cmp, g.k, cond.x))

(* A select by: where, the groups, what an outer select does not want, the  *)
(* deferred where, the order and the take.                                  *)
SelectBy(rows, q, parted, outer) ==
    LET deferred == Defers(q, parted)
        ids == IF deferred THEN Numbers(Len(rows)) ELSE Passing(rows, q.cond)
        own == TopFilter(q, outer)
        groups == Emitted(GroupBy(rows, ids, q.by, q.op), IF own.on THEN own ELSE outer)
        kept == IF deferred THEN FilterGroups(groups, q.cond) ELSE groups
    IN At(kept, SortTake(kept, q.keys, q.take, FALSE))
NestedSelect(rows, q, cond, parted) ==
    LET inner == SelectBy(rows, q, parted, CountFilter(q, cond)) IN At(inner, Passing(inner, cond))

(* Grouping by several keys with counts alone and a small take meets every  *)
(* row but opens no group past the take.                                    *)
CappedCountClosed(rows, ids, by, n) ==
    FoldLeft(LAMBDA gs, i :
        LET key == KeyOf(rows[i], by)
            known == {g \in DOMAIN gs : gs[g].key = key}
        IN IF Len(gs) < n /\ known # {} THEN [gs EXCEPT ![CHOOSE g \in known : TRUE].a = @ + 1]
           ELSE IF Len(gs) < n THEN Append(gs, [key |-> key, k |-> key[1], a |-> 1]) ELSE gs, <<>>, ids)
CappedCount(rows, ids, by, n) ==
    FoldLeft(LAMBDA gs, i :
        LET key == KeyOf(rows[i], by)
            known == {g \in DOMAIN gs : gs[g].key = key}
        IN IF known # {} THEN [gs EXCEPT ![CHOOSE g \in known : TRUE].a = @ + 1]
           ELSE IF Len(gs) < n THEN Append(gs, [key |-> key, k |-> key[1], a |-> 1]) ELSE gs, <<>>, ids)
(* A by without outputs gives the first row of each group.                  *)
FirstRows(rows, ids, by) ==
    LET ks == KeysOf(rows, ids, by) IN [g \in DOMAIN ks |-> rows[RowsOf(rows, ids, by, ks[g])[1]]]
FirstRowsComputed(rows, ids, key) ==
    LET ks == FoldLeft(LAMBDA seen, i : IF \E j \in DOMAIN seen : key[seen[j]] = key[i] THEN seen ELSE Append(seen, i), <<>>, ids)
    IN At(rows, ks)
(* Several keys without a compiled grouping: the keys of the rows are put   *)
(* together and grouped, and only the groups an unsorted take leaves are    *)
(* evaluated.                                                               *)
EvalGroups(rows, ids, q) ==
    LET ks == KeysOf(rows, ids, q.by)
        out == TakeLimit(Len(ks), q.keys, q.take)
        gs == [g \in 1 .. out |-> [key |-> ks[g], k |-> ks[g][1], a |-> Agg(q.op, rows, RowsOf(rows, ids, q.by, ks[g]))]]
    IN IF out < Len(ks) THEN gs ELSE At(gs, SortTake(gs, q.keys, q.take, FALSE))
(* Groups of a Boolean key come in the order of the key; they are turned    *)
(* round unless the first row has the first of them.                        *)
BoolOrder(gs, first) == IF Len(gs) >= 2 /\ gs[1].k # first THEN Reverse(gs) ELSE gs
(* A by of the form {k: k, d: (+ k n)} groups by k and derives d.           *)
DependentKeys(gs, bias) == [g \in DOMAIN gs |-> <<gs[g].k, gs[g].k + bias>>]
(* Without by: where, then the outputs, then the order and the take.        *)
Project(rows, q) == LET kept == At(rows, Passing(rows, q.cond)) IN At(kept, SortTake(kept, q.keys, q.take, FALSE))
(* A select without by whose outputs are all aggregates gives one row.      *)
ScalarAggs(rows, ids, ops) ==
    [j \in DOMAIN ops |-> IF ids = <<>> /\ ops[j] = "first" THEN Null ELSE Agg(ops[j], rows, ids)]

-----------------------------------------------------------------------------
(* Outputs that the grouping does not compute.  Each row of the source is   *)
(* given its group in the result, 0 where it has none or where did not let  *)
(* it pass; the rows are then laid out group by group.                      *)
RowGid(rows, gs, by, sel) ==
    [r \in DOMAIN rows |->
        LET own == {g \in DOMAIN gs : gs[g].key = KeyOf(rows[r], by)} IN IF r \in sel /\ own # {} THEN Min(own) ELSE 0]
(* A key column with a dictionary index translates codes instead of keys.   *)
Code(rows, by, key) == CHOOSE c \in DOMAIN KeysOf(rows, Numbers(Len(rows)), by) : KeysOf(rows, Numbers(Len(rows)), by)[c] = key
DictGid(rows, gs, by, sel) ==
    LET codes == [g \in DOMAIN gs |-> Code(rows, by, gs[g].key)]
        gidOf(c) == IF \E g \in DOMAIN gs : codes[g] = c THEN CHOOSE g \in DOMAIN gs : codes[g] = c ELSE 0
    IN [r \in DOMAIN rows |-> IF r \in sel THEN gidOf(Code(rows, by, KeyOf(rows[r], by))) ELSE 0]

Sizes(gid, rs, n) == [g \in 1 .. n |-> Cardinality({r \in rs : gid[r] = g})]
Starts(cnt) == [g \in DOMAIN cnt |-> FoldLeft(+, 0, SubSeq(cnt, 1, g - 1))]
Place(gid, rs, st) ==
    FoldLeft(LAMBDA s, r : IF gid[r] = 0 THEN s
                           ELSE [cur |-> [s.cur EXCEPT ![gid[r]] = @ + 1], buf |-> (s.cur[gid[r]] + 1 :> r) @@ s.buf], st, rs)
IdxBuf(gid, n) == Place(gid, Numbers(Len(gid)), [cur |-> Starts(Sizes(gid, DOMAIN gid, n)), buf |-> <<>>]).buf
(* In parallel each task has its own cursors, past what the tasks before it *)
(* place; the tasks run in any order.                                       *)
TaskCursors(gid, n, cut, task) ==
    [g \in 1 .. n |-> Starts(Sizes(gid, DOMAIN gid, n))[g] + IF task = 2 THEN Sizes(gid, 1 .. cut, n)[g] ELSE 0]
IdxBufTasks(gid, n, cut, order) ==
    FoldLeft(LAMBDA buf, task :
        LET rs == IF task = 1 THEN Numbers(cut) ELSE SubSeq(Numbers(Len(gid)), cut + 1, Len(gid))
        IN Place(gid, rs, [cur |-> TaskCursors(gid, n, cut, task), buf |-> buf]).buf, <<>>, order)
GroupSlice(gid, buf, n, g) ==
    LET cnt == Sizes(gid, DOMAIN gid, n) IN SubSeq(buf, Starts(cnt)[g] + 1, Starts(cnt)[g] + cnt[g])

(* count distinct: a set per group whose empty slots hold 0, so that 0 is   *)
(* kept apart.                                                              *)
InsertValue(s, v) ==
    IF v = 0 THEN (IF s.zero THEN s ELSE [s EXCEPT !.zero = TRUE, !.n = @ + 1])
    ELSE IF v \in s.set THEN s ELSE [s EXCEPT !.set = @ \cup {v}, !.n = @ + 1]
CountDistinctBuf(rows, slice) ==
    FoldLeft(LAMBDA s, i : IF rows[i].v = Null THEN s ELSE InsertValue(s, rows[i].v), [set |-> {}, zero |-> FALSE, n |-> 0], slice).n
(* Without nulls it is two groupings: by the keys and the column, then by   *)
(* the keys; take and desc bound what the second one emits.                 *)
RewriteFits(rows, by) == \A r \in DOMAIN rows : rows[r].v # Null /\ \A j \in DOMAIN by : Cell(rows[r], by[j]) # Null
CountDistinctRewrite(rows, ids, q) ==
    LET dedup == GroupBy(rows, ids, q.by \o <<"v">>, "count")
        pairs == [i \in DOMAIN dedup |-> [k |-> dedup[i].k, v |-> 0]]
        f == IF Len(q.keys) = 1 /\ q.keys[1].desc /\ q.take.form = "atom" THEN EmitTop(q.take.n, "count", TRUE) ELSE NoEmit
        gs == Emitted(GroupBy(pairs, Numbers(Len(pairs)), q.by, "count"), f)
    IN At(gs, SortTake(gs, q.keys, q.take, FALSE))

(* Any other output is evaluated once for all rows and its cells dealt out  *)
(* where it has one per row; over the rows of each group where it has not;  *)
(* and repeated where it names no column.                                   *)
Evaluate(e, vs) ==
    CASE e = "const" -> <<7>>
      [] e = "plus" -> [i \in DOMAIN vs |-> IF vs[i] = Null THEN Null ELSE vs[i] + 1]
      [] e = "distinct" -> FoldLeft(LAMBDA d, x : IF \E i \in DOMAIN d : d[i] = x THEN d ELSE Append(d, x), <<>>, vs)
      [] OTHER -> <<Cardinality(ToSet(vs))>>
Values(rows, ids) == [i \in DOMAIN ids |-> rows[ids[i]].v]
RefsColumn(e) == e # "const"
NonAgg(rows, gid, buf, n, e) ==
    LET full == Evaluate(e, Values(rows, Numbers(Len(rows))))
        slice(g) == GroupSlice(gid, buf, n, g)
    IN [g \in 1 .. n |->
          IF e = "agg" \/ (RefsColumn(e) /\ Len(full) # Len(rows)) THEN Evaluate(e, Values(rows, slice(g)))
          ELSE IF RefsColumn(e) THEN [i \in DOMAIN slice(g) |-> full[slice(g)[i]]]
          ELSE full]

(* The cells that a per-group evaluation gives make a typed column until    *)
(* one has another type: then what was stored is boxed into a list.         *)
CellCol == [typed |-> FALSE, t |-> "none", out |-> <<>>]
Boxed(col) == [col EXCEPT !.typed = FALSE]
AddCell(col, cell) ==
    IF col.out = <<>> THEN [typed |-> cell.t \in {"int", "float"}, t |-> cell.t, out |-> <<cell>>]
    ELSE IF ~col.typed \/ cell.t = col.t THEN [col EXCEPT !.out = Append(@, cell)]
    ELSE [Boxed(col) EXCEPT !.out = Append(@, cell)]
PerGroupColumn(cells) == FoldLeft(AddCell, CellCol, cells)

-----------------------------------------------------------------------------
(* Arithmetic over aggregates: each aggregate becomes a hidden output of    *)
(* the grouping and the rest is evaluated over the columns it gives; a bare *)
(* column or an aggregate of an aggregate refuses.                          *)
AggOf(op) == [f |-> "agg", op |-> op]
Num(n) == [f |-> "num", n |-> n]
Column == [f |-> "col"]
Plus(l, r) == [f |-> "plus", l |-> l, r |-> r]
Hidden(j) == [f |-> "hidden", j |-> j]
RECURSIVE AggArithRewrite(_, _)
AggArithRewrite(e, hidden) ==
    IF e.f = "agg" THEN [ok |-> TRUE, e |-> Hidden(Len(hidden) + 1), hidden |-> Append(hidden, e.op)]
    ELSE IF e.f = "col" THEN [ok |-> FALSE, e |-> e, hidden |-> hidden]
    ELSE IF e.f = "plus" THEN
        LET l == AggArithRewrite(e.l, hidden)
            r == AggArithRewrite(e.r, l.hidden)
        IN [ok |-> l.ok /\ r.ok, e |-> Plus(l.e, r.e), hidden |-> r.hidden]
    ELSE [ok |-> TRUE, e |-> e, hidden |-> hidden]
Decomposed(e) ==
    LET w == AggArithRewrite(e, <<>>) IN [w EXCEPT !.ok = @ /\ e.f = "plus" /\ w.hidden # <<>>]
Add(x, y) == IF x = Null \/ y = Null THEN Null ELSE x + y
RECURSIVE ArithOver(_, _)
ArithOver(e, values) ==
    CASE e.f = "num" -> e.n
      [] e.f = "hidden" -> values[e.j]
      [] e.f = "plus" -> Add(ArithOver(e.l, values), ArithOver(e.r, values))
CompoundColumn(rows, ids, by, w) ==
    LET ks == KeysOf(rows, ids, by)
        hid == [j \in DOMAIN w.hidden |-> GroupBy(rows, ids, by, w.hidden[j])]
    IN [g \in DOMAIN ks |-> ArithOver(w.e, [j \in DOMAIN w.hidden |-> hid[j][g].a])]

(* count of a sorted column is count; first and last of one sorted upwards  *)
(* are min and max where no cell is null.                                   *)
SimplifyIdiom(outer, wrap, rows) ==
    IF outer = "count" THEN "count"
    ELSE IF wrap # "asc" \/ Null \in Cells(rows, "v") THEN "none"
    ELSE IF outer = "first" THEN "min" ELSE "max"

-----------------------------------------------------------------------------
(* where with and is a chain of filters, cheapest first unless a conjunct   *)
(* does more than compare.                                                  *)
ChainOrder(cs) ==
    IF \E i \in DOMAIN cs : ~cs[i].safe THEN Numbers(Len(cs))
    ELSE SortSeq(Numbers(Len(cs)), LAMBDA a, b : cs[a].cost < cs[b].cost \/ (cs[a].cost = cs[b].cost /\ a < b))
ChainPasses(rows, cs) ==
    FoldLeft(LAMBDA ids, i : SelectSeq(ids, LAMBDA r : Holds(cs[i].cmp, Cell(rows[r], cs[i].c), cs[i].x)), Numbers(Len(rows)), ChainOrder(cs))

(* The columns of a nested by without outputs that are copied: its keys and *)
(* the names that the outer select evaluates.  Names inside a vector of     *)
(* symbols are not looked at.                                               *)
CollectSyms(ref) == IF ref.form = "vector" THEN {} ELSE ref.names
KeepColumns(by, refs) == ToSet(by) \cup UNION {CollectSyms(refs[i]) : i \in DOMAIN refs}

(* (count (select ... where (cmp v x))) counts without making the rows.     *)
(* Literals are in halves; a float literal is read as 0.                    *)
Flip(cmp) == CASE cmp = "<" -> ">" [] cmp = ">" -> "<" [] OTHER -> cmp
CountLiteral(lit) == IF lit.t = "float" THEN 0 ELSE lit.halves \div 2
CountRefuses(rows) == Null \in Cells(rows, "v")
CountCompare(rows, cmp, lit, swapped, cut) ==
    LET op == IF swapped THEN Flip(cmp) ELSE cmp
        part(rs) == Cardinality({r \in rs : Holds(op, rows[r].v, CountLiteral(lit))})
    IN part(1 .. cut) + part(cut + 1 .. Len(rows))
-----------------------------------------------------------------------------
(* Inputs: tables of up to MaxSelect rows; cut is where they are split into *)
(* tasks or partitions.                                                     *)
SelectInit == in = [kind |-> "select", rows |-> <<>>, cut |-> 0]
SelectGrow ==
    /\ in.kind = "select" /\ Len(in.rows) < MaxSelect /\ in.cut = 0
    /\ \E k \in 1 .. 2, v \in {Null, 0, 1} : in' = [in EXCEPT !.rows = Append(@, [k |-> k, v |-> v])]
SelectCut ==
    /\ in.kind = "select" /\ in.cut = 0
    /\ \E c \in 1 .. Len(in.rows) : in' = [in EXCEPT !.cut = c]
SelectNext == SelectGrow \/ SelectCut

-----------------------------------------------------------------------------
(* What a select means: where, by, order, take, in this order.              *)
Asc(c) == [c |-> c, desc |-> FALSE]
Desc(c) == [c |-> c, desc |-> TRUE]
Orders == {<<>>, <<Asc("v")>>, <<Desc("v")>>, <<Asc("k"), Desc("v")>>}
Takes == {NoTake, Atom(0), Atom(1), Atom(2), Atom(-1), Range2(1, 2)}
AnyRow == [c |-> "v", cmp |-> "any", x |-> 0]
Conds == {AnyRow, [c |-> "k", cmp |-> "==", x |-> 1], [c |-> "k", cmp |-> ">", x |-> 1], [c |-> "v", cmp |-> "<", x |-> 1]}
Plain(rows, keys, t) == At(rows, Take(Ordered(rows, keys, Numbers(Len(rows))), t))
PlainBy(rows, q) == Plain(GroupBy(rows, Passing(rows, q.cond), q.by, q.op), q.keys, q.take)
Queries ==
    [by : {<<"k">>, <<"k", "v">>}, cond : Conds, op : {"count", "sum", "min", "max"},
     keys : {<<>>, <<Asc("a")>>, <<Desc("a")>>, <<Desc("k")>>}, take : {NoTake, Atom(1), Atom(-1)}]
EmptyGroup(rows, q) == \E g \in DOMAIN GroupBy(rows, Passing(rows, q.cond), q.by, q.op) : GroupBy(rows, Passing(rows, q.cond), q.by, q.op)[g].a = Null

(* The buffer of the best k rows, the workers' buffers and the sort of each *)
(* partition give the rows that sorting the whole table and taking gives,   *)
(* ties in source order (apply_sort_take, ray_fused_topk_select,            *)
(* try_stream_parted_order_by).                                             *)
TopRowsAgree ==
    in.kind = "select" =>
        \A keys \in Orders, t \in Takes :
            LET rows == in.rows
                segs == Segments(rows, in.cut)
                share == [r \in DOMAIN rows |-> IF r <= in.cut THEN 1 ELSE 2]
                pass == {r \in DOMAIN rows : rows[r].v # 1}
            IN /\ At(rows, SortTake(rows, keys, t, FALSE)) = Plain(rows, keys, t)
               /\ At(rows, SortTake(rows, keys, t, TRUE)) = Plain(rows, keys, t)
               /\ FusedFits(keys, t) =>
                    /\ At(rows, FusedTopk(rows, pass, keys, t.n, share)) = Plain(At(rows, SelectSeq(Numbers(Len(rows)), LAMBDA r : r \in pass)), keys, t)
                    /\ StreamTopk(segs, keys, t) = Plain(rows, keys, t)
               /\ Streams(segs, keys) => StreamOrdered(segs) = Plain(rows, keys, NoTake)

(* Groups that are never emitted, filters moved behind the grouping and     *)
(* counts that stop opening groups change no answer (match_group_*,         *)
(* can_defer_single_key_where, the capped count).  Left out are ascending   *)
(* counts, a top of groups chosen before a deferred where, and the maximum  *)
(* of a group without values, where the answers differ.                     *)
GroupsAgree ==
    in.kind = "select" /\ in.cut = 0 =>
        \A q \in Queries, parted \in BOOLEAN :
            LET rows == in.rows
                top == TopFilter(q, NoEmit).on
            IN /\ ~(top /\ (Defers(q, parted) \/ (q.op = "count" /\ ~q.keys[1].desc) \/ (q.op = "max" /\ EmptyGroup(rows, q))))
                     => SelectBy(rows, q, parted, NoEmit) = PlainBy(rows, q)
               /\ (q.keys = <<>> /\ q.op = "count" /\ q.take.form = "atom" /\ q.take.n > 0)
                     => CappedCount(rows, Passing(rows, q.cond), q.by, q.take.n) = PlainBy(rows, q)
               /\ EvalGroups(rows, Passing(rows, q.cond), q) = PlainBy(rows, q)
               /\ (q.keys = <<>> /\ q.take = NoTake) =>
                     \A n \in 0 .. 2 :
                         LET over == [c |-> "a", cmp |-> ">", x |-> n] IN
                         NestedSelect(rows, q, over, parted) = At(PlainBy(rows, q), Passing(PlainBy(rows, q), over))

(* Every output that the grouping leaves to the scatter gets, for each      *)
(* group, the value that its expression has over the rows of that group     *)
(* that where let pass, however the rows were laid out (the non-aggregate   *)
(* scatter of ray_select, idxbuf_*_fn, cdpg_buf_par_fn,                     *)
(* try_count_distinct_v2_rewrite, nonagg_eval_per_group_core).              *)
OutputsAgree ==
    in.kind = "select" =>
        \A cond \in Conds :
            LET rows == in.rows
                ids == Passing(rows, cond)
                gs == GroupBy(rows, ids, <<"k">>, "count")
                n == Len(gs)
                gid == RowGid(rows, gs, <<"k">>, ToSet(ids))
                buf == IdxBuf(gid, n)
                own(g) == RowsOf(rows, ids, <<"k">>, gs[g].key)
                cells == [g \in 1 .. n |-> [t |-> IF Len(own(g)) % 2 = 1 THEN "int" ELSE "float", x |-> g]]
            IN /\ DictGid(rows, gs, <<"k">>, ToSet(ids)) = gid
               /\ \A order \in {<<1, 2>>, <<2, 1>>} : IdxBufTasks(gid, n, in.cut, order) = buf
               /\ \A g \in 1 .. n :
                     /\ GroupSlice(gid, buf, n, g) = own(g)
                     /\ CountDistinctBuf(rows, GroupSlice(gid, buf, n, g)) = Agg("distinct", rows, own(g))
                     /\ PerGroupColumn(cells).out[g] = cells[g]
               /\ \A e \in {"const", "plus", "distinct", "agg"}, g \in 1 .. n :
                     NonAgg(rows, gid, buf, n, e)[g] = Evaluate(e, Values(rows, own(g)))
               /\ ids # <<>> => \A op \in {"count", "sum", "first"} :
                     ScalarAggs(rows, ids, <<op>>)[1] = GroupBy([r \in DOMAIN rows |-> [rows[r] EXCEPT !.k = 1]], ids, <<"k">>, op)[1].a
               /\ FirstRows(rows, ids, <<"k">>) = FirstRowsComputed(rows, ids, [r \in DOMAIN rows |-> rows[r].k + 10])
               /\ cond = AnyRow /\ rows # <<>> => BoolOrder(SortSeq(gs, LAMBDA a, b : a.k < b.k), rows[1].k) = gs
               /\ \A keys \in Orders : Project(rows, [cond |-> cond, keys |-> keys, take |-> Atom(2)]) = Plain(At(rows, ids), keys, Atom(2))
               /\ RewriteFits(rows, <<"k">>) =>
                     \A t \in {NoTake, Atom(1)}, keys \in {<<>>, <<Desc("a")>>} :
                         LET q == [by |-> <<"k">>, cond |-> cond, op |-> "distinct", keys |-> keys, take |-> t]
                         IN CountDistinctRewrite(rows, ids, q) = PlainBy(rows, q)

(* Rewriting an expression before it runs changes no value: arithmetic over *)
(* hidden aggregates, first and last of a sorted column, conjuncts in the   *)
(* order of their cost, keys derived from a key, the columns a nested by    *)
(* copies, and a count that makes no rows (agg_arith_rewrite,               *)
(* simplify_agg_idiom, filt_compact_keep, try_count_simple_compare).        *)
Exprs == {Plus(AggOf("sum"), AggOf("count")), Plus(Plus(AggOf("max"), Num(2)), AggOf("min")), Plus(AggOf("sum"), Column), AggOf("sum"), Num(3)}
RECURSIVE Meaning(_, _, _)
Meaning(e, rows, ids) ==
    CASE e.f = "num" -> e.n
      [] e.f = "agg" -> Agg(e.op, rows, ids)
      [] e.f = "plus" -> Add(Meaning(e.l, rows, ids), Meaning(e.r, rows, ids))
SortedValues(rows, ids) == Values(rows, Ordered(rows, <<Asc("v")>>, ids))
Chains ==
    {<<[c |-> "k", cmp |-> "==", x |-> 1, cost |-> 20, safe |-> s], [c |-> "v", cmp |-> "<", x |-> 1, cost |-> 5, safe |-> TRUE]>> : s \in BOOLEAN}
Literals == {[t |-> "int", halves |-> 0], [t |-> "int", halves |-> 2]}
OuterRefs == {<<[form |-> "expr", names |-> {"v"}]>>, <<[form |-> "atom", names |-> {"k"}], [form |-> "expr", names |-> {"a"}]>>}
RewritesAgree ==
    in.kind = "select" =>
        LET rows == in.rows
            ids == Numbers(Len(rows))
            ks == KeysOf(rows, ids, <<"k">>)
        IN /\ \A e \in Exprs : Decomposed(e).ok =>
                \A g \in DOMAIN ks : CompoundColumn(rows, ids, <<"k">>, Decomposed(e))[g] = Meaning(e, rows, RowsOf(rows, ids, <<"k">>, ks[g]))
           /\ \A outer \in {"count", "first", "last"}, wrap \in {"asc", "desc", "reverse"} :
                LET op == SimplifyIdiom(outer, wrap, rows) IN
                op # "none" => \A g \in DOMAIN ks :
                    LET mine == RowsOf(rows, ids, <<"k">>, ks[g]) IN
                    Agg(op, rows, mine) = CASE outer = "count" -> Len(mine) [] outer = "first" -> SortedValues(rows, mine)[1] [] OTHER -> SortedValues(rows, mine)[Len(mine)]
           /\ \A cs \in Chains :
                /\ ChainPasses(rows, cs) = SelectSeq(ids, LAMBDA r : \A i \in DOMAIN cs : Holds(cs[i].cmp, Cell(rows[r], cs[i].c), cs[i].x))
                /\ \A i \in DOMAIN cs : ~cs[i].safe => \A j \in 1 .. i - 1 : j \in ToSet(SubSeq(ChainOrder(cs), 1, i - 1))
                /\ (\E i \in DOMAIN cs : ~cs[i].safe) => ChainOrder(cs) = Numbers(Len(cs))
           /\ DependentKeys(GroupBy(rows, ids, <<"k">>, "count"), 2)
                = LET both == KeysOf([r \in DOMAIN rows |-> [k |-> rows[r].k, v |-> rows[r].k + 2]], ids, <<"k", "v">>) IN both
           /\ \A refs \in OuterRefs : {"k"} \cup UNION {refs[i].names : i \in DOMAIN refs} \subseteq KeepColumns(<<"k">>, refs)
           /\ ~CountRefuses(rows) => \A cmp \in {"<", ">", "=="}, lit \in Literals, sw \in BOOLEAN :
                CountCompare(rows, cmp, lit, sw, in.cut)
                    = Cardinality({r \in DOMAIN rows : IF sw THEN Holds(cmp, lit.halves, 2 * rows[r].v) ELSE Holds(cmp, 2 * rows[r].v, lit.halves)})

(* The differences: ordering ascending by a count keeps the largest counts; *)
(* the top of the groups is chosen before a deferred where; a group without *)
(* values loses its place; a float literal counts as 0; names in a vector   *)
(* are dropped.                                                             *)
AscendingCounts == in.kind = "select" => \A q \in Queries : (q.op = "count" /\ q.keys = <<Asc("a")>>) => SelectBy(in.rows, q, FALSE, NoEmit) = PlainBy(in.rows, q)
DeferredTop == in.kind = "select" => \A q \in Queries : (q.op = "count" /\ q.keys = <<Desc("a")>>) => SelectBy(in.rows, q, TRUE, NoEmit) = PlainBy(in.rows, q)
NullTop == in.kind = "select" => \A q \in Queries : (q.op = "max" /\ q.keys = <<Desc("a")>>) => SelectBy(in.rows, q, FALSE, NoEmit) = PlainBy(in.rows, q)
FloatCounts ==
    in.kind = "select" /\ ~CountRefuses(in.rows) =>
        CountCompare(in.rows, "<", [t |-> "float", halves |-> 1], FALSE, in.cut) = Cardinality({r \in DOMAIN in.rows : 2 * in.rows[r].v < 1})
=============================================================================
