------------------------------- MODULE Group -------------------------------
(***************************************************************************)
(* Aggregation (ops/group.c, ops/agg_engine.c, ops/agg_stream.c): scalar   *)
(* reductions, the group-by strategies (hash table, two radix pipelines,   *)
(* direct arrays, the sparse table, the batch engine's dense, hash, small  *)
(* hash and radix variants), grouping partition by partition, and the      *)
(* aggregates that need all the values of a group.                         *)
(*                                                                         *)
(* A table T has key columns T.keys and value columns T.u and T.v; T.sel   *)
(* lists the rows that a filter let through.  A query is a sequence of     *)
(* aggregates, each <<operation, column>>.  Rows count from 1.  The pool   *)
(* gives each row (a morsel) to a worker: a schedule is a function from    *)
(* positions to workers, and a worker takes its morsels in order.          *)
(***************************************************************************)
EXTENDS Integers, Sequences, FiniteSets, SequencesExt, FiniteSetsExt

CONSTANT Workers     \* pool->n_workers + 1

Null == -1
Seed == 0               \* what calloc leaves in an accumulator
Big == 1000             \* INT64_MAX, the identity of a minimum
Small == -1000          \* INT64_MIN
NoRow == 0

W == 0 .. Workers - 1
Listed(f) == SubSeq(f, 1, Len(f))
KeyAt(T, r) == [i \in DOMAIN T.keys |-> T.keys[i][r]]
HasNulls(col) == \E r \in DOMAIN col : col[r] = Null
NullKeys(T) == \E i \in DOMAIN T.keys : HasNulls(T.keys[i])
Cell(T, a, r) ==
    IF a[1] = "count" THEN 0
    ELSE IF a[1] = "wsum" THEN (IF T.u[r] = Null \/ T.v[r] = Null THEN Null ELSE T.u[r] * T.v[r])
    ELSE T[a[2]][r]
Share(T, sched, w) == SelectSeq(T.sel, LAMBDA r : sched[r] = w)
Lower(a, b) == IF a < b THEN a ELSE b
Upper(a, b) == IF a > b THEN a ELSE b

(* What a group's accumulator, with nn values in it, is worth; an average  *)
(* is the pair it divides, none if it is null.                             *)
Final(op, x, nn, count) ==
    CASE op = "count" -> count
      [] op \in {"sum", "wsum"} -> x
      [] op = "avg" -> (IF nn = 0 THEN <<>> ELSE <<x, nn>>)
      [] OTHER -> (IF nn = 0 THEN Null ELSE x)

Out(T, Q, key, st) == <<key, [a \in DOMAIN Q |-> Final(Q[a][1], st.x[a], st.nn[a], st.count)]>>

-----------------------------------------------------------------------------
(* exec_reduction: one pass, or one accumulator per worker and a merge      *)
(* into that of worker 0.                                                   *)
ReduceInit == [sum |-> 0, prod |-> 1, min |-> Big, max |-> Small, cnt |-> 0]
ReduceRow(acc, x) ==
    IF x = Null THEN acc
    ELSE [sum |-> acc.sum + x, prod |-> acc.prod * x, min |-> Lower(acc.min, x), max |-> Upper(acc.max, x), cnt |-> acc.cnt + 1]
ReduceRange(col, rows) == FoldLeft(LAMBDA acc, r : ReduceRow(acc, col[r]), ReduceInit, rows)
ReduceMerge(d, s) ==
    [sum |-> d.sum + s.sum, prod |-> d.prod * s.prod, min |-> Lower(d.min, s.min), max |-> Upper(d.max, s.max), cnt |-> d.cnt + s.cnt]
ReduceParallel(T, sched) ==
    LET acc(w) == ReduceRange(T.u, Share(T, sched, w))
    IN FoldLeft(LAMBDA m, w : IF acc(w).cnt = 0 THEN m ELSE ReduceMerge(m, acc(w)), acc(0), [i \in 1 .. Workers - 1 |-> i])
Reduced(op, acc, scanned) ==
    CASE op = "count" -> scanned
      [] op = "sum" -> acc.sum
      [] op = "prod" -> acc.prod
      [] op = "avg" -> (IF acc.cnt = 0 THEN <<>> ELSE <<acc.sum, acc.cnt>>)
      [] op = "min" -> (IF acc.cnt = 0 THEN Null ELSE acc.min)
      [] op = "max" -> (IF acc.cnt = 0 THEN Null ELSE acc.max)
(* FIRST and LAST scan for a value from their end.                          *)
ScanFirst(T) == LET live == SelectSeq(T.sel, LAMBDA r : T.u[r] # Null) IN IF live = <<>> THEN Null ELSE T.u[Head(live)]
ScanLast(T) == LET live == SelectSeq(T.sel, LAMBDA r : T.u[r] # Null) IN IF live = <<>> THEN Null ELSE T.u[Last(live)]

-----------------------------------------------------------------------------
(* Open addressing with linear probing.  at maps a slot to a group, 0 if    *)
(* empty; rows are the groups in the order they were made.                  *)
Packed(key) == [cells |-> [i \in DOMAIN key |-> IF key[i] = Null THEN 0 ELSE key[i]], nulls |-> {i \in DOMAIN key : key[i] = Null}]
Unpacked(p) == [i \in DOMAIN p.cells |-> IF i \in p.nulls THEN Null ELSE p.cells[i]]
Hash(p) == FoldFunction(LAMBDA x, y : x + y, 0, p.cells)
KeysEqual(a, b) == a.cells = b.cells /\ a.nulls = b.nulls

HtInit(cap) == [at |-> [s \in 0 .. cap - 1 |-> 0], rows |-> <<>>]
Cap(ht) == Cardinality(DOMAIN ht.at)
Probe(ht, p) ==
    LET h == Hash(p)
        hit(i) == LET g == ht.at[(h + i) % Cap(ht)] IN g = 0 \/ KeysEqual(ht.rows[g].key, p)
    IN (h + Min({i \in 0 .. Cap(ht) - 1 : hit(i)})) % Cap(ht)
(* Groups are told apart already: a rehash looks for an empty slot only.    *)
Rehash(ht) ==
    LET put(at, g) ==
            LET h == Hash(ht.rows[g].key)
                n == Cardinality(DOMAIN at)
            IN [at EXCEPT ![(h + Min({i \in 0 .. n - 1 : at[(h + i) % n] = 0})) % n] = g]
    IN [ht EXCEPT !.at = FoldLeft(put, HtInit(2 * Cap(ht)).at, [g \in DOMAIN ht.rows |-> g])]
Insert(ht, p, row) ==
    LET new == [at |-> [ht.at EXCEPT ![Probe(ht, p)] = Len(ht.rows) + 1], rows |-> Append(ht.rows, row)]
    IN IF 2 * Len(new.rows) > Cap(new) THEN Rehash(new) ELSE new

(* Accumulating a row of the table; for FIRST and LAST row[a] is the bound. *)
Identity(op) == CASE op = "prod" -> 1 [] op = "min" -> Big [] op = "max" -> Small [] OTHER -> 0
NewGroup(Q, p, r) ==
    [key |-> p, count |-> 0, first |-> r, x |-> [a \in DOMAIN Q |-> Identity(Q[a][1])], nn |-> [a \in DOMAIN Q |-> 0],
     row |-> [a \in DOMAIN Q |-> IF Q[a][1] = "last" THEN Small ELSE Big]]
Takes(op, r, bound) == CASE op = "first" -> r < bound [] op = "last" -> r > bound [] OTHER -> FALSE
Step(op, x, v) ==
    CASE op \in {"sum", "avg", "wsum"} -> x + v [] op = "prod" -> x * v [] op = "min" -> Lower(x, v) [] op = "max" -> Upper(x, v)
      [] OTHER -> x
Accumulate(T, Q, g, r) ==
    LET v(a) == Cell(T, Q[a], r)
        take(a) == v(a) # Null /\ Takes(Q[a][1], r, g.row[a])
    IN [g EXCEPT !.count = @ + 1, !.first = Lower(@, r),
                 !.x = [a \in DOMAIN Q |-> IF v(a) = Null THEN @[a] ELSE IF take(a) THEN v(a) ELSE Step(Q[a][1], @[a], v(a))],
                 !.nn = [a \in DOMAIN Q |-> IF v(a) = Null THEN @[a] ELSE @[a] + 1],
                 !.row = [a \in DOMAIN Q |-> IF take(a) THEN r ELSE @[a]]]
ProbeEntry(T, Q, ht, r) ==
    LET p == Packed(KeyAt(T, r))
        g == ht.at[Probe(ht, p)]
    IN IF g = 0 THEN Insert(ht, p, Accumulate(T, Q, NewGroup(Q, p, r), r))
       ELSE [ht EXCEPT !.rows[g] = Accumulate(T, Q, @, r)]
GroupRows(T, Q, ht, rows) == FoldLeft(LAMBDA h, r : ProbeEntry(T, Q, h, r), ht, rows)
Emit(T, Q, rows) == Listed([i \in DOMAIN rows |-> Out(T, Q, Unpacked(rows[i].key), rows[i])])

Sequential(T, Q) == Emit(T, Q, GroupRows(T, Q, HtInit(2), T.sel).rows)

-----------------------------------------------------------------------------
(* Radix: parts by the hash, a power of two of them.                        *)
RECURSIVE PartCount(_, _, _)
PartCount(n, workers, rows) ==
    IF n < workers \/ n < (rows + n - 1) \div n THEN PartCount(2 * n, workers, rows) ELSE n
RadixParts(rows) == PartCount(1, Workers, IF rows = 0 THEN 1 ELSE rows)
PartOf(p, n) == Hash(p) % n
RowsOfPart(T, rows, n, p) == SelectSeq(rows, LAMBDA r : PartOf(Packed(KeyAt(T, r)), n) = p)

(* The output id of a group is its place among the first rows of groups.    *)
Ordered(groups, limit) ==
    LET firsts == [i \in DOMAIN groups |-> groups[i].first]
        fits == IsInjective(firsts) /\ \A i \in DOMAIN groups : firsts[i] \in 1 .. limit
        at(k) == CHOOSE i \in DOMAIN groups : Cardinality({j \in DOMAIN groups : firsts[j] < firsts[i]}) = k - 1
    IN [ok |-> fits, groups |-> IF fits THEN [k \in DOMAIN groups |-> groups[at(k)]] ELSE <<>>]

EmitOrdered(T, Q, all) == [ok |-> all.ok, rows |-> Emit(T, Q, all.groups)]

Radix(T, Q, sched) ==
    LET n == RadixParts(Len(T.sel))
        buf(w, p) == RowsOfPart(T, Share(T, sched, w), n, p)
        part(p) == FoldLeft(LAMBDA ht, w : GroupRows(T, Q, ht, buf(w, p)), HtInit(2), [i \in 1 .. Workers |-> i - 1]).rows
    IN EmitOrdered(T, Q, Ordered(FlattenSeq([i \in 1 .. n |-> part(i - 1)]), Len(T.u)))

(* The fused pipeline keeps a table per worker and part and merges them.    *)
Fusable(T, Q) == \A a \in DOMAIN Q : Q[a][1] \in {"count", "sum", "avg"} /\ (Q[a][1] # "count" => ~HasNulls(T[Q[a][2]]))
MergeRow(Q, ht, row) ==
    LET g == ht.at[Probe(ht, row.key)]
    IN IF g = 0 THEN Insert(ht, row.key, row)
       ELSE [ht EXCEPT !.rows[g] = [@ EXCEPT !.count = @ + row.count, !.first = Lower(@, row.first),
                                             !.x = [a \in DOMAIN Q |-> @[a] + row.x[a]],
                                             !.nn = [a \in DOMAIN Q |-> @[a] + row.nn[a]]]]
RadixFused(T, Q, sched) ==
    LET n == RadixParts(Len(T.sel))
        local(w, p) == GroupRows(T, Q, HtInit(2), RowsOfPart(T, Share(T, sched, w), n, p)).rows
        part(p) == FoldLeft(LAMBDA ht, w : FoldLeft(LAMBDA h, row : MergeRow(Q, h, row), ht, local(w, p)),
                            HtInit(2), [i \in 1 .. Workers |-> i - 1]).rows
    IN EmitOrdered(T, Q, Ordered(FlattenSeq([i \in 1 .. n |-> part(i - 1)]), Len(T.u)))

-----------------------------------------------------------------------------
(* Direct arrays: the composite of the keys, less their minima, is a slot.  *)
KeyMin(T, i) == Min({T.keys[i][T.sel[p]] : p \in DOMAIN T.sel})
KeyRange(T, i) == Max({T.keys[i][T.sel[p]] : p \in DOMAIN T.sel}) - KeyMin(T, i) + 1
Stride(T, i) == IF i = 1 THEN 1 ELSE KeyRange(T, 1)
SlotOf(T, r) == FoldLeft(LAMBDA s, i : s + (T.keys[i][r] - KeyMin(T, i)) * Stride(T, i), 0, [i \in DOMAIN T.keys |-> i])
SlotCount(T) == FoldLeft(LAMBDA n, i : n * KeyRange(T, i), 1, [i \in DOMAIN T.keys |-> i])
KeyOfSlot(T, s) == [i \in DOMAIN T.keys |-> KeyMin(T, i) + ((s \div Stride(T, i)) % KeyRange(T, i))]
Direct(T, Q) ==
    /\ T.sel # <<>> /\ ~NullKeys(T)
    /\ SlotCount(T) <= Len(T.sel)
    /\ \A a \in DOMAIN Q : Q[a][1] = "wsum" => ~HasNulls(T.v)

DaNew(Q) ==
    [count |-> 0, x |-> [a \in DOMAIN Q |-> CASE Q[a][1] = "min" -> Big [] Q[a][1] = "max" -> Small [] OTHER -> Seed],
     nn |-> [a \in DOMAIN Q |-> 0], first |-> Big, last |-> Small]
(* One row bound serves every FIRST of the slot, and one every LAST.        *)
DaRow(T, Q, s, r) ==
    LET v(a) == Cell(T, Q[a], r)
        take(a) == (Q[a][1] = "first" /\ r < s.first) \/ (Q[a][1] = "last" /\ r > s.last)
        value(a) == IF Q[a][1] \in {"first", "last"} THEN (IF take(a) THEN v(a) ELSE s.x[a])
                    ELSE IF Q[a][1] = "prod" /\ s.nn[a] = 0 THEN v(a) ELSE Step(Q[a][1], s.x[a], v(a))
        counts(a) == v(a) # Null /\ (Q[a][1] \in {"first", "last"} => take(a))
        advance(op) == \E a \in DOMAIN Q : Q[a][1] = op /\ v(a) # Null /\ take(a)
    IN [count |-> s.count + 1, x |-> [a \in DOMAIN Q |-> IF v(a) = Null THEN s.x[a] ELSE value(a)],
        nn |-> [a \in DOMAIN Q |-> IF counts(a) THEN s.nn[a] + 1 ELSE s.nn[a]],
        first |-> IF advance("first") THEN r ELSE s.first, last |-> IF advance("last") THEN r ELSE s.last]
DaAccum(T, Q, rows) ==
    FoldLeft(LAMBDA acc, r : [acc EXCEPT ![SlotOf(T, r)] = DaRow(T, Q, @, r)], [s \in 0 .. SlotCount(T) - 1 |-> DaNew(Q)], rows)

(* With a FIRST or a LAST the worker with the better bound gives all of     *)
(* them; without one the accumulators are combined.                         *)
DaMergeSlot(Q, m, s) ==
    LET value(a) ==
            CASE Q[a][1] = "first" -> (IF s.first < m.first THEN s.x[a] ELSE m.x[a])
              [] Q[a][1] = "last" -> (IF s.last > m.last THEN s.x[a] ELSE m.x[a])
              [] Q[a][1] = "prod" -> (IF s.nn[a] = 0 THEN m.x[a] ELSE IF m.nn[a] = 0 THEN s.x[a] ELSE m.x[a] * s.x[a])
              [] OTHER -> Step(Q[a][1], m.x[a], s.x[a])
    IN [count |-> m.count + s.count, x |-> [a \in DOMAIN Q |-> value(a)], nn |-> [a \in DOMAIN Q |-> m.nn[a] + s.nn[a]],
        first |-> Lower(m.first, s.first), last |-> Upper(m.last, s.last)]
DaMerge(Q, accums) ==
    FoldLeft(LAMBDA m, w : [s \in DOMAIN m |-> DaMergeSlot(Q, m[s], accums[w][s])], accums[0], [i \in 1 .. Workers - 1 |-> i])
(* Slots that had a row, in the order of slots.                             *)
DaEmit(T, Q, acc) ==
    LET live == SelectSeq([i \in 1 .. SlotCount(T) |-> i - 1], LAMBDA s : acc[s].count > 0)
    IN [i \in DOMAIN live |-> Out(T, Q, KeyOfSlot(T, live[i]), acc[live[i]])]
DirectArray(T, Q, sched) == DaEmit(T, Q, DaMerge(Q, [w \in W |-> DaAccum(T, Q, Share(T, sched, w))]))

(* The emit filter: a count to exceed and how many of the largest counts a  *)
(* later step will take.  The smallest count to keep.                       *)
KeepMin(counts, filter) ==
    LET floor == filter.min + 1
        n == Len(counts)
        heap == Listed(SubSeq(SortSeq(counts, LAMBDA x, y : x > y), 1, filter.take))
    IN IF filter.take <= 0 \/ filter.take >= n THEN floor ELSE Upper(heap[filter.take], floor)
EmitFiltered(rows, counts, filter) ==
    LET kept == SelectSeq([i \in DOMAIN rows |-> i], LAMBDA i : counts[i] >= KeepMin(counts, filter))
    IN [i \in DOMAIN kept |-> rows[kept[i]]]

-----------------------------------------------------------------------------
(* The batch engine.  A state has init, update, merge and finalize; groups  *)
(* are found first and the values of a batch added after.                   *)
Streaming(Q) == \A a \in DOMAIN Q : Q[a][1] \in {"count", "sum", "avg", "min", "max", "wsum"}
StInit(Q) == [count |-> 0, x |-> [a \in DOMAIN Q |-> Identity(Q[a][1])], nn |-> [a \in DOMAIN Q |-> 0]]
StUpdate(T, Q, st, r) ==
    [count |-> st.count + 1,
     x |-> [a \in DOMAIN Q |-> IF Cell(T, Q[a], r) = Null THEN st.x[a] ELSE Step(Q[a][1], st.x[a], Cell(T, Q[a], r))],
     nn |-> [a \in DOMAIN Q |-> IF Cell(T, Q[a], r) = Null THEN st.nn[a] ELSE st.nn[a] + 1]]
StMerge(Q, d, s) ==
    [count |-> d.count + s.count, x |-> [a \in DOMAIN Q |-> Step(Q[a][1], d.x[a], s.x[a])],
     nn |-> [a \in DOMAIN Q |-> d.nn[a] + s.nn[a]]]

(* A group is named by a row of it: keys are read from the table again.     *)
FindGroup(T, ht, r) == LET p == Packed(KeyAt(T, r)) IN ht.at[Probe(ht, p)]
FindOrInsert(T, Q, ht, r) ==
    LET p == Packed(KeyAt(T, r))
        g == FindGroup(T, ht, r)
    IN IF g = 0 THEN Insert(ht, p, [key |-> p, first |-> r, st |-> StInit(Q)]) ELSE [ht EXCEPT !.rows[g].first = Lower(@, r)]
Batch(T, Q, ht, rows) ==
    LET found == FoldLeft(LAMBDA h, r : FindOrInsert(T, Q, h, r), ht, rows)
    IN FoldLeft(LAMBDA h, r : [h EXCEPT !.rows[FindGroup(T, h, r)].st = StUpdate(T, Q, @, r)], found, rows)
StEmit(T, Q, rows) == [i \in DOMAIN rows |-> Out(T, Q, KeyAt(T, rows[i].first), rows[i].st)]

SerialEngine(T, Q) == StEmit(T, Q, Batch(T, Q, HtInit(2), T.sel).rows)

HashMerge(T, Q, gt, loc) == [gt EXCEPT !.rows[FindGroup(T, gt, loc.first)].st = StMerge(Q, @, loc.st)]
HashEngine(T, Q, sched) ==
    LET local(w) == FoldLeft(LAMBDA h, r : Batch(T, Q, h, <<r>>), HtInit(2), Share(T, sched, w)).rows
        join(gt, loc) ==
            HashMerge(T, Q, FindOrInsert(T, Q, gt, loc.first), loc)
    IN StEmit(T, Q, FoldLeft(LAMBDA gt, w : FoldLeft(join, gt, local(w)), HtInit(2), [i \in 1 .. Workers |-> i - 1]).rows)

(* A slab of slots per worker; a slot without a first row was not touched.  *)
DenseFits(T) == T.sel # <<>> /\ ~NullKeys(T) /\ SlotCount(T) <= Len(T.sel) \div Workers
DenseMerge(Q, slab, loc) ==
    [s \in DOMAIN slab |-> IF loc[s].first = Big THEN slab[s]
                           ELSE [first |-> Lower(slab[s].first, loc[s].first), st |-> StMerge(Q, slab[s].st, loc[s].st)]]
DenseEmit(T, Q, slab) ==
    LET live == SelectSeq([i \in 1 .. SlotCount(T) |-> i - 1], LAMBDA s : slab[s].first # Big)
    IN StEmit(T, Q, [i \in DOMAIN live |-> slab[live[i]]])
DenseEngine(T, Q, sched) ==
    LET empty == [s \in 0 .. SlotCount(T) - 1 |-> [first |-> Big, st |-> StInit(Q)]]
        add(slab, r) == [slab EXCEPT ![SlotOf(T, r)] = [first |-> Lower(@.first, r), st |-> StUpdate(T, Q, @.st, r)]]
        local(w) == FoldLeft(add, empty, Share(T, sched, w))
        join(slab, w) == DenseMerge(Q, slab, local(w))
    IN DenseEmit(T, Q, FoldLeft(join, empty, [i \in 1 .. Workers |-> i - 1]))

(* A record carries the keys, the values and its place in the input, which  *)
(* under a filter is not its row.                                           *)
InputOrder(T, r) == CHOOSE i \in DOMAIN T.sel : T.sel[i] = r
EmitRadix(T, Q, all) ==
    [ok |-> all.ok, rows |-> [i \in DOMAIN all.groups |-> Out(T, Q, Unpacked(all.groups[i].key), all.groups[i].st)]]
RadixEngine(T, Q, sched) ==
    LET n == RadixParts(Len(T.sel))
        records(p) == FlattenSeq([i \in 1 .. Workers |-> RowsOfPart(T, Share(T, sched, i - 1), n, p)])
        add(ht, r) ==
            LET p == Packed(KeyAt(T, r))
                g == ht.at[Probe(ht, p)]
                seen == [key |-> p, first |-> InputOrder(T, r), st |-> StUpdate(T, Q, StInit(Q), r)]
            IN IF g = 0 THEN Insert(ht, p, seen)
               ELSE [ht EXCEPT !.rows[g] = [@ EXCEPT !.first = Lower(@, InputOrder(T, r)), !.st = StUpdate(T, Q, @, r)]]
        part(p) == FoldLeft(add, HtInit(2), records(p)).rows
    IN EmitRadix(T, Q, Ordered(FlattenSeq([i \in 1 .. n |-> part(i - 1)]), Len(T.sel)))

(* Without keys nulls can be told from zero the engine may not take; small  *)
(* inputs, and filters it cannot walk, run over a compacted table.          *)
Compact(T) ==
    [keys |-> [i \in DOMAIN T.keys |-> [p \in DOMAIN T.sel |-> T.keys[i][T.sel[p]]]],
     u |-> [p \in DOMAIN T.sel |-> T.u[T.sel[p]]], v |-> [p \in DOMAIN T.sel |-> T.v[T.sel[p]]],
     sel |-> [p \in DOMAIN T.sel |-> p], ends |-> <<>>]

-----------------------------------------------------------------------------
(* A partitioned table: ends are the last rows of the partitions.  Averages *)
(* become sums and counts; each partition is grouped, and the partial       *)
(* results, one row each, are grouped again.                                *)
Slice(T, p) ==
    LET lo == IF p = 1 THEN 0 ELSE T.ends[p - 1]
        rows == [i \in 1 .. T.ends[p] - lo |-> lo + i]
        live == SelectSeq(T.sel, LAMBDA r : r > lo /\ r <= T.ends[p])
    IN [keys |-> [k \in DOMAIN T.keys |-> [i \in DOMAIN rows |-> T.keys[k][rows[i]]]],
        u |-> [i \in DOMAIN rows |-> T.u[rows[i]]], v |-> [i \in DOMAIN rows |-> T.v[rows[i]]],
        sel |-> [i \in DOMAIN live |-> live[i] - lo], ends |-> <<>>]
PartOp(op) == IF op = "avg" THEN "sum" ELSE op
MergeOpCount(op) == op
MergeOp(op) == IF op = "count" THEN "sum" ELSE op
Averages(Q) == SelectSeq([a \in DOMAIN Q |-> a], LAMBDA a : Q[a][1] = "avg")
Decomposed(Q) ==
    [a \in DOMAIN Q |-> <<PartOp(Q[a][1]), Q[a][2]>>] \o [i \in DOMAIN Averages(Q) |-> <<"count", Q[Averages(Q)[i]][2]>>]
(* The rows of the partial results are a table whose columns are partials.  *)
Zipped(one) == Listed([g \in DOMAIN one[1] |-> <<one[1][g][1], [a \in DOMAIN one |-> one[a][g][2][1]]>>])
MergePartials(D, rows) ==
    LET cols == [a \in DOMAIN D |-> [i \in DOMAIN rows |-> rows[i][2][a]]]
        keys == [k \in DOMAIN rows[1][1] |-> [i \in DOMAIN rows |-> rows[i][1][k]]]
        table(a) == [keys |-> keys, u |-> cols[a], v |-> cols[a], sel |-> [i \in DOMAIN rows |-> i], ends |-> <<>>]
    IN Zipped(Listed([a \in DOMAIN D |-> Sequential(table(a), <<<<MergeOp(D[a][1]), "u">>>>)]))
Splittable(Q) == \A a \in DOMAIN Q : Q[a][1] \in {"count", "sum", "avg", "min", "max", "first", "last"}
(* An average is the sum over the count that was added for it.              *)
Averaged(Q, rows) ==
    LET nth(a) == Cardinality({b \in 1 .. a : Q[b][1] = "avg"})
        value(row, a) == IF Q[a][1] # "avg" THEN row[a] ELSE <<row[a], row[Len(Q) + nth(a)]>>
    IN [g \in DOMAIN rows |-> <<rows[g][1], [a \in DOMAIN Q |-> value(rows[g][2], a)]>>]
Combine(Q, partials) == IF partials = <<>> THEN <<>> ELSE Averaged(Q, MergePartials(Decomposed(Q), partials))
PerPartition(T, Q) ==
    Combine(Q, FlattenSeq(Listed([p \in DOMAIN T.ends |-> Sequential(Slice(T, p), Decomposed(Q))])))

-----------------------------------------------------------------------------
(* Aggregates over all the values of a group.  Every task counts and then   *)
(* scatters the same rows, into places kept for it.                         *)
Values(col, rows) == LET live == SelectSeq(rows, LAMBDA r : col[r] # Null) IN [i \in DOMAIN live |-> col[live[i]]]

(* Distinct values per group: gid[r] is 0 for a row that is in none.        *)
TaskRows(n, grain, t) == {r \in 1 .. n : (r - 1) \div grain = t}
TaskHist(col, gid, groups, grain, t, p) ==
    {r \in TaskRows(Len(col), grain, t) : gid[r] \in 1 .. groups /\ col[r] # Null /\ gid[r] % 2 = p}
Before(col, gid, groups, grain, t, p) ==
    MapThenSumSet(LAMBDA x : Cardinality(TaskHist(col, gid, groups, grain, x[1], x[2])),
                  {x \in (0 .. Len(col)) \X (0 .. 1) : x[2] < p \/ (x[2] = p /\ x[1] < t)})
DistinctPerGroup(col, gid, groups, grain) ==
    LET tasks == 0 .. Len(col)
        written == UNION {LET mine == TaskHist(col, gid, groups, grain, x[1], x[2])
                          IN {<<Before(col, gid, groups, grain, x[1], x[2]) + Cardinality({q \in mine : q < r}), <<gid[r], col[r]>>>> : r \in mine} :
                              x \in tasks \X (0 .. 1)}
        total == MapThenSumSet(LAMBDA x : Cardinality(TaskHist(col, gid, groups, grain, x[1], x[2])), tasks \X (0 .. 1))
        buf == {e[2] : e \in {x \in written : x[1] < total}}
        clash == \E d, e \in written : d[1] = e[1] /\ d[2] # e[2]
    IN [ok |-> ~clash, counts |-> [g \in 1 .. groups |-> Cardinality({e \in buf : e[1] = g})]]

(* The most frequent value; among equals the one met first.                 *)
ModeStep(col, m, r) ==
    IF col[r] = Null THEN m
    ELSE LET c == m.count[col[r]] + 1
             pos == IF c = 1 THEN m.pos + 1 ELSE m.at[col[r]]
             better == IF c = 1 THEN m.best = 0 \/ pos < m.bestAt ELSE c > m.best \/ (c = m.best /\ pos < m.bestAt)
         IN [count |-> [m.count EXCEPT ![col[r]] = c], at |-> [m.at EXCEPT ![col[r]] = pos], pos |-> m.pos + 1,
             best |-> IF better THEN c ELSE m.best, bestAt |-> IF better THEN pos ELSE m.bestAt,
             value |-> IF better THEN col[r] ELSE m.value]
Mode(col, rows) ==
    FoldLeft(LAMBDA m, r : ModeStep(col, m, r),
             [count |-> [v \in 0 .. 9 |-> 0], at |-> [v \in 0 .. 9 |-> 0], pos |-> 0, best |-> 0, bestAt |-> Big, value |-> Null],
             rows).value

(* topk_per_group_fn: the first k values make a heap with the worst at the  *)
(* root, the others replace it if they are better, and the heap is drained  *)
(* into its tail.  desc keeps the largest.                                  *)
Worse(desc, x, y) == IF desc THEN x < y ELSE x > y
RECURSIVE Sift(_, _, _, _)
Sift(desc, h, n, i) ==
    LET l == 2 * i
        a == IF l <= n /\ Worse(desc, h[l], h[i]) THEN l ELSE i
        w == IF l + 1 <= n /\ Worse(desc, h[l + 1], h[a]) THEN l + 1 ELSE a
    IN IF w = i THEN h ELSE Sift(desc, [h EXCEPT ![i] = h[w], ![w] = h[i]], n, w)
Heapify(desc, h) == FoldLeft(LAMBDA x, i : Sift(desc, x, Len(h), i), h, [j \in 1 .. Len(h) \div 2 |-> (Len(h) \div 2) - j + 1])
Drain(desc, h) ==
    FoldLeft(LAMBDA x, j : LET n == Len(h) - j + 1 IN Sift(desc, [x EXCEPT ![1] = x[n], ![n] = x[1]], n - 1, 1),
             h, [j \in 1 .. Upper(Len(h) - 1, 0) |-> j])
Topk(desc, k, col, rows) ==
    LET vals == Values(col, rows)
        replace(h, x) == IF Worse(desc, h[1], x) THEN Sift(desc, [h EXCEPT ![1] = x], k, 1) ELSE h
    IN IF Len(vals) < k THEN Drain(desc, vals)
       ELSE Drain(desc, FoldLeft(replace, Heapify(desc, SubSeq(vals, 1, k)), SubSeq(vals, k + 1, Len(vals))))
=============================================================================
