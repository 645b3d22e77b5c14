------------------------------ MODULE MCGroups ------------------------------
(* The operators that bring rows together: grouping and aggregation, joins, *)
(* and windows, conditionals and pivots.                                    *)
EXTENDS Group, Input

(* Every small table, under every schedule of its rows over the workers,    *)
(* grouped by every strategy that takes it, against the definition of the   *)
(* aggregates.                                                              *)

CONSTANTS
    MaxRows,    \* bound: rows of a table
    MaxOdd      \* bound: rows, and rows that are filtered out or hold a null

Keys == {Null, 0, 1}
GroupInit == in \in {[kind |-> "group", keys |-> k, u |-> <<>>, live |-> <<>>, odd |-> 0] : k \in {<< <<>> >>, << <<>>, <<>> >>}}
AddGroupRow ==
    /\ in.kind = "group" /\ Len(in.u) < MaxRows
    /\ \E k \in [DOMAIN in.keys -> Keys], u \in IF Len(in.keys) = 1 THEN {Null, 1, 2} ELSE {Null, 1}, live \in BOOLEAN :
          LET odd == in.odd + IF ~live \/ u = Null \/ (\E i \in DOMAIN k : k[i] = Null) THEN 1 ELSE 0
          IN /\ odd + Len(in.u) + 1 <= MaxOdd
             /\ in' = [in EXCEPT !.keys = [i \in DOMAIN @ |-> Append(@[i], k[i])], !.u = Append(@, u), !.live = Append(@, live),
                                 !.odd = odd]

N == Len(in.u)
All == [r \in 1 .. N |-> r]
Table == [keys |-> in.keys, u |-> in.u, v |-> All, sel |-> Listed(SelectSeq(All, LAMBDA r : in.live[r])), ends |-> <<N>>]
Schedules == [1 .. N -> W]
Stats == << <<"count", "u">>, <<"sum", "u">>, <<"min", "u">>, <<"max", "u">>, <<"avg", "u">>, <<"wsum", "u">> >>
Ends == << <<"first", "u">>, <<"last", "u">>, <<"prod", "u">>, <<"count", "u">> >>
Sums == << <<"count", "v">>, <<"sum", "v">>, <<"avg", "v">> >>
Grouping == in.kind = "group" /\ N > 0

-----------------------------------------------------------------------------
RefSum(vals) == FoldLeft(LAMBDA x, y : x + y, 0, vals)
RefAgg(T, a, rows) ==
    LET cells == [i \in DOMAIN rows |-> Cell(T, a, rows[i])]
        vals == SelectSeq(cells, LAMBDA x : x # Null)
    IN CASE a[1] = "count" -> Len(rows)
         [] a[1] \in {"sum", "wsum"} -> RefSum(vals)
         [] a[1] = "avg" -> (IF vals = <<>> THEN <<>> ELSE <<RefSum(vals), Len(vals)>>)
         [] OTHER -> IF vals = <<>> THEN Null
                     ELSE CASE a[1] = "min" -> Min(Range(vals))
                            [] a[1] = "max" -> Max(Range(vals))
                            [] a[1] = "prod" -> FoldLeft(LAMBDA x, y : x * y, 1, vals)
                            [] a[1] = "first" -> Head(vals)
                            [] a[1] = "last" -> Last(vals)
RefRows(T, key) == SelectSeq(T.sel, LAMBDA r : KeyAt(T, r) = key)
(* Groups in the order in which their keys appear.                          *)
RefGroups(T, Q) ==
    LET firsts == SelectSeq(T.sel, LAMBDA r : Head(RefRows(T, KeyAt(T, r))) = r)
    IN [i \in DOMAIN firsts |-> <<KeyAt(T, firsts[i]), [a \in DOMAIN Q |-> RefAgg(T, Q[a], RefRows(T, KeyAt(T, firsts[i])))]>>]
Gives(out, ref) == out.ok /\ out.rows = ref
SameGroups(out, ref) == Len(out) = Len(ref) /\ Range(out) = Range(ref)

(* One accumulator per worker, merged, gives what one pass gives.           *)
ReduceExact ==
    Grouping =>
        /\ \A sched \in Schedules, op \in {"count", "sum", "prod", "avg", "min", "max"} :
              Reduced(op, ReduceParallel(Table, sched), Len(Table.sel)) = RefAgg(Table, <<op, "u">>, Table.sel)
                 \/ (op = "prod" /\ Values(in.u, Table.sel) = <<>>)
        /\ ScanFirst(Table) = RefAgg(Table, <<"first", "u">>, Table.sel)
        /\ ScanLast(Table) = RefAgg(Table, <<"last", "u">>, Table.sel)

(* The hash table groups exactly by key, null keys apart from zero.         *)
HashExact ==
    Grouping => \A Q \in {Stats, Ends} : Sequential(Table, Q) = RefGroups(Table, Q)

(* Rows scattered by hash to parts, whichever worker held them: groups come *)
(* out in the order of their first rows and FIRST is the first of the table.*)
RadixExact ==
    Grouping => LET Ref == [Q \in {Stats, Ends} |-> RefGroups(Table, Q)]
                IN \A sched \in Schedules, Q \in {Stats, Ends} :
                      Gives(Radix(Table, Q, sched), Ref[Q])

(* The fused pipeline's merge of the workers' tables keeps that order.      *)
FusedExact ==
    Grouping /\ Fusable(Table, Sums) =>
        \A sched \in Schedules : Gives(RadixFused(Table, Sums, sched), RefGroups(Table, Sums))

(* Direct arrays, one per worker and merged slot by slot.                   *)
DirectExact ==
    Grouping => \A Q \in {Stats, Ends} : Direct(Table, Q) =>
        \A sched \in Schedules : SameGroups(DirectArray(Table, Q, sched), RefGroups(Table, Q))

(* The batch engine, whichever of its variants runs.                        *)
EngineExact ==
    Grouping /\ Streaming(Stats) =>
        /\ \A T \in {Table, Compact(Table)} : SerialEngine(T, Stats) = RefGroups(T, Stats)
        /\ \A ref \in {RefGroups(Table, Stats)}, sched \in Schedules :
              /\ SameGroups(HashEngine(Table, Stats, sched), ref)
              /\ DenseFits(Table) => SameGroups(DenseEngine(Table, Stats, sched), ref)

(* Under a filter the radix variant orders groups by place in the input.    *)
EngineOrder ==
    Grouping /\ ~NullKeys(Table) =>
        \A sched \in Schedules : Gives(RadixEngine(Table, Stats, sched), RefGroups(Table, Stats))

(* Grouping partition by partition and merging the partial results gives    *)
(* what grouping the whole table gives (averages: see PartedAverage).       *)
Cuts == {<<k, N>> : k \in 0 .. N}
PartedExact ==
    Grouping => \A cut \in Cuts, Q \in {<<Stats[1], Stats[2], Stats[3], Stats[4]>>, <<Ends[1], Ends[2]>>, Sums} :
        Splittable(Q) /\ PerPartition([Table EXCEPT !.ends = cut], Q) = RefGroups(Table, Q)

(* The emit filter drops no group that the step after it would have taken.  *)
FilterKeeps ==
    Grouping => \A take \in 0 .. 3, min \in 0 .. 1 :
        LET rows == RefGroups(Table, Stats)
            counts == [i \in DOMAIN rows |-> rows[i][2][1]]
            kept == EmitFiltered(rows, counts, [take |-> take, min |-> min])
            pass == SelectSeq(rows, LAMBDA g : g[2][1] > min)
            ranked(s) == SubSeq(SortSeq(s, LAMBDA x, y : x[2][1] > y[2][1]), 1, IF take = 0 THEN Len(s) ELSE Lower(take, Len(s)))
            sizes(s) == [i \in DOMAIN ranked(s) |-> ranked(s)[i][2][1]]
        IN IsInjective(kept) /\ Range(kept) \subseteq Range(pass) /\ sizes(kept) = sizes(pass)

(* Distinct values per group, scattered by tasks into places they reserved. *)
DistinctExact ==
    Grouping => \A grain \in 1 .. 2 :
        LET gid == [r \in 1 .. N |-> IF ~in.live[r] THEN 0 ELSE 2 + in.keys[1][r]]
            d == DistinctPerGroup(in.u, gid, 3, grain)
        IN d.ok /\ d.counts = [g \in 1 .. 3 |-> Cardinality({in.u[r] : r \in {x \in 1 .. N : gid[x] = g}} \ {Null})]

(* The mode is a most frequent value and, of those, the first to appear.    *)
ModeFirst ==
    Grouping => LET vals == Values(in.u, Table.sel)
                    times(x) == Cardinality({i \in DOMAIN vals : vals[i] = x})
                    top == SelectSeq(vals, LAMBDA x : \A i \in DOMAIN vals : times(vals[i]) <= times(x))
                IN Mode(in.u, Table.sel) = IF vals = <<>> THEN Null ELSE Head(top)

(* The k best of a group that has k, best first.                            *)
TopkBest ==
    Grouping => \A k \in 1 .. 4, desc \in BOOLEAN, col \in {in.u, in.keys[1]} :
        LET vals == Values(col, Table.sel)
        IN Len(vals) >= k =>
              Topk(desc, k, col, Table.sel) = SubSeq(SortSeq(vals, LAMBDA x, y : IF desc THEN x > y ELSE x < y), 1, k)

-----------------------------------------------------------------------------
(* What does not hold of the code, each refuted by a configuration of its   *)
(* own.                                                                     *)

(* An average over a partitioned table skips nulls, as over any other.      *)
PartedAverage ==
    Grouping => \A cut \in Cuts : LET Q == << <<"avg", "u">> >> IN PerPartition([Table EXCEPT !.ends = cut], Q) = RefGroups(Table, Q)

(* The k best of a group come out in order also when there are fewer.       *)
TopkOrdered ==
    Grouping => \A k \in 1 .. 4, desc \in BOOLEAN :
        LET vals == Values(in.u, Table.sel)
            sorted == SortSeq(vals, LAMBDA x, y : IF desc THEN x > y ELSE x < y)
        IN Topk(desc, k, in.u, Table.sel) = SubSeq(sorted, 1, Lower(k, Len(vals)))

GroupNext == AddGroupRow
Spec == GroupInit /\ [][GroupNext]_in

-----------------------------------------------------------------------------

Joins == INSTANCE Join WITH
    Threshold <- 1, Workers <- 2, DupMax <- 1, MinCap <- 2, BuildRows <- 2, MaxSide <- 3, MaxBoth <- 4, MaxAsof <- 3
Shapes == INSTANCE Reshape WITH Word <- 4, MaxRows <- 3, MaxLong <- 3

Init == GroupInit \/ Joins!Init \/ Shapes!ReshapeInit
Next == GroupNext \/ Joins!Next \/ Shapes!ReshapeNext

(* Every strategy that takes a table (hash, radix, fused, direct arrays,    *)
(* the batch engine, partition by partition), under every assignment of the *)
(* rows to workers, gives the groups and aggregates of the definition, in   *)
(* the order of the first rows; what is dropped early is not missed later   *)
(* (group.c).                                                               *)
GroupsRight ==
    /\ ReduceExact
    /\ HashExact
    /\ RadixExact
    /\ FusedExact
    /\ DirectExact
    /\ EngineExact
    /\ EngineOrder
    /\ PartedExact
    /\ FilterKeeps
    /\ DistinctExact
    /\ ModeFirst
    /\ TopkBest
(* A join has every pair that nested loops find, once, on the radix, the    *)
(* chained and the streaming path alike, with keys of different domains;    *)
(* and the chained table that workers build without a lock loses no row     *)
(* at any moment (join.c).                                                  *)
JoinsRight ==
    /\ Joins!JoinExact
    /\ Joins!PathsAgree
    /\ Joins!ScatterExact
    /\ Joins!StreamExact
    /\ Joins!AntiExact
    /\ Joins!AsofExact
    /\ Joins!ChainComplete
(* A window function has at every row the value of its frame, also when the *)
(* partitions are windowed one by one; a conditional chooses row by row; a  *)
(* pivot has in every cell the aggregate of its rows (window.c, expr.c,     *)
(* pivot.c).                                                                *)
ShapesRight ==
    /\ Shapes!WindowsMean
    /\ Shapes!WindowsBySegment
    /\ Shapes!IfRowwise
    /\ Shapes!PivotCells
=============================================================================
