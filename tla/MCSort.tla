------------------------------- MODULE MCSort -------------------------------
(* Every small column, and every small pair of columns, sorted under every  *)
(* combination of the thresholds, against the stable order of sort_cmp.     *)
EXTENDS Sort, Input, TLC

CONSTANTS
    MaxOne,     \* bound: rows of one key
    MaxTwo,     \* bound: rows of two keys
    Widest      \* the greatest "int" of the inputs

(* Thresholds: what the sizes 64, 4096, 8192 and 10^6 select on real input. *)
Base == [small |-> 0, radix |-> 0, pool |-> 9, workers |-> 2, grain |-> 2, insertion |-> 1, depth |-> 4,
         msdBytes |-> 9, msdRows |-> 0, packBytes |-> 0, part |-> 1, parts |-> 2, base |-> 1]
Stable == {[Base EXCEPT !.small = 9, !.insertion = 9],
           [Base EXCEPT !.radix = 9],
           [Base EXCEPT !.radix = 9, !.depth = 0],
           Base, [Base EXCEPT !.pool = 0],
           [Base EXCEPT !.msdBytes = 1, !.pool = 0],
           [Base EXCEPT !.msdBytes = 1, !.insertion = 2]}
Packing == {[Base EXCEPT !.packBytes = 3, !.pool = p] : p \in {0, 9}}
Split == {[Base EXCEPT !.workers = w, !.pool = 0] : w \in 2 .. 3}
Windows == {[Base EXCEPT !.base = b, !.parts = p] : b \in {1, 2}, p \in {1, 2}}

Domain(type) ==
    CASE type = "int" -> {Least("int"), -1, 0, Widest}
      [] type = "short" -> {Least("short"), -1, 1}
      [] type = "float" -> {1, Inf, Pow(Bits - 1) + 1, Pow(Bits - 1) + Inf, Inf + 1}
      [] type = "sym" -> 1 .. 3
      [] type = "str" -> {<<>>, <<1>>, <<1, 0>>, <<0>>, <<1, 1, 0>>, <<1, 1>>, <<1, 1, 0, 0>>}

(* Fewer values where two columns multiply.                                 *)
Few(type) ==
    CASE type = "int" -> {Least("int"), 0, Widest}
      [] type = "short" -> {Least("short"), 1}
      [] type = "float" -> {1, Inf, Pow(Bits - 1) + Inf, Inf + 1}
      [] type = "sym" -> 1 .. 3
      [] type = "str" -> {<<1>>, <<1, 0>>}

Column(type) == [type |-> type, v |-> <<>>]
SortInit ==
    in \in {[kind |-> "sort", cols |-> <<Column(x)>>] : x \in {"int", "short", "float", "sym", "str"}}
          \cup {[kind |-> "sort", cols |-> <<Column(x[1]), Column(x[2])>>] :
                  x \in {<<"short", "int">>, <<"sym", "short">>, <<"short", "str">>, <<"float", "short">>}}
AddRow ==
    /\ in.kind = "sort"
    /\ LET n == Len(in.cols[1].v)
       IN IF Len(in.cols) = 1
          THEN n < MaxOne /\ \E x \in Domain(in.cols[1].type) : in' = [in EXCEPT !.cols[1].v = Append(@, x)]
          ELSE n < MaxTwo /\ \E x \in Few(in.cols[1].type), y \in Few(in.cols[2].type) :
                  in' = [in EXCEPT !.cols[1].v = Append(@, x), !.cols[2].v = Append(@, y)]

-----------------------------------------------------------------------------
InStableOrder(cols, descs, nfs, idx) ==
    /\ IsInjective(idx) /\ Range(idx) = Rows(cols[1])
    /\ \A i \in 2 .. Len(idx) : TopkCmp(cols, descs, nfs, idx[i - 1], idx[i]) < 0
InSomeOrder(cols, descs, nfs, idx) ==
    /\ IsInjective(idx) /\ Range(idx) = Rows(cols[1])
    /\ \A i \in 2 .. Len(idx) : SortCmp(cols, descs, nfs, idx[i - 1], idx[i]) <= 0
(* Floats as parts of a composite key: no NaN, and not both signs (see      *)
(* FloatsComposed).                                                         *)
Plain(c) == c.type = "float" => \A a, b \in Rows(c) : ~IsNull(c, a) /\ Negative(c.v[a]) = Negative(c.v[b])
Single == in.kind = "sort" /\ Len(in.cols) = 1
Double == in.kind = "sort" /\ Len(in.cols) = 2

(* One key, every type but strings: whichever sort the sizes choose, equal  *)
(* keys keep their order and nulls go where they are asked to.              *)
SortStable ==
    Single /\ in.cols[1].type # "str" =>
        \A t \in Stable, desc, nf \in BOOLEAN : InStableOrder(in.cols, <<desc>>, <<nf>>, SortIndices(t, in.cols, <<desc>>, <<nf>>).idx)

(* The packed sort, which drops the high bytes of the keys, and the string  *)
(* sort order the rows; equal keys may change places.                       *)
SortOrdered ==
    Single => \A t \in IF in.cols[1].type = "str" THEN Windows ELSE Packing, desc, nf \in BOOLEAN :
                  InSomeOrder(in.cols, <<desc>>, <<nf>>, SortIndices(t, in.cols, <<desc>>, <<nf>>).idx)

(* Two keys, in one word or by ranks, with the default place of nulls.      *)
CompositeStable ==
    Double /\ (\A i \in 1 .. 2 : Plain(in.cols[i])) =>
        \A t \in {Base, [Base EXCEPT !.radix = 9], [Base EXCEPT !.msdBytes = 1, !.pool = 0]}, d1, d2 \in BOOLEAN :
            InStableOrder(in.cols, <<d1, d2>>, <<~d1, ~d2>>, SortIndices(t, in.cols, <<d1, d2>>, <<>>).idx)

(* The comparison sort, cut into chunks for any number of workers.          *)
MergeStable ==
    in.kind = "sort" =>
        \A t \in Split, desc, nf \in BOOLEAN :
            LET all(x) == [i \in 1 .. Len(in.cols) |-> x]
            IN Rows(in.cols[1]) # {} => InStableOrder(in.cols, all(desc), all(nf), Comparing(t, in.cols, all(desc), all(nf)))

DecodesTo(c, desc, out) == SortedColumn(c, desc, out) = [i \in Rows(c) |-> c.v[out.idx[i]]]

(* The column rebuilt from sorted keys holds what a gather would.           *)
DecodeExact ==
    Single /\ in.cols[1].type # "str" =>
        \A t \in Stable \cup Packing, desc, nf \in BOOLEAN :
            DecodesTo(in.cols[1], desc, SortIndices(t, in.cols, <<desc>>, <<nf>>))

(* The first k rows of a limited sort are the first k of the full one, ties *)
(* included.                                                                *)
TopkIsPrefix ==
    in.kind = "sort" =>
        \A k \in 1 .. Len(in.cols[1].v), desc \in BOOLEAN :
            LET descs == [i \in 1 .. Len(in.cols) |-> desc]
                t == [Base EXCEPT !.small = 9]
            IN Limited(t, in.cols, descs, <<>>, k) = SubSeq(SortIndices(t, in.cols, descs, <<>>).idx, 1, k)

(* The bytes a sort looks at tell all keys apart that the whole key does,   *)
(* while every task holds the first row of a worker's chunk.                *)
WidthKept ==
    Single /\ in.cols[1].type \in {"int", "float"} =>
        \A desc \in BOOLEAN :
            LET k == [r \in Rows(in.cols[1]) |-> Encode(in.cols[1], desc, TRUE, r)]
            IN \A i, j \in 1 .. Len(k) : Differ(k[i], k[j]) <= KeyBytes([Base EXCEPT !.pool = 0], k, Bytes(Bits))

MarkedRight(cols, desc, out) ==
    LET all(x) == [i \in 1 .. Len(cols) |-> x]
    IN /\ InStableOrder(cols, all(desc), all(~desc), out.idx)
       /\ out.first = [i \in Rows(cols[1]) |-> cols[1].v[out.idx[i]]]
       /\ MarkSorted(cols, desc) => \A i \in 2 .. Len(out.first) : out.first[i - 1] <= out.first[i]
       /\ MarkParts(cols, desc) =>
             \A i \in 2 .. Len(out.idx) : out.first[i - 1] = out.first[i] => CmpKey(cols[2], FALSE, TRUE, out.idx[i - 1], out.idx[i]) <= 0

(* A sorted table is in stable order even when the check for order skips    *)
(* the sort, and the marks put on it are true.                              *)
TableMarked ==
    in.kind = "sort" /\ Rows(in.cols[1]) # {} /\ (\A i \in 1 .. Len(in.cols) : Plain(in.cols[i]) /\ in.cols[i].type # "str") =>
        \A desc \in BOOLEAN :
            MarkedRight(in.cols, desc, SortTable(Base, in.cols, desc))

RanksRight(c, rk) == \A a, b \in Rows(c) : CmpKey(c, FALSE, TRUE, a, b) < 0 => rk[a] < rk[b]
Halves(x) ==
    LET Size(g) == Cardinality({r \in DOMAIN x : x[r] = g}) IN Size(0) - Size(1) \in 0 .. 1 /\ Size(0) + Size(1) = Len(x)

(* The index's permutation may replace the sort; ranks put rows into groups *)
(* of equal size give or take one.                                          *)
RanksEven ==
    Single /\ in.cols[1].type # "str" /\ Rows(in.cols[1]) # {} =>
        /\ \A t \in Stable : ExecSort(t, in.cols, <<FALSE>>, <<FALSE>>, TRUE) = ExecSort(Base, in.cols, <<FALSE>>, <<FALSE>>, FALSE)
        /\ \A t \in Stable : RanksRight(in.cols[1], RankOf(t, in.cols[1]))
        /\ Halves(XRank(Base, in.cols[1], 2))

-----------------------------------------------------------------------------
(* What does not hold of the code, each refuted by a configuration of its   *)
(* own.                                                                     *)
PackedStable ==
    Single /\ in.cols[1].type # "str" =>
        \A t \in Packing, desc \in BOOLEAN : InStableOrder(in.cols, <<desc>>, <<~desc>>, SortIndices(t, in.cols, <<desc>>, <<>>).idx)
NullsPlaced ==
    Double =>
        \A nf \in BOOLEAN : InStableOrder(in.cols, <<FALSE, FALSE>>, <<nf, nf>>, SortIndices(Base, in.cols, <<FALSE, FALSE>>, <<nf, nf>>).idx)
FloatsComposed ==
    Double =>
        InStableOrder(in.cols, <<FALSE, FALSE>>, <<TRUE, TRUE>>, SortIndices(Base, in.cols, <<FALSE, FALSE>>, <<>>).idx)
WidthAlways ==
    Single /\ in.cols[1].type = "int" =>
        LET k == [r \in Rows(in.cols[1]) |-> Encode(in.cols[1], FALSE, TRUE, r)]
        IN \A i, j \in 1 .. Len(k) : Differ(k[i], k[j]) <= KeyBytes([Base EXCEPT !.pool = 0, !.grain = 1], k, Bytes(Bits))

SortNext == AddRow
Spec == SortInit /\ [][SortNext]_in
=============================================================================
