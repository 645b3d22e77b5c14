----------------------------- MODULE Collection -----------------------------
(***************************************************************************)
(* Operators over one or two vectors (ops/collection.c): sets through a    *)
(* hash table of rows; cutting a vector up and putting it together; series *)
(* that run along it, which blocks of rows compute side by side and then   *)
(* carry into one another; and search in a sorted vector.                  *)
(*                                                                         *)
(* A vector is a sequence of numbers; Null is a missing one.               *)
(***************************************************************************)
EXTENDS Input, Integers, Sequences, FiniteSets, SequencesExt, FiniteSetsExt, Functions

CONSTANTS
    Morsel,     \* rows of a block (RAY_MORSEL_ELEMS)
    MinSlots,   \* smallest number of slots of a hash set (16)
    MaxVec,     \* bound: length of a vector that runs
    MaxPair     \* bound: length of each of two vectors

Null == -99
Listed(f) == SubSeq(f, 1, Len(f))
Rows(s) == 1 .. Len(s)
Iota(n) == [i \in 1 .. n |-> i]
Gather(s, idx) == [i \in Rows(idx) |-> s[idx[i]]]

-----------------------------------------------------------------------------
(* The hash set of the rows of a vector: slots hold row numbers, 0 where    *)
(* empty, and the first null row is kept apart.  Numbers of the same type   *)
(* hash alike.                                                              *)
Slots(n) == LET want == Max({MinSlots, 2 * n}) IN CHOOSE c \in {MinSlots * 2^e : e \in 0 .. 5} : c >= want /\ (c = MinSlots \/ c \div 2 < want)
HashOf(type, x) == IF type = "float" THEN 3 * x + 1 ELSE x
HashSet(n) == [slot |-> [h \in 0 .. Slots(n) - 1 |-> 0], null |-> 0]
(* The slot where x is, or where it would go: the first from its hash on    *)
(* that is empty or holds an equal row.                                     *)
Probe(hs, src, type, x) ==
    LET cap == Cardinality(DOMAIN hs.slot)
        At(d) == (HashOf(type, x) + d) % cap
        d0 == CHOOSE d \in 0 .. cap - 1 :
                 /\ hs.slot[At(d)] = 0 \/ src[hs.slot[At(d)]] = x
                 /\ \A e \in 0 .. d - 1 : hs.slot[At(e)] # 0 /\ src[hs.slot[At(e)]] # x
    IN At(d0)
Insert(hs, src, i) ==
    IF src[i] = Null THEN [hs EXCEPT !.null = IF @ = 0 THEN i ELSE @]
    ELSE LET h == Probe(hs, src, "int", src[i]) IN IF hs.slot[h] = 0 THEN [hs EXCEPT !.slot[h] = i] ELSE hs
SetOf(src) == FoldLeft(LAMBDA hs, i : Insert(hs, src, i), HashSet(Len(src)), Iota(Len(src)))
FindRow(hs, src, type, x) == IF x = Null THEN hs.null ELSE hs.slot[Probe(hs, src, type, x)]

DistinctRows(src) ==
    LET step(acc, i) == LET hs == Insert(acc.hs, src, i) IN [hs |-> hs, idx |-> IF hs # acc.hs THEN Append(acc.idx, i) ELSE acc.idx]
    IN FoldLeft(step, [hs |-> HashSet(Len(src)), idx |-> <<>>], Iota(Len(src))).idx
(* Numbers come back in order, nulls first; names in the order they occur.  *)
Distinct(src, names) ==
    Gather(src, IF names THEN DistinctRows(src) ELSE SortSeq(DistinctRows(src), LAMBDA a, b : src[a] < src[b]))
Keep(a, hs, b, type, found) == SelectSeq(Iota(Len(a)), LAMBDA i : (FindRow(hs, b, type, a[i]) # 0) = found)
In(a, b, type) == LET hs == SetOf(b) IN [i \in Rows(a) |-> FindRow(hs, b, type, a[i]) # 0]
Except(a, b, type) == Gather(a, Keep(a, SetOf(b), b, type, FALSE))
Sect(a, b) == Gather(a, Keep(a, SetOf(b), b, "int", TRUE))
Union(a, b) == a \o Gather(b, Keep(b, SetOf(a), a, "int", FALSE))
Find(a, x) == LET hs == SetOf(a) IN [i \in Rows(x) |-> LET r == FindRow(hs, a, "int", x[i]) IN IF r = 0 THEN Null ELSE r - 1]
(* A single value is compared with every element, whatever its type.        *)
ExceptAtom(a, x) == SelectSeq(a, LAMBDA e : e # x)

-----------------------------------------------------------------------------
(* Parts of a vector.  take n repeats the vector when it is too short: the  *)
(* part copied so far is copied again while it fits.                        *)
TakeFirst(s, n) ==
    LET start == SubSeq(s, 1, Min({n, Len(s)}))
        round[k \in Nat] == IF k = 0 THEN start ELSE IF 2 * Len(round[k - 1]) <= n THEN round[k - 1] \o round[k - 1] ELSE round[k - 1]
        full == round[n]
    IN IF s = <<>> THEN [i \in 1 .. n |-> 0] ELSE full \o SubSeq(full, 1, n - Len(full))
TakeLast(s, n) == IF s = <<>> THEN [i \in 1 .. n |-> 0] ELSE LET At(i) == (Len(s) - ((n - (i - 1)) % Len(s))) % Len(s) IN [i \in 1 .. n |-> s[At(i) + 1]]
Take(s, n) == IF n >= 0 THEN TakeFirst(s, n) ELSE TakeLast(s, -n)
TakeRange(s, start, amount) ==
    LET from == Max({0, IF start < 0 THEN Len(s) + start ELSE start})
    IN IF from >= Len(s) THEN <<>> ELSE SubSeq(s, from + 1, Min({from + amount, Len(s)}))
Drop(s, n) ==
    IF n >= 0 THEN LET from == Min({n, Len(s)}) IN TakeRange(s, from, Len(s) - from)
    ELSE TakeRange(s, 0, IF -n < Len(s) THEN Len(s) + n ELSE 0)
Rotate(s, n) ==
    IF s = <<>> THEN <<>>
    ELSE LET k == n % Len(s) IN IF k = 0 THEN s ELSE TakeRange(s, k, Len(s) - k) \o TakeRange(s, 0, k)
CutFits(s, at) == \A i \in Rows(at) : at[i] >= 0 /\ at[i] <= Len(s) /\ (i > 1 => at[i] >= at[i - 1])
Cut(s, at) ==
    LET step(acc, i) == [parts |-> IF i > acc.prev THEN Append(acc.parts, TakeRange(s, acc.prev, i - acc.prev)) ELSE acc.parts, prev |-> i]
        cut == FoldLeft(step, [parts |-> <<>>, prev |-> 0], at)
    IN Append(cut.parts, TakeRange(s, cut.prev, Len(s) - cut.prev))
Cross(a, b) == FlattenSeq([i \in Rows(a) |-> [j \in Rows(b) |-> <<a[i], b[j]>>]])

-----------------------------------------------------------------------------
(* Series.  Each value and the one before it.                               *)
Shift(s, lead) ==
    [i \in Rows(s) |-> LET j == IF lead THEN i + 1 ELSE i - 1 IN IF j \in Rows(s) THEN s[j] ELSE Null]
Both(s, i) == i > 1 /\ s[i] # Null /\ s[i - 1] # Null
Deltas(s) == [i \in Rows(s) |-> IF Both(s, i) THEN s[i] - s[i - 1] ELSE Null]
Ratios(s) == [i \in Rows(s) |-> IF Both(s, i) /\ s[i - 1] # 0 THEN <<s[i], s[i - 1]>> ELSE <<>>]
Differ(s) == [i \in Rows(s) |-> i = 1 \/ s[i] # s[i - 1]]

(* Blocks of rows, each worked on by itself, and what block b starts with:  *)
(* the blocks before it taken together.                                     *)
Blocks(s) == (Len(s) + Morsel - 1) \div Morsel
Lo(b) == (b - 1) * Morsel + 1
Hi(s, b) == Min({b * Morsel, Len(s)})
BlockOf(i) == (i - 1) \div Morsel + 1

(* fills: a null takes the last value before it.  A block fills what it can *)
(* and remembers its last value; what it could not fill takes the value     *)
(* carried in.                                                              *)
FillsPass1(s, b) ==
    LET last[i \in Lo(b) .. Hi(s, b)] == IF s[i] # Null THEN s[i] ELSE IF i = Lo(b) THEN Null ELSE last[i - 1]
    IN last
FillsCarry(s) ==
    LET carry[b \in 1 .. Blocks(s)] ==
            IF b = 1 THEN Null
            ELSE LET last == FillsPass1(s, b - 1)[Hi(s, b - 1)] IN IF last # Null THEN last ELSE carry[b - 1]
    IN carry
Fills(s) ==
    LET carry == FillsCarry(s)
    IN [i \in Rows(s) |-> LET x == FillsPass1(s, BlockOf(i))[i] IN IF x = Null THEN carry[BlockOf(i)] ELSE x]

(* sums, prds, avgs, mins and maxs.  A state is an accumulator, a count and *)
(* the best value seen.                                                     *)
RunInit(op) == [acc |-> IF op = "prds" THEN 1 ELSE 0, count |-> 0, best |-> Null]
Beats(op, x, best) == best = Null \/ (IF op \in {"mins", "mmin"} THEN x < best ELSE x > best)
RunUpdate(op, st, x) ==
    CASE op = "sums" -> [st EXCEPT !.acc = @ + x]
      [] op = "prds" -> [st EXCEPT !.acc = @ * x]
      [] op = "avgs" -> [st EXCEPT !.acc = @ + x, !.count = @ + 1]
      [] OTHER -> [st EXCEPT !.best = IF Beats(op, x, @) THEN x ELSE @]
RunCombine(op, a, b) ==
    CASE op = "sums" -> [a EXCEPT !.acc = @ + b.acc]
      [] op = "prds" -> [a EXCEPT !.acc = @ * b.acc]
      [] op = "avgs" -> [a EXCEPT !.acc = @ + b.acc, !.count = @ + b.count]
      [] OTHER -> [a EXCEPT !.best = IF b.best # Null /\ Beats(op, b.best, @) THEN b.best ELSE @]
RunSkip(op, st, x) == IF x = Null THEN st ELSE RunUpdate(op, st, x)
RunSummary(op, s, b) == FoldLeft(LAMBDA st, x : RunSkip(op, st, x), RunInit(op), SubSeq(s, Lo(b), Hi(s, b)))
RunWrite(op, st) ==
    CASE op \in {"sums", "prds"} -> st.acc
      [] op = "avgs" -> IF st.count <= 0 THEN Null ELSE <<st.acc, st.count>>
      [] OTHER -> st.best
RunningVec(op, s) ==
    LET carry[b \in 1 .. Blocks(s)] == IF b = 1 THEN RunInit(op) ELSE RunCombine(op, carry[b - 1], RunSummary(op, s, b - 1))
        emit[i \in Rows(s)] == RunSkip(op, IF i = Lo(BlockOf(i)) THEN carry[BlockOf(i)] ELSE emit[i - 1], s[i])
    IN Listed([i \in Rows(s) |-> RunWrite(op, emit[i])])

(* msum, mavg, mcount and mvar: sums from the start of each block, to which *)
(* the sums of the blocks before are added; a window is a difference.       *)
Zero == [sum |-> 0, sq |-> 0, n |-> 0]
Plus(a, b) == [sum |-> a.sum + b.sum, sq |-> a.sq + b.sq, n |-> a.n + b.n]
Minus(a, b) == [sum |-> a.sum - b.sum, sq |-> a.sq - b.sq, n |-> a.n - b.n]
Measure(x) == IF x = Null THEN Zero ELSE [sum |-> x, sq |-> x * x, n |-> 1]
PrefixScan(s) == LET p[i \in Rows(s)] == Plus(IF i = Lo(BlockOf(i)) THEN Zero ELSE p[i - 1], Measure(s[i])) IN p
PrefixAdjust(s, p) ==
    LET carry[b \in 1 .. Blocks(s)] == IF b = 1 THEN Zero ELSE Plus(carry[b - 1], p[Hi(s, b - 1)])
    IN [i \in 0 .. Len(s) |-> IF i = 0 THEN Zero ELSE Plus(p[i], carry[BlockOf(i)])]
WindowLo(i, w) == IF i >= w THEN i - w ELSE 0
MovingPrefix(op, s, w) ==
    LET full == PrefixAdjust(s, PrefixScan(s))
        Of(d) == CASE op = "msum" -> d.sum
                   [] op = "mcount" -> d.n
                   [] op = "mavg" -> IF d.n <= 0 THEN Null ELSE <<d.sum, d.n>>
                   [] OTHER -> IF d.n <= 0 THEN Null ELSE <<d.n * d.sq - d.sum * d.sum, d.n * d.n>>
    IN [i \in Rows(s) |-> Of(Minus(full[i], full[WindowLo(i, w)]))]

(* mmin and mmax: every task keeps a queue of rows that may still become    *)
(* the best, starting as far back as the window of its first row reaches.   *)
TaskLo(n, task, ntasks) == (n \div ntasks) * task + ((n % ntasks) * task) \div ntasks
ScanLoOwn(lo, w) == lo
ScanLo(lo, w) == IF lo >= w - 1 THEN lo - w + 1 ELSE 0
BetterOrSame(op, x, y) == IF op = "mmin" THEN x <= y ELSE x >= y
Queue(op, s, w, q, r) ==
    LET young == SelectSeq(q, LAMBDA x : x > r - w)
        beaten == {k \in Rows(young) : \A j \in k .. Len(young) : BetterOrSame(op, s[r], s[young[j]])}
    IN IF s[r] = Null THEN young ELSE Append(SubSeq(young, 1, Len(young) - Cardinality(beaten)), r)
MinMaxTask(op, s, w, lo, hi) ==
    LET from == ScanLo(lo, w) + 1
        q[r \in from - 1 .. hi] == IF r = from - 1 THEN <<>> ELSE Queue(op, s, w, q[r - 1], r)
    IN [r \in lo + 1 .. hi |-> IF q[r] = <<>> THEN Null ELSE s[Head(q[r])]]
TasksFor(n, w, workers) == Max({1, Min({workers, (n + w - 1) \div w})})
MovingMinMax(op, s, w, workers) ==
    LET nt == TasksFor(Len(s), w, workers)
        Task(t) == MinMaxTask(op, s, w, TaskLo(Len(s), t, nt), TaskLo(Len(s), t + 1, nt))
        Whose(r) == CHOOSE t \in 0 .. nt - 1 : TaskLo(Len(s), t, nt) < r /\ r <= TaskLo(Len(s), t + 1, nt)
    IN [r \in Rows(s) |-> Task(Whose(r))[r]]

(* The last element not above x, or the first not below it, by halving.     *)
Bin(d, x) ==
    LET go[lo \in 0 .. Len(d) + 1, hi \in 0 .. Len(d), r \in 0 .. Len(d)] ==
            IF lo > hi THEN r
            ELSE LET mid == lo + (hi - lo) \div 2 IN IF d[mid] <= x THEN go[mid + 1, hi, mid] ELSE go[lo, mid - 1, r]
    IN go[1, Len(d), 0] - 1
Binr(d, x) ==
    LET go[lo \in 0 .. Len(d) + 1, hi \in 0 .. Len(d), r \in 0 .. Len(d) + 1] ==
            IF lo > hi THEN r
            ELSE LET mid == lo + (hi - lo) \div 2 IN IF d[mid] >= x THEN go[lo, mid - 1, mid] ELSE go[mid + 1, hi, r]
        r == go[1, Len(d), Len(d) + 1] - 1
    IN IF r >= Len(d) THEN Len(d) - 1 ELSE r

-----------------------------------------------------------------------------
(* Inputs: one vector, or two.                                              *)
Cells == {Null, 0, 1, 2}
CollectionInit == in \in [kind : {"vector"}, a : {<<>>}] \cup [kind : {"vectors"}, a : {<<>>}, b : {<<>>}]
CollectionNext ==
    \/ /\ in.kind = "vector" /\ Len(in.a) < MaxVec
       /\ \E x \in Cells : in' = [in EXCEPT !.a = Append(@, x)]
    \/ /\ in.kind = "vectors" /\ Len(in.a) < MaxPair /\ in.b = <<>>
       /\ \E x \in Cells : in' = [in EXCEPT !.a = Append(@, x)]
    \/ /\ in.kind = "vectors" /\ Len(in.b) < MaxPair
       /\ \E x \in Cells : in' = [in EXCEPT !.b = Append(@, x)]

(* What the operators should compute.                                       *)
Present(s) == SelectSeq(s, LAMBDA x : x # Null)
Total(s) == FoldLeft(LAMBDA x, y : x + y, 0, s)
Squares(s) == Total([i \in Rows(s) |-> s[i] * s[i]])
Best(s, low) == IF s = <<>> THEN Null ELSE IF low THEN Min(ToSet(s)) ELSE Max(ToSet(s))
SeriesMeaning(op, s) ==
    LET v == Present(s)
    IN CASE op \in {"sums", "msum"} -> Total(v)
         [] op = "prds" -> FoldLeft(LAMBDA x, y : x * y, 1, v)
         [] op = "mcount" -> Len(v)
         [] op \in {"avgs", "mavg"} -> IF v = <<>> THEN Null ELSE <<Total(v), Len(v)>>
         [] op = "mvar" -> IF v = <<>> THEN Null ELSE <<Len(v) * Squares(v) - Total(v) * Total(v), Len(v) * Len(v)>>
         [] OTHER -> Best(v, op \in {"mins", "mmin"})
Abs(n) == IF n < 0 THEN -n ELSE n
Back(s, i, w) == SubSeq(s, Max({1, i - w + 1}), i)

(* in, except, sect, union and find see a value exactly where it occurs,    *)
(* nulls equal to each other and to nothing else, and what they keep stays  *)
(* in order; distinct has every value once (ray_in_fn ... ray_find_fn).     *)
SetsMean ==
    in.kind = "vectors" =>
        LET a == in.a  b == in.b
        IN /\ \A i \in Rows(a) : In(a, b, "int")[i] = (a[i] \in ToSet(b))
           /\ Except(a, b, "int") = SelectSeq(a, LAMBDA x : x \notin ToSet(b))
           /\ Sect(a, b) = SelectSeq(a, LAMBDA x : x \in ToSet(b))
           /\ Union(a, b) = a \o SelectSeq(b, LAMBDA x : x \notin ToSet(a))
           /\ \A i \in Rows(b) : Find(a, b)[i] = IF b[i] \in ToSet(a) THEN SelectInSeq(a, LAMBDA x : x = b[i]) - 1 ELSE Null
           /\ \A names \in BOOLEAN : IsInjective(Distinct(a, names)) /\ ToSet(Distinct(a, names)) = ToSet(a)
           /\ \A x \in ToSet(b) : ExceptAtom(a, x) = Except(a, <<x>>, "int")
(* take repeats the vector from the side it takes from; drop and take part  *)
(* the vector between them, cut loses no element, rotate moves each by n,   *)
(* whatever the sign and size of n (ray_take_fn, ray_drop_fn, ray_cut_fn,   *)
(* ray_rotate_fn, ray_cross_fn).                                            *)
PartsMean ==
    in.kind \in {"vector", "vectors"} =>
        LET a == in.a
        IN /\ \A n \in -7 .. 7 :
                  /\ a # <<>> => \A i \in 1 .. Abs(n) : Take(a, n)[i] = a[((IF n > 0 THEN i - 1 ELSE i - 1 + n) % Len(a)) + 1]
                  /\ Len(Take(a, n)) = Abs(n)
                  /\ Abs(n) <= Len(a) => a = IF n >= 0 THEN Take(a, n) \o Drop(a, n) ELSE Drop(a, n) \o Take(a, n)
                  /\ Abs(n) > Len(a) => Drop(a, n) = <<>>
                  /\ Len(Rotate(a, n)) = Len(a)
                  /\ \A i \in Rows(a) : Rotate(a, n)[i] = a[((i - 1 + n) % Len(a)) + 1]
           /\ in.kind = "vectors" =>
                  /\ CutFits(a, in.b) => FlattenSeq(Cut(a, in.b)) = a
                  /\ Len(Cross(a, in.b)) = Len(a) * Len(in.b)
                  /\ \A i \in Rows(Cross(a, in.b)) : Cross(a, in.b)[i] = <<a[(i - 1) \div Len(in.b) + 1], in.b[((i - 1) % Len(in.b)) + 1]>>
(* A running or moving aggregate has at every row the aggregate of the rows *)
(* it covers, nulls left out, however the rows are cut into blocks or       *)
(* tasks; a filled value is the last one present                            *)
(* (running_vec_eager, moving_prefix_vec_eager, moving_minmax_vec_eager,    *)
(* fills_vec_eager).                                                        *)
SeriesMean ==
    in.kind = "vector" =>
        LET s == in.a
        IN \A i \in Rows(s) :
               /\ \A op \in {"sums", "prds", "avgs", "mins", "maxs"} : RunningVec(op, s)[i] = SeriesMeaning(op, SubSeq(s, 1, i))
               /\ LET v == Present(SubSeq(s, 1, i)) IN Fills(s)[i] = IF v = <<>> THEN Null ELSE Last(v)
               /\ \A w \in 1 .. 3 :
                      /\ \A op \in {"msum", "mcount", "mavg", "mvar"} : MovingPrefix(op, s, w)[i] = SeriesMeaning(op, Back(s, i, w))
                      /\ \A op \in {"mmin", "mmax"}, workers \in 1 .. 3 :
                             MovingMinMax(op, s, w, workers)[i] = SeriesMeaning(op, Back(s, i, w))
               /\ Shift(Shift(s, TRUE), FALSE)[i] = (IF i = 1 THEN Null ELSE s[i])
               /\ Deltas(s)[i] = (IF Null \in {s[i], Shift(s, FALSE)[i]} THEN Null ELSE s[i] - Shift(s, FALSE)[i])
               /\ (Ratios(s)[i] # <<>>) => Ratios(s)[i] = <<s[i], Shift(s, FALSE)[i]>>
               /\ Differ(s)[i] = (i = 1 \/ Shift(s, FALSE)[i] # s[i])
(* In a vector in order, bin finds the last element not above a value and   *)
(* binr the first not below it (ray_bin_fn, ray_binr_fn).                   *)
BinsMean ==
    (in.kind = "vector" /\ Null \notin ToSet(in.a) /\ \A i \in 2 .. Len(in.a) : in.a[i - 1] <= in.a[i]) =>
        \A x \in -1 .. 3 :
            /\ Bin(in.a, x) = Cardinality({i \in Rows(in.a) : in.a[i] <= x}) - 1
            /\ Binr(in.a, x) = Min({Cardinality({i \in Rows(in.a) : in.a[i] < x}), Len(in.a) - 1})
(* Not what the code does: a vector of floats takes out of a vector of      *)
(* integers the numbers that each of its elements takes out.  The two hash  *)
(* differently, so the set never finds them.                                *)
MixedSets ==
    in.kind = "vectors" => \A x \in ToSet(in.b) : x # Null => Except(in.a, <<x>>, "float") = ExceptAtom(in.a, x)
(* Not what the code does: a union has nothing of the second vector twice.  *)
UnionOnce == in.kind = "vectors" => IsInjective(Union(<<>>, in.b))
=============================================================================
