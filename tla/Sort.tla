-------------------------------- MODULE Sort --------------------------------
(***************************************************************************)
(* Sorting (ops/sort.c): the comparator, the encodings of keys into        *)
(* integers, the five sorts the size and the type of the keys choose       *)
(* between, the shortcuts for input that is already in order, top-k, and   *)
(* the sort of a table.                                                    *)
(*                                                                         *)
(* A column is [type, v]: "int" holds signed integers of Bits bits whose   *)
(* least value is the null, "short" of half as many, "float" bit patterns  *)
(* (sign, magnitude; a magnitude above Inf is NaN, the null), "sym" ids    *)
(* whose strings are ordered by Names, "str" sequences of bytes.  t is     *)
(* the record of the thresholds of the code, each of them a field.         *)
(***************************************************************************)
EXTENDS Integers, Sequences, FiniteSets, SequencesExt, FiniteSetsExt

CONSTANTS
    Bits,       \* bits of a key (64)
    ByteBits,   \* bits of a digit of the radix sorts (8)
    Names       \* Names[id]: place of the string of a symbol in byte order

Pow(k) == 2 ^ k
Inf == Pow(Bits - 1) - 2
Rows(c) == 1 .. Len(c.v)
Listed(f) == SubSeq(f, 1, Len(f))
Iota(n) == Listed([i \in 1 .. n |-> i])
Width(type) == IF type = "short" THEN Bits \div 2 ELSE Bits
Least(type) == -Pow(Width(type) - 1)
Magnitude(p) == p % Pow(Bits - 1)
Negative(p) == p >= Pow(Bits - 1)

IsNull(c, r) ==
    CASE c.type \in {"int", "short"} -> c.v[r] = Least(c.type)
      [] c.type = "float" -> Magnitude(c.v[r]) > Inf
      [] OTHER -> FALSE
HasNulls(c) == \E r \in Rows(c) : IsNull(c, r)

Real(p) == IF Negative(p) THEN -Magnitude(p) ELSE p
Sign(x, y) == IF x < y THEN -1 ELSE IF x > y THEN 1 ELSE 0

RECURSIVE StrCmp(_, _)
StrCmp(a, b) ==
    IF a = <<>> \/ b = <<>> THEN Sign(Len(a), Len(b))
    ELSE IF Head(a) # Head(b) THEN Sign(Head(a), Head(b)) ELSE StrCmp(Tail(a), Tail(b))

CmpCell(c, a, b) ==
    CASE c.type = "str" -> StrCmp(c.v[a], c.v[b])
      [] c.type = "sym" -> Sign(Names[c.v[a]], Names[c.v[b]])
      [] c.type = "float" -> Sign(Real(c.v[a]), Real(c.v[b]))
      [] OTHER -> Sign(c.v[a], c.v[b])

(* sort_cmp: a null is placed by nulls_first, and descending negates only   *)
(* the order of values.                                                     *)
CmpKey(c, desc, nf, a, b) ==
    IF IsNull(c, a) \/ IsNull(c, b)
    THEN IF IsNull(c, a) /\ IsNull(c, b) THEN 0 ELSE IF IsNull(c, a) = nf THEN -1 ELSE 1
    ELSE IF desc THEN -CmpCell(c, a, b) ELSE CmpCell(c, a, b)


FirstNonzero(c, rest) == IF c # 0 THEN c ELSE rest

RECURSIVE SortCmp(_, _, _, _, _)
SortCmp(cols, descs, nfs, a, b) ==
    IF cols = <<>> THEN 0
    ELSE FirstNonzero(CmpKey(Head(cols), Head(descs), Head(nfs), a, b), SortCmp(Tail(cols), Tail(descs), Tail(nfs), a, b))

-----------------------------------------------------------------------------
(* Sorts of pairs <<key, row>>.                                             *)
KeyLt(x, y) == x[1] < y[1] \/ (x[1] = y[1] /\ x[2] < y[2])

Put(s, i, x) == Listed([j \in 1 .. Len(s) |-> IF j = i THEN x ELSE s[j]])
Swap(s, i, j) == Listed([k \in 1 .. Len(s) |-> s[IF k = i THEN j ELSE IF k = j THEN i ELSE k]])

RECURSIVE SiftDown(_, _, _)
SiftDown(s, n, i) ==
    LET l == 2 * i
        r == 2 * i + 1
        one == IF l <= n /\ KeyLt(s[i], s[l]) THEN l ELSE i
        big == IF r <= n /\ KeyLt(s[one], s[r]) THEN r ELSE one
    IN IF big = i THEN s ELSE SiftDown(Swap(s, i, big), n, big)

Heapify(s, n) == FoldLeft(LAMBDA acc, i : SiftDown(acc, n, i), s, [j \in 1 .. n \div 2 |-> n \div 2 + 1 - j])
Heapsort(s) ==
    FoldLeft(LAMBDA acc, i : SiftDown(Swap(acc, 1, i), i - 1, 1), Heapify(s, Len(s)), [j \in 1 .. Len(s) - 1 |-> Len(s) + 1 - j])

Insert(s, x) ==
    InsertAt(s, Len(s) - Cardinality({i \in 1 .. Len(s) : KeyLt(x, s[i])}) + 1, x)
InsertionSort(s) == FoldLeft(Insert, <<>>, s)

Pivot(s) ==
    LET n == Len(s)
        mid == n \div 2 + 1
        a == s[1][1]
        b == s[mid][1]
        c == s[n][1]
    IN IF a < b THEN (IF b < c THEN mid ELSE IF a < c THEN n ELSE 1)
       ELSE (IF a < c THEN 1 ELSE IF b < c THEN n ELSE mid)

(* The pivot goes to the end, the smaller pairs to the front, the pivot     *)
(* between.                                                                 *)
Partition(s) ==
    LET n == Len(s)
        p == Swap(s, Pivot(s), n)
        Place(out) == [s |-> Swap(out.s, out.lo, n), lo |-> out.lo]
    IN Place(FoldLeft(LAMBDA acc, i : IF KeyLt(acc.s[i], p[n])
                                      THEN [s |-> Swap(acc.s, i, acc.lo), lo |-> acc.lo + 1] ELSE acc,
                      [s |-> p, lo |-> 1], Iota(n - 1)))

RECURSIVE IntroImpl(_, _, _), IntroHalves(_, _, _)
IntroHalves(t, p, depth) ==
    IntroImpl(t, SubSeq(p.s, 1, p.lo - 1), depth) \o <<p.s[p.lo]>> \o IntroImpl(t, SubSeq(p.s, p.lo + 1, Len(p.s)), depth)
IntroImpl(t, s, depth) ==
    IF Len(s) <= t.insertion THEN InsertionSort(s)
    ELSE IF depth = 0 THEN Heapsort(s)
    ELSE IntroHalves(t, Partition(s), depth - 1)
Introsort(t, s) == IntroImpl(t, s, t.depth)

-----------------------------------------------------------------------------
Bytes(bits) == (bits + ByteBits - 1) \div ByteBits
Digit(k, b) == (k \div Pow(b * ByteBits)) % Pow(ByteBits)
(* Bytes up to the highest in which two keys differ.                        *)
Differ(x, y) == Max({0} \cup {b + 1 : b \in {d \in 0 .. Bytes(Bits) - 1 : Digit(x, d) # Digit(y, d)}})

(* A dispatch cuts the rows every grain; a sort's own tasks are one chunk   *)
(* per worker.                                                              *)
Starts(t, n) == {i \in 1 .. n : (i - 1) % t.grain = 0}
ChunkLen(t, n) == (n + t.workers - 1) \div t.workers
Ends(t, n, lo) == IF lo + t.grain - 1 < n THEN lo + t.grain - 1 ELSE n
Pooled(t, n) == n > t.pool

(* detect_sortedness: pairs within the tasks, then the pairs between tasks. *)
OutOfOrder(t, k) ==
    LET n == Len(k)
    IN IF Pooled(t, n)
       THEN \/ \E lo \in Starts(t, n) : \E i \in lo + 1 .. Ends(t, n, lo) : k[i] < k[i - 1]
            \/ \E b \in Starts(t, n) \ {1} : k[b] < k[b - 1]
       ELSE \E i \in 2 .. n : k[i] < k[i - 1]

(* compute_key_nbytes: each task against its own first key, then the first  *)
(* key of each worker's chunk against the first of all.                     *)
KeyBytes(t, k, most) ==
    LET n == Len(k)
        within == {Differ(k[i], k[lo]) : <<lo, i>> \in {x \in Starts(t, n) \X (1 .. n) : x[2] \in x[1] .. Ends(t, n, x[1])}}
        across == {Differ(k[w * ChunkLen(t, n) + 1], k[1]) : w \in {u \in 1 .. t.workers - 1 : u * ChunkLen(t, n) < n}}
        nb == IF Pooled(t, n) THEN Max(within \cup across) ELSE Max({Differ(k[i], k[1]) : i \in 1 .. n})
    IN IF n <= 1 THEN 1 ELSE Min({Max({nb, 1}), most})

(* One pass on byte b: per task a histogram, offsets by digit and then by   *)
(* task, and a scatter that keeps the order within a task.                  *)
TaskRows(t, n, w) == {i \in 1 .. n : (i - 1) \div ChunkLen(t, n) = w}
Hist(t, s, b, w, d) == Cardinality({i \in TaskRows(t, Len(s), w) : Digit(s[i][1], b) = d})
Uniform(s, b) == Cardinality({Digit(s[i][1], b) : i \in 1 .. Len(s)}) <= 1
Offset(t, s, b, w, d) ==
    Cardinality({i \in 1 .. Len(s) : Digit(s[i][1], b) < d}) + MapThenSumSet(LAMBDA u : Hist(t, s, b, u, d), 0 .. w - 1)
Scatter(t, s, b) ==
    LET n == Len(s)
        To(i) == LET w == (i - 1) \div ChunkLen(t, n)
                     d == Digit(s[i][1], b)
                 IN Offset(t, s, b, w, d) + Cardinality({j \in TaskRows(t, n, w) : j <= i /\ Digit(s[j][1], b) = d})
        place == Listed([i \in 1 .. n |-> To(i)])
    IN Listed([p \in 1 .. n |-> s[CHOOSE i \in 1 .. n : place[i] = p]])

LsbSort(t, s, nb) == FoldLeft(LAMBDA acc, b : IF Uniform(acc, b) THEN acc ELSE Scatter(t, acc, b), s, [j \in 1 .. nb |-> j - 1])

(* Above t.msdRows the highest byte that is not uniform comes first, and    *)
(* each of its buckets is sorted on the bytes below.                        *)
RECURSIVE MsdSort(_, _, _)
MsdSort(t, s, nb) ==
    IF nb <= t.msdBytes \/ Len(s) <= t.msdRows THEN LsbSort(t, s, nb)
    ELSE IF Uniform(s, nb - 1) THEN MsdSort(t, s, nb - 1)
    ELSE LET parted == Scatter(t, s, nb - 1)
             Sorted(bucket) == IF Len(bucket) <= t.insertion THEN Introsort(t, bucket) ELSE LsbSort([t EXCEPT !.workers = 1], bucket, nb - 1)
         IN FlattenSeq([d \in 1 .. Pow(ByteBits) |-> Sorted(SelectSeq(parted, LAMBDA x : Digit(x[1], nb - 1) = d - 1))])

(* The packed sort keeps the low key bytes of a word and puts the row above *)
(* them; order and reverse order are detected on the way.                   *)
Packed(t, k, nb) ==
    LET low == [i \in 1 .. Len(k) |-> k[i] % Pow(nb * ByteBits)]
    IN IF ~OutOfOrder(t, low) THEN Iota(Len(k))
       ELSE IF \A i \in 2 .. Len(k) : low[i] <= low[i - 1] THEN Reverse(Iota(Len(k)))
       ELSE LET s == LsbSort(t, [j \in 1 .. Len(k) |-> <<low[j], j>>], nb) IN [i \in 1 .. Len(k) |-> s[i][2]]

-----------------------------------------------------------------------------
(* radix_encode_fn.                                                         *)
FloatKey(p) == IF Negative(p) THEN Pow(Bits) - 1 - p ELSE p + Pow(Bits - 1)
Flip(k) == Pow(Bits) - 1 - k
Rank(id) == Cardinality({j \in DOMAIN Names : Names[j] < Names[id]})

Encode(c, desc, nf, r) ==
    LET half == Pow(Width(c.type) - 1)
        lowest == nf # desc
        e == CASE c.type = "sym" -> Rank(c.v[r])
               [] c.type = "int" -> IF ~IsNull(c, r) THEN c.v[r] + half ELSE IF lowest THEN 0 ELSE Pow(Bits) - 1
               [] c.type = "float" -> IF ~IsNull(c, r) THEN FloatKey(c.v[r]) ELSE IF lowest THEN 0 ELSE Pow(Bits) - 1
               [] c.type = "short" -> IF ~HasNulls(c) THEN c.v[r] + half
                                      ELSE IF ~IsNull(c, r) THEN c.v[r] + half + 1 ELSE IF lowest THEN 0 ELSE 2 * half + 1
    IN IF desc THEN Flip(e) ELSE e

TypeBytes(c) ==
    CASE c.type = "short" -> Min({Bytes(Bits), Bytes(Width("short")) + (IF HasNulls(c) THEN 1 ELSE 0)})
      [] OTHER -> Bytes(Bits)

Second(s) == Listed([i \in 1 .. Len(s) |-> s[i][2]])
Pairs(k) == Listed([i \in 1 .. Len(k) |-> <<k[i], i>>])

(* One key: [idx, keys], keys being the sorted keys when a caller may       *)
(* decode its column from them.                                             *)
NoKeys == <<-1>>
WithKeys(c, s) == [idx |-> Second(s), keys |-> IF c.type = "sym" THEN NoKeys ELSE [i \in 1 .. Len(s) |-> s[i][1]]]
SortEncoded(t, c, k, nb) ==
    IF Len(k) <= t.radix THEN [idx |-> Second(Introsort(t, Pairs(k))), keys |-> NoKeys]
    ELSE IF nb <= t.packBytes THEN [idx |-> Packed(t, k, nb), keys |-> NoKeys]
    ELSE IF ~OutOfOrder(t, k) THEN [idx |-> Iota(Len(k)), keys |-> NoKeys]
    ELSE WithKeys(c, MsdSort(t, Pairs(k), nb))
SingleKey(t, c, desc, nf) ==
    LET k == Listed([r \in Rows(c) |-> Encode(c, desc, nf, r)]) IN SortEncoded(t, c, k, KeyBytes(t, k, TypeBytes(c)))

(* radix_decode_into, the inverse of the encoding where nothing is shifted. *)
Decode(c, desc, key) ==
    LET e == IF desc THEN Flip(key) ELSE key
    IN IF c.type = "float" THEN (IF e >= Pow(Bits - 1) THEN e - Pow(Bits - 1) ELSE Pow(Bits) - 1 - e)
       ELSE (e % Pow(Width(c.type))) - Pow(Width(c.type) - 1)
Decodable(c, keys) == keys # NoKeys /\ c.type # "sym" /\ ~(c.type = "short" /\ HasNulls(c))

(* The sorted column: decoded from the keys and its nulls set, or gathered. *)
SortedColumn(c, desc, out) ==
    IF Decodable(c, out.keys)
    THEN [i \in Rows(c) |-> IF IsNull(c, out.idx[i]) THEN c.v[out.idx[i]] ELSE Decode(c, desc, out.keys[i])]
    ELSE [i \in Rows(c) |-> c.v[out.idx[i]]]

-----------------------------------------------------------------------------
(* Several keys: the differences to each column's least value side by side  *)
(* in one word, if they fit.                                                *)
Word(c, r) ==
    CASE c.type = "sym" -> Rank(c.v[r])
      [] c.type = "float" -> LET e == FloatKey(c.v[r]) IN IF e >= Pow(Bits - 1) THEN e - Pow(Bits) ELSE e
      [] OTHER -> c.v[r]
Lowest(c) == Min({Word(c, r) : r \in Rows(c)})
Spread(c) == Max({Word(c, r) : r \in Rows(c)}) - Lowest(c)
BitsFor(range) == CHOOSE b \in 1 .. Bits : (b = Bits \/ Pow(b) > range) /\ \A q \in 1 .. b - 1 : Pow(q) <= range
ShiftOf(widths, i) == MapThenSumSet(LAMBDA j : widths[j], i + 1 .. Len(widths))
Compose(parts, widths) == MapThenSumSet(LAMBDA i : parts[i] * Pow(ShiftOf(widths, i)), 1 .. Len(parts))

CompositeKey(cols, descs, r) ==
    LET Part(i) == LET p == (Word(cols[i], r) - Lowest(cols[i])) % Pow(Bits) IN IF descs[i] THEN Spread(cols[i]) - p ELSE p
    IN Compose([i \in 1 .. Len(cols) |-> Part(i)], [i \in 1 .. Len(cols) |-> BitsFor(Spread(cols[i]))])

SortComposite(t, k, nb) ==
    IF ~OutOfOrder(t, k) THEN Iota(Len(k))
    ELSE IF Len(k) <= t.radix THEN Second(Introsort(t, Pairs(k)))
    ELSE Second(MsdSort(t, Pairs(k), nb))

(* Otherwise each column is ranked by a sort of its own, and the ranks      *)
(* composed.                                                                *)
DenseRank(c, desc, nf, idx) ==
    LET At(i) == Cardinality({j \in 2 .. i : CmpKey(c, desc, nf, idx[j - 1], idx[j]) # 0})
    IN Listed([r \in Rows(c) |-> At(CHOOSE i \in Rows(c) : idx[i] = r)])

-----------------------------------------------------------------------------
(* The merge sort by the comparator.                                        *)
RECURSIVE Merge(_, _, _, _, _)
Merge(cols, descs, nfs, a, b) ==
    IF a = <<>> THEN b ELSE IF b = <<>> THEN a
    ELSE IF SortCmp(cols, descs, nfs, Head(a), Head(b)) <= 0 THEN <<Head(a)>> \o Merge(cols, descs, nfs, Tail(a), b)
    ELSE <<Head(b)>> \o Merge(cols, descs, nfs, a, Tail(b))

InsertRow(cols, descs, nfs, s, x) ==
    InsertAt(s, 1 + CHOOSE j \in 0 .. Len(s) : /\ j = 0 \/ SortCmp(cols, descs, nfs, s[j], x) <= 0
                                               /\ \A i \in j + 1 .. Len(s) : SortCmp(cols, descs, nfs, s[i], x) > 0, x)
InsertRows(cols, descs, nfs, s) == FoldLeft(LAMBDA acc, x : InsertRow(cols, descs, nfs, acc, x), <<>>, s)

RECURSIVE MergeRec(_, _, _, _, _)
MergeRec(t, cols, descs, nfs, s) ==
    IF Len(s) <= t.insertion THEN InsertRows(cols, descs, nfs, s)
    ELSE LET mid == Len(s) \div 2
         IN Merge(cols, descs, nfs, MergeRec(t, cols, descs, nfs, SubSeq(s, 1, mid)), MergeRec(t, cols, descs, nfs, SubSeq(s, mid + 1, Len(s))))

MergeLevelsSkip(cols, descs, nfs, s, run) == s
(* Each worker sorts a chunk; runs are merged two by two until one is left. *)
RECURSIVE MergeLevels(_, _, _, _, _)
MergeLevels(cols, descs, nfs, s, run) ==
    IF run >= Len(s) THEN s
    ELSE LET n == Len(s)
             Cut(lo, hi) == SubSeq(s, lo + 1, IF hi < n THEN hi ELSE n)
             pairs == (n + 2 * run - 1) \div (2 * run)
         IN MergeLevels(cols, descs, nfs,
                FlattenSeq([p \in 1 .. pairs |-> LET lo == (p - 1) * 2 * run IN Merge(cols, descs, nfs, Cut(lo, lo + run), Cut(lo + run, lo + 2 * run))]),
                2 * run)

Comparing(t, cols, descs, nfs) ==
    LET n == Len(cols[1].v)
        chunk == ChunkLen(t, n)
        Sorted(w) == MergeRec(t, cols, descs, nfs, SubSeq(Iota(n), w * chunk + 1, Min({(w + 1) * chunk, n})))
    IN IF n <= t.small THEN InsertRows(cols, descs, nfs, Iota(n))
       ELSE IF t.workers > 1 /\ Pooled(t, n)
       THEN MergeLevels(cols, descs, nfs, FlattenSeq([w \in 1 .. t.workers |-> Sorted(w - 1)]), chunk)
       ELSE MergeRec(t, cols, descs, nfs, Iota(n))

-----------------------------------------------------------------------------
(* Strings.  A record is [w, row, len]: the bytes of the window at base,    *)
(* zero where the string has ended, packed in parts of t.part bytes.        *)
Window(t, c, row, base, parts) == [i \in 1 .. parts * t.part |-> IF base + i <= Len(c.v[row]) THEN c.v[row][base + i] ELSE 0]
Record(t, c, row, base, parts) == [w |-> Window(t, c, row, base, parts), row |-> row, len |-> Len(c.v[row])]
PartsFor(t, c, rows) == Min({t.parts, Max({1} \cup {(Len(c.v[rows[i]]) + t.part - 1) \div t.part : i \in 1 .. Len(rows)})})

(* strkey_cmp: the window, then the lengths if both strings are inside the  *)
(* first window, else their bytes after as many as a window holds.          *)
Beyond(s, k) == IF Len(s) > k THEN SubSeq(s, k + 1, Len(s)) ELSE <<>>
RecordCmp(c, a, b) ==
    LET held == Len(a.w)
        x == StrCmp(a.w, b.w)
    IN IF x # 0 THEN x
       ELSE IF a.len <= held /\ b.len <= held THEN Sign(a.len, b.len)
       ELSE StrCmp(Beyond(c.v[a.row], held), Beyond(c.v[b.row], held))

InsertRecord(c, s, x) ==
    InsertAt(s, 1 + CHOOSE j \in 0 .. Len(s) : /\ j = 0 \/ RecordCmp(c, s[j], x) <= 0
                                               /\ \A i \in j + 1 .. Len(s) : RecordCmp(c, s[i], x) > 0, x)

(* strsort_detect_runs: 1 ascending, -1 descending, 0 neither or undecided  *)
(* because two strings tie on a window they do not fit in.                  *)
RunOf(s) ==
    LET held == Len(s[1].w)
        Cmp(i) == LET x == StrCmp(s[i - 1].w, s[i].w) IN IF x # 0 THEN x ELSE Sign(s[i - 1].len, s[i].len)
        cmps == {Cmp(i) : i \in 2 .. Len(s)}
    IN IF Len(s) < 2 \/ \E i \in 2 .. Len(s) : Cmp(i) = 0 /\ (s[i - 1].len > held \/ s[i].len > held) THEN 0
       ELSE IF 1 \notin cmps THEN 1 ELSE IF -1 \notin cmps THEN -1 ELSE 0

(* strsort_aflag: partition on byte bp of the window; a bucket that uses    *)
(* the window up is packed again further on, or ends by length.  The swap   *)
(* loop does not keep the order of equal bytes; any order of a bucket may   *)
(* come out, here that of the sequence.                                     *)
RECURSIVE AFlag(_, _, _, _, _, _)
AFlag(t, c, s, bp, base, parts) ==
    LET held == parts * t.part
        further == [i \in 1 .. Len(s) |-> Record(t, c, s[i].row, base + held, parts)]
        Bucket(d) == SelectSeq(s, LAMBDA x : x.w[bp + 1] = d)
        Bytewise == SetToSortSeq({s[i].w[bp + 1] : i \in 1 .. Len(s)}, <)
    IN IF Len(s) <= 1 THEN s
       ELSE IF Len(s) <= t.base THEN FoldLeft(LAMBDA acc, x : InsertRecord(c, acc, x), <<>>, s)
       ELSE IF bp >= held
       THEN IF \E i \in 1 .. Len(s) : s[i].len > base + held THEN AFlag(t, c, further, 0, base + held, parts)
            ELSE SortSeq(s, LAMBDA x, y : x.len < y.len)
       ELSE FlattenSeq([d \in 1 .. Len(Bytewise) |-> AFlag(t, c, Bucket(Bytewise[d]), bp + 1, base, parts)])

SortStrings(t, c, desc) ==
    LET rows == Iota(Len(c.v))
        parts == PartsFor(t, c, rows)
        s == [i \in 1 .. Len(rows) |-> Record(t, c, rows[i], 0, parts)]
        run == RunOf(s)
        RowsIn(q) == [i \in 1 .. Len(q) |-> q[i].row]
    IN IF Len(s) <= 1 THEN rows
       ELSE IF run # 0 THEN (IF (run = 1) # desc THEN RowsIn(s) ELSE Reverse(RowsIn(s)))
       ELSE LET up == RowsIn(AFlag(t, c, s, 0, 0, parts)) IN IF desc THEN Reverse(up) ELSE up

-----------------------------------------------------------------------------
(* sort_indices_ex.  nfs = <<>> when the caller names no place for nulls:   *)
(* first if ascending.                                                      *)
NullsFirst(descs, nfs) == IF nfs = <<>> THEN [i \in 1 .. Len(descs) |-> ~descs[i]] ELSE nfs

RECURSIVE SortIndices(_, _, _, _)
SortIndices(t, cols, descs, nfs) ==
    LET n == Len(cols[1].v)
        nf == NullsFirst(descs, nfs)
        widths == Listed([i \in 1 .. Len(cols) |-> BitsFor(Spread(cols[i]))])
        wide == \E i \in 1 .. Len(cols) : cols[i].type = "str"
        total == FoldLeft(+, 0, widths)
        ranks == Listed([i \in 1 .. Len(cols) |-> DenseRank(cols[i], descs[i], nf[i], SortIndices(t, <<cols[i]>>, <<descs[i]>>, <<nf[i]>>).idx)])
        rankBits == [i \in 1 .. Len(cols) |-> BitsFor(Max(Range(ranks[i])))]
        rankTotal == FoldLeft(+, 0, rankBits)
        Only(idx) == [idx |-> idx, keys |-> NoKeys]
    IN IF n = 0 THEN Only(<<>>)
       ELSE IF n <= t.small THEN Only(Comparing(t, cols, descs, nf))
       ELSE IF Len(cols) = 1 THEN IF cols[1].type = "str" THEN Only(SortStrings(t, cols[1], descs[1])) ELSE SingleKey(t, cols[1], descs[1], nf[1])
       ELSE IF ~wide /\ total <= Bits
       THEN Only(SortComposite(t, Listed([r \in 1 .. n |-> CompositeKey(cols, descs, r)]), Bytes(total)))
       ELSE IF rankTotal <= Bits
       THEN LET k == Listed([r \in 1 .. n |-> Compose([i \in 1 .. Len(cols) |-> ranks[i][r]], rankBits)])
            IN Only(IF n <= t.radix THEN Second(Introsort(t, Pairs(k))) ELSE Second(MsdSort(t, Pairs(k), Bytes(rankTotal))))
       ELSE Only(Comparing(t, cols, descs, nf))

(* ray_rank_fn and ray_xrank_fn: places of the sorted rows, and their       *)
(* division into groups.                                                    *)
PlaceOf(idx, r) == CHOOSE i \in 1 .. Len(idx) : idx[i] = r
Places(idx) == [r \in 1 .. Len(idx) |-> PlaceOf(idx, r) - 1]
RankOf(t, c) == Places(SortIndices(t, <<c>>, <<FALSE>>, <<>>).idx)
XRank(t, c, groups) == LET rk == RankOf(t, c) IN [r \in Rows(c) |-> (rk[r] * groups) \div Len(c.v)]

-----------------------------------------------------------------------------
(* Top-k: a heap of the best k rows with the worst at its root.  A row      *)
(* enters only if it is strictly better than the root.                      *)
TopkCmp(cols, descs, nfs, a, b) == FirstNonzero(SortCmp(cols, descs, nfs, a, b), Sign(a, b))

RECURSIVE SiftWorst(_, _, _, _, _)
SiftWorst(cols, descs, nfs, h, i) ==
    LET Worse(j, k) == IF j <= Len(h) /\ TopkCmp(cols, descs, nfs, h[j], h[k]) > 0 THEN j ELSE k
        w == Worse(2 * i + 1, Worse(2 * i, i))
    IN IF w = i THEN h ELSE SiftWorst(cols, descs, nfs, Swap(h, i, w), w)

TopkComparing(cols, descs, nfs, k) ==
    LET n == Len(cols[1].v)
        heap == FoldLeft(LAMBDA h, i : SiftWorst(cols, descs, nfs, h, i), Iota(k), [j \in 1 .. k \div 2 |-> k \div 2 + 1 - j])
        Offer(h, r) == IF SortCmp(cols, descs, nfs, r, h[1]) >= 0 THEN h ELSE SiftWorst(cols, descs, nfs, Put(h, 1, r), 1)
    IN SortSeq(FoldLeft(Offer, heap, [j \in 1 .. n - k |-> k + j]), LAMBDA a, b : TopkCmp(cols, descs, nfs, a, b) < 0)

TopkEncoded(c, desc, nf, k) ==
    LET key == [r \in Rows(c) |-> Encode(c, desc, nf, r)]
        Offer(h, r) == IF key[r] >= h[1][1] THEN h ELSE SiftDown(Put(h, 1, <<key[r], r>>), k, 1)
    IN Second(Heapsort(FoldLeft(Offer, Heapify([i \in 1 .. k |-> <<key[i], i>>], k), [j \in 1 .. Len(c.v) - k |-> k + j])))

(* exec_sort with a limit: the heap when it is below the number of rows,    *)
(* else the full sort cut short.  An ascending sort of one indexed column   *)
(* without nulls takes the permutation of its index.                        *)
Limited(t, cols, descs, nfs, k) ==
    LET n == Len(cols[1].v)
        nf == NullsFirst(descs, nfs)
    IN IF k > 0 /\ k < n
       THEN IF Len(cols) = 1 /\ cols[1].type \notin {"sym", "str"} THEN TopkEncoded(cols[1], descs[1], nf[1], k)
            ELSE TopkComparing(cols, descs, nf, k)
       ELSE SortIndices(t, cols, descs, nfs).idx

IndexPerm(t, c) == SortIndices(t, <<c>>, <<FALSE>>, <<>>).idx
ExecSort(t, cols, descs, nfs, indexed) ==
    IF Len(cols) = 1 /\ ~descs[1] /\ indexed /\ ~HasNulls(cols[1]) THEN IndexPerm(t, cols[1])
    ELSE SortIndices(t, cols, descs, nfs).idx

-----------------------------------------------------------------------------
(* sort_table_by_keys: keys without nulls are first checked for order,      *)
(* every task from the pair across its start; a table in order is returned  *)
(* as it is.                                                                *)
InOrder(t, cols, descending) ==
    LET n == Len(cols[1].v)
        Bad(i) == LET x == SortCmp(cols, [k \in 1 .. Len(cols) |-> FALSE], [k \in 1 .. Len(cols) |-> TRUE], i - 1, i)
                  IN IF descending THEN x < 0 ELSE x > 0
    IN \A lo \in Starts(t, n) : \A i \in Max({lo, 2}) .. Ends(t, n, lo) : ~Bad(i)
Detectable(cols) == \A i \in 1 .. Len(cols) : ~HasNulls(cols[i]) /\ cols[i].type \in {"int", "short", "sym"}

(* [idx, first]: the order of the rows, and the first key column as written.*)
Rearranged(cols, descending, out) ==
    [idx |-> out.idx,
     first |-> IF Len(cols) = 1 THEN SortedColumn(cols[1], descending, out) ELSE [i \in Rows(cols[1]) |-> cols[1].v[out.idx[i]]]]
SortTable(t, cols, descending) ==
    IF Len(cols[1].v) <= 1 \/ (Detectable(cols) /\ InOrder(t, cols, descending)) THEN [idx |-> Iota(Len(cols[1].v)), first |-> cols[1].v]
    ELSE Rearranged(cols, descending, SortIndices(t, cols, [i \in 1 .. Len(cols) |-> descending], <<>>))

(* The marks the result's first key column gets: its values ascend, and in  *)
(* each run of one value the second key ascends.                            *)
MarkSorted(cols, descending) == ~descending /\ ~HasNulls(cols[1]) /\ cols[1].type \in {"int", "short"}
MarkParts(cols, descending) == ~descending /\ Len(cols) > 1 /\ ~HasNulls(cols[1]) /\ cols[1].type \in {"int", "short", "sym"}
=============================================================================
