------------------------------ MODULE AofProofs ------------------------------
(***************************************************************************)
(* The append-only log, for every segment limit and whatever may fail:     *)
(* segments form one chain of LSNs, scans deliver consecutive LSNs, an LSN *)
(* that was delivered stands for one payload, and where only open and      *)
(* close fail and the writer dies with its machine, the durable log of     *)
(* module DurableLog is implemented and scans miss nothing.                *)
(***************************************************************************)
EXTENDS Aof, FiniteSetTheorems, SequenceTheorems, WellFoundedInduction, TLAPS

Segment == [base : Nat, items : Seq(Items), vis : Nat, dur : Nat, entry : BOOLEAN]

\* The items that are not the remains of a short write: what seg_bytes counts.
Whole(items) == Cardinality({k \in 1 .. Len(items) : items[k].kind # "torn"})
Recs(s) == Records(s.items, Len(s.items))
Full(s) == s.vis = Len(s.items) /\ s.dur = Len(s.items)
Fits(s) == s.dur <= s.vis /\ s.vis <= Len(s.items) /\ Whole(s.items) <= SegLimit + 1

\* What a walk of the first n items of a segment delivers.
Cut(s, n) == SubSeq(s.items, 1, n)
Part(s, n) == Delivered(s.base, Cut(s, n), CommittedEnd(Cut(s, n)))
VisView == UNION {Part(segs[k], segs[k].vis) : k \in 1 .. Len(segs)}

\* The segments S in LSN order, without gap or overlap; all but the last are
\* on the disk as a whole.
Chained(S) ==
    /\ \A k \in 1 .. Len(S) : Fits(S[k])
    /\ \A k \in 1 .. Len(S) - 1 : Full(S[k]) /\ S[k + 1].base = S[k].base + Recs(S[k])
    /\ Len(S) > 0 => S[1].base = 0
    /\ \A i, j \in 1 .. Len(S) : i < j => S[i].base + Recs(S[i]) <= S[j].base
    /\ Len(S) > 0 => \A l \in 0 .. S[Len(S)].base - 1 :
                        \E k \in 1 .. Len(S) - 1 : S[k].base <= l /\ l < S[k + 1].base

\* The committed part of the first n items of s is in the first m items of t.
Keeps(s, n, t, m) ==
    /\ t.base = s.base
    /\ CommittedEnd(Cut(s, n)) <= m
    /\ \A j \in 1 .. CommittedEnd(Cut(s, n)) : t.items[j] = s.items[j]
-----------------------------------------------------------------------------
(* Numbers and sequences.                                                  *)

LEMMA NatMin ==
    ASSUME NEW T, T \subseteq Nat, T # {}
    PROVE  \E x \in T : \A y \in T : x <= y
<1>1. PICK x \in T : \A y \in T : ~ (<<y, x>> \in OpToRel(<, Nat))
  BY NatLessThanWellFounded, WFMin
<1>2. ASSUME NEW y \in T PROVE x <= y
  <2>1. x \in Nat /\ y \in Nat
    OBVIOUS
  <2>2. ~(y < x)
    BY <1>1, <2>1 DEF OpToRel
  <2> QED BY <2>1, <2>2
<1> QED BY <1>2

LEMMA BoundedMax ==
    ASSUME NEW n \in Nat, NEW T, T \subseteq 0 .. n, T # {}
    PROVE  \E x \in T : \A y \in T : y <= x
<1> DEFINE D == {n - y : y \in T}
<1>1. D \subseteq Nat /\ D # {}
  <2>1. ASSUME NEW y \in T PROVE n - y \in Nat
    <3>1. y \in 0 .. n
      OBVIOUS
    <3> QED BY <3>1
  <2> QED BY <2>1
<1>2. PICK d \in D : \A e \in D : d <= e
  BY <1>1, NatMin
<1>3. PICK x \in T : d = n - x
  BY <1>2
<1>4. ASSUME NEW y \in T PROVE y <= x
  <2>1. x \in 0 .. n /\ y \in 0 .. n
    OBVIOUS
  <2>2. n - y \in D
    OBVIOUS
  <2>3. n - x <= n - y
    BY <1>2, <1>3, <2>2
  <2> HIDE DEF D
  <2> QED BY <2>1, <2>3
<1> QED BY <1>4

LEMMA IntervalCount ==
    ASSUME NEW j \in Nat
    PROVE  IsFiniteSet(1 .. j) /\ Cardinality(1 .. j) = j
<1>1. 1 \in Int /\ j \in Int
  OBVIOUS
<1>2. IsFiniteSet(1 .. j) /\ Cardinality(1 .. j) = IF 1 > j THEN 0 ELSE j - 1 + 1
  BY <1>1, FS_Interval
<1> QED BY <1>2

LEMMA SpanCount ==
    ASSUME NEW a \in Nat, NEW n \in Nat
    PROVE  IsFiniteSet(a .. a + n - 1) /\ Cardinality(a .. a + n - 1) = n
<1> DEFINE b == a + n - 1
<1>1. a \in Int /\ b \in Int
  OBVIOUS
<1>2. IsFiniteSet(a .. b) /\ Cardinality(a .. b) = IF a > b THEN 0 ELSE b - a + 1
  <2> HIDE DEF b
  <2> QED BY <1>1, FS_Interval
<1>3. (IF a > b THEN 0 ELSE b - a + 1) = n
  OBVIOUS
<1> QED BY <1>2, <1>3

LEMMA SpansApart ==
    ASSUME NEW a \in Nat, NEW b \in Nat, NEW c \in Nat, NEW d \in Nat, a + b <= c,
           NEW x \in a .. a + b - 1, NEW y \in c .. c + d - 1
    PROVE  x < y
OBVIOUS

LEMMA AppendFacts ==
    ASSUME NEW S, NEW q \in Seq(S), NEW e \in S
    PROVE  /\ Append(q, e) \in Seq(S) /\ Len(Append(q, e)) = Len(q) + 1
           /\ \A k \in 1 .. Len(q) : Append(q, e)[k] = q[k]
           /\ Append(q, e)[Len(q) + 1] = e
           /\ \A k \in 1 .. Len(Append(q, e)) : k \in 1 .. Len(q) \/ k = Len(q) + 1
OBVIOUS

LEMMA PrefixFacts ==
    ASSUME NEW S, NEW q \in Seq(S), NEW n \in 0 .. Len(q)
    PROVE  /\ SubSeq(q, 1, n) \in Seq(S) /\ Len(SubSeq(q, 1, n)) = n
           /\ \A k \in 1 .. n : k \in 1 .. Len(q) /\ SubSeq(q, 1, n)[k] = q[k]
<1>1. n \in Nat /\ Len(q) \in Nat /\ \A k \in 1 .. n : k \in 1 .. Len(q) /\ q[k] \in S
  OBVIOUS
<1>2. /\ SubSeq(q, 1, n) \in Seq(S)
      /\ Len(SubSeq(q, 1, n)) = IF 1 <= n THEN n - 1 + 1 ELSE 0
      /\ \A k \in 1 .. n - 1 + 1 : SubSeq(q, 1, n)[k] = q[1 + k - 1]
  BY <1>1, SubSeqProperties
<1>3. Len(SubSeq(q, 1, n)) = n
  BY <1>1, <1>2
<1>4. \A k \in 1 .. n : SubSeq(q, 1, n)[k] = q[k]
  <2> TAKE k \in 1 .. n
  <2>1. k \in 1 .. n - 1 + 1 /\ 1 + k - 1 = k
    BY <1>1
  <2> QED BY <1>2, <2>1
<1> QED BY <1>1, <1>2, <1>3, <1>4

LEMMA WholePrefix ==
    ASSUME NEW S, NEW q \in Seq(S)
    PROVE  SubSeq(q, 1, Len(q)) = q
<1>1. Len(q) \in 0 .. Len(q)
  OBVIOUS
<1>2. /\ SubSeq(q, 1, Len(q)) \in Seq(S) /\ Len(SubSeq(q, 1, Len(q))) = Len(q)
      /\ \A k \in 1 .. Len(q) : SubSeq(q, 1, Len(q))[k] = q[k]
  BY <1>1, PrefixFacts
<1> QED BY <1>2, SeqEqual
-----------------------------------------------------------------------------
(* The walk: where it ends, what it counts.                                *)

\* committed_end lies behind the last frame that no torn item hides.
LEMMA EndFacts ==
    ASSUME NEW q \in Seq(Items)
    PROVE  /\ CommittedEnd(q) \in 0 .. Len(q)
           /\ CommittedEnd(q) # 0 => q[CommittedEnd(q)].kind = "frame"
           /\ \A j \in 1 .. CommittedEnd(q) : q[j].kind # "torn"
           /\ \A k \in 1 .. Len(q) :
                q[k].kind = "frame" /\ (\A j \in 1 .. k : q[j].kind # "torn") => k <= CommittedEnd(q)
<1> DEFINE frames == {k \in Readable(q) : q[k].kind = "frame"}
<1>1. Len(q) \in Nat /\ frames \subseteq 1 .. Len(q)
  BY DEF Readable
<1>2. \A k \in 1 .. Len(q) : q[k].kind = "frame" /\ (\A j \in 1 .. k : q[j].kind # "torn") => k \in frames
  BY DEF Readable
<1>3. CASE frames = {}
  <2>1. CommittedEnd(q) = 0
    BY <1>3 DEF CommittedEnd
  <2> QED BY <1>1, <1>2, <1>3, <2>1
<1>4. CASE frames # {}
  <2>1. frames \subseteq 0 .. Len(q)
    BY <1>1
  <2>2. \E x \in frames : \A y \in frames : y <= x
    BY <1>1, <1>4, <2>1, BoundedMax
  <2>3. CommittedEnd(q) = CHOOSE k \in frames : \A j \in frames : j <= k
    BY <1>4 DEF CommittedEnd
  <2>4. CommittedEnd(q) \in frames /\ \A j \in frames : j <= CommittedEnd(q)
    BY <2>2, <2>3
  <2> QED BY <1>1, <1>2, <2>4 DEF Readable
<1> QED BY <1>3, <1>4

\* Cutting behind the last frame does not move it.
LEMMA EndOfCut ==
    ASSUME NEW q \in Seq(Items), NEW n \in CommittedEnd(q) .. Len(q)
    PROVE  CommittedEnd(SubSeq(q, 1, n)) = CommittedEnd(q)
<1> DEFINE p == SubSeq(q, 1, n)
           e == CommittedEnd(q)
           f == CommittedEnd(p)
<1>1. e \in 0 .. Len(q) /\ n \in 0 .. Len(q) /\ Len(q) \in Nat
  BY EndFacts
<1>2. p \in Seq(Items) /\ Len(p) = n /\ \A k \in 1 .. n : k \in 1 .. Len(q) /\ p[k] = q[k]
  BY <1>1, PrefixFacts
<1>3. f \in 0 .. n
  BY <1>2, EndFacts
<1>4. f <= e
  <2>1. CASE f = 0
    BY <1>1, <2>1
  <2>2. CASE f # 0
    <3>1. p[f].kind = "frame" /\ \A j \in 1 .. f : p[j].kind # "torn"
      BY <1>2, <2>2, EndFacts
    <3>2. f \in 1 .. Len(q) /\ q[f].kind = "frame" /\ \A j \in 1 .. f : q[j].kind # "torn"
      BY <1>1, <1>2, <1>3, <2>2, <3>1
    <3> QED BY <3>2, EndFacts
  <2> QED BY <2>1, <2>2
<1>5. e <= f
  <2>1. CASE e = 0
    BY <1>3, <2>1
  <2>2. CASE e # 0
    <3>1. q[e].kind = "frame" /\ \A j \in 1 .. e : q[j].kind # "torn"
      BY <2>2, EndFacts
    <3>2. e \in 1 .. Len(p) /\ p[e].kind = "frame" /\ \A j \in 1 .. e : p[j].kind # "torn"
      BY <1>1, <1>2, <2>2, <3>1
    <3> QED BY <1>2, <3>2, EndFacts
  <2> QED BY <2>1, <2>2
<1> QED BY <1>1, <1>3, <1>4, <1>5

\* Counting the items with a property: only the items counted matter.
LEMMA RecordsFacts ==
    ASSUME NEW q \in Seq(Items), NEW k \in 0 .. Len(q)
    PROVE  /\ Records(q, k) \in 0 .. k
           /\ \A j \in 0 .. k : Records(q, j) <= Records(q, k)
           /\ \A j \in 0 .. k : j < k /\ q[k].kind = "rec" => Records(q, j) < Records(q, k)
           /\ k > 0 /\ q[k].kind = "rec" => Records(q, k) >= 1
<1> DEFINE R(j) == {x \in 1 .. j : q[x].kind = "rec"}
<1>1. k \in Nat /\ Len(q) \in Nat
  OBVIOUS
<1>2. \A j \in 0 .. k : IsFiniteSet(R(j)) /\ Cardinality(R(j)) \in Nat /\ Cardinality(R(j)) <= j
  <2> TAKE j \in 0 .. k
  <2>1. j \in Nat /\ IsFiniteSet(1 .. j) /\ Cardinality(1 .. j) = j
    BY <1>1, IntervalCount
  <2>2. R(j) \in SUBSET (1 .. j)
    OBVIOUS
  <2> QED BY <2>1, <2>2, FS_Subset, FS_CardinalityType
<1>3. \A j \in 0 .. k : Records(q, j) = Cardinality(R(j))
  BY DEF Records
<1>4. \A j \in 0 .. k : Cardinality(R(j)) <= Cardinality(R(k)) /\ (Cardinality(R(k)) = Cardinality(R(j)) => R(k) = R(j))
  <2> TAKE j \in 0 .. k
  <2>1. R(j) \in SUBSET R(k)
    BY <1>1
  <2>2. k \in 0 .. k
    BY <1>1
  <2>3. IsFiniteSet(R(k))
    BY <1>2, <2>2
  <2> QED BY <2>1, <2>3, FS_Subset
<1>5. \A j \in 0 .. k : j < k /\ q[k].kind = "rec" => Cardinality(R(j)) < Cardinality(R(k))
  <2> SUFFICES ASSUME NEW j \in 0 .. k, j < k, q[k].kind = "rec" PROVE Cardinality(R(j)) < Cardinality(R(k))
    OBVIOUS
  <2>1. k \in R(k) /\ k \notin R(j)
    BY <1>1
  <2>2. Cardinality(R(k)) # Cardinality(R(j))
    BY <1>4, <2>1
  <2>3. Cardinality(R(k)) \in Nat /\ Cardinality(R(j)) \in Nat /\ k \in 0 .. k
    BY <1>1, <1>2
  <2> QED BY <1>4, <2>2, <2>3
<1>6. k > 0 /\ q[k].kind = "rec" => Cardinality(R(k)) >= 1
  <2>1. 0 \in 0 .. k /\ k \in 0 .. k
    BY <1>1
  <2>2. Cardinality(R(k)) \in Nat /\ Cardinality(R(0)) \in Nat
    BY <1>2, <2>1
  <2>3. 0 < k /\ q[k].kind = "rec" => Cardinality(R(0)) < Cardinality(R(k))
    BY <1>5, <2>1
  <2> HIDE DEF R
  <2> QED BY <1>1, <2>2, <2>3
<1> HIDE DEF R
<1>7. k \in 0 .. k
  BY <1>1
<1> QED BY <1>1, <1>2, <1>3, <1>4, <1>5, <1>6, <1>7

LEMMA RecordsSame ==
    ASSUME NEW p, NEW q, NEW k, \A j \in 1 .. k : p[j] = q[j]
    PROVE  Records(p, k) = Records(q, k)
<1>1. {j \in 1 .. k : p[j].kind = "rec"} = {j \in 1 .. k : q[j].kind = "rec"}
  OBVIOUS
<1> QED BY <1>1 DEF Records

LEMMA RecordsAppend ==
    ASSUME NEW q \in Seq(Items), NEW x \in Items
    PROVE  Records(Append(q, x), Len(Append(q, x))) =
              IF x.kind = "rec" THEN Records(q, Len(q)) + 1 ELSE Records(q, Len(q))
<1> DEFINE p == Append(q, x)
           R == {j \in 1 .. Len(q) : q[j].kind = "rec"}
           P == {j \in 1 .. Len(p) : p[j].kind = "rec"}
<1>1. /\ Len(q) \in Nat /\ Len(p) = Len(q) + 1 /\ p[Len(q) + 1] = x
      /\ \A k \in 1 .. Len(q) : p[k] = q[k]
  BY AppendFacts
<1>2. IsFiniteSet(1 .. Len(q)) /\ R \in SUBSET (1 .. Len(q))
  BY <1>1, IntervalCount
<1>3. IsFiniteSet(R)
  BY <1>2, FS_Subset
<1>4. CASE x.kind = "rec"
  <2>1. P = R \cup {Len(q) + 1}
    BY <1>1, <1>4
  <2>2. Len(q) + 1 \notin R
    BY <1>1
  <2>3. Cardinality(P) = Cardinality(R) + 1
    BY <1>3, <2>1, <2>2, FS_AddElement
  <2> QED BY <1>4, <2>3 DEF Records
<1>5. CASE x.kind # "rec"
  <2>1. P = R
    BY <1>1, <1>5
  <2> QED BY <1>5, <2>1 DEF Records
<1> QED BY <1>4, <1>5

\* seg_bytes: appending counts, a walk never ends behind what was counted.
LEMMA WholeFacts ==
    ASSUME NEW q \in Seq(Items)
    PROVE  /\ Whole(q) \in 0 .. Len(q)
           /\ CommittedEnd(q) <= Whole(q)
           /\ \A n \in 0 .. Len(q) : Whole(SubSeq(q, 1, n)) <= Whole(q)
           /\ Whole(SubSeq(q, 1, CommittedEnd(q))) = CommittedEnd(q)
<1> DEFINE W == {k \in 1 .. Len(q) : q[k].kind # "torn"}
           e == CommittedEnd(q)
<1>1. Len(q) \in Nat /\ e \in 0 .. Len(q) /\ \A j \in 1 .. e : q[j].kind # "torn"
  BY EndFacts
<1>2. IsFiniteSet(1 .. Len(q)) /\ Cardinality(1 .. Len(q)) = Len(q) /\ W \in SUBSET (1 .. Len(q))
  BY <1>1, IntervalCount
<1>3. IsFiniteSet(W) /\ Cardinality(W) \in Nat /\ Cardinality(W) <= Len(q)
  BY <1>2, FS_Subset, FS_CardinalityType
<1>4. Whole(q) = Cardinality(W)
  BY DEF Whole
<1>5. e \in Nat /\ IsFiniteSet(1 .. e) /\ Cardinality(1 .. e) = e
  BY <1>1, IntervalCount
<1>6. 1 .. e \in SUBSET W
  BY <1>1
<1>7. e <= Cardinality(W)
  BY <1>3, <1>5, <1>6, FS_Subset
<1>8. ASSUME NEW n \in 0 .. Len(q) PROVE Whole(SubSeq(q, 1, n)) <= Whole(q)
  <2>1. Len(SubSeq(q, 1, n)) = n /\ \A k \in 1 .. n : k \in 1 .. Len(q) /\ SubSeq(q, 1, n)[k] = q[k]
    BY PrefixFacts
  <2>2. {k \in 1 .. Len(SubSeq(q, 1, n)) : SubSeq(q, 1, n)[k].kind # "torn"} \in SUBSET W
    BY <2>1
  <2> QED BY <1>3, <1>4, <2>2, FS_Subset DEF Whole
<1>9. Whole(SubSeq(q, 1, e)) = e
  <2>1. Len(SubSeq(q, 1, e)) = e /\ \A k \in 1 .. e : k \in 1 .. Len(q) /\ SubSeq(q, 1, e)[k] = q[k]
    BY <1>1, PrefixFacts
  <2>2. {k \in 1 .. Len(SubSeq(q, 1, e)) : SubSeq(q, 1, e)[k].kind # "torn"} = 1 .. e
    BY <1>1, <2>1
  <2> QED BY <1>5, <2>2 DEF Whole
<1> HIDE DEF W, e
<1>10. Whole(q) \in 0 .. Len(q)
  BY <1>1, <1>3, <1>4
<1> QED BY <1>4, <1>7, <1>8, <1>9, <1>10 DEF e

LEMMA WholeAppend ==
    ASSUME NEW q \in Seq(Items), NEW x \in Items
    PROVE  Whole(Append(q, x)) = IF x.kind # "torn" THEN Whole(q) + 1 ELSE Whole(q)
<1> DEFINE p == Append(q, x)
           R == {j \in 1 .. Len(q) : q[j].kind # "torn"}
           P == {j \in 1 .. Len(p) : p[j].kind # "torn"}
<1>1. /\ Len(q) \in Nat /\ Len(p) = Len(q) + 1 /\ p[Len(q) + 1] = x
      /\ \A k \in 1 .. Len(q) : p[k] = q[k]
  BY AppendFacts
<1>2. IsFiniteSet(1 .. Len(q)) /\ R \in SUBSET (1 .. Len(q))
  BY <1>1, IntervalCount
<1>3. IsFiniteSet(R)
  BY <1>2, FS_Subset
<1>4. CASE x.kind # "torn"
  <2>1. P = R \cup {Len(q) + 1}
    BY <1>1, <1>4
  <2>2. Len(q) + 1 \notin R
    BY <1>1
  <2>3. Cardinality(P) = Cardinality(R) + 1
    BY <1>3, <2>1, <2>2, FS_AddElement
  <2> QED BY <1>4, <2>3 DEF Whole
<1>5. CASE x.kind = "torn"
  <2>1. P = R
    BY <1>1, <1>5
  <2> QED BY <1>5, <2>1 DEF Whole
<1> QED BY <1>4, <1>5
-----------------------------------------------------------------------------
(* What a walk delivers.                                                   *)

Lsns(entries) == {r[1] : r \in entries}
OnePayload(entries) == \A r, q \in entries : r[1] = q[1] => r = q

LEMMA DeliveredFacts ==
    ASSUME NEW b \in Nat, NEW q \in Seq(Items), NEW k \in 0 .. Len(q)
    PROVE  /\ Delivered(b, q, k) \subseteq Nat \X Nat
           /\ OnePayload(Delivered(b, q, k))
           /\ Lsns(Delivered(b, q, k)) = b .. b + Records(q, k) - 1
<1> DEFINE R == {x \in 1 .. k : q[x].kind = "rec"}
           f == [x \in R |-> b + Records(q, x) - 1]
           D == Delivered(b, q, k)
           I == b .. b + Records(q, k) - 1
<1>1. k \in Nat /\ Len(q) \in Nat /\ Records(q, k) \in Nat
  BY RecordsFacts
<1>2. ASSUME NEW x \in R
      PROVE  x \in 1 .. Len(q) /\ q[x] \in Items /\ Records(q, x) \in Nat /\ Records(q, x) >= 1 /\ Records(q, x) <= Records(q, k)
  <2>1. x \in 1 .. Len(q) /\ x \in 0 .. Len(q) /\ x > 0 /\ q[x].kind = "rec"
    BY <1>1
  <2>2. Records(q, x) \in 0 .. x /\ Records(q, x) >= 1
    BY <2>1, RecordsFacts
  <2>3. Records(q, x) <= Records(q, k)
    BY <1>1, <2>1, RecordsFacts
  <2>4. q[x] \in Items
    BY <2>1
  <2> QED BY <2>1, <2>2, <2>3, <2>4
<1>3. D = {<<b + Records(q, x) - 1, q[x].id>> : x \in R}
  BY DEF Delivered
<1>4. D \subseteq Nat \X Nat
  <2>1. ASSUME NEW x \in R PROVE b + Records(q, x) - 1 \in Nat /\ q[x].id \in Nat
    BY <1>2, <2>1 DEF Items
  <2> QED BY <1>3, <2>1
<1>5. \A x, y \in R : f[x] = f[y] => x = y
  <2>1. ASSUME NEW x \in R, NEW y \in R, x < y PROVE Records(q, x) < Records(q, y)
    <3>1. y \in 0 .. Len(q) /\ x \in 0 .. y /\ q[y].kind = "rec"
      BY <1>1, <2>1
    <3> QED BY <2>1, <3>1, RecordsFacts
  <2>2. ASSUME NEW x \in R, NEW y \in R, f[x] = f[y] PROVE x = y
    <3>1. Records(q, x) = Records(q, y)
      <4>1. Records(q, x) \in Nat /\ Records(q, y) \in Nat
        BY <1>2
      <4>2. b + Records(q, x) - 1 = b + Records(q, y) - 1
        BY <2>2
      <4> QED BY <4>1, <4>2
    <3>2. x \in Nat /\ y \in Nat
      BY <1>1
    <3>3. Records(q, x) \in Nat /\ ~(x < y) /\ ~(y < x)
      BY <1>2, <2>1, <3>1
    <3> QED BY <3>2, <3>3
  <2> QED BY <2>2
<1>6. OnePayload(D)
  <2>1. ASSUME NEW r \in D, NEW s \in D, r[1] = s[1] PROVE r = s
    <3>1. PICK x \in R : r = <<b + Records(q, x) - 1, q[x].id>>
      BY <1>3
    <3>2. PICK y \in R : s = <<b + Records(q, y) - 1, q[y].id>>
      BY <1>3
    <3>3. f[x] = f[y]
      BY <2>1, <3>1, <3>2
    <3>4. x = y
      BY <1>5, <3>3
    <3> QED BY <3>1, <3>2, <3>4
  <2> QED BY <2>1 DEF OnePayload
<1>7. Lsns(D) = {f[x] : x \in R}
  <2>1. ASSUME NEW r \in D PROVE r[1] \in {f[x] : x \in R}
    <3>1. PICK x \in R : r = <<b + Records(q, x) - 1, q[x].id>>
      BY <1>3
    <3> QED BY <3>1
  <2>2. ASSUME NEW x \in R PROVE \E r \in D : f[x] = r[1]
    <3>1. <<b + Records(q, x) - 1, q[x].id>> \in D
      BY <1>3
    <3> QED BY <3>1
  <2> QED BY <2>1, <2>2 DEF Lsns
<1>8. {f[x] : x \in R} \subseteq I
  <2>1. ASSUME NEW x \in R PROVE f[x] \in I
    BY <1>1, <1>2, <2>1
  <2> QED BY <2>1
<1>9. IsFiniteSet(R) /\ Cardinality(R) = Records(q, k)
  <2>1. IsFiniteSet(1 .. k) /\ R \in SUBSET (1 .. k)
    BY <1>1, IntervalCount
  <2> QED BY <2>1, FS_Subset DEF Records
<1>10. IsFiniteSet(I) /\ Cardinality(I) = Records(q, k)
  BY <1>1, SpanCount
<1>11. f \in Injection(R, I)
  <2>1. f \in [R -> I]
    BY <1>8
  <2> QED BY <1>5, <2>1 DEF Injection, IsInjective
<1>12. f \in Surjection(R, I)
  BY <1>9, <1>10, <1>11, FS_Injection
<1>13. I \subseteq {f[x] : x \in R}
  BY <1>12 DEF Surjection
<1> QED BY <1>4, <1>6, <1>7, <1>8, <1>13

\* Delivering depends on the items that are walked only, and grows with them.
LEMMA DeliveredGrows ==
    ASSUME NEW b, NEW p, NEW q, NEW k \in Nat, NEW m \in Nat, k <= m,
           \A j \in 1 .. k : p[j] = q[j]
    PROVE  Delivered(b, p, k) \subseteq Delivered(b, q, m)
<1>1. ASSUME NEW j \in 1 .. k PROVE p[j] = q[j] /\ Records(p, j) = Records(q, j) /\ j \in 1 .. m
  <2>1. \A i \in 1 .. j : i \in 1 .. k
    OBVIOUS
  <2>2. \A i \in 1 .. j : p[i] = q[i]
    BY <2>1
  <2>3. Records(p, j) = Records(q, j)
    BY <2>2, RecordsSame
  <2> QED BY <2>3
<1>2. ASSUME NEW r \in Delivered(b, p, k) PROVE r \in Delivered(b, q, m)
  <2>1. PICK j \in {x \in 1 .. k : p[x].kind = "rec"} : r = <<b + Records(p, j) - 1, p[j].id>>
    BY <1>2 DEF Delivered
  <2>2. j \in {x \in 1 .. m : q[x].kind = "rec"} /\ r = <<b + Records(q, j) - 1, q[j].id>>
    BY <1>1, <2>1
  <2> QED BY <2>2 DEF Delivered
<1> QED BY <1>2

LEMMA CutFacts ==
    ASSUME NEW s \in Segment, NEW n \in 0 .. Len(s.items)
    PROVE  /\ s.items \in Seq(Items) /\ Len(s.items) \in Nat
           /\ Cut(s, n) \in Seq(Items) /\ Len(Cut(s, n)) = n
           /\ \A k \in 1 .. n : k \in 1 .. Len(s.items) /\ Cut(s, n)[k] = s.items[k]
           /\ CommittedEnd(Cut(s, n)) \in 0 .. n
<1>1. s.items \in Seq(Items) /\ Len(s.items) \in Nat
  BY DEF Segment
<1>2. /\ Cut(s, n) \in Seq(Items) /\ Len(Cut(s, n)) = n
      /\ \A k \in 1 .. n : k \in 1 .. Len(s.items) /\ Cut(s, n)[k] = s.items[k]
  BY <1>1, PrefixFacts DEF Cut
<1> QED BY <1>1, <1>2, EndFacts

\* A delivered record is one of the segment.
LEMMA DeliveredWithin ==
    ASSUME NEW s \in Segment, NEW n \in 0 .. Len(s.items), NEW e \in 0 .. n
    PROVE  /\ Delivered(s.base, Cut(s, n), e) \subseteq Nat \X Nat
           /\ OnePayload(Delivered(s.base, Cut(s, n), e))
           /\ Lsns(Delivered(s.base, Cut(s, n), e)) = s.base .. s.base + Records(s.items, e) - 1
           /\ Records(s.items, e) \in Nat /\ Records(s.items, e) <= Recs(s)
           /\ Delivered(s.base, Cut(s, n), e) \subseteq Delivered(s.base, s.items, Len(s.items))
<1>1. /\ s.items \in Seq(Items) /\ Len(s.items) \in Nat
      /\ Cut(s, n) \in Seq(Items) /\ Len(Cut(s, n)) = n
      /\ \A k \in 1 .. n : k \in 1 .. Len(s.items) /\ Cut(s, n)[k] = s.items[k]
  BY CutFacts
<1>2. s.base \in Nat
  BY DEF Segment
<1>3. \A j \in 1 .. e : j \in 1 .. n
  BY <1>1
<1>4. \A j \in 1 .. e : Cut(s, n)[j] = s.items[j]
  BY <1>1, <1>3
<1>5. Records(Cut(s, n), e) = Records(s.items, e)
  BY <1>4, RecordsSame
<1>6. /\ Delivered(s.base, Cut(s, n), e) \subseteq Nat \X Nat
      /\ OnePayload(Delivered(s.base, Cut(s, n), e))
      /\ Lsns(Delivered(s.base, Cut(s, n), e)) = s.base .. s.base + Records(Cut(s, n), e) - 1
  BY <1>1, <1>2, DeliveredFacts
<1>7. e \in 0 .. Len(s.items) /\ Len(s.items) \in 0 .. Len(s.items) /\ e \in Nat /\ e <= Len(s.items)
  BY <1>1
<1>8. Records(s.items, e) \in 0 .. e /\ Records(s.items, e) <= Records(s.items, Len(s.items))
  BY <1>1, <1>7, RecordsFacts
<1>9. Delivered(s.base, Cut(s, n), e) \subseteq Delivered(s.base, s.items, Len(s.items))
  BY <1>1, <1>4, <1>7, DeliveredGrows
<1> QED BY <1>5, <1>6, <1>7, <1>8, <1>9 DEF Recs

\* What was committed stays committed, and delivers the same.
LEMMA KeepsFacts ==
    ASSUME NEW s \in Segment, NEW n \in 0 .. Len(s.items),
           NEW t \in Segment, NEW m \in 0 .. Len(t.items), Keeps(s, n, t, m)
    PROVE  /\ CommittedEnd(Cut(s, n)) <= CommittedEnd(Cut(t, m))
           /\ Part(s, n) \subseteq Part(t, m)
           /\ \A e \in 0 .. CommittedEnd(Cut(s, n)) :
                Delivered(s.base, Cut(s, n), e) \subseteq Delivered(t.base, Cut(t, m), e)
<1> DEFINE c == CommittedEnd(Cut(s, n))
           d == CommittedEnd(Cut(t, m))
<1>1. /\ Cut(s, n) \in Seq(Items) /\ Len(Cut(s, n)) = n /\ c \in 0 .. n
      /\ \A k \in 1 .. n : Cut(s, n)[k] = s.items[k]
  BY CutFacts
<1>2. /\ Cut(t, m) \in Seq(Items) /\ Len(Cut(t, m)) = m /\ d \in 0 .. m
      /\ \A k \in 1 .. m : Cut(t, m)[k] = t.items[k]
  BY CutFacts
<1>3. t.base = s.base /\ c <= m /\ \A j \in 1 .. c : t.items[j] = s.items[j]
  BY DEF Keeps
<1>4. n \in Nat /\ m \in Nat /\ c \in Nat /\ d \in Nat
  BY <1>1, <1>2, CutFacts
<1>5. \A j \in 1 .. c : Cut(s, n)[j] = Cut(t, m)[j] /\ j \in 1 .. m /\ j \in 1 .. n
  BY <1>1, <1>2, <1>3, <1>4
<1>6. c <= d
  <2>1. CASE c = 0
    BY <1>4, <2>1
  <2>2. CASE c # 0
    <3>1. Cut(s, n)[c].kind = "frame" /\ \A j \in 1 .. c : Cut(s, n)[j].kind # "torn"
      BY <1>1, <2>2, EndFacts
    <3>2. c \in 1 .. c /\ c \in 1 .. m
      BY <1>3, <1>4, <2>2
    <3>3. Cut(t, m)[c].kind = "frame" /\ \A j \in 1 .. c : Cut(t, m)[j].kind # "torn"
      BY <1>5, <3>1, <3>2
    <3> QED BY <1>2, <3>2, <3>3, EndFacts
  <2> QED BY <2>1, <2>2
<1>7. Part(s, n) \subseteq Part(t, m)
  BY <1>3, <1>4, <1>5, <1>6, DeliveredGrows DEF Part
<1>8. ASSUME NEW e \in 0 .. c PROVE Delivered(s.base, Cut(s, n), e) \subseteq Delivered(t.base, Cut(t, m), e)
  <2>1. e \in Nat /\ e <= e /\ \A j \in 1 .. e : j \in 1 .. c
    BY <1>4
  <2>2. \A j \in 1 .. e : Cut(s, n)[j] = Cut(t, m)[j]
    BY <1>5, <2>1
  <2> QED BY <1>3, <2>1, <2>2, DeliveredGrows
<1> QED BY <1>6, <1>7, <1>8

\* A segment that only grows at its end keeps what was committed, however far
\* it is cut.
LEMMA KeepsLonger ==
    ASSUME NEW s \in Segment, NEW n \in 0 .. Len(s.items),
           NEW t \in Segment, NEW m \in 0 .. Len(t.items), n <= m, t.base = s.base,
           \A j \in 1 .. n : t.items[j] = s.items[j]
    PROVE  Keeps(s, n, t, m)
<1>1. CommittedEnd(Cut(s, n)) \in 0 .. n /\ n \in Nat /\ m \in Nat
  BY CutFacts
<1>2. \A j \in 1 .. CommittedEnd(Cut(s, n)) : j \in 1 .. n
  BY <1>1
<1> QED BY <1>1, <1>2 DEF Keeps
-----------------------------------------------------------------------------
(* Chains of segments.                                                     *)

AllOf(s) == Delivered(s.base, s.items, Len(s.items))
AllView(S) == UNION {AllOf(S[k]) : k \in 1 .. Len(S)}

LEMMA AllFacts ==
    ASSUME NEW s \in Segment
    PROVE  /\ AllOf(s) \subseteq Nat \X Nat /\ OnePayload(AllOf(s))
           /\ Lsns(AllOf(s)) = s.base .. s.base + Recs(s) - 1
           /\ s.base \in Nat /\ Recs(s) \in Nat
<1>1. s.base \in Nat /\ s.items \in Seq(Items) /\ Len(s.items) \in 0 .. Len(s.items) /\ Len(s.items) \in Nat
  BY DEF Segment
<1>2. Records(s.items, Len(s.items)) \in 0 .. Len(s.items)
  BY <1>1, RecordsFacts
<1> QED BY <1>1, <1>2, DeliveredFacts DEF AllOf, Recs

\* No LSN stands for two payloads anywhere in a chain.
LEMMA ChainOnePayload ==
    ASSUME NEW S \in Seq(Segment), Chained(S)
    PROVE  OnePayload(AllView(S)) /\ AllView(S) \subseteq Nat \X Nat
<1>1. ASSUME NEW i \in 1 .. Len(S), NEW r \in AllOf(S[i])
      PROVE  r \in Nat \X Nat /\ S[i] \in Segment /\ r[1] \in S[i].base .. S[i].base + Recs(S[i]) - 1
  <2>1. S[i] \in Segment
    OBVIOUS
  <2>2. r \in Nat \X Nat /\ r[1] \in Lsns(AllOf(S[i]))
    BY <1>1, <2>1, AllFacts DEF Lsns
  <2> QED BY <2>1, <2>2, AllFacts
<1>2. ASSUME NEW i \in 1 .. Len(S), NEW j \in 1 .. Len(S), i < j,
             NEW r \in AllOf(S[i]), NEW q \in AllOf(S[j])
      PROVE  r[1] < q[1]
  <2>1. S[i].base + Recs(S[i]) <= S[j].base
    BY <1>2 DEF Chained
  <2>2. /\ r[1] \in S[i].base .. S[i].base + Recs(S[i]) - 1 /\ S[i] \in Segment
        /\ q[1] \in S[j].base .. S[j].base + Recs(S[j]) - 1 /\ S[j] \in Segment
    BY <1>1
  <2>3. S[i].base \in Nat /\ Recs(S[i]) \in Nat /\ S[j].base \in Nat /\ Recs(S[j]) \in Nat
    BY <2>2, AllFacts
  <2> QED BY <2>1, <2>2, <2>3, SpansApart
<1>3. ASSUME NEW r \in AllView(S), NEW q \in AllView(S), r[1] = q[1] PROVE r = q
  <2>1. PICK i \in 1 .. Len(S) : r \in AllOf(S[i])
    BY DEF AllView
  <2>2. PICK j \in 1 .. Len(S) : q \in AllOf(S[j])
    BY DEF AllView
  <2>3. r[1] \in Nat
    BY <1>1, <2>1
  <2>4. i = j
    <3>1. i \in Nat /\ j \in Nat
      OBVIOUS
    <3>2. ~(i < j) /\ ~(j < i)
      BY <1>2, <1>3, <2>1, <2>2, <2>3
    <3> QED BY <3>1, <3>2
  <2>5. OnePayload(AllOf(S[i]))
    BY <1>1, <2>1, AllFacts
  <2> QED BY <1>3, <2>1, <2>2, <2>4, <2>5 DEF OnePayload
<1>4. AllView(S) \subseteq Nat \X Nat
  BY <1>1 DEF AllView
<1> QED BY <1>3, <1>4 DEF OnePayload

\* A chain may lose segments at its end, and its last segment may change.
LEMMA ChainCut ==
    ASSUME NEW S \in Seq(Segment), Chained(S), NEW T \in Seq(Segment), Len(T) <= Len(S),
           \A k \in 1 .. Len(T) : T[k].base = S[k].base /\ Fits(T[k]),
           \A k \in 1 .. Len(T) - 1 : T[k].items = S[k].items /\ Full(T[k])
    PROVE  Chained(T)
<1>1. Len(S) \in Nat /\ Len(T) \in Nat
  OBVIOUS
<1>2. \A k \in 1 .. Len(T) - 1 : /\ k \in 1 .. Len(T) /\ k + 1 \in 1 .. Len(T)
                                 /\ k \in 1 .. Len(S) - 1 /\ Recs(T[k]) = Recs(S[k])
  BY <1>1 DEF Recs
<1>3. \A k \in 1 .. Len(T) : k \in 1 .. Len(S)
  BY <1>1
<1>4. \A k \in 1 .. Len(T) - 1 : Full(T[k]) /\ T[k + 1].base = T[k].base + Recs(T[k])
  BY <1>2 DEF Chained
<1>5. Len(T) > 0 => T[1].base = 0
  <2>1. Len(T) > 0 => 1 \in 1 .. Len(T) /\ Len(S) > 0
    BY <1>1
  <2> QED BY <2>1 DEF Chained
<1>6. ASSUME NEW i \in 1 .. Len(T), NEW j \in 1 .. Len(T), i < j PROVE T[i].base + Recs(T[i]) <= T[j].base
  <2>1. i \in 1 .. Len(T) - 1 /\ i \in 1 .. Len(S) /\ j \in 1 .. Len(S)
    BY <1>1, <1>6
  <2>2. S[i].base + Recs(S[i]) <= S[j].base
    BY <1>6, <2>1 DEF Chained
  <2> QED BY <1>2, <2>1, <2>2
<1>7. ASSUME Len(T) > 0, NEW l \in 0 .. T[Len(T)].base - 1
      PROVE  \E k \in 1 .. Len(T) - 1 : T[k].base <= l /\ l < T[k + 1].base
  <2>1. Len(T) \in 1 .. Len(T) /\ Len(S) \in 1 .. Len(S) /\ Len(T) \in 1 .. Len(S)
    BY <1>1, <1>7
  <2>2. T[Len(T)].base = S[Len(T)].base
    BY <2>1
  <2>3. ASSUME NEW k \in 1 .. Len(S) PROVE S[k].base \in Nat /\ Recs(S[k]) \in Nat
    <3>1. S[k] \in Segment
      OBVIOUS
    <3> QED BY <3>1, AllFacts
  <2>4. S[Len(T)].base <= S[Len(S)].base
    <3>1. CASE Len(T) = Len(S)
      BY <2>1, <2>3, <3>1
    <3>2. CASE Len(T) < Len(S)
      <4>1. S[Len(T)].base + Recs(S[Len(T)]) <= S[Len(S)].base
        BY <2>1, <3>2 DEF Chained
      <4> QED BY <2>1, <2>3, <4>1
    <3> QED BY <1>1, <3>1, <3>2
  <2>5. l \in 0 .. S[Len(S)].base - 1
    BY <1>7, <2>1, <2>2, <2>3, <2>4
  <2>6. PICK k \in 1 .. Len(S) - 1 : S[k].base <= l /\ l < S[k + 1].base
    BY <1>1, <1>7, <2>1, <2>5 DEF Chained
  <2>7. k < Len(T)
    <3>1. SUFFICES ASSUME Len(T) <= k PROVE FALSE
      BY <1>1
    <3>2. k \in 1 .. Len(S)
      BY <1>1
    <3>3. S[Len(T)].base <= S[k].base
      <4>1. CASE Len(T) = k
        BY <2>1, <2>3, <4>1
      <4>2. CASE Len(T) < k
        <5>1. S[Len(T)].base + Recs(S[Len(T)]) <= S[k].base
          BY <2>1, <3>2, <4>2 DEF Chained
        <5> QED BY <2>1, <2>3, <3>2, <5>1
      <4> QED BY <1>1, <3>1, <4>1, <4>2
    <3>4. S[k].base \in Nat /\ S[Len(T)].base \in Nat
      BY <2>1, <2>3, <3>2
    <3> QED BY <1>7, <2>2, <2>6, <3>3, <3>4
  <2>8. k \in 1 .. Len(T) - 1 /\ k \in 1 .. Len(T) /\ k + 1 \in 1 .. Len(T)
    BY <1>1, <2>7
  <2>9. T[k].base = S[k].base /\ T[k + 1].base = S[k + 1].base
    BY <2>8
  <2> QED BY <2>6, <2>8, <2>9
<1> QED BY <1>4, <1>5, <1>6, <1>7 DEF Chained

\* aof_rotate: a chain whose last segment is on the disk grows by a segment
\* that is named after the next LSN.
LEMMA ChainAppend ==
    ASSUME NEW S \in Seq(Segment), Chained(S), Len(S) > 0, Full(S[Len(S)]),
           NEW t \in Segment, Fits(t), t.base = S[Len(S)].base + Recs(S[Len(S)])
    PROVE  Append(S, t) \in Seq(Segment) /\ Chained(Append(S, t))
<1> DEFINE T == Append(S, t)
           n == Len(S)
<1>1. /\ T \in Seq(Segment) /\ Len(T) = n + 1 /\ T[n + 1] = t /\ n \in Nat
      /\ \A k \in 1 .. n : T[k] = S[k]
      /\ \A k \in 1 .. n + 1 : k \in 1 .. n \/ k = n + 1
  BY AppendFacts
<1>2. ASSUME NEW k \in 1 .. n PROVE S[k].base \in Nat /\ Recs(S[k]) \in Nat
  <2>1. S[k] \in Segment
    OBVIOUS
  <2> QED BY <2>1, AllFacts
<1>3. n \in 1 .. n
  BY <1>1
<1>4. \A k \in 1 .. n + 1 : Fits(T[k])
  BY <1>1 DEF Chained
<1>5. ASSUME NEW k \in 1 .. n PROVE Full(T[k]) /\ T[k + 1].base = T[k].base + Recs(T[k])
  <2>1. CASE k = n
    BY <1>1, <1>3, <2>1
  <2>2. CASE k \in 1 .. n - 1
    <3>1. k + 1 \in 1 .. n
      BY <1>1, <2>2
    <3> QED BY <1>1, <2>2, <3>1 DEF Chained
  <2> QED BY <1>1, <2>1, <2>2
<1>6. T[1].base = 0
  <2>1. 1 \in 1 .. n
    BY <1>1
  <2> QED BY <1>1, <2>1 DEF Chained
<1>7. ASSUME NEW i \in 1 .. n + 1, NEW j \in 1 .. n + 1, i < j PROVE T[i].base + Recs(T[i]) <= T[j].base
  <2>1. i \in 1 .. n
    BY <1>1, <1>7
  <2>2. CASE j \in 1 .. n
    BY <1>1, <1>7, <2>1, <2>2 DEF Chained
  <2>3. CASE j = n + 1 /\ i = n
    BY <1>1, <1>2, <2>1, <2>3
  <2>4. CASE j = n + 1 /\ i < n
    <3>1. S[i].base + Recs(S[i]) <= S[n].base
      BY <1>3, <2>1, <2>4 DEF Chained
    <3> QED BY <1>1, <1>2, <1>3, <2>1, <2>4, <3>1
  <2> QED BY <1>1, <2>1, <2>2, <2>3, <2>4
<1>8. ASSUME NEW l \in 0 .. t.base - 1 PROVE \E k \in 1 .. n : T[k].base <= l /\ l < T[k + 1].base
  <2>1. CASE l < S[n].base
    <3>1. l \in 0 .. S[n].base - 1
      BY <1>2, <1>3, <2>1
    <3>2. PICK k \in 1 .. n - 1 : S[k].base <= l /\ l < S[k + 1].base
      BY <3>1 DEF Chained
    <3>3. k \in 1 .. n /\ k + 1 \in 1 .. n
      BY <1>1
    <3> QED BY <1>1, <3>2, <3>3
  <2>2. CASE S[n].base <= l
    <3>1. l < t.base
      BY <1>2, <1>3
    <3>2. T[n] = S[n] /\ T[n + 1] = t
      BY <1>1, <1>3
    <3> QED BY <1>3, <2>2, <3>1, <3>2
  <2>3. t.base \in Nat /\ S[n].base \in Nat
    BY <1>2, <1>3 DEF Segment
  <2>4. l \in Nat
    BY <2>3
  <2>5. l < S[n].base \/ S[n].base <= l
    BY <2>3, <2>4
  <2> QED BY <2>1, <2>2, <2>5
<1>9. n + 1 - 1 = n
  BY <1>1
<1> HIDE DEF T
<1>10. Chained(T)
  BY <1>1, <1>4, <1>5, <1>6, <1>7, <1>8, <1>9 DEF Chained
<1> QED BY <1>1, <1>10 DEF T
-----------------------------------------------------------------------------
(* Steps of one segment.                                                   *)

\* s becomes t and keeps what was committed in the page cache and on the disk.
Step(s, t) ==
    /\ t \in Segment /\ Fits(t) /\ t.base = s.base
    /\ Keeps(s, s.vis, t, t.vis) /\ Keeps(s, s.dur, t, t.dur)
    /\ s.entry => t.entry

LEMMA FitsFacts ==
    ASSUME NEW s \in Segment, Fits(s)
    PROVE  /\ s.base \in Nat /\ s.items \in Seq(Items) /\ Len(s.items) \in Nat /\ s.entry \in BOOLEAN
           /\ s.vis \in 0 .. Len(s.items) /\ s.dur \in 0 .. Len(s.items) /\ s.dur <= s.vis
           /\ Whole(s.items) \in Nat
<1>1. s.base \in Nat /\ s.items \in Seq(Items) /\ s.vis \in Nat /\ s.dur \in Nat /\ s.entry \in BOOLEAN
  BY DEF Segment
<1>2. Len(s.items) \in Nat /\ Whole(s.items) \in 0 .. Len(s.items)
  BY <1>1, WholeFacts
<1> QED BY <1>1, <1>2 DEF Fits

LEMMA StepSame ==
    ASSUME NEW s \in Segment, Fits(s)
    PROVE  Step(s, s)
<1>1. s.vis \in 0 .. Len(s.items) /\ s.dur \in 0 .. Len(s.items) /\ Len(s.items) \in Nat
  BY FitsFacts
<1>2. Keeps(s, s.vis, s, s.vis) /\ Keeps(s, s.dur, s, s.dur)
  BY <1>1, KeepsLonger
<1> QED BY <1>2 DEF Step

\* The cursors move on, items are added.
LEMMA StepLonger ==
    ASSUME NEW s \in Segment, Fits(s), NEW t \in Segment, Fits(t), t.base = s.base,
           s.vis <= t.vis, s.dur <= t.dur, Len(s.items) <= Len(t.items), s.entry => t.entry,
           \A j \in 1 .. Len(s.items) : t.items[j] = s.items[j]
    PROVE  Step(s, t)
<1>1. s.vis \in 0 .. Len(s.items) /\ s.dur \in 0 .. Len(s.items) /\ Len(s.items) \in Nat
  BY FitsFacts
<1>2. t.vis \in 0 .. Len(t.items) /\ t.dur \in 0 .. Len(t.items) /\ Len(t.items) \in Nat
  BY FitsFacts
<1>3. (\A j \in 1 .. s.vis : j \in 1 .. Len(s.items)) /\ (\A j \in 1 .. s.dur : j \in 1 .. Len(s.items))
  BY <1>1
<1>4. Keeps(s, s.vis, t, t.vis)
  BY <1>1, <1>2, <1>3, KeepsLonger
<1>5. Keeps(s, s.dur, t, t.dur)
  BY <1>1, <1>2, <1>3, KeepsLonger
<1> QED BY <1>4, <1>5 DEF Step

LEMMA StepAppend ==
    ASSUME NEW s \in Segment, Fits(s), NEW x \in Items,
           x.kind # "torn" => Whole(s.items) + 1 <= SegLimit + 1
    PROVE  LET t == [s EXCEPT !.items = Append(@, x)]
           IN  /\ Step(s, t) /\ t.items = Append(s.items, x) /\ Len(t.items) = Len(s.items) + 1
               /\ t.vis = s.vis /\ t.dur = s.dur /\ t.entry = s.entry
               /\ Recs(t) = IF x.kind = "rec" THEN Recs(s) + 1 ELSE Recs(s)
               /\ Whole(t.items) = IF x.kind # "torn" THEN Whole(s.items) + 1 ELSE Whole(s.items)
<1> DEFINE t == [s EXCEPT !.items = Append(@, x)]
<1>1. /\ s.base \in Nat /\ s.items \in Seq(Items) /\ Len(s.items) \in Nat /\ s.entry \in BOOLEAN
      /\ s.vis \in 0 .. Len(s.items) /\ s.dur \in 0 .. Len(s.items) /\ s.dur <= s.vis
      /\ Whole(s.items) \in Nat
  BY FitsFacts
<1>2. /\ Append(s.items, x) \in Seq(Items) /\ Len(Append(s.items, x)) = Len(s.items) + 1
      /\ \A k \in 1 .. Len(s.items) : Append(s.items, x)[k] = s.items[k]
  BY <1>1, AppendFacts
<1>3. t = [base |-> s.base, items |-> Append(s.items, x), vis |-> s.vis, dur |-> s.dur, entry |-> s.entry]
  <2>1. s = [base |-> s.base, items |-> s.items, vis |-> s.vis, dur |-> s.dur, entry |-> s.entry]
    BY DEF Segment
  <2> QED BY <2>1
<1>4. /\ t.base = s.base /\ t.items = Append(s.items, x) /\ t.vis = s.vis /\ t.dur = s.dur
      /\ t.entry = s.entry
  BY <1>3
<1>5. t \in Segment
  BY <1>1, <1>2, <1>3 DEF Segment
<1>6. Whole(t.items) = IF x.kind # "torn" THEN Whole(s.items) + 1 ELSE Whole(s.items)
  BY <1>1, <1>4, WholeAppend
<1>7. Recs(t) = IF x.kind = "rec" THEN Recs(s) + 1 ELSE Recs(s)
  BY <1>1, <1>4, RecordsAppend DEF Recs
<1> HIDE DEF t
<1>8. Fits(t)
  <2>1. Whole(t.items) <= SegLimit + 1
    BY <1>6 DEF Fits
  <2> QED BY <1>1, <1>2, <1>4, <2>1 DEF Fits
<1>9. Step(s, t)
  BY <1>1, <1>2, <1>4, <1>5, <1>8, StepLonger
<1> QED BY <1>2, <1>4, <1>6, <1>7, <1>9 DEF t

LEMMA StepVis ==
    ASSUME NEW s \in Segment, Fits(s), NEW v \in s.vis .. Len(s.items)
    PROVE  LET t == [s EXCEPT !.vis = v]
           IN  /\ Step(s, t) /\ t.items = s.items /\ t.vis = v /\ t.dur = s.dur /\ t.entry = s.entry
<1> DEFINE t == [s EXCEPT !.vis = v]
<1>1. /\ s.base \in Nat /\ s.items \in Seq(Items) /\ Len(s.items) \in Nat /\ s.entry \in BOOLEAN
      /\ s.vis \in 0 .. Len(s.items) /\ s.dur \in 0 .. Len(s.items) /\ s.dur <= s.vis
  BY FitsFacts
<1>2. t = [base |-> s.base, items |-> s.items, vis |-> v, dur |-> s.dur, entry |-> s.entry]
  BY DEF Segment
<1>3. t.base = s.base /\ t.items = s.items /\ t.vis = v /\ t.dur = s.dur /\ t.entry = s.entry
  BY <1>2
<1>4. v \in Nat
  BY <1>1
<1>5. t \in Segment
  BY <1>1, <1>2, <1>4 DEF Segment
<1> HIDE DEF t
<1>6. Fits(t)
  BY <1>1, <1>3, <1>4 DEF Fits
<1>7. Step(s, t)
  BY <1>1, <1>3, <1>4, <1>5, <1>6, StepLonger
<1> QED BY <1>3, <1>7 DEF t

LEMMA StepDur ==
    ASSUME NEW s \in Segment, Fits(s)
    PROVE  LET t == [s EXCEPT !.dur = s.vis]
           IN  /\ Step(s, t) /\ t.items = s.items /\ t.vis = s.vis /\ t.dur = s.vis /\ t.entry = s.entry
<1> DEFINE t == [s EXCEPT !.dur = s.vis]
<1>1. /\ s.base \in Nat /\ s.items \in Seq(Items) /\ Len(s.items) \in Nat /\ s.entry \in BOOLEAN
      /\ s.vis \in 0 .. Len(s.items) /\ s.dur \in 0 .. Len(s.items) /\ s.dur <= s.vis
  BY FitsFacts
<1>2. t = [base |-> s.base, items |-> s.items, vis |-> s.vis, dur |-> s.vis, entry |-> s.entry]
  BY DEF Segment
<1>3. t.base = s.base /\ t.items = s.items /\ t.vis = s.vis /\ t.dur = s.vis /\ t.entry = s.entry
  BY <1>2
<1>4. t \in Segment
  BY <1>1, <1>2 DEF Segment
<1> HIDE DEF t
<1>5. Fits(t)
  BY <1>1, <1>3 DEF Fits
<1>6. Step(s, t)
  BY <1>1, <1>3, <1>4, <1>5, StepLonger
<1> QED BY <1>3, <1>6 DEF t

LEMMA WithEntry ==
    ASSUME NEW s \in Segment, NEW e \in BOOLEAN
    PROVE  [s EXCEPT !.entry = e] =
              [base |-> s.base, items |-> s.items, vis |-> s.vis, dur |-> s.dur, entry |-> e]
BY DEF Segment

LEMMA StepEntry ==
    ASSUME NEW s \in Segment, Fits(s)
    PROVE  LET t == [s EXCEPT !.entry = TRUE]
           IN  /\ Step(s, t) /\ t.items = s.items /\ t.vis = s.vis /\ t.dur = s.dur /\ t.entry
<1> DEFINE t == [s EXCEPT !.entry = TRUE]
<1>1. /\ s.base \in Nat /\ s.items \in Seq(Items) /\ Len(s.items) \in Nat /\ s.entry \in BOOLEAN
      /\ s.vis \in 0 .. Len(s.items) /\ s.dur \in 0 .. Len(s.items) /\ s.dur <= s.vis
  BY FitsFacts
<1>2. t = [base |-> s.base, items |-> s.items, vis |-> s.vis, dur |-> s.dur, entry |-> TRUE]
  BY WithEntry
<1>3. t.base = s.base /\ t.items = s.items /\ t.vis = s.vis /\ t.dur = s.dur /\ t.entry
  BY <1>2
<1>4. t \in Segment
  BY <1>1, <1>2 DEF Segment
<1> HIDE DEF t
<1>5. Fits(t)
  BY <1>1, <1>3 DEF Fits
<1>6. Step(s, t)
  BY <1>1, <1>3, <1>4, <1>5, StepLonger
<1> QED BY <1>3, <1>6 DEF t

\* A crash, or recovery: the items behind k are gone.
LEMMA CutToFacts ==
    ASSUME NEW s \in Segment, Fits(s), NEW k \in 0 .. Len(s.items)
    PROVE  LET t == CutTo(s, k)
           IN  /\ t \in Segment /\ Fits(t) /\ t.base = s.base /\ t.entry = s.entry
               /\ t.items = SubSeq(s.items, 1, k) /\ Len(t.items) = k /\ t.vis = k
               /\ t.dur = IF s.dur <= k THEN s.dur ELSE k
               /\ \A j \in 1 .. k : j \in 1 .. Len(s.items) /\ t.items[j] = s.items[j]
<1> DEFINE t == CutTo(s, k)
           d == IF s.dur <= k THEN s.dur ELSE k
<1>1. /\ s.base \in Nat /\ s.items \in Seq(Items) /\ Len(s.items) \in Nat /\ s.entry \in BOOLEAN
      /\ s.vis \in 0 .. Len(s.items) /\ s.dur \in 0 .. Len(s.items) /\ s.dur <= s.vis
      /\ Whole(s.items) \in Nat
  BY FitsFacts
<1>2. /\ SubSeq(s.items, 1, k) \in Seq(Items) /\ Len(SubSeq(s.items, 1, k)) = k
      /\ \A j \in 1 .. k : j \in 1 .. Len(s.items) /\ SubSeq(s.items, 1, k)[j] = s.items[j]
  BY <1>1, PrefixFacts
<1>4. k \in Nat /\ d \in Nat /\ d <= k
  BY <1>1
<1>3. t = [base |-> s.base, items |-> SubSeq(s.items, 1, k), vis |-> k, dur |-> d, entry |-> s.entry]
  <2> DEFINE q == SubSeq(s.items, 1, k)
  <2>1. t = [s EXCEPT !.items = q, !.vis = k, !.dur = d]
    BY Zenon DEF CutTo
  <2>2. q \in Seq(Items)
    BY <1>2
  <2>3. k \in Nat
    BY <1>4
  <2>4. d \in Nat
    BY <1>4
  <2> HIDE DEF d, t, q
  <2> DEFINE a == [s EXCEPT !.items = q]
             b == [a EXCEPT !.vis = k]
             c == [b EXCEPT !.dur = d]
  <2>5. a = [base |-> s.base, items |-> q, vis |-> s.vis, dur |-> s.dur, entry |-> s.entry] /\ a \in Segment
    BY <2>2 DEF Segment
  <2>6. b = [base |-> s.base, items |-> q, vis |-> k, dur |-> s.dur, entry |-> s.entry] /\ b \in Segment
    <3> HIDE DEF a
    <3>1. b = [base |-> a.base, items |-> a.items, vis |-> k, dur |-> a.dur, entry |-> a.entry] /\ b \in Segment
      BY <2>3, <2>5 DEF Segment
    <3> QED BY <2>5, <3>1
  <2>7. c = [base |-> s.base, items |-> q, vis |-> k, dur |-> d, entry |-> s.entry]
    <3> HIDE DEF a, b
    <3>1. c = [base |-> b.base, items |-> b.items, vis |-> b.vis, dur |-> d, entry |-> b.entry]
      BY <2>4, <2>6 DEF Segment
    <3> QED BY <2>6, <3>1
  <2> QED BY <2>1, <2>7, Zenon DEF q
<1>5. t.base = s.base /\ t.items = SubSeq(s.items, 1, k) /\ t.vis = k /\ t.dur = d /\ t.entry = s.entry
  BY <1>3
<1>6. t \in Segment
  <2> HIDE DEF d, t
  <2> QED BY <1>1, <1>2, <1>3, <1>4 DEF Segment
<1>7. Whole(t.items) <= SegLimit + 1
  <2>1. Whole(t.items) <= Whole(s.items) /\ t.items \in Seq(Items)
    BY <1>1, <1>2, <1>5, WholeFacts
  <2>2. Whole(t.items) \in 0 .. Len(t.items) /\ Len(t.items) \in Nat
    BY <2>1, WholeFacts
  <2>3. Whole(s.items) <= SegLimit + 1 /\ SegLimit \in Nat
    BY AofAssumption DEF Fits
  <2> HIDE DEF d, t
  <2> QED BY <1>1, <2>1, <2>2, <2>3
<1> HIDE DEF d, t
<1>8. Fits(t)
  BY <1>2, <1>4, <1>5, <1>7 DEF Fits
<1> QED BY <1>2, <1>5, <1>6, <1>8 DEF d, t

\* Cutting behind what was committed in the page cache keeps it.
LEMMA StepCut ==
    ASSUME NEW s \in Segment, Fits(s), NEW k \in 0 .. Len(s.items),
           CommittedEnd(Cut(s, s.vis)) <= k
    PROVE  Step(s, CutTo(s, k))
<1> DEFINE t == CutTo(s, k)
           c == CommittedEnd(Cut(s, s.vis))
           d == CommittedEnd(Cut(s, s.dur))
<1>1. /\ s.vis \in 0 .. Len(s.items) /\ s.dur \in 0 .. Len(s.items) /\ s.dur <= s.vis
      /\ Len(s.items) \in Nat
  BY FitsFacts
<1>2. /\ t \in Segment /\ Fits(t) /\ t.base = s.base /\ t.entry = s.entry /\ Len(t.items) = k
      /\ t.vis = k /\ t.dur = IF s.dur <= k THEN s.dur ELSE k
      /\ \A j \in 1 .. k : j \in 1 .. Len(s.items) /\ t.items[j] = s.items[j]
  BY CutToFacts
<1>3. c \in 0 .. s.vis /\ d \in 0 .. s.dur
  BY <1>1, CutFacts
<1>4. d <= c
  <2>1. Keeps(s, s.dur, s, s.vis)
    BY <1>1, KeepsLonger
  <2> QED BY <1>1, <2>1, KeepsFacts
<1> HIDE DEF t, c, d
<1>5. k \in Nat /\ c \in Nat /\ d \in Nat /\ c <= k /\ d <= k /\ d <= t.dur
  BY <1>1, <1>2, <1>3, <1>4 DEF c
<1>6. (\A j \in 1 .. c : t.items[j] = s.items[j]) /\ (\A j \in 1 .. d : t.items[j] = s.items[j])
  <2>1. \A j \in 1 .. c : j \in 1 .. k
    BY <1>5
  <2>2. \A j \in 1 .. d : j \in 1 .. k
    BY <1>5
  <2> QED BY <1>2, <2>1, <2>2
<1>7. Keeps(s, s.vis, t, t.vis) /\ Keeps(s, s.dur, t, t.dur)
  BY <1>2, <1>5, <1>6 DEF Keeps, c, d
<1> QED BY <1>2, <1>7 DEF Step, t
-----------------------------------------------------------------------------
(* Steps of the directory.                                                 *)

\* T is a later state of the files S, short of a power loss: no file is gone,
\* nothing that was committed is, and sealed segments do not change.
Later(S, T) ==
    /\ T \in Seq(Segment) /\ Chained(T) /\ Len(S) <= Len(T)
    /\ \A k \in 1 .. Len(S) : Step(S[k], T[k])
    /\ \A k \in 1 .. Len(S) - 1 : T[k].items = S[k].items

LEMMA LaterSame ==
    ASSUME NEW S \in Seq(Segment), Chained(S)
    PROVE  Later(S, S)
<1>1. ASSUME NEW k \in 1 .. Len(S) PROVE Step(S[k], S[k])
  <2>1. S[k] \in Segment /\ Fits(S[k])
    BY DEF Chained
  <2> QED BY <2>1, StepSame
<1>2. Len(S) \in Nat
  OBVIOUS
<1> QED BY <1>1, <1>2 DEF Later

\* A step of the last segment.
LEMMA LaterActive ==
    ASSUME NEW S \in Seq(Segment), Chained(S), Len(S) > 0, NEW t, Step(S[Len(S)], t)
    PROVE  LET T == [S EXCEPT ![Len(S)] = t]
           IN  /\ Later(S, T) /\ Len(T) = Len(S) /\ T[Len(T)] = t
               /\ \A k \in 1 .. Len(S) - 1 : T[k] = S[k]
<1> DEFINE n == Len(S)
           T == [S EXCEPT ![n] = t]
<1>1. n \in Nat /\ n \in 1 .. n /\ t \in Segment /\ Fits(t) /\ t.base = S[n].base
  BY DEF Step
<1>2. T \in Seq(Segment) /\ Len(T) = n /\ T[n] = t /\ \A k \in 1 .. n : k # n => T[k] = S[k]
  BY <1>1
<1> HIDE DEF T
<1>3. \A k \in 1 .. n - 1 : k \in 1 .. n /\ T[k] = S[k]
  BY <1>1, <1>2
<1>4. \A k \in 1 .. Len(T) : T[k].base = S[k].base /\ Fits(T[k])
  <2> TAKE k \in 1 .. Len(T)
  <2>1. CASE k = n
    BY <1>1, <1>2, <2>1
  <2>2. CASE k # n
    BY <1>2, <2>2 DEF Chained
  <2> QED BY <2>1, <2>2
<1>5. \A k \in 1 .. Len(T) - 1 : T[k].items = S[k].items /\ Full(T[k])
  BY <1>2, <1>3 DEF Chained
<1>6. Chained(T)
  BY <1>1, <1>2, <1>4, <1>5, ChainCut
<1>7. \A k \in 1 .. n : Step(S[k], T[k])
  <2> TAKE k \in 1 .. n
  <2>1. CASE k = n
    BY <1>2, <2>1
  <2>2. CASE k # n
    <3>1. S[k] \in Segment /\ Fits(S[k]) /\ T[k] = S[k]
      BY <1>2, <2>2 DEF Chained
    <3> QED BY <3>1, StepSame
  <2> QED BY <2>1, <2>2
<1>8. Later(S, T)
  BY <1>1, <1>2, <1>3, <1>6, <1>7 DEF Later
<1> QED BY <1>2, <1>3, <1>8 DEF T

LEMMA LaterAppend ==
    ASSUME NEW S \in Seq(Segment), Chained(S), Len(S) > 0, Full(S[Len(S)]),
           NEW t \in Segment, Fits(t), t.base = S[Len(S)].base + Recs(S[Len(S)])
    PROVE  Later(S, Append(S, t))
<1> DEFINE T == Append(S, t)
<1>1. T \in Seq(Segment) /\ Chained(T)
  BY ChainAppend
<1>2. Len(S) \in Nat /\ Len(T) = Len(S) + 1 /\ \A k \in 1 .. Len(S) : T[k] = S[k]
  BY AppendFacts
<1>3. \A k \in 1 .. Len(S) : Step(S[k], S[k])
  BY LaterSame DEF Later
<1> HIDE DEF T
<1>4. \A k \in 1 .. Len(S) : Step(S[k], T[k])
  BY <1>2, <1>3
<1>5. \A k \in 1 .. Len(S) - 1 : T[k].items = S[k].items
  BY <1>2
<1>6. Len(S) <= Len(T)
  BY <1>2
<1> QED BY <1>1, <1>4, <1>5, <1>6 DEF Later, T

\* The first m files are cut, each behind cut[k]; sealed files do not shrink.
LEMMA ChainCrash ==
    ASSUME NEW S \in Seq(Segment), Chained(S), NEW m \in 0 .. Len(S), NEW T,
           T \in Seq(Segment), Len(T) = m,
           \A k \in 1 .. m : Fits(T[k]) /\ T[k].base = S[k].base,
           \A k \in 1 .. m : Full(S[k]) => T[k].items = S[k].items /\ Full(T[k])
    PROVE  Chained(T)
<1>1. Len(S) \in Nat /\ m \in Nat /\ \A k \in 1 .. m - 1 : k \in 1 .. Len(S) - 1 /\ k \in 1 .. m
  OBVIOUS
<1>2. \A k \in 1 .. Len(T) - 1 : T[k].items = S[k].items /\ Full(T[k])
  BY <1>1 DEF Chained
<1> QED BY <1>1, <1>2, ChainCut

\* A file that is on the disk as a whole loses nothing when it is cut.
LEMMA CutToFull ==
    ASSUME NEW s \in Segment, Fits(s), NEW e \in BOOLEAN, NEW k, k = s.vis \/ k = s.dur
    PROVE  LET t == CutTo([s EXCEPT !.entry = e], k)
           IN  /\ t \in Segment /\ Fits(t) /\ t.base = s.base /\ t.entry = e
               /\ t.items = SubSeq(s.items, 1, k) /\ t.vis = k /\ Len(t.items) = k
               /\ t.dur = s.dur
               /\ Full(s) => t.items = s.items /\ Full(t)
<1> DEFINE u == [s EXCEPT !.entry = e]
           t == CutTo(u, k)
<1>1. /\ s.base \in Nat /\ s.items \in Seq(Items) /\ Len(s.items) \in Nat /\ s.entry \in BOOLEAN
      /\ s.vis \in 0 .. Len(s.items) /\ s.dur \in 0 .. Len(s.items) /\ s.dur <= s.vis
  BY FitsFacts
<1>2. u = [base |-> s.base, items |-> s.items, vis |-> s.vis, dur |-> s.dur, entry |-> e]
  BY WithEntry
<1>3. u.base = s.base /\ u.items = s.items /\ u.vis = s.vis /\ u.dur = s.dur /\ u.entry = e
  BY <1>2
<1>4. u \in Segment
  BY <1>1, <1>2 DEF Segment
<1> HIDE DEF u
<1>5. Fits(u) /\ k \in 0 .. Len(u.items)
  BY <1>1, <1>3 DEF Fits
<1>6. /\ t \in Segment /\ Fits(t) /\ t.base = u.base /\ t.entry = u.entry
      /\ t.items = SubSeq(u.items, 1, k) /\ Len(t.items) = k /\ t.vis = k
      /\ t.dur = IF u.dur <= k THEN u.dur ELSE k
  BY <1>4, <1>5, CutToFacts
<1> HIDE DEF t
<1>7. t.dur = s.dur
  BY <1>1, <1>3, <1>6
<1>8. ASSUME Full(s) PROVE t.items = s.items /\ Full(t)
  <2>1. k = Len(s.items)
    BY <1>8 DEF Full
  <2>2. t.items = s.items
    BY <1>1, <1>3, <1>6, <2>1, WholePrefix
  <2> QED BY <1>6, <1>7, <1>8, <2>1, <2>2 DEF Full
<1> QED BY <1>3, <1>6, <1>7, <1>8 DEF t, u
-----------------------------------------------------------------------------
(* The writer.                                                             *)

PCs == {"none", "idle", "o_dir", "write", "r_frame", "r_flush", "r_sync", "r_close", "r_open",
        "r_dir", "c_frame", "c_flush", "c_sync", "c_ok", "close"}
WithFile == {"o_dir", "write", "r_frame", "r_flush", "r_sync", "r_close", "r_dir",
             "c_frame", "c_flush", "c_sync", "c_ok"}
Framed == {"r_flush", "r_sync", "r_close", "r_open", "r_dir", "c_flush", "c_sync", "c_ok"}

WriterTypes ==
    /\ segs \in Seq(Segment)
    /\ pc \in PCs /\ fp \in BOOLEAN /\ dirty \in BOOLEAN
    /\ next \in Nat /\ bytes \in 0 .. SegLimit + 1
    /\ closing \in {"no", "ok", "err"}
    /\ nappends \in Nat
    /\ issued \subseteq Nat \X Nat /\ acked \subseteq Nat \X Nat

\* What the control point p of a handle with the fields f (fp), d (dirty),
\* b (seg_bytes) and l (next_lsn) says of the active segment s.
Sound(p, f, d, b, l, s) ==
    /\ p \in {"none", "r_open"} => ~f
    /\ p \in WithFile => f
    /\ p = "o_dir" => Len(s.items) = 0
    /\ p \in {"r_sync", "c_sync"} => s.vis = Len(s.items)
    /\ p \in {"r_close", "r_open"} => Full(s)
    /\ ~f => s.vis = Len(s.items)
    /\ f \/ p = "r_open" => l = s.base + Recs(s)
    /\ f => b = Whole(s.items)
    /\ d => b <= SegLimit
    /\ p = "write" => b = 0 \/ b + 1 <= SegLimit
    /\ p \in {"r_frame", "c_frame"} => d
    /\ p \in Framed => ~d
    /\ p = "r_dir" => b = 0

LogInv ==
    /\ WriterTypes
    /\ Chained(segs)
    /\ pc # "none" \/ fp => Len(segs) > 0
    /\ Len(segs) > 0 => Sound(pc, fp, dirty, bytes, next, Active)

LEMMA ActiveFacts ==
    ASSUME LogInv, Len(segs) > 0
    PROVE  /\ Len(segs) \in 1 .. Len(segs) /\ Active = segs[Len(segs)]
           /\ Active \in Segment /\ Fits(Active)
           /\ Active.base \in Nat /\ Recs(Active) \in Nat
           /\ Active.items \in Seq(Items) /\ Len(Active.items) \in Nat
           /\ Active.vis \in 0 .. Len(Active.items) /\ Active.dur \in 0 .. Len(Active.items)
           /\ Active.dur <= Active.vis /\ Whole(Active.items) \in Nat
           /\ Sound(pc, fp, dirty, bytes, next, Active)
           /\ SegLimit \in Nat /\ SegLimit >= 1
<1>1. Len(segs) \in 1 .. Len(segs) /\ segs \in Seq(Segment)
  BY DEF LogInv, WriterTypes
<1>2. Active = segs[Len(segs)] /\ Active \in Segment /\ Fits(Active)
  BY <1>1 DEF Active, LogInv, Chained
<1>3. Sound(pc, fp, dirty, bytes, next, Active)
  BY DEF LogInv
<1>4. SegLimit \in Nat /\ SegLimit >= 1
  BY AofAssumption
<1> HIDE DEF Active
<1>5. Active.base \in Nat /\ Recs(Active) \in Nat
  BY <1>2, AllFacts
<1> QED BY <1>1, <1>2, <1>3, <1>4, <1>5, FitsFacts

\* A step of the active segment to t.
LEMMA ActiveStep ==
    ASSUME LogInv, Len(segs) > 0, NEW t, Step(Active, t), SetActive(t)
    PROVE  /\ Later(segs, segs') /\ Len(segs') = Len(segs) /\ Len(segs') > 0 /\ Active' = t
           /\ segs' \in Seq(Segment) /\ Chained(segs')
           /\ \A k \in 1 .. Len(segs) - 1 : segs'[k] = segs[k]
<1>1. segs \in Seq(Segment) /\ Chained(segs)
  BY DEF LogInv, WriterTypes
<1>2. Step(segs[Len(segs)], t) /\ segs' = [segs EXCEPT ![Len(segs)] = t]
  BY DEF Active, SetActive
<1>3. /\ Later(segs, segs') /\ Len(segs') = Len(segs) /\ segs'[Len(segs')] = t
      /\ \A k \in 1 .. Len(segs) - 1 : segs'[k] = segs[k]
  <2> DEFINE T == [segs EXCEPT ![Len(segs)] = t]
  <2>1. /\ Later(segs, T) /\ Len(T) = Len(segs) /\ T[Len(T)] = t
        /\ \A k \in 1 .. Len(segs) - 1 : T[k] = segs[k]
    BY <1>1, <1>2, LaterActive
  <2> HIDE DEF T
  <2>2. segs' = T
    BY <1>2 DEF T
  <2> QED BY <2>1, <2>2
<1>4. Active' = t
  BY <1>3 DEF Active
<1> QED BY <1>3, <1>4 DEF Later

\* A step that leaves the files alone.
LEMMA FilesKept ==
    ASSUME LogInv, UNCHANGED segs
    PROVE  Later(segs, segs') /\ Active' = Active /\ segs' \in Seq(Segment) /\ Chained(segs')
<1>1. Later(segs, segs)
  BY LaterSame DEF LogInv, WriterTypes
<1> QED BY <1>1 DEF Active, Later

\* fwrite of a whole item, or of a part of one.
LEMMA ActiveAppend ==
    ASSUME LogInv, Len(segs) > 0, NEW x \in Items, x.kind # "torn" => Whole(Active.items) <= SegLimit,
           SetActive([Active EXCEPT !.items = Append(@, x)])
    PROVE  /\ Later(segs, segs') /\ Len(segs') = Len(segs) /\ Len(segs') > 0
           /\ segs' \in Seq(Segment) /\ Chained(segs')
           /\ \A k \in 1 .. Len(segs) - 1 : segs'[k] = segs[k]
           /\ Active'.base = Active.base /\ Active'.items = Append(Active.items, x)
           /\ Len(Active'.items) = Len(Active.items) + 1
           /\ Active'.vis = Active.vis /\ Active'.dur = Active.dur /\ Active'.entry = Active.entry
           /\ Recs(Active') = IF x.kind = "rec" THEN Recs(Active) + 1 ELSE Recs(Active)
           /\ Whole(Active'.items) = IF x.kind # "torn" THEN Whole(Active.items) + 1
                                     ELSE Whole(Active.items)
<1> DEFINE s == Active
           t == [s EXCEPT !.items = Append(@, x)]
<1>1. s \in Segment /\ Fits(s) /\ Whole(s.items) \in Nat /\ SegLimit \in Nat
  BY ActiveFacts
<1>2. SetActive(t)
  OBVIOUS
<1> HIDE DEF s
<1>3. /\ Step(s, t) /\ t.items = Append(s.items, x) /\ Len(t.items) = Len(s.items) + 1
      /\ t.vis = s.vis /\ t.dur = s.dur /\ t.entry = s.entry
      /\ Recs(t) = IF x.kind = "rec" THEN Recs(s) + 1 ELSE Recs(s)
      /\ Whole(t.items) = IF x.kind # "torn" THEN Whole(s.items) + 1 ELSE Whole(s.items)
  <2>1. x.kind # "torn" => Whole(s.items) + 1 <= SegLimit + 1
    BY <1>1 DEF s
  <2> QED BY <1>1, <2>1, StepAppend
<1> HIDE DEF t
<1>4. /\ Later(segs, segs') /\ Len(segs') = Len(segs) /\ Len(segs') > 0 /\ Active' = t
      /\ segs' \in Seq(Segment) /\ Chained(segs')
      /\ \A k \in 1 .. Len(segs) - 1 : segs'[k] = segs[k]
  BY <1>2, <1>3, ActiveStep DEF s
<1>5. t.base = s.base
  BY <1>3 DEF Step
<1> QED BY <1>3, <1>4, <1>5 DEF s

LEMMA RecItem == \A n \in Nat : Rec(n) \in Items /\ Rec(n).kind = "rec"
BY DEF Rec, Items

LEMMA FrameItem == Frame \in Items /\ Frame.kind = "frame"
BY DEF Frame, Items

LEMMA TornItem == Torn \in Items /\ Torn.kind = "torn"
BY DEF Torn, Items

\* An empty file.
LEMMA EmptyFacts ==
    /\ <<>> \in Seq(Items) /\ Len(<<>>) = 0
    /\ Whole(<<>>) = 0 /\ Records(<<>>, 0) = 0 /\ CommittedEnd(<<>>) = 0
<1>1. <<>> \in Seq(Items) /\ Len(<<>>) = 0
  OBVIOUS
<1>2. Whole(<<>>) \in 0 .. 0 /\ CommittedEnd(<<>>) \in 0 .. 0
  BY <1>1, WholeFacts, EndFacts
<1>3. 0 \in 0 .. Len(<<>>)
  BY <1>1
<1>4. Records(<<>>, 0) \in 0 .. 0
  BY <1>1, <1>3, RecordsFacts
<1> QED BY <1>1, <1>2, <1>4

LEMMA NewFacts ==
    ASSUME NEW b \in Nat
    PROVE  LET t == NewSegment(b)
           IN  /\ t \in Segment /\ Fits(t) /\ t.base = b /\ t.items = <<>> /\ Len(t.items) = 0
               /\ t.vis = 0 /\ t.dur = 0 /\ t.entry = FALSE /\ Recs(t) = 0 /\ Whole(t.items) = 0
               /\ Full(t)
<1> DEFINE t == NewSegment(b)
<1>1. /\ t.base = b /\ t.items = <<>> /\ t.vis = 0 /\ t.dur = 0 /\ t.entry = FALSE
  BY DEF NewSegment
<1>2. t \in Segment
  BY EmptyFacts DEF NewSegment, Segment
<1> HIDE DEF t
<1>3. Len(t.items) = 0 /\ Recs(t) = 0 /\ Whole(t.items) = 0
  BY <1>1, EmptyFacts DEF Recs
<1>4. Fits(t) /\ Full(t)
  BY <1>1, <1>3, AofAssumption DEF Fits, Full
<1> QED BY <1>1, <1>2, <1>3, <1>4 DEF t

\* What ray_aof_open leaves of the tail segment.
LEMMA RecoverFacts ==
    ASSUME NEW s \in Segment, Fits(s), s.vis = Len(s.items)
    PROVE  LET e == CommittedEnd(s.items)
               t == CutTo(s, e)
           IN  /\ Step(s, t) /\ t.base = s.base /\ t.entry = s.entry /\ e \in 0 .. SegLimit + 1
               /\ t.items = SubSeq(s.items, 1, e) /\ Len(t.items) = e /\ t.vis = e
               /\ t.dur = IF s.dur <= e THEN s.dur ELSE e
               /\ Recs(t) = Records(s.items, e) /\ Whole(t.items) = e
               /\ CommittedEnd(t.items) = e
<1> DEFINE e == CommittedEnd(s.items)
           t == CutTo(s, e)
<1>1. /\ s.items \in Seq(Items) /\ Len(s.items) \in Nat /\ Whole(s.items) \in Nat
      /\ s.vis \in 0 .. Len(s.items)
  BY FitsFacts
<1>2. e \in 0 .. Len(s.items) /\ e <= Whole(s.items) /\ Whole(SubSeq(s.items, 1, e)) = e
  BY <1>1, EndFacts, WholeFacts
<1>3. Cut(s, s.vis) = s.items
  BY <1>1, WholePrefix DEF Cut
<1>4. CommittedEnd(Cut(s, s.vis)) <= e
  BY <1>2, <1>3
<1>5. Step(s, t)
  BY <1>2, <1>4, StepCut
<1>6. /\ t \in Segment /\ Fits(t) /\ t.base = s.base /\ t.entry = s.entry
      /\ t.items = SubSeq(s.items, 1, e) /\ Len(t.items) = e /\ t.vis = e
      /\ t.dur = IF s.dur <= e THEN s.dur ELSE e
      /\ \A j \in 1 .. e : j \in 1 .. Len(s.items) /\ t.items[j] = s.items[j]
  BY <1>2, CutToFacts
<1>7. e \in CommittedEnd(s.items) .. Len(s.items)
  BY <1>2
<1>8. CommittedEnd(SubSeq(s.items, 1, e)) = e
  BY <1>1, <1>7, EndOfCut
<1>9. e \in 0 .. SegLimit + 1
  BY <1>1, <1>2, AofAssumption DEF Fits
<1> HIDE DEF t, e
<1>10. Recs(t) = Records(s.items, e)
  <2>1. Recs(t) = Records(t.items, e)
    BY <1>6 DEF Recs
  <2>2. \A j \in 1 .. e : t.items[j] = s.items[j]
    BY <1>6
  <2>3. Records(t.items, e) = Records(s.items, e)
    BY <2>2, RecordsSame
  <2> QED BY <2>1, <2>3
<1>11. Whole(t.items) = e /\ CommittedEnd(t.items) = e
  BY <1>2, <1>6, <1>8
<1> QED BY <1>5, <1>6, <1>9, <1>10, <1>11 DEF t, e

LEMMA OpenExistingLog ==
    ASSUME LogInv, OpenExisting
    PROVE  LogInv' /\ Later(segs, segs')
<1> DEFINE s == Active
           e == CommittedEnd(s.items)
           t == CutTo(s, e)
<1>1. /\ segs # <<>> /\ SetActive(t) /\ next' = s.base + Records(s.items, e) /\ bytes' = e
      /\ pc = "none" /\ dirty' = FALSE /\ fp' = TRUE /\ issued' = {} /\ pc' = "idle"
      /\ UNCHANGED <<closing, nappends, acked>>
  BY DEF OpenExisting, Go
<1>2. Len(segs) > 0
  BY <1>1, EmptySeq DEF LogInv, WriterTypes
<1>3. /\ s \in Segment /\ Fits(s) /\ s.base \in Nat
      /\ Sound(pc, fp, dirty, bytes, next, s)
  BY <1>2, ActiveFacts
<1> HIDE DEF s
<1>4. s.vis = Len(s.items)
  BY <1>1, <1>3 DEF Sound
<1>5. /\ Step(s, t) /\ t.base = s.base /\ t.vis = e /\ Len(t.items) = e /\ e \in 0 .. SegLimit + 1
      /\ Recs(t) = Records(s.items, e) /\ Whole(t.items) = e
  BY <1>3, <1>4, RecoverFacts
<1>6. t \in Segment
  BY <1>5 DEF Step
<1>7. Recs(t) \in Nat
  BY <1>6, AllFacts
<1> HIDE DEF t, e
<1>8. /\ Later(segs, segs') /\ Len(segs') > 0 /\ Active' = t
      /\ segs' \in Seq(Segment) /\ Chained(segs')
  BY <1>1, <1>2, <1>5, ActiveStep DEF s
<1>9. Sound(pc', fp', dirty', bytes', next', t)
  BY <1>1, <1>5 DEF Sound, WithFile, Framed
<1>10. WriterTypes'
  <2>1. next' \in Nat
    BY <1>1, <1>3, <1>5, <1>7
  <2> QED BY <1>1, <1>5, <1>8, <2>1 DEF LogInv, WriterTypes, PCs
<1> QED BY <1>8, <1>9, <1>10 DEF LogInv

LEMMA OpenNewLog ==
    ASSUME LogInv, OpenNew
    PROVE  LogInv' /\ Later(segs, segs')
<1> DEFINE t == NewSegment(0)
<1>1. /\ segs = <<>> /\ segs' = <<t>> /\ next' = 0 /\ bytes' = 0 /\ dirty' = FALSE
      /\ fp' = TRUE /\ issued' = {} /\ pc' = "o_dir" /\ UNCHANGED <<closing, nappends, acked>>
  BY DEF OpenNew, Go
<1>2. /\ t \in Segment /\ Fits(t) /\ t.base = 0 /\ Len(t.items) = 0 /\ t.vis = 0
      /\ Recs(t) = 0 /\ Whole(t.items) = 0
  BY NewFacts
<1> HIDE DEF t
<1>3. Len(segs) = 0 /\ segs' \in Seq(Segment) /\ Len(segs') = 1 /\ segs'[1] = t
  BY <1>1, <1>2
<1>4. Chained(segs')
  BY <1>2, <1>3 DEF Chained
<1>5. Later(segs, segs')
  BY <1>3, <1>4 DEF Later
<1>6. Active' = t
  BY <1>3 DEF Active
<1>7. Sound(pc', fp', dirty', bytes', next', t)
  BY <1>1, <1>2 DEF Sound, WithFile, Framed
<1>8. WriterTypes'
  <2>1. bytes' \in 0 .. SegLimit + 1
    BY <1>1, AofAssumption
  <2> QED BY <1>1, <1>3, <2>1 DEF LogInv, WriterTypes, PCs
<1> QED BY <1>3, <1>4, <1>5, <1>6, <1>7, <1>8 DEF LogInv

\* An error return, from the call itself or from the commit inside close.
LEMMA FailFacts ==
    ASSUME Fail, closing \in {"no", "ok", "err"}
    PROVE  /\ pc' \in {"idle", "close"} /\ pc' \in PCs
           /\ closing' \in {"no", "ok", "err"}
BY DEF Fail, Go, PCs

\* fwrite comes up short.
LEMMA ShortWriteLog ==
    ASSUME LogInv, Len(segs) > 0, fp, ShortWrite, pc' \in {"idle", "close"}, closing' \in {"no", "ok", "err"},
           UNCHANGED <<fp, next, bytes, dirty, nappends, issued, acked>>
    PROVE  LogInv' /\ Later(segs, segs')
<1>1. SetActive([Active EXCEPT !.items = Append(@, Torn)])
  BY DEF ShortWrite
<1>2. /\ Later(segs, segs') /\ Len(segs') > 0 /\ segs' \in Seq(Segment) /\ Chained(segs')
      /\ Active'.base = Active.base /\ Recs(Active') = Recs(Active)
      /\ Whole(Active'.items) = Whole(Active.items)
  BY <1>1, TornItem, ActiveAppend
<1>3. Sound(pc, fp, dirty, bytes, next, Active)
  BY ActiveFacts
<1>4. Sound(pc', fp', dirty', bytes', next', Active')
  BY <1>2, <1>3 DEF Sound, WithFile, Framed
<1>5. WriterTypes'
  BY <1>2 DEF LogInv, WriterTypes, PCs
<1> QED BY <1>2, <1>4, <1>5 DEF LogInv

LEMMA WriteFrameLog ==
    ASSUME LogInv, NEW from, NEW to, WriteFrame(from, to),
           (from = "r_frame" /\ to = "r_flush") \/ (from = "c_frame" /\ to = "c_flush")
    PROVE  LogInv' /\ Later(segs, segs')
<1>1. pc = from /\ UNCHANGED <<fp, next, nappends, issued, acked>>
  BY DEF WriteFrame, ghosts
<1>2. Len(segs) > 0
  BY <1>1 DEF LogInv
<1>3. /\ Sound(pc, fp, dirty, bytes, next, Active) /\ SegLimit \in Nat /\ bytes \in Nat
      /\ Whole(Active.items) \in Nat
  BY <1>2, ActiveFacts DEF LogInv, WriterTypes
<1>4. fp /\ dirty /\ bytes = Whole(Active.items) /\ bytes <= SegLimit
  BY <1>1, <1>3 DEF Sound, WithFile
<1>5. CASE /\ SetActive([Active EXCEPT !.items = Append(@, Frame)])
           /\ bytes' = bytes + 1 /\ dirty' = FALSE /\ Go(to) /\ UNCHANGED closing
  <2>1. /\ Later(segs, segs') /\ Len(segs') > 0 /\ segs' \in Seq(Segment) /\ Chained(segs')
        /\ Active'.base = Active.base /\ Recs(Active') = Recs(Active)
        /\ Whole(Active'.items) = Whole(Active.items) + 1
    BY <1>2, <1>4, <1>5, FrameItem, ActiveAppend
  <2>2. Sound(pc', fp', dirty', bytes', next', Active')
    BY <1>1, <1>3, <1>4, <1>5, <2>1 DEF Sound, WithFile, Framed, Go
  <2>3. WriterTypes'
    <3>1. bytes' \in 0 .. SegLimit + 1
      BY <1>3, <1>4, <1>5
    <3>2. pc' \in PCs
      BY <1>5 DEF Go, PCs
    <3> QED BY <1>1, <1>5, <2>1, <3>1, <3>2 DEF LogInv, WriterTypes
  <2> QED BY <2>1, <2>2, <2>3 DEF LogInv
<1>6. CASE ShortWrite /\ Fail /\ UNCHANGED <<bytes, dirty>>
  <2>1. pc' \in {"idle", "close"} /\ closing' \in {"no", "ok", "err"}
    BY <1>6, FailFacts DEF LogInv, WriterTypes
  <2> QED BY <1>1, <1>2, <1>4, <1>6, <2>1, ShortWriteLog
<1> QED BY <1>5, <1>6 DEF WriteFrame

\* A call fails and leaves the files alone.
LEMMA FailedLog ==
    ASSUME LogInv, Len(segs) > 0, pc' \in {"idle", "close"}, closing' \in {"no", "ok", "err"},
           UNCHANGED <<segs, fp, next, bytes, dirty, nappends, issued, acked>>
    PROVE  LogInv' /\ Later(segs, segs')
<1>1. Later(segs, segs') /\ Active' = Active /\ segs' \in Seq(Segment) /\ Chained(segs')
  BY FilesKept
<1>2. Sound(pc, fp, dirty, bytes, next, Active)
  BY ActiveFacts
<1>3. Sound(pc', fp', dirty', bytes', next', Active')
  BY <1>1, <1>2 DEF Sound, WithFile, Framed
<1>4. WriterTypes'
  BY <1>1 DEF LogInv, WriterTypes, PCs
<1> QED BY <1>1, <1>3, <1>4 DEF LogInv

LEMMA FlushLog ==
    ASSUME LogInv, NEW from, NEW to, Flush(from, to),
           (from = "r_flush" /\ to = "r_sync") \/ (from = "c_flush" /\ to = "c_sync")
    PROVE  LogInv' /\ Later(segs, segs')
<1>1. pc = from /\ UNCHANGED <<fp, next, bytes, dirty, nappends, issued, acked>>
  BY DEF Flush, ghosts
<1>2. Len(segs) > 0
  BY <1>1 DEF LogInv
<1>3. CASE SetActive([Active EXCEPT !.vis = Len(Active.items)]) /\ Go(to) /\ UNCHANGED closing
  <2> DEFINE s == Active
             t == [s EXCEPT !.vis = Len(s.items)]
  <2>1. /\ s \in Segment /\ Fits(s) /\ Sound(pc, fp, dirty, bytes, next, s)
        /\ Len(s.items) \in s.vis .. Len(s.items)
    BY <1>2, ActiveFacts
  <2>2. SetActive(t)
    BY <1>3
  <2> HIDE DEF s
  <2>3. Step(s, t) /\ t.items = s.items /\ t.vis = Len(s.items)
    BY <2>1, StepVis
  <2> HIDE DEF t
  <2>4. t.base = s.base /\ Recs(t) = Recs(s)
    BY <2>3 DEF Step, Recs
  <2>5. /\ Later(segs, segs') /\ Len(segs') > 0 /\ segs' \in Seq(Segment) /\ Chained(segs')
        /\ Active' = t
    BY <1>2, <2>2, <2>3, ActiveStep DEF s
  <2>6. Sound(pc', fp', dirty', bytes', next', t)
    BY <1>1, <1>3, <2>1, <2>3, <2>4 DEF Sound, WithFile, Framed, Go
  <2>7. WriterTypes'
    <3>1. pc' \in PCs
      BY <1>3 DEF Go, PCs
    <3> QED BY <1>1, <1>3, <2>5, <3>1 DEF LogInv, WriterTypes
  <2> QED BY <2>5, <2>6, <2>7 DEF LogInv
<1>4. CASE Fault("flush") /\ Fail /\ UNCHANGED segs
  <2>1. pc' \in {"idle", "close"} /\ closing' \in {"no", "ok", "err"}
    BY <1>4, FailFacts DEF LogInv, WriterTypes
  <2> QED BY <1>1, <1>2, <1>4, <2>1, FailedLog
<1> QED BY <1>3, <1>4 DEF Flush

LEMMA SyncLog ==
    ASSUME LogInv, NEW from, NEW to, Sync(from, to),
           (from = "r_sync" /\ to = "r_close") \/ (from = "c_sync" /\ to = "c_ok")
    PROVE  LogInv' /\ Later(segs, segs')
<1>1. pc = from /\ UNCHANGED <<fp, next, bytes, dirty, nappends, issued, acked>>
  BY DEF Sync, ghosts
<1>2. Len(segs) > 0
  BY <1>1 DEF LogInv
<1>3. CASE SetActive([Active EXCEPT !.dur = Active.vis]) /\ Go(to) /\ UNCHANGED closing
  <2> DEFINE s == Active
             t == [s EXCEPT !.dur = s.vis]
  <2>1. s \in Segment /\ Fits(s) /\ Sound(pc, fp, dirty, bytes, next, s)
    BY <1>2, ActiveFacts
  <2>2. SetActive(t)
    BY <1>3
  <2> HIDE DEF s
  <2>3. Step(s, t) /\ t.items = s.items /\ t.vis = s.vis /\ t.dur = s.vis
    BY <2>1, StepDur
  <2> HIDE DEF t
  <2>4. t.base = s.base /\ Recs(t) = Recs(s)
    BY <2>3 DEF Step, Recs
  <2>5. /\ Later(segs, segs') /\ Len(segs') > 0 /\ segs' \in Seq(Segment) /\ Chained(segs')
        /\ Active' = t
    BY <1>2, <2>2, <2>3, ActiveStep DEF s
  <2>6. s.vis = Len(s.items)
    BY <1>1, <2>1 DEF Sound
  <2>7. Full(t)
    BY <2>3, <2>6 DEF Full
  <2>8. Sound(pc', fp', dirty', bytes', next', t)
    BY <1>1, <1>3, <2>1, <2>3, <2>4, <2>7 DEF Sound, WithFile, Framed, Go
  <2>9. WriterTypes'
    <3>1. pc' \in PCs
      BY <1>3 DEF Go, PCs
    <3> QED BY <1>1, <1>3, <2>5, <3>1 DEF LogInv, WriterTypes
  <2> QED BY <2>5, <2>8, <2>9 DEF LogInv
<1>4. CASE Fault("sync") /\ Fail /\ UNCHANGED segs
  <2>1. pc' \in {"idle", "close"} /\ closing' \in {"no", "ok", "err"}
    BY <1>4, FailFacts DEF LogInv, WriterTypes
  <2> QED BY <1>1, <1>2, <1>4, <2>1, FailedLog
<1> QED BY <1>3, <1>4 DEF Sync

\* A step that moves the control point only.
LEMMA ControlLog ==
    ASSUME LogInv, Len(segs) > 0, pc' \in PCs, fp' \in BOOLEAN, nappends' \in Nat,
           closing' \in {"no", "ok", "err"}, issued' \subseteq Nat \X Nat, acked' \subseteq Nat \X Nat,
           UNCHANGED <<segs, next, bytes, dirty>>,
           Sound(pc', fp', dirty, bytes, next, Active)
    PROVE  LogInv' /\ Later(segs, segs')
<1>1. Later(segs, segs') /\ Active' = Active /\ segs' \in Seq(Segment) /\ Chained(segs')
  BY FilesKept
<1>2. Sound(pc', fp', dirty', bytes', next', Active')
  BY <1>1
<1>3. WriterTypes'
  BY <1>1 DEF LogInv, WriterTypes
<1> QED BY <1>1, <1>2, <1>3 DEF LogInv

\* The directory entry of the active segment is synced.
LEMMA EntryLog ==
    ASSUME LogInv, Len(segs) > 0, SetActive([Active EXCEPT !.entry = TRUE]),
           UNCHANGED <<fp, next, bytes, dirty, closing, nappends, issued, acked>>, fp,
           pc' = "idle" \/ (pc' = "write" /\ bytes = 0)
    PROVE  LogInv' /\ Later(segs, segs')
<1> DEFINE s == Active
           t == [s EXCEPT !.entry = TRUE]
<1>1. s \in Segment /\ Fits(s) /\ Sound(pc, fp, dirty, bytes, next, s)
  BY ActiveFacts
<1>2. SetActive(t)
  OBVIOUS
<1> HIDE DEF s
<1>3. Step(s, t) /\ t.items = s.items /\ t.vis = s.vis
  BY <1>1, StepEntry
<1> HIDE DEF t
<1>4. t.base = s.base /\ Recs(t) = Recs(s)
  BY <1>3 DEF Step, Recs
<1>5. /\ Later(segs, segs') /\ Len(segs') > 0 /\ segs' \in Seq(Segment) /\ Chained(segs')
      /\ Active' = t
  BY <1>2, <1>3, ActiveStep DEF s
<1>6. Sound(pc', fp', dirty', bytes', next', t)
  BY <1>1, <1>3, <1>4 DEF Sound, WithFile, Framed
<1>7. WriterTypes'
  <2>1. pc' \in PCs
    BY DEF PCs
  <2> QED BY <1>5, <2>1 DEF LogInv, WriterTypes
<1> QED BY <1>5, <1>6, <1>7 DEF LogInv

LEMMA OpenSyncDirLog ==
    ASSUME LogInv, OpenSyncDir
    PROVE  LogInv' /\ Later(segs, segs')
<1>1. pc = "o_dir" /\ UNCHANGED <<next, bytes, dirty, closing, nappends, issued, acked>>
  BY DEF OpenSyncDir, ghosts
<1>2. Len(segs) > 0
  BY <1>1 DEF LogInv
<1>3. Sound(pc, fp, dirty, bytes, next, Active) /\ Active.vis \in 0 .. Len(Active.items)
  BY <1>2, ActiveFacts
<1>4. fp
  BY <1>1, <1>3 DEF Sound, WithFile
<1>5. CASE SetActive([Active EXCEPT !.entry = TRUE]) /\ Go("idle") /\ UNCHANGED fp
  BY <1>1, <1>2, <1>4, <1>5, EntryLog DEF Go
<1>6. CASE Go("none") /\ fp' = FALSE /\ UNCHANGED segs
  <2>1. Active.vis = Len(Active.items)
    BY <1>1, <1>3 DEF Sound
  <2>2. Sound(pc', fp', dirty, bytes, next, Active)
    BY <1>1, <1>3, <1>6, <2>1 DEF Sound, WithFile, Framed, Go
  <2>3. pc' \in PCs /\ fp' \in BOOLEAN
    BY <1>6 DEF PCs, Go
  <2> QED BY <1>1, <1>2, <1>6, <2>2, <2>3, ControlLog DEF LogInv, WriterTypes
<1> QED BY <1>5, <1>6 DEF OpenSyncDir

LEMMA SpillLog ==
    ASSUME LogInv, Spill
    PROVE  LogInv' /\ Later(segs, segs')
<1> DEFINE s == Active
           v == s.vis + 1
           t == [s EXCEPT !.vis = v]
<1>1. /\ fp /\ s.vis < Len(s.items) /\ SetActive(t)
      /\ UNCHANGED <<pc, fp, next, bytes, dirty, closing, nappends, issued, acked>>
  BY DEF Spill, handle, ghosts
<1>2. Len(segs) > 0
  BY <1>1 DEF LogInv
<1>3. /\ s \in Segment /\ Fits(s) /\ Sound(pc, fp, dirty, bytes, next, s)
      /\ s.vis \in 0 .. Len(s.items) /\ Len(s.items) \in Nat
  BY <1>2, ActiveFacts
<1> HIDE DEF s
<1>4. v \in s.vis .. Len(s.items)
  BY <1>1, <1>3
<1> HIDE DEF v
<1>5. Step(s, t) /\ t.items = s.items /\ t.vis = v /\ t.dur = s.dur
  BY <1>3, <1>4, StepVis
<1> HIDE DEF t
<1>6. t.base = s.base /\ Recs(t) = Recs(s)
  BY <1>5 DEF Step, Recs
<1>7. /\ Later(segs, segs') /\ Len(segs') > 0 /\ segs' \in Seq(Segment) /\ Chained(segs')
      /\ Active' = t
  BY <1>1, <1>2, <1>5, ActiveStep DEF s
<1>8. s.vis # Len(s.items)
  BY <1>1, <1>3
<1>9. ~(pc \in {"r_sync", "c_sync"}) /\ ~Full(s)
  BY <1>3, <1>8 DEF Sound, Full
<1>10. Sound(pc', fp', dirty', bytes', next', t)
  BY <1>1, <1>3, <1>5, <1>6, <1>9 DEF Sound
<1>11. WriterTypes'
  BY <1>1, <1>7 DEF LogInv, WriterTypes
<1> QED BY <1>7, <1>10, <1>11 DEF LogInv

LEMMA AppendCallLog ==
    ASSUME LogInv, AppendCall
    PROVE  LogInv' /\ Later(segs, segs')
<1>1. /\ pc = "idle" /\ fp /\ nappends' = nappends + 1
      /\ pc' = IF bytes > 0 /\ bytes + 1 > SegLimit
               THEN IF dirty THEN "r_frame" ELSE "r_flush" ELSE "write"
      /\ UNCHANGED <<segs, fp, next, bytes, dirty, closing, issued, acked>>
  BY DEF AppendCall, Go, ghosts
<1>2. Len(segs) > 0
  BY <1>1 DEF LogInv
<1>3. Sound(pc, fp, dirty, bytes, next, Active) /\ SegLimit \in Nat /\ bytes \in Nat
  BY <1>2, ActiveFacts DEF LogInv, WriterTypes
<1>4. Sound(pc', fp', dirty, bytes, next, Active)
  <2>1. CASE bytes > 0 /\ bytes + 1 > SegLimit /\ dirty
    BY <1>1, <1>3, <2>1 DEF Sound, WithFile, Framed
  <2>2. CASE bytes > 0 /\ bytes + 1 > SegLimit /\ ~dirty
    BY <1>1, <1>3, <2>2 DEF Sound, WithFile, Framed
  <2>3. CASE ~(bytes > 0 /\ bytes + 1 > SegLimit)
    <3>1. bytes = 0 \/ bytes + 1 <= SegLimit
      BY <1>3, <2>3
    <3>2. pc' = "write"
      BY <1>1, <2>3
    <3> QED BY <1>1, <1>3, <3>1, <3>2 DEF Sound, WithFile, Framed
  <2> QED BY <2>1, <2>2, <2>3
<1>5. pc' \in PCs
  BY <1>1 DEF PCs
<1>6. nappends' \in Nat
  BY <1>1 DEF LogInv, WriterTypes
<1> QED BY <1>1, <1>2, <1>4, <1>5, <1>6, ControlLog DEF LogInv, WriterTypes

LEMMA AppendWriteLog ==
    ASSUME LogInv, AppendWrite
    PROVE  LogInv' /\ Later(segs, segs')
<1>1. pc = "write" /\ pc' = "idle" /\ UNCHANGED <<fp, closing, nappends, acked>>
  BY DEF AppendWrite, Go
<1>2. Len(segs) > 0
  BY <1>1 DEF LogInv
<1>3. /\ Sound(pc, fp, dirty, bytes, next, Active) /\ SegLimit \in Nat /\ bytes \in Nat
      /\ SegLimit >= 1 /\ next \in Nat /\ nappends \in Nat /\ closing \in {"no", "ok", "err"}
      /\ Active.base \in Nat /\ Recs(Active) \in Nat
  BY <1>2, ActiveFacts DEF LogInv, WriterTypes
<1>4. fp /\ bytes = Whole(Active.items) /\ next = Active.base + Recs(Active)
  BY <1>1, <1>3 DEF Sound, WithFile
<1>7. bytes + 1 <= SegLimit
  <2>1. bytes = 0 \/ bytes + 1 <= SegLimit
    BY <1>1, <1>3 DEF Sound
  <2> QED BY <1>3, <2>1
<1>5. CASE /\ SetActive([Active EXCEPT !.items = Append(@, Rec(nappends))])
           /\ bytes' = bytes + 1 /\ dirty' = TRUE /\ next' = next + 1
           /\ issued' = issued \cup {<<next, nappends>>}
  <2>1. Rec(nappends) \in Items /\ Rec(nappends).kind = "rec" /\ Whole(Active.items) <= SegLimit
    BY <1>3, <1>4, <1>7, RecItem
  <2>2. /\ Later(segs, segs') /\ Len(segs') > 0 /\ segs' \in Seq(Segment) /\ Chained(segs')
        /\ Active'.base = Active.base /\ Recs(Active') = Recs(Active) + 1
        /\ Whole(Active'.items) = Whole(Active.items) + 1
    BY <1>2, <1>5, <2>1, ActiveAppend
  <2>3. next' = Active'.base + Recs(Active') /\ bytes' = Whole(Active'.items) /\ bytes' <= SegLimit /\ fp'
    <3>1. next' = Active'.base + Recs(Active')
      BY <1>3, <1>4, <1>5, <2>2
    <3>2. bytes' = Whole(Active'.items) /\ bytes' <= SegLimit
      BY <1>4, <1>5, <1>7, <2>2
    <3>3. fp'
      BY <1>1, <1>4
    <3> QED BY <3>1, <3>2, <3>3
  <2>4. Sound(pc', fp', dirty', bytes', next', Active')
    BY <1>1, <1>5, <2>3 DEF Sound, WithFile, Framed
  <2>5. WriterTypes'
    <3>1. bytes' \in 0 .. SegLimit + 1 /\ next' \in Nat
      BY <1>3, <1>5, <2>3
    <3>2. pc' \in PCs
      BY <1>1 DEF PCs
    <3>3. issued' \subseteq Nat \X Nat
      BY <1>3, <1>5 DEF LogInv, WriterTypes
    <3> QED BY <1>1, <1>5, <2>2, <3>1, <3>2, <3>3 DEF LogInv, WriterTypes
  <2> QED BY <2>2, <2>4, <2>5 DEF LogInv
<1>6. CASE ShortWrite /\ UNCHANGED <<bytes, dirty, next, issued>>
  <2>1. pc' \in {"idle", "close"} /\ closing' \in {"no", "ok", "err"} /\ fp
    BY <1>1, <1>3, <1>4
  <2> QED BY <1>1, <1>2, <1>6, <2>1, ShortWriteLog
<1> QED BY <1>5, <1>6 DEF AppendWrite

LEMMA RotateCloseLog ==
    ASSUME LogInv, RotateClose
    PROVE  LogInv' /\ Later(segs, segs')
<1>1. /\ pc = "r_close" /\ fp' = FALSE /\ pc' \in {"r_open", "idle"}
      /\ UNCHANGED <<segs, next, bytes, dirty, closing, nappends, issued, acked>>
  BY DEF RotateClose, Go, ghosts
<1>2. Len(segs) > 0
  BY <1>1 DEF LogInv
<1>3. Sound(pc, fp, dirty, bytes, next, Active)
  BY <1>2, ActiveFacts
<1>4. Full(Active) /\ fp /\ ~dirty /\ next = Active.base + Recs(Active)
  BY <1>1, <1>3 DEF Sound, WithFile, Framed
<1>5. Sound(pc', fp', dirty, bytes, next, Active)
  BY <1>1, <1>3, <1>4 DEF Sound, WithFile, Framed, Full
<1>6. pc' \in PCs /\ fp' \in BOOLEAN
  BY <1>1 DEF PCs
<1> QED BY <1>1, <1>2, <1>5, <1>6, ControlLog DEF LogInv, WriterTypes

LEMMA RotateOpenLog ==
    ASSUME LogInv, RotateOpen
    PROVE  LogInv' /\ Later(segs, segs')
<1>1. pc = "r_open" /\ UNCHANGED <<next, dirty, closing, nappends, issued, acked>>
  BY DEF RotateOpen, ghosts
<1>2. Len(segs) > 0
  BY <1>1 DEF LogInv
<1>3. Sound(pc, fp, dirty, bytes, next, Active) /\ next \in Nat /\ Active = segs[Len(segs)]
  BY <1>2, ActiveFacts DEF LogInv, WriterTypes
<1>4. Full(Active) /\ ~dirty /\ next = Active.base + Recs(Active)
  BY <1>1, <1>3 DEF Sound, Framed
<1>5. CASE /\ segs' = Append(segs, NewSegment(next)) /\ fp' = TRUE /\ bytes' = 0 /\ Go("r_dir")
  <2> DEFINE t == NewSegment(next)
  <2>1. /\ t \in Segment /\ Fits(t) /\ t.base = next /\ Len(t.items) = 0 /\ t.vis = 0
        /\ Recs(t) = 0 /\ Whole(t.items) = 0
    BY <1>3, NewFacts
  <2>2. segs' = Append(segs, t)
    BY <1>5
  <2> HIDE DEF t
  <2>3. segs \in Seq(Segment) /\ Chained(segs)
    BY DEF LogInv, WriterTypes
  <2>4. Full(segs[Len(segs)]) /\ t.base = segs[Len(segs)].base + Recs(segs[Len(segs)])
    BY <1>3, <1>4, <2>1
  <2>5. Later(segs, Append(segs, t))
    BY <1>2, <2>1, <2>3, <2>4, LaterAppend
  <2>6. Later(segs, segs') /\ segs' \in Seq(Segment) /\ Chained(segs')
    BY <2>2, <2>5 DEF Later
  <2>7. Len(segs') = Len(segs) + 1 /\ segs'[Len(segs) + 1] = t
    BY <2>1, <2>2, <2>3, AppendFacts
  <2>8. Active' = t /\ Len(segs') > 0
    BY <2>3, <2>7 DEF Active
  <2>9. Sound(pc', fp', dirty', bytes', next', t)
    <3>1. next = t.base + Recs(t)
      BY <1>3, <2>1
    <3> QED BY <1>1, <1>4, <1>5, <2>1, <3>1 DEF Sound, WithFile, Framed, Go
  <2>10. WriterTypes'
    <3>1. pc' \in PCs
      BY <1>5 DEF PCs, Go
    <3>2. bytes' \in 0 .. SegLimit + 1
      BY <1>5, AofAssumption
    <3> QED BY <1>1, <1>5, <2>6, <3>1, <3>2 DEF LogInv, WriterTypes
  <2> QED BY <2>6, <2>8, <2>9, <2>10 DEF LogInv
<1>6. CASE Go("idle") /\ UNCHANGED <<segs, fp, bytes>>
  <2>1. pc' \in {"idle", "close"} /\ closing' \in {"no", "ok", "err"}
    BY <1>1, <1>6 DEF Go, LogInv, WriterTypes
  <2> QED BY <1>1, <1>2, <1>6, <2>1, FailedLog
<1> QED BY <1>5, <1>6 DEF RotateOpen

LEMMA RotateSyncDirLog ==
    ASSUME LogInv, RotateSyncDir
    PROVE  LogInv' /\ Later(segs, segs')
<1>1. pc = "r_dir" /\ UNCHANGED <<fp, next, bytes, dirty, closing, nappends, issued, acked>>
  BY DEF RotateSyncDir, ghosts
<1>2. Len(segs) > 0
  BY <1>1 DEF LogInv
<1>3. Sound(pc, fp, dirty, bytes, next, Active)
  BY <1>2, ActiveFacts
<1>4. fp /\ bytes = 0
  BY <1>1, <1>3 DEF Sound, WithFile
<1>5. CASE SetActive([Active EXCEPT !.entry = TRUE]) /\ Go("write")
  BY <1>1, <1>2, <1>4, <1>5, EntryLog DEF Go
<1>6. CASE Go("idle") /\ UNCHANGED segs
  <2>1. pc' \in {"idle", "close"} /\ closing' \in {"no", "ok", "err"}
    BY <1>1, <1>6 DEF Go, LogInv, WriterTypes
  <2> QED BY <1>1, <1>2, <1>6, <2>1, FailedLog
<1> QED BY <1>5, <1>6 DEF RotateSyncDir

LEMMA CommitCleanLog ==
    ASSUME LogInv, CommitClean
    PROVE  LogInv' /\ Later(segs, segs')
<1>1. /\ pc = "idle" /\ acked' = acked \cup issued /\ issued' = {}
      /\ UNCHANGED <<segs, pc, fp, next, bytes, dirty, closing, nappends>>
  BY DEF CommitClean, handle
<1>2. Len(segs) > 0
  BY <1>1 DEF LogInv
<1>3. Sound(pc', fp', dirty, bytes, next, Active)
  BY <1>1, <1>2, ActiveFacts
<1>4. issued' \subseteq Nat \X Nat /\ acked' \subseteq Nat \X Nat
  BY <1>1 DEF LogInv, WriterTypes
<1> QED BY <1>1, <1>2, <1>3, <1>4, ControlLog DEF LogInv, WriterTypes

LEMMA CommitCallLog ==
    ASSUME LogInv, CommitCall
    PROVE  LogInv' /\ Later(segs, segs')
<1>1. /\ pc = "idle" /\ fp /\ dirty /\ pc' = "c_frame"
      /\ UNCHANGED <<segs, fp, next, bytes, dirty, closing, nappends, issued, acked>>
  BY DEF CommitCall, Go, ghosts
<1>2. Len(segs) > 0
  BY <1>1 DEF LogInv
<1>3. Sound(pc, fp, dirty, bytes, next, Active)
  BY <1>2, ActiveFacts
<1>4. Sound(pc', fp', dirty, bytes, next, Active)
  BY <1>1, <1>3 DEF Sound, WithFile, Framed
<1>5. pc' \in PCs
  BY <1>1 DEF PCs
<1> QED BY <1>1, <1>2, <1>4, <1>5, ControlLog DEF LogInv, WriterTypes

LEMMA CommitReturnLog ==
    ASSUME LogInv, CommitReturn
    PROVE  LogInv' /\ Later(segs, segs')
<1>1. /\ pc = "c_ok" /\ pc' \in {"idle", "close"}
      /\ UNCHANGED <<segs, fp, next, bytes, dirty, closing, nappends>>
      /\ (acked' = acked \cup issued /\ issued' = {}) \/ UNCHANGED <<acked, issued>>
  BY DEF CommitReturn, Go
<1>2. Len(segs) > 0
  BY <1>1 DEF LogInv
<1>3. Sound(pc, fp, dirty, bytes, next, Active)
  BY <1>2, ActiveFacts
<1>4. Sound(pc', fp', dirty, bytes, next, Active)
  BY <1>1, <1>3 DEF Sound, WithFile, Framed
<1>5. pc' \in PCs
  BY <1>1 DEF PCs
<1>6. issued' \subseteq Nat \X Nat /\ acked' \subseteq Nat \X Nat
  BY <1>1 DEF LogInv, WriterTypes
<1> QED BY <1>1, <1>2, <1>4, <1>5, <1>6, ControlLog DEF LogInv, WriterTypes

LEMMA CloseCallLog ==
    ASSUME LogInv, CloseCall
    PROVE  LogInv' /\ Later(segs, segs')
<1>1. /\ pc = "idle" /\ closing' = "ok" /\ pc' = IF fp /\ dirty THEN "c_frame" ELSE "close"
      /\ UNCHANGED <<segs, fp, next, bytes, dirty, nappends, issued, acked>>
  BY DEF CloseCall, Go, ghosts
<1>2. Len(segs) > 0
  BY <1>1 DEF LogInv
<1>3. Sound(pc, fp, dirty, bytes, next, Active)
  BY <1>2, ActiveFacts
<1>4. Sound(pc', fp', dirty, bytes, next, Active)
  <2>1. CASE fp /\ dirty
    BY <1>1, <1>3, <2>1 DEF Sound, WithFile, Framed
  <2>2. CASE ~(fp /\ dirty)
    BY <1>1, <1>3, <2>2 DEF Sound, WithFile, Framed
  <2> QED BY <2>1, <2>2
<1>5. pc' \in PCs
  BY <1>1 DEF PCs
<1> QED BY <1>1, <1>2, <1>4, <1>5, ControlLog DEF LogInv, WriterTypes

\* No handle is left, and nothing in a buffer.
LEMMA NoHandleLog ==
    ASSUME LogInv, segs' \in Seq(Segment), Chained(segs'),
           Len(segs') > 0 => Active'.vis = Len(Active'.items),
           pc' = "none", fp' = FALSE, next' = 0, bytes' = 0, dirty' = FALSE, closing' = "no", issued' = {},
           acked' \subseteq Nat \X Nat, UNCHANGED nappends
    PROVE  LogInv'
<1>1. Len(segs') > 0 => Sound(pc', fp', dirty', bytes', next', Active')
  BY DEF Sound, WithFile, Framed
<1>2. WriterTypes'
  <2>1. 0 \in 0 .. SegLimit + 1
    BY AofAssumption
  <2>2. pc' \in PCs
    BY DEF PCs
  <2> QED BY <2>1, <2>2 DEF LogInv, WriterTypes
<1> QED BY <1>1, <1>2 DEF LogInv

LEMMA CloseFileLog ==
    ASSUME LogInv, CloseFile
    PROVE  LogInv' /\ Later(segs, segs')
<1>1. /\ pc = "close" /\ issued' = {}
      /\ pc' = "none" /\ fp' = FALSE /\ next' = 0 /\ bytes' = 0 /\ dirty' = FALSE /\ closing' = "no"
      /\ UNCHANGED nappends /\ (acked' = acked \cup issued \/ UNCHANGED acked)
      /\ IF fp THEN SetActive([Active EXCEPT !.vis = Len(Active.items)]) ELSE UNCHANGED segs
  BY DEF CloseFile
<1>2. Len(segs) > 0
  BY <1>1 DEF LogInv
<1>3. acked' \subseteq Nat \X Nat
  BY <1>1 DEF LogInv, WriterTypes
<1>4. /\ Later(segs, segs') /\ segs' \in Seq(Segment) /\ Chained(segs')
      /\ Active'.vis = Len(Active'.items)
  <2>1. CASE fp
    <3> DEFINE s == Active
               t == [s EXCEPT !.vis = Len(s.items)]
    <3>1. s \in Segment /\ Fits(s) /\ Len(s.items) \in s.vis .. Len(s.items)
      BY <1>2, ActiveFacts
    <3>2. SetActive(t)
      BY <1>1, <2>1
    <3> HIDE DEF s
    <3>3. Step(s, t) /\ t.items = s.items /\ t.vis = Len(s.items)
      BY <3>1, StepVis
    <3> HIDE DEF t
    <3>4. Later(segs, segs') /\ segs' \in Seq(Segment) /\ Chained(segs') /\ Active' = t
      BY <1>2, <3>2, <3>3, ActiveStep DEF s
    <3> QED BY <3>3, <3>4
  <2>2. CASE ~fp
    <3>1. UNCHANGED segs
      BY <1>1, <2>2
    <3>2. Active.vis = Len(Active.items)
      BY <1>2, <2>2, ActiveFacts DEF Sound
    <3> QED BY <3>1, <3>2, FilesKept
  <2> QED BY <2>1, <2>2
<1> QED BY <1>1, <1>3, <1>4, NoHandleLog

LEMMA ProcessCrashLog ==
    ASSUME LogInv, ProcessCrash
    PROVE  LogInv' /\ Later(segs, segs')
<1> DEFINE n == Len(segs)
           T == [k \in 1 .. n |-> CutTo(segs[k], segs[k].vis)]
<1>1. /\ pc' = "none" /\ fp' = FALSE /\ next' = 0 /\ bytes' = 0 /\ dirty' = FALSE /\ closing' = "no"
      /\ issued' = {} /\ UNCHANGED <<nappends, acked>> /\ segs' = T
  BY DEF ProcessCrash, NoHandle
<1>2. segs \in Seq(Segment) /\ Chained(segs) /\ acked \subseteq Nat \X Nat /\ n \in Nat
  BY DEF LogInv, WriterTypes
<1>3. ASSUME NEW k \in 1 .. n
      PROVE  /\ T[k] \in Segment /\ Step(segs[k], T[k]) /\ T[k].vis = Len(T[k].items)
             /\ Full(segs[k]) => T[k].items = segs[k].items /\ Full(T[k])
  <2> DEFINE s == segs[k]
             t == CutTo(s, s.vis)
  <2>1. s \in Segment /\ Fits(s)
    BY <1>2 DEF Chained
  <2>2. T[k] = t
    OBVIOUS
  <2> HIDE DEF s, T
  <2>3. /\ s.vis \in 0 .. Len(s.items) /\ s.dur \in 0 .. Len(s.items) /\ s.dur <= s.vis
        /\ s.items \in Seq(Items)
    BY <2>1, FitsFacts
  <2>4. CommittedEnd(Cut(s, s.vis)) \in 0 .. s.vis
    BY <2>1, <2>3, CutFacts
  <2>5. CommittedEnd(Cut(s, s.vis)) <= s.vis
    BY <2>3, <2>4
  <2>6. Step(s, t)
    BY <2>1, <2>3, <2>5, StepCut
  <2>7. /\ t \in Segment /\ t.items = SubSeq(s.items, 1, s.vis) /\ Len(t.items) = s.vis /\ t.vis = s.vis
        /\ t.dur = IF s.dur <= s.vis THEN s.dur ELSE s.vis
    BY <2>1, <2>3, CutToFacts
  <2> HIDE DEF t
  <2>8. Full(s) => t.items = s.items /\ Full(t)
    BY <2>3, <2>7, WholePrefix DEF Full
  <2> QED BY <2>2, <2>6, <2>7, <2>8 DEF s
<1>4. T \in Seq(Segment) /\ Len(T) = n
  BY <1>2, <1>3
<1> HIDE DEF T
<1>5. \A k \in 1 .. n : Fits(T[k]) /\ T[k].base = segs[k].base
  BY <1>3 DEF Step
<1>6. n \in 0 .. Len(segs)
  BY <1>2
<1>7. Chained(T)
  BY <1>2, <1>3, <1>4, <1>5, <1>6, ChainCrash
<1>8. \A k \in 1 .. n - 1 : T[k].items = segs[k].items
  <2> TAKE k \in 1 .. n - 1
  <2>1. k \in 1 .. n /\ Full(segs[k])
    BY <1>2 DEF Chained
  <2> QED BY <1>3, <2>1
<1>9. Later(segs, T)
  BY <1>2, <1>3, <1>4, <1>7, <1>8 DEF Later
<1>10. Len(segs') > 0 => Active'.vis = Len(Active'.items)
  <2> SUFFICES ASSUME Len(segs') > 0 PROVE Active'.vis = Len(Active'.items)
    OBVIOUS
  <2>1. n \in 1 .. n /\ Active' = T[n]
    BY <1>1, <1>2, <1>4 DEF Active
  <2> QED BY <1>3, <2>1
<1>11. LogInv'
  BY <1>1, <1>2, <1>4, <1>7, <1>10, NoHandleLog
<1> QED BY <1>1, <1>9, <1>11

\* A power loss: of the first files survives what was durable, or more.
LEMMA MachineCrashFiles ==
    ASSUME LogInv, MachineCrash
    PROVE  \E m \in 0 .. Len(segs) :
             /\ \A k \in m + 1 .. Len(segs) : ~segs[k].entry
             /\ segs' \in Seq(Segment) /\ Len(segs') = m /\ Chained(segs')
             /\ \A k \in 1 .. m :
                  /\ segs'[k].base = segs[k].base /\ segs'[k].entry
                  /\ segs'[k].dur = segs[k].dur
                  /\ \E e \in {segs[k].vis, segs[k].dur} :
                       /\ segs'[k].items = SubSeq(segs[k].items, 1, e)
                       /\ segs'[k].vis = e /\ Len(segs'[k].items) = e
                  /\ Full(segs[k]) => segs'[k].items = segs[k].items /\ Full(segs'[k])
<1>1. PICK m \in 0 .. Len(segs) :
        /\ \A k \in m + 1 .. Len(segs) : ~segs[k].entry
        /\ \E more \in [1 .. m -> BOOLEAN] :
              segs' = [k \in 1 .. m |->
                         CutTo([segs[k] EXCEPT !.entry = TRUE],
                               IF more[k] THEN segs[k].vis ELSE segs[k].dur)]
  BY DEF MachineCrash
<1>2. PICK more \in [1 .. m -> BOOLEAN] :
              segs' = [k \in 1 .. m |->
                         CutTo([segs[k] EXCEPT !.entry = TRUE],
                               IF more[k] THEN segs[k].vis ELSE segs[k].dur)]
  BY <1>1
<1>3. segs \in Seq(Segment) /\ Chained(segs) /\ m \in Nat /\ Len(segs) \in Nat
  BY DEF LogInv, WriterTypes
<1>4. ASSUME NEW k \in 1 .. m
      PROVE  /\ segs'[k] \in Segment /\ Fits(segs'[k]) /\ segs'[k].base = segs[k].base /\ segs'[k].entry
             /\ segs'[k].dur = segs[k].dur
             /\ \E e \in {segs[k].vis, segs[k].dur} :
                  /\ segs'[k].items = SubSeq(segs[k].items, 1, e)
                  /\ segs'[k].vis = e /\ Len(segs'[k].items) = e
             /\ Full(segs[k]) => segs'[k].items = segs[k].items /\ Full(segs'[k])
  <2> DEFINE s == segs[k]
             e == IF more[k] THEN s.vis ELSE s.dur
             t == CutTo([s EXCEPT !.entry = TRUE], e)
  <2>1. k \in 1 .. Len(segs) /\ s \in Segment /\ Fits(s)
    BY <1>3 DEF Chained
  <2>2. segs'[k] = t
    BY <1>2
  <2>3. e = s.vis \/ e = s.dur
    OBVIOUS
  <2> HIDE DEF s, e
  <2>4. /\ t \in Segment /\ Fits(t) /\ t.base = s.base /\ t.entry = TRUE
        /\ t.items = SubSeq(s.items, 1, e) /\ t.vis = e /\ Len(t.items) = e
        /\ t.dur = s.dur
        /\ Full(s) => t.items = s.items /\ Full(t)
    BY <2>1, <2>3, CutToFull
  <2> HIDE DEF t
  <2> QED BY <2>2, <2>3, <2>4 DEF s
<1>5. segs' \in Seq(Segment) /\ Len(segs') = m
  <2>1. \A k \in 1 .. m : segs'[k] \in Segment
    BY <1>4
  <2> DEFINE F(k) == CutTo([segs[k] EXCEPT !.entry = TRUE],
                           IF more[k] THEN segs[k].vis ELSE segs[k].dur)
  <2>2. segs' = [k \in 1 .. m |-> F(k)]
    BY <1>2
  <2>3. \A k \in 1 .. m : F(k) \in Segment
    BY <2>1, <2>2
  <2> HIDE DEF F
  <2> QED BY <1>3, <2>2, <2>3
<1>6. Chained(segs')
  BY <1>3, <1>4, <1>5, ChainCrash
<1> QED BY <1>1, <1>4, <1>5, <1>6

LEMMA MachineCrashLog ==
    ASSUME LogInv, MachineCrash
    PROVE  LogInv'
<1>1. PICK m \in 0 .. Len(segs) :
        /\ segs' \in Seq(Segment) /\ Len(segs') = m /\ Chained(segs')
        /\ \A k \in 1 .. m : segs'[k].vis = Len(segs'[k].items)
  BY MachineCrashFiles
<1>2. /\ pc' = "none" /\ fp' = FALSE /\ next' = 0 /\ bytes' = 0 /\ dirty' = FALSE /\ closing' = "no"
      /\ issued' = {} /\ UNCHANGED <<nappends, acked>>
  BY DEF MachineCrash, NoHandle
<1>3. Len(segs') > 0 => Active'.vis = Len(Active'.items)
  <2> SUFFICES ASSUME Len(segs') > 0 PROVE Active'.vis = Len(Active'.items)
    OBVIOUS
  <2>1. m \in 1 .. m /\ Active' = segs'[m]
    BY <1>1 DEF Active
  <2> QED BY <1>1, <2>1
<1>4. acked' \subseteq Nat \X Nat
  BY <1>2 DEF LogInv, WriterTypes
<1> QED BY <1>1, <1>2, <1>3, <1>4, NoHandleLog
-----------------------------------------------------------------------------
(* The scanner.                                                            *)

Scans == [n : Nat, from : Nat, i : Nat, end : Nat,
          got : SUBSET (Nat \X Nat), owed : SUBSET (Nat \X Nat)]

\* A scan walks files that exist, never behind what is committed in them, and
\* has delivered every LSN between from_lsn and the segment it is at.
ScanInv ==
    /\ spc \in {"idle", "survey", "deliver", "done", "corrupt"}
    /\ scan \in Scans /\ OnePayload(scan.got)
    /\ spc \in {"survey", "deliver"} =>
         /\ scan.i \in 1 .. scan.n /\ scan.n <= Len(segs)
         /\ Lsns(scan.got) = scan.from .. segs[scan.i].base - 1
    /\ spc = "deliver" =>
         /\ scan.end \in 0 .. CommittedEnd(Cut(segs[scan.i], segs[scan.i].vis))
         /\ scan.i < scan.n => scan.end = Len(segs[scan.i].items)
    /\ spc = "done" => \E l \in Nat : Lsns(scan.got) = scan.from .. l - 1

\* What was ever delivered can still be delivered.
SeenInv ==
    /\ observed \subseteq Nat \X Nat /\ missed \in BOOLEAN
    /\ "machine" \notin world => observed \subseteq VisView

LEMMA SegmentFacts ==
    ASSUME LogInv, NEW k \in 1 .. Len(segs)
    PROVE  /\ segs \in Seq(Segment) /\ Chained(segs) /\ segs[k] \in Segment /\ Fits(segs[k])
           /\ segs[k].base \in Nat /\ Recs(segs[k]) \in Nat
           /\ segs[k].items \in Seq(Items) /\ Len(segs[k].items) \in Nat
           /\ segs[k].vis \in 0 .. Len(segs[k].items) /\ segs[k].dur \in 0 .. Len(segs[k].items)
           /\ segs[k].dur <= segs[k].vis
           /\ CommittedEnd(Cut(segs[k], segs[k].vis)) \in 0 .. segs[k].vis
           /\ CommittedEnd(Cut(segs[k], segs[k].dur)) \in 0 .. segs[k].dur
<1>1. segs \in Seq(Segment) /\ Chained(segs) /\ segs[k] \in Segment /\ Fits(segs[k])
  BY DEF LogInv, WriterTypes, Chained
<1> DEFINE s == segs[k]
<1>2. s \in Segment /\ Fits(s)
  BY <1>1
<1> HIDE DEF s
<1>3. /\ s.base \in Nat /\ s.items \in Seq(Items) /\ Len(s.items) \in Nat
      /\ s.vis \in 0 .. Len(s.items) /\ s.dur \in 0 .. Len(s.items) /\ s.dur <= s.vis
  BY <1>2, FitsFacts
<1>4. Recs(s) \in Nat
  BY <1>2, AllFacts
<1>5. CommittedEnd(Cut(s, s.vis)) \in 0 .. s.vis /\ CommittedEnd(Cut(s, s.dur)) \in 0 .. s.dur
  BY <1>2, <1>3, CutFacts
<1> QED BY <1>1, <1>3, <1>4, <1>5 DEF s

\* What the page cache and the disk hold of a file grows.
LEMMA LaterParts ==
    ASSUME LogInv, LogInv', Later(segs, segs'), NEW k \in 1 .. Len(segs)
    PROVE  /\ k \in 1 .. Len(segs') /\ segs'[k].base = segs[k].base
           /\ CommittedEnd(Cut(segs[k], segs[k].vis)) <= CommittedEnd(Cut(segs'[k], segs'[k].vis))
           /\ Part(segs[k], segs[k].vis) \subseteq Part(segs'[k], segs'[k].vis)
           /\ \A e \in 0 .. CommittedEnd(Cut(segs[k], segs[k].vis)) :
                Delivered(segs[k].base, Cut(segs[k], segs[k].vis), e)
                  \subseteq Delivered(segs'[k].base, Cut(segs'[k], segs'[k].vis), e)
           /\ Part(segs[k], segs[k].dur) \subseteq Part(segs'[k], segs'[k].dur)
           /\ segs[k].entry => segs'[k].entry
<1> DEFINE s == segs[k]
           t == segs'[k]
<1>1. k \in 1 .. Len(segs') /\ Step(s, t)
  <2>1. Len(segs) \in Nat /\ Len(segs') \in Nat /\ Len(segs) <= Len(segs')
    BY DEF LogInv, WriterTypes, Later
  <2> QED BY <2>1 DEF Later
<1>2. s \in Segment /\ s.vis \in 0 .. Len(s.items) /\ s.dur \in 0 .. Len(s.items)
  BY SegmentFacts
<1>3. t \in Segment /\ Fits(t) /\ t.base = s.base /\ Keeps(s, s.vis, t, t.vis) /\ Keeps(s, s.dur, t, t.dur)
  BY <1>1 DEF Step
<1> HIDE DEF s, t
<1>4. t.vis \in 0 .. Len(t.items) /\ t.dur \in 0 .. Len(t.items)
  BY <1>3, FitsFacts
<1>5. /\ CommittedEnd(Cut(s, s.vis)) <= CommittedEnd(Cut(t, t.vis))
      /\ Part(s, s.vis) \subseteq Part(t, t.vis)
      /\ \A e \in 0 .. CommittedEnd(Cut(s, s.vis)) :
           Delivered(s.base, Cut(s, s.vis), e) \subseteq Delivered(t.base, Cut(t, t.vis), e)
  BY <1>2, <1>3, <1>4, KeepsFacts
<1>6. Part(s, s.dur) \subseteq Part(t, t.dur)
  BY <1>2, <1>3, <1>4, KeepsFacts
<1>7. s.entry => t.entry
  BY <1>1 DEF Step
<1> QED BY <1>1, <1>3, <1>5, <1>6, <1>7 DEF s, t

LEMMA LaterScan ==
    ASSUME LogInv, LogInv', Later(segs, segs'), ScanInv, UNCHANGED <<spc, scan>>
    PROVE  ScanInv'
<1>1. CASE spc \in {"survey", "deliver"}
  <2> DEFINE k == scan.i
  <2>1. /\ k \in 1 .. scan.n /\ scan.n <= Len(segs) /\ scan.n \in Nat /\ Len(segs) \in Nat
        /\ Len(segs') \in Nat /\ Len(segs) <= Len(segs')
    BY <1>1 DEF ScanInv, Scans, LogInv, WriterTypes, Later
  <2>2. k \in 1 .. Len(segs) /\ scan.n <= Len(segs')
    BY <2>1
  <2>3. /\ segs'[k].base = segs[k].base
        /\ CommittedEnd(Cut(segs[k], segs[k].vis)) <= CommittedEnd(Cut(segs'[k], segs'[k].vis))
        /\ k \in 1 .. Len(segs')
    BY <2>2, LaterParts
  <2>4. CommittedEnd(Cut(segs[k], segs[k].vis)) \in Nat
    BY <2>2, SegmentFacts
  <2>5. CommittedEnd(Cut(segs'[k], segs'[k].vis)) \in Nat
    <3>1. segs'[k] \in Segment /\ segs'[k].vis \in 0 .. Len(segs'[k].items)
      <4>1. segs' \in Seq(Segment) /\ Chained(segs')
        BY DEF Later
      <4>2. segs'[k] \in Segment /\ Fits(segs'[k])
        BY <2>3, <4>1 DEF Chained
      <4> QED BY <4>2, FitsFacts
    <3> QED BY <3>1, CutFacts
  <2>6. ASSUME spc = "deliver"
        PROVE  /\ scan.end \in 0 .. CommittedEnd(Cut(segs'[k], segs'[k].vis))
               /\ k < scan.n => scan.end = Len(segs'[k].items)
    <3>1. /\ scan.end \in 0 .. CommittedEnd(Cut(segs[k], segs[k].vis))
          /\ k < scan.n => scan.end = Len(segs[k].items)
      BY <2>6 DEF ScanInv
    <3>2. k < scan.n => k \in 1 .. Len(segs) - 1
      BY <2>1
    <3>3. k < scan.n => segs'[k].items = segs[k].items
      BY <3>2 DEF Later
    <3>4. scan.end \in 0 .. CommittedEnd(Cut(segs'[k], segs'[k].vis))
      BY <2>3, <2>4, <2>5, <3>1
    <3> QED BY <3>1, <3>3, <3>4
  <2> QED BY <1>1, <2>1, <2>2, <2>3, <2>6 DEF ScanInv
<1>2. CASE spc \notin {"survey", "deliver"}
  BY <1>2 DEF ScanInv
<1> QED BY <1>1, <1>2

LEMMA LaterSeen ==
    ASSUME LogInv, LogInv', Later(segs, segs'), SeenInv, UNCHANGED <<world, observed>>, missed' \in BOOLEAN
    PROVE  SeenInv'
<1>1. ASSUME NEW r \in VisView PROVE r \in VisView'
  <2>1. PICK k \in 1 .. Len(segs) : r \in Part(segs[k], segs[k].vis)
    BY <1>1 DEF VisView
  <2>2. k \in 1 .. Len(segs') /\ r \in Part(segs'[k], segs'[k].vis)
    BY <2>1, LaterParts
  <2> QED BY <2>2 DEF VisView
<1> QED BY <1>1 DEF SeenInv

LEMMA NoScanFacts ==
    /\ NoScan \in Scans /\ NoScan.got = {} /\ NoScan.owed = {} /\ OnePayload(NoScan.got)
BY DEF NoScan, Scans, OnePayload

LEMMA ScanListStep ==
    ASSUME LogInv, NEW from \in Nat, ScanList(from)
    PROVE  /\ scan' = [n |-> Len(segs), from |-> from, i |-> 1, end |-> 0, got |-> {},
                       owed |-> {r \in acked : r[1] >= from}]
           /\ spc' = "survey" /\ 1 \in 1 .. Len(segs)
           /\ UNCHANGED <<segs, handle, nappends, ncrashes, ghosts>>
<1>1. /\ segs # <<>> /\ spc' = "survey" /\ UNCHANGED <<segs, handle, nappends, ncrashes, ghosts>>
      /\ scan' = [NoScan EXCEPT !.n = Len(segs), !.from = from, !.i = 1,
                                !.owed = {r \in acked : r[1] >= from}]
  BY DEF ScanList
<1>2. scan' = [n |-> Len(segs), from |-> from, i |-> 1, end |-> 0, got |-> {},
               owed |-> {r \in acked : r[1] >= from}]
  BY <1>1 DEF NoScan
<1>3. 1 \in 1 .. Len(segs)
  BY <1>1, EmptySeq DEF LogInv, WriterTypes
<1> QED BY <1>1, <1>2, <1>3

LEMMA ScanListReaders ==
    ASSUME LogInv, ScanInv, SeenInv, NEW from \in Nat, ScanList(from), UNCHANGED world
    PROVE  ScanInv' /\ SeenInv'
<1> DEFINE owe == {r \in acked : r[1] >= from}
<1>1. /\ scan' = [n |-> Len(segs), from |-> from, i |-> 1, end |-> 0, got |-> {}, owed |-> owe]
      /\ spc' = "survey" /\ 1 \in 1 .. Len(segs)
      /\ UNCHANGED segs /\ UNCHANGED observed /\ UNCHANGED missed
  BY ScanListStep DEF ghosts
<1>2. owe \subseteq Nat \X Nat
  BY DEF LogInv, WriterTypes
<1> HIDE DEF owe
<1>3. /\ scan'.n = Len(segs) /\ scan'.from = from /\ scan'.i = 1 /\ scan'.end = 0 /\ scan'.got = {}
      /\ scan'.owed = owe
  BY <1>1
<1>4. Len(segs) \in Nat
  BY DEF LogInv, WriterTypes
<1>5. scan' \in Scans
  BY <1>1, <1>2, <1>4 DEF Scans
<1>6. segs[1].base = 0
  BY <1>1, <1>4 DEF LogInv, Chained
<1>7. Lsns(scan'.got) = {} /\ OnePayload(scan'.got)
  BY <1>3 DEF Lsns, OnePayload
<1>8. from .. segs[1].base - 1 = {}
  BY <1>6
<1>9. ScanInv'
  <2>1. scan'.i \in 1 .. scan'.n /\ scan'.n <= Len(segs')
    BY <1>1, <1>3, <1>4
  <2>2. Lsns(scan'.got) = scan'.from .. segs'[scan'.i].base - 1
    BY <1>1, <1>3, <1>7, <1>8
  <2> QED BY <1>1, <1>5, <1>7, <2>1, <2>2 DEF ScanInv
<1>10. SeenInv'
  BY <1>1 DEF SeenInv, VisView
<1> QED BY <1>9, <1>10

LEMMA ScanSurveyReaders ==
    ASSUME LogInv, ScanInv, SeenInv, ScanSurvey, UNCHANGED world
    PROVE  ScanInv' /\ SeenInv'
<1> DEFINE k == scan.i
           s == segs[k]
           e == CommittedEnd(Visible(s))
<1>1. spc = "survey" /\ UNCHANGED <<segs, observed, missed>>
  BY DEF ScanSurvey, ghosts
<1>2. /\ k \in 1 .. scan.n /\ scan.n <= Len(segs) /\ scan.n \in Nat /\ Len(segs) \in Nat /\ scan \in Scans
      /\ scan.from \in Nat /\ Lsns(scan.got) = scan.from .. s.base - 1
  BY <1>1 DEF ScanInv, Scans, LogInv, WriterTypes
<1>3. k \in 1 .. Len(segs)
  BY <1>2
<1>4. SeenInv'
  BY <1>1 DEF SeenInv, VisView
<1>5. CASE /\ k < scan.n /\ segs[k + 1].base <= scan.from
           /\ scan' = [scan EXCEPT !.i = @ + 1] /\ UNCHANGED spc
  <2>1. /\ scan' = [n |-> scan.n, from |-> scan.from, i |-> k + 1, end |-> scan.end, got |-> scan.got,
                    owed |-> scan.owed]
        /\ k + 1 \in Nat
    BY <1>2, <1>5 DEF Scans
  <2>2. scan' \in Scans
    BY <1>2, <2>1 DEF Scans
  <2>3. scan'.n = scan.n /\ scan'.from = scan.from /\ scan'.i = k + 1 /\ scan'.got = scan.got
    BY <2>1
  <2>4. k + 1 \in 1 .. scan.n /\ k + 1 \in 1 .. Len(segs) /\ k < k + 1
    BY <1>2, <1>5
  <2>5. s.base + Recs(s) <= segs[k + 1].base
    BY <1>3, <2>4 DEF LogInv, Chained
  <2>6. s.base \in Nat /\ Recs(s) \in Nat
    BY <1>3, SegmentFacts
  <2>7. segs[k + 1].base \in Nat
    BY <2>4, SegmentFacts
  <2> HIDE DEF k, s
  <2>8. scan.from .. s.base - 1 = {} /\ scan.from .. segs[k + 1].base - 1 = {}
    <3> DEFINE u == segs[k + 1].base
               f == scan.from
               v == s.base
    <3>1. u \in Nat /\ f \in Nat /\ v \in Nat /\ u <= f /\ v <= u
      <4>1. v <= u
        BY <2>5, <2>6, <2>7
      <4> QED BY <1>2, <1>5, <2>6, <2>7, <4>1
    <3> HIDE DEF u, f, v
    <3>2. f .. v - 1 = {}
      BY <3>1
    <3>3. f .. u - 1 = {}
      BY <3>1
    <3> QED BY <3>2, <3>3 DEF u, f, v
  <2>9. Lsns(scan'.got) = scan'.from .. segs'[scan'.i].base - 1
    BY <1>1, <1>2, <2>3, <2>8
  <2>10. scan'.i \in 1 .. scan'.n /\ scan'.n <= Len(segs')
    BY <1>1, <1>2, <2>3, <2>4
  <2>11. OnePayload(scan'.got)
    BY <2>3 DEF ScanInv
  <2> QED BY <1>1, <1>4, <1>5, <2>2, <2>9, <2>10, <2>11 DEF ScanInv
<1>6. CASE /\ spc' = IF k < scan.n /\ e # Len(Visible(s)) THEN "corrupt" ELSE "deliver"
           /\ scan' = [scan EXCEPT !.end = e]
  <2>1. /\ s.vis \in 0 .. Len(s.items) /\ s \in Segment
    BY <1>3, SegmentFacts
  <2>2. Visible(s) = Cut(s, s.vis) /\ Len(Visible(s)) = s.vis /\ e \in 0 .. s.vis
    BY <2>1, CutFacts DEF Visible, Cut
  <2>3. e \in Nat
    BY <2>1, <2>2
  <2>4. scan' = [n |-> scan.n, from |-> scan.from, i |-> k, end |-> e, got |-> scan.got,
                 owed |-> scan.owed]
    BY <1>2, <1>6 DEF Scans
  <2>5. scan' \in Scans
    BY <1>2, <2>3, <2>4 DEF Scans
  <2>6. scan'.n = scan.n /\ scan'.from = scan.from /\ scan'.i = k /\ scan'.got = scan.got /\ scan'.end = e
    BY <2>4
  <2>7. e \in 0 .. CommittedEnd(Cut(s, s.vis))
    BY <2>2, <2>3
  <2>8. ASSUME spc' = "deliver", k < scan.n PROVE e = Len(s.items)
    <3>1. k \in 1 .. Len(segs) - 1
      BY <1>2, <2>8
    <3>2. Full(s)
      BY <3>1 DEF LogInv, Chained
    <3> QED BY <1>6, <2>2, <2>8, <3>2 DEF Full
  <2> HIDE DEF k, s, e
  <2>9. OnePayload(scan'.got)
    BY <2>6 DEF ScanInv
  <2>10. scan'.i \in 1 .. scan'.n /\ scan'.n <= Len(segs')
    BY <1>1, <1>2, <2>6
  <2>11. s = segs'[scan'.i]
    BY <1>1, <2>6 DEF s
  <2>12. Lsns(scan'.got) = scan'.from .. segs'[scan'.i].base - 1
    BY <1>2, <2>6, <2>11
  <2>13. spc' \in {"corrupt", "deliver"}
    BY <1>6
  <2>14. scan'.end \in 0 .. CommittedEnd(Cut(segs'[scan'.i], segs'[scan'.i].vis))
    BY <2>6, <2>7, <2>11
  <2>15. spc' = "deliver" /\ scan'.i < scan'.n => scan'.end = Len(segs'[scan'.i].items)
    BY <2>6, <2>8, <2>11
  <2> QED BY <1>4, <2>5, <2>9, <2>10, <2>12, <2>13, <2>14, <2>15 DEF ScanInv
<1> QED BY <1>5, <1>6 DEF ScanSurvey

\* What ScanDeliver hands to the callback.
New == {r \in Delivered(segs[scan.i].base, Visible(segs[scan.i]), scan.end) : r[1] >= scan.from}

LEMMA ScanDeliverStep ==
    ASSUME ScanInv, ScanDeliver
    PROVE  /\ scan' = [n |-> scan.n, from |-> scan.from, i |-> scan.i + 1, end |-> scan.end,
                       got |-> scan.got \cup New, owed |-> scan.owed]
           /\ observed' = observed \cup New
           /\ spc = "deliver" /\ spc' = IF scan.i < scan.n THEN "survey" ELSE "done"
           /\ UNCHANGED <<segs, issued, acked, missed>>
<1> DEFINE g == scan.got \cup New
           k == scan.i + 1
           a == [scan EXCEPT !.got = g]
           b == [a EXCEPT !.i = k]
<1>1. /\ observed' = observed \cup New /\ spc = "deliver"
      /\ spc' = IF scan.i < scan.n THEN "survey" ELSE "done"
      /\ UNCHANGED <<segs, issued, acked, missed>>
      /\ scan' = [scan EXCEPT !.got = @ \cup New, !.i = @ + 1]
  BY DEF ScanDeliver, New
<1>2. scan' = [scan EXCEPT !.got = g, !.i = k]
  BY <1>1, Zenon
<1>3. scan \in Scans
  BY DEF ScanInv
<1> HIDE DEF g, k
<1>4. a = [n |-> scan.n, from |-> scan.from, i |-> scan.i, end |-> scan.end, got |-> g,
           owed |-> scan.owed]
  BY <1>3 DEF Scans
<1>5. b = [n |-> scan.n, from |-> scan.from, i |-> k, end |-> scan.end, got |-> g,
           owed |-> scan.owed]
  <2> HIDE DEF a
  <2>1. b = [n |-> a.n, from |-> a.from, i |-> k, end |-> a.end, got |-> a.got, owed |-> a.owed]
    BY <1>4
  <2> QED BY <1>4, <2>1
<1>6. scan' = [n |-> scan.n, from |-> scan.from, i |-> k, end |-> scan.end, got |-> g,
               owed |-> scan.owed]
  BY <1>2, <1>5, Zenon
<1> QED BY <1>1, <1>6, Zenon DEF g, k

\* Delivering what is at or above from_lsn of a segment closes up with what
\* was delivered before it.
LEMMA SpanJoin ==
    ASSUME NEW G, NEW D, NEW f \in Nat, NEW b \in Nat, NEW u \in Nat, b <= u,
           OnePayload(G), OnePayload(D), Lsns(G) = f .. b - 1, Lsns(D) = b .. u - 1
    PROVE  LET N == {r \in D : r[1] >= f}
           IN  Lsns(G \cup N) = f .. u - 1 /\ OnePayload(G \cup N)
<1> DEFINE N == {r \in D : r[1] >= f}
<1>1. ASSUME NEW r \in G PROVE r[1] \in f .. b - 1
  <2>1. r[1] \in Lsns(G)
    BY DEF Lsns
  <2> QED BY <2>1
<1>2. ASSUME NEW r \in N PROVE r[1] \in b .. u - 1 /\ r[1] >= f
  <2>1. r[1] \in Lsns(D)
    BY DEF Lsns
  <2> QED BY <2>1
<1>3. OnePayload(G \cup N)
  <2>1. ASSUME NEW r \in G \cup N, NEW q \in G \cup N, r[1] = q[1] PROVE r = q
    <3>1. CASE r \in G /\ q \in G
      BY <2>1, <3>1 DEF OnePayload
    <3>2. CASE r \in N /\ q \in N
      BY <2>1, <3>2 DEF OnePayload
    <3>3. CASE r \in G /\ q \in N
      <4>1. r[1] \in f .. b - 1 /\ q[1] \in b .. u - 1
        BY <1>1, <1>2, <3>3
      <4> QED BY <2>1, <4>1
    <3>4. CASE r \in N /\ q \in G
      <4>1. q[1] \in f .. b - 1 /\ r[1] \in b .. u - 1
        BY <1>1, <1>2, <3>4
      <4> QED BY <2>1, <4>1
    <3> QED BY <3>1, <3>2, <3>3, <3>4
  <2> QED BY <2>1 DEF OnePayload
<1>4. ASSUME NEW l \in Lsns(G \cup N) PROVE l \in f .. u - 1
  <2>1. PICK r \in G \cup N : l = r[1]
    BY DEF Lsns
  <2>2. CASE r \in G
    <3>1. r[1] \in f .. b - 1
      BY <1>1, <2>2
    <3> QED BY <2>1, <3>1
  <2>3. CASE r \in N
    <3>1. r[1] \in b .. u - 1 /\ r[1] >= f
      BY <1>2, <2>3
    <3> QED BY <2>1, <3>1
  <2> QED BY <2>2, <2>3
<1>5. ASSUME NEW l \in f .. u - 1 PROVE l \in Lsns(G \cup N)
  <2>1. CASE l < b
    <3>1. l \in Lsns(G)
      BY <2>1
    <3> QED BY <3>1 DEF Lsns
  <2>2. CASE l >= b
    <3>1. l \in Lsns(D)
      BY <2>2
    <3>2. PICK r \in D : l = r[1]
      BY <3>1 DEF Lsns
    <3>3. r \in N
      BY <3>2
    <3> QED BY <3>2, <3>3 DEF Lsns
  <2> QED BY <2>1, <2>2
<1> QED BY <1>3, <1>4, <1>5

\* What is delivered: committed entries of the segment the scan is at.
LEMMA NewFound ==
    ASSUME LogInv, ScanInv, spc = "deliver"
    PROVE  /\ scan.i \in 1 .. scan.n /\ scan.i \in 1 .. Len(segs)
           /\ New \subseteq Nat \X Nat
           /\ New \subseteq Part(segs[scan.i], segs[scan.i].vis)
           /\ OnePayload(scan.got \cup New)
           /\ \E u \in Nat : /\ Lsns(scan.got \cup New) = scan.from .. u - 1
                             /\ scan.i < scan.n => u = segs[scan.i + 1].base
<1> DEFINE k == scan.i
           s == segs[k]
           e == scan.end
           c == CommittedEnd(Cut(s, s.vis))
           D == Delivered(s.base, Cut(s, s.vis), e)
           u == s.base + Records(s.items, e)
<1>1. /\ k \in 1 .. scan.n /\ scan.n <= Len(segs) /\ scan.n \in Nat /\ Len(segs) \in Nat
      /\ scan.from \in Nat /\ Lsns(scan.got) = scan.from .. s.base - 1 /\ OnePayload(scan.got)
      /\ e \in 0 .. c /\ (k < scan.n => e = Len(s.items))
  BY DEF ScanInv, Scans, LogInv, WriterTypes
<1>2. k \in 1 .. Len(segs)
  BY <1>1
<1>3. s \in Segment /\ s.base \in Nat /\ s.vis \in 0 .. Len(s.items) /\ c \in 0 .. s.vis /\ Len(s.items) \in Nat
  BY <1>2, SegmentFacts
<1>4. New = {r \in D : r[1] >= scan.from}
  BY DEF New, Visible, Cut
<1>5. k < scan.n => u = segs[k + 1].base
  <2> SUFFICES ASSUME k < scan.n PROVE u = segs[k + 1].base
    OBVIOUS
  <2>1. k \in 1 .. Len(segs) - 1
    BY <1>1
  <2>2. segs[k + 1].base = s.base + Recs(s)
    BY <2>1 DEF LogInv, Chained
  <2> QED BY <1>1, <2>2 DEF Recs
<1> HIDE DEF s, k, e
<1>6. e \in 0 .. s.vis
  BY <1>1, <1>3
<1>7. /\ D \subseteq Nat \X Nat /\ OnePayload(D) /\ Records(s.items, e) \in Nat
      /\ Lsns(D) = s.base .. s.base + Records(s.items, e) - 1
  BY <1>3, <1>6, DeliveredWithin
<1>8. u \in Nat /\ s.base <= u
  BY <1>3, <1>7
<1>9. D \subseteq Part(s, s.vis)
  <2>1. e \in Nat /\ c \in Nat /\ e <= c
    BY <1>1, <1>3
  <2> QED BY <2>1, DeliveredGrows DEF Part
<1>13. s.base + Records(s.items, e) - 1 = u - 1
  BY <1>3, <1>7
<1> HIDE DEF D, u
<1>10. Lsns(D) = s.base .. u - 1
  BY <1>7, <1>13
<1>11. Lsns(scan.got \cup New) = scan.from .. u - 1 /\ OnePayload(scan.got \cup New)
  <2> DEFINE G == scan.got
             f == scan.from
             b == s.base
             N == {r \in D : r[1] >= f}
  <2>1. f \in Nat /\ b \in Nat /\ u \in Nat /\ b <= u
    BY <1>1, <1>3, <1>8
  <2>2. OnePayload(G) /\ OnePayload(D) /\ Lsns(G) = f .. b - 1 /\ Lsns(D) = b .. u - 1
    BY <1>1, <1>7, <1>10
  <2> HIDE DEF G, f, b
  <2>3. Lsns(G \cup N) = f .. u - 1 /\ OnePayload(G \cup N)
    BY <2>1, <2>2, SpanJoin
  <2> QED BY <1>4, <2>3 DEF G, f
<1>12. New \subseteq Nat \X Nat /\ New \subseteq Part(s, s.vis)
  BY <1>4, <1>7, <1>9
<1> QED BY <1>1, <1>2, <1>5, <1>8, <1>11, <1>12 DEF s, k

LEMMA ScanDeliverReaders ==
    ASSUME LogInv, ScanInv, SeenInv, ScanDeliver, UNCHANGED world
    PROVE  ScanInv' /\ SeenInv'
<1>1. /\ scan' = [n |-> scan.n, from |-> scan.from, i |-> scan.i + 1, end |-> scan.end,
                  got |-> scan.got \cup New, owed |-> scan.owed]
      /\ observed' = observed \cup New
      /\ spc = "deliver" /\ spc' = IF scan.i < scan.n THEN "survey" ELSE "done"
      /\ UNCHANGED <<segs, missed>>
  BY ScanDeliverStep
<1>2. /\ scan.i \in 1 .. scan.n /\ scan.i \in 1 .. Len(segs) /\ New \subseteq Nat \X Nat
      /\ New \subseteq Part(segs[scan.i], segs[scan.i].vis) /\ OnePayload(scan.got \cup New)
  BY <1>1, NewFound
<1>3. PICK u \in Nat : /\ Lsns(scan.got \cup New) = scan.from .. u - 1
                       /\ scan.i < scan.n => u = segs[scan.i + 1].base
  BY <1>1, NewFound
<1>4. /\ scan'.n = scan.n /\ scan'.from = scan.from /\ scan'.i = scan.i + 1
      /\ scan'.got = scan.got \cup New
  BY <1>1
<1>5. scan.n \in Nat /\ scan.n <= Len(segs) /\ scan \in Scans /\ Len(segs) \in Nat
  BY <1>1 DEF ScanInv, Scans, LogInv, WriterTypes
<1>6. scan' \in Scans
  <2>1. scan.i + 1 \in Nat /\ scan.got \cup New \subseteq Nat \X Nat
    BY <1>2, <1>5 DEF Scans
  <2> QED BY <1>1, <1>5, <2>1 DEF Scans
<1>7. SeenInv'
  <2>1. New \subseteq VisView
    BY <1>2 DEF VisView
  <2>2. VisView' = VisView
    BY <1>1 DEF VisView
  <2> QED BY <1>1, <1>2, <2>1, <2>2 DEF SeenInv
<1>8. CASE scan.i < scan.n
  <2>1. spc' = "survey"
    BY <1>1, <1>8
  <2>2. scan'.i \in 1 .. scan'.n /\ scan'.n <= Len(segs')
    BY <1>1, <1>2, <1>4, <1>5, <1>8
  <2>3. Lsns(scan'.got) = scan'.from .. segs'[scan'.i].base - 1
    BY <1>1, <1>3, <1>4, <1>8
  <2> QED BY <1>2, <1>4, <1>6, <1>7, <2>1, <2>2, <2>3 DEF ScanInv
<1>9. CASE ~(scan.i < scan.n)
  <2>1. spc' = "done"
    BY <1>1, <1>9
  <2>2. \E l \in Nat : Lsns(scan'.got) = scan'.from .. l - 1
    BY <1>3, <1>4
  <2> QED BY <1>2, <1>4, <1>6, <1>7, <2>1, <2>2 DEF ScanInv
<1> QED BY <1>8, <1>9

LEMMA ScanReturnReaders ==
    ASSUME LogInv, ScanInv, SeenInv, ScanReturn, UNCHANGED world
    PROVE  ScanInv' /\ SeenInv'
<1>1. spc' = "idle" /\ scan' = NoScan /\ UNCHANGED <<segs, observed>> /\ missed' \in BOOLEAN
  BY DEF ScanReturn
<1>2. ScanInv'
  BY <1>1, NoScanFacts DEF ScanInv
<1>3. SeenInv'
  BY <1>1 DEF SeenInv, VisView
<1> QED BY <1>2, <1>3
-----------------------------------------------------------------------------
(* Readers, whatever fails.                                                *)

ReadInv == LogInv /\ ScanInv /\ SeenInv

LEMMA WriterLog ==
    ASSUME LogInv, WriterStep
    PROVE  LogInv' /\ Later(segs, segs')
<1>1. CASE OpenExisting
  BY <1>1, OpenExistingLog
<1>2. CASE OpenNew
  BY <1>2, OpenNewLog
<1>3. CASE OpenSyncDir
  BY <1>3, OpenSyncDirLog
<1>4. CASE AppendCall
  BY <1>4, AppendCallLog
<1>5. CASE AppendWrite
  BY <1>5, AppendWriteLog
<1>6. CASE RotateFrame
  BY <1>6, WriteFrameLog DEF RotateFrame
<1>7. CASE RotateFlush
  BY <1>7, FlushLog DEF RotateFlush
<1>8. CASE RotateSync
  BY <1>8, SyncLog DEF RotateSync
<1>9. CASE RotateClose
  BY <1>9, RotateCloseLog
<1>10. CASE RotateOpen
  BY <1>10, RotateOpenLog
<1>11. CASE RotateSyncDir
  BY <1>11, RotateSyncDirLog
<1>12. CASE CommitClean
  BY <1>12, CommitCleanLog
<1>13. CASE CommitCall
  BY <1>13, CommitCallLog
<1>14. CASE CommitFrame
  BY <1>14, WriteFrameLog DEF CommitFrame
<1>15. CASE CommitFlush
  BY <1>15, FlushLog DEF CommitFlush
<1>16. CASE CommitSync
  BY <1>16, SyncLog DEF CommitSync
<1>17. CASE CommitReturn
  BY <1>17, CommitReturnLog
<1>18. CASE CloseCall
  BY <1>18, CloseCallLog
<1>19. CASE CloseFile
  BY <1>19, CloseFileLog
<1>20. CASE Spill
  BY <1>20, SpillLog
<1> QED BY <1>1, <1>2, <1>3, <1>4, <1>5, <1>6, <1>7, <1>8, <1>9, <1>10, <1>11, <1>12, <1>13, <1>14,
           <1>15, <1>16, <1>17, <1>18, <1>19, <1>20 DEF WriterStep

\* The writer touches nothing of the scanner's.
LEMMA WriterApart ==
    ASSUME WriterStep
    PROVE  UNCHANGED <<spc, scan>> /\ UNCHANGED <<observed, missed>>
<1>1. CASE OpenExisting \/ OpenNew \/ OpenSyncDir \/ AppendCall \/ AppendWrite
  BY <1>1 DEF OpenExisting, OpenNew, OpenSyncDir, AppendCall, AppendWrite, scanner, ghosts
<1>2. CASE RotateFrame \/ RotateFlush \/ RotateSync \/ CommitFrame \/ CommitFlush \/ CommitSync
  BY <1>2 DEF RotateFrame, RotateFlush, RotateSync, CommitFrame, CommitFlush, CommitSync, WriteFrame,
              Flush, Sync, scanner, ghosts
<1>3. CASE RotateClose \/ RotateOpen \/ RotateSyncDir \/ CommitClean \/ CommitCall
  BY <1>3 DEF RotateClose, RotateOpen, RotateSyncDir, CommitClean, CommitCall, scanner, ghosts
<1>4. CASE CommitReturn \/ CloseCall \/ CloseFile \/ Spill
  BY <1>4 DEF CommitReturn, CloseCall, CloseFile, Spill, scanner, ghosts
<1> QED BY <1>1, <1>2, <1>3, <1>4 DEF WriterStep

\* The scanner touches nothing of the writer's.
LEMMA ScanApart ==
    ASSUME ScanStep
    PROVE  UNCHANGED <<segs, pc, fp, next, bytes, dirty, closing, nappends, issued, acked>>
<1>1. CASE \E from \in 0 .. MaxAppends : ScanList(from)
  BY <1>1 DEF ScanList, handle, ghosts
<1>2. CASE ScanSurvey \/ ScanDeliver \/ ScanReturn
  BY <1>2 DEF ScanSurvey, ScanDeliver, ScanReturn, handle, ghosts
<1> QED BY <1>1, <1>2 DEF ScanStep

LEMMA LogSame ==
    ASSUME LogInv, UNCHANGED <<segs, pc, fp, next, bytes, dirty, closing, nappends, issued, acked>>
    PROVE  LogInv'
<1>1. WriterTypes'
  BY DEF LogInv, WriterTypes
<1>2. Active' = Active
  BY DEF Active
<1> QED BY <1>1, <1>2 DEF LogInv

LEMMA ReadInit == ASSUME Init PROVE ReadInv
<1>1. Len(segs) = 0 /\ segs \in Seq(Segment)
  BY DEF Init
<1>2. Chained(segs)
  BY <1>1 DEF Chained
<1>3. WriterTypes
  <2>1. 0 \in 0 .. SegLimit + 1
    BY AofAssumption
  <2> QED BY <1>1, <2>1 DEF Init, WriterTypes, PCs
<1>4. LogInv
  BY <1>1, <1>2, <1>3 DEF LogInv, Init
<1>5. ScanInv
  BY NoScanFacts DEF Init, ScanInv
<1>6. SeenInv
  BY DEF Init, SeenInv
<1> QED BY <1>4, <1>5, <1>6 DEF ReadInv

LEMMA ReadStep == ASSUME ReadInv, [Next]_vars PROVE ReadInv'
<1>0. LogInv /\ ScanInv /\ SeenInv
  BY DEF ReadInv
<1>1. CASE WriterStep /\ UNCHANGED world
  <2>1. LogInv' /\ Later(segs, segs') /\ UNCHANGED <<spc, scan>> /\ UNCHANGED <<observed, missed>>
    BY <1>0, <1>1, WriterLog, WriterApart
  <2>2. ScanInv'
    BY <1>0, <2>1, LaterScan
  <2>3. missed' \in BOOLEAN
    BY <1>0, <2>1 DEF SeenInv
  <2>4. SeenInv'
    BY <1>0, <1>1, <2>1, <2>3, LaterSeen
  <2> QED BY <2>1, <2>2, <2>4 DEF ReadInv
<1>2. CASE ScanStep /\ UNCHANGED world
  <2>1. LogInv'
    BY <1>0, <1>2, ScanApart, LogSame
  <2>2. CASE \E from \in 0 .. MaxAppends : ScanList(from)
    <3>1. PICK from \in 0 .. MaxAppends : ScanList(from)
      BY <2>2
    <3>2. from \in Nat
      BY AofAssumption
    <3> QED BY <1>0, <1>2, <2>1, <3>1, <3>2, ScanListReaders DEF ReadInv
  <2>3. CASE ScanSurvey
    BY <1>0, <1>2, <2>1, <2>3, ScanSurveyReaders DEF ReadInv
  <2>4. CASE ScanDeliver
    BY <1>0, <1>2, <2>1, <2>4, ScanDeliverReaders DEF ReadInv
  <2>5. CASE ScanReturn
    BY <1>0, <1>2, <2>1, <2>5, ScanReturnReaders DEF ReadInv
  <2> QED BY <1>2, <2>2, <2>3, <2>4, <2>5 DEF ScanStep
<1>3. CASE ProcessCrash /\ UNCHANGED world
  <2>1. LogInv' /\ Later(segs, segs')
    BY <1>0, <1>3, ProcessCrashLog
  <2>2. UNCHANGED <<spc, scan>> /\ UNCHANGED <<observed, missed>>
    BY <1>3 DEF ProcessCrash, scanner
  <2>3. ScanInv'
    BY <1>0, <2>1, <2>2, LaterScan
  <2>4. missed' \in BOOLEAN
    BY <1>0, <2>2 DEF SeenInv
  <2>5. SeenInv'
    BY <1>0, <1>3, <2>1, <2>2, <2>4, LaterSeen
  <2> QED BY <2>1, <2>3, <2>5 DEF ReadInv
<1>4. CASE MachineCrash /\ UNCHANGED world
  <2>1. LogInv'
    BY <1>0, <1>4, MachineCrashLog
  <2>2. "machine" \in world' /\ spc' = "idle" /\ scan' = NoScan /\ UNCHANGED <<observed, missed>>
    BY <1>4 DEF MachineCrash
  <2>3. ScanInv'
    BY <2>2, NoScanFacts DEF ScanInv
  <2>4. SeenInv'
    BY <1>0, <2>2 DEF SeenInv
  <2> QED BY <2>1, <2>3, <2>4 DEF ReadInv
<1>5. CASE UNCHANGED vars
  <2>1. LogInv'
    BY <1>0, <1>5, LogSame DEF vars, handle, ghosts
  <2>2. UNCHANGED <<segs, spc, scan>> /\ UNCHANGED <<world, observed, missed>>
    BY <1>5 DEF vars, scanner, ghosts
  <2>3. ScanInv' /\ SeenInv'
    BY <1>0, <2>2 DEF ScanInv, SeenInv, VisView
  <2> QED BY <2>1, <2>3 DEF ReadInv
<1> QED BY <1>1, <1>2, <1>3, <1>4, <1>5 DEF Next, Stopped

\* A set of entries with one payload per LSN is as large as its set of LSNs.
LEMMA EntryCount ==
    ASSUME NEW G, OnePayload(G), NEW f \in Nat, NEW l \in Nat, Lsns(G) = f .. l - 1
    PROVE  IsFiniteSet(G) /\ Cardinality(G) \in Nat /\ Lsns(G) = f .. f + Cardinality(G) - 1
<1> DEFINE I == Lsns(G)
           h == [r \in G |-> r[1]]
           d == IF f <= l THEN l - f ELSE 0
<1>1. d \in Nat /\ f .. l - 1 = f .. f + d - 1
  OBVIOUS
<1>2. IsFiniteSet(I) /\ Cardinality(I) = d
  <2> HIDE DEF d
  <2> QED BY <1>1, SpanCount
<1>3. h \in Injection(G, I)
  <2>1. h \in [G -> I]
    BY DEF Lsns
  <2>2. \A r, q \in G : h[r] = h[q] => r = q
    BY DEF OnePayload
  <2> QED BY <2>1, <2>2 DEF Injection, IsInjective
<1>4. h \in Surjection(G, I)
  <2>1. h \in [G -> I] /\ \A x \in I : \E r \in G : h[r] = x
    BY DEF Lsns
  <2> QED BY <2>1 DEF Surjection
<1>5. IsFiniteSet(G) /\ Cardinality(G) = Cardinality(I)
  <2> HIDE DEF I, h
  <2> QED BY <1>2, <1>3, <1>4, FS_Injection
<1> HIDE DEF d
<1> QED BY <1>1, <1>2, <1>5

LEMMA ReadersFollow == ASSUME ReadInv PROVE ReadersRight
<1>0. LogInv /\ ScanInv /\ SeenInv /\ segs \in Seq(Segment) /\ Chained(segs)
  BY DEF ReadInv, LogInv, WriterTypes
<1>1. TypeOK
  <2>1. ASSUME NEW k \in 1 .. Len(segs)
        PROVE  /\ segs[k].base \in Nat /\ segs[k].items \in Seq(Items)
               /\ segs[k].dur <= segs[k].vis /\ segs[k].vis <= Len(segs[k].items)
               /\ segs[k].dur \in Nat /\ segs[k].vis \in Nat /\ segs[k].entry \in BOOLEAN
    <3>1. /\ segs[k].base \in Nat /\ segs[k].items \in Seq(Items) /\ segs[k] \in Segment
          /\ segs[k].vis \in 0 .. Len(segs[k].items) /\ segs[k].dur \in 0 .. Len(segs[k].items)
          /\ segs[k].dur <= segs[k].vis /\ Len(segs[k].items) \in Nat
      BY <1>0, SegmentFacts
    <3> QED BY <3>1 DEF Segment
  <2>2. issued \cup acked \cup observed \subseteq Nat \X Nat
    BY <1>0 DEF LogInv, WriterTypes, SeenInv
  <2> QED BY <1>0, <2>1, <2>2 DEF TypeOK, LogInv, WriterTypes, SeenInv
<1>2. SegmentChain
  <2>1. fp => next = Active.base + Recs(Active)
    BY <1>0 DEF LogInv, Sound
  <2> QED BY <1>0, <2>1 DEF SegmentChain, Chained, Recs
<1>3. ScanContiguous
  <2> SUFFICES ASSUME spc = "done"
               PROVE  {r[1] : r \in scan.got} = scan.from .. scan.from + Cardinality(scan.got) - 1
    BY DEF ScanContiguous
  <2>1. PICK l \in Nat : Lsns(scan.got) = scan.from .. l - 1
    BY <1>0 DEF ScanInv
  <2>2. scan.from \in Nat /\ OnePayload(scan.got)
    BY <1>0 DEF ScanInv, Scans
  <2>3. Lsns(scan.got) = scan.from .. scan.from + Cardinality(scan.got) - 1
    BY <2>1, <2>2, EntryCount
  <2> QED BY <2>3 DEF Lsns
<1>4. "machine" \notin world => LsnStable
  <2> SUFFICES ASSUME "machine" \notin world PROVE LsnStable
    OBVIOUS
  <2>1. VisView \subseteq AllView(segs)
    <3>1. ASSUME NEW k \in 1 .. Len(segs), NEW r \in Part(segs[k], segs[k].vis) PROVE r \in AllOf(segs[k])
      <4>1. /\ segs[k] \in Segment /\ segs[k].vis \in 0 .. Len(segs[k].items)
            /\ CommittedEnd(Cut(segs[k], segs[k].vis)) \in 0 .. segs[k].vis
        BY <1>0, SegmentFacts
      <4> QED BY <4>1, DeliveredWithin DEF Part, AllOf
    <3> QED BY <3>1 DEF VisView, AllView
  <2>2. OnePayload(AllView(segs))
    BY <1>0, ChainOnePayload
  <2> QED BY <1>0, <2>1, <2>2 DEF SeenInv, OnePayload, LsnStable
<1> QED BY <1>1, <1>2, <1>3, <1>4 DEF ReadersRight

\* Whatever call fails and whoever dies: segments follow each other without
\* gap or overlap and the handle continues where the last one ends, a finished
\* scan delivered consecutive LSNs from from_lsn on, and short of a power loss
\* an LSN that was delivered never stands for other data (aof.c).
THEOREM AofReaders == Spec => []ReadersRight
<1>1. Init => ReadInv
  BY ReadInit
<1>2. ReadInv /\ [Next]_vars => ReadInv'
  BY ReadStep
<1>3. ReadInv => ReadersRight
  BY ReadersFollow
<1> QED BY <1>1, <1>2, <1>3, PTL DEF Spec
-----------------------------------------------------------------------------
(* Where only open and close fail and the writer dies with its machine.    *)

Untorn(items) == \A j \in 1 .. Len(items) : items[j].kind # "torn"

\* The calls issued so far have been settled, as far as control point p with
\* the fields f (fp) and d (dirty) tells.
Settled(p, f, d) == p \in {"c_ok", "close"} \/ (p = "idle" /\ (~f \/ ~d))

Calmly(p, f, d, iss, s) ==
    /\ p # "none" /\ (~f \/ ~d) => CommittedEnd(s.items) = Len(s.items)
    /\ p \notin {"o_dir", "r_dir"} => s.entry
    /\ p = "o_dir" => iss = {}
    /\ p = "close" => ~f \/ ~d
    /\ Settled(p, f, d) => iss = {} \/ s.dur = Len(s.items)

\* Sealed segments end with a frame and have their directory entry, what was
\* issued is in the files and what was acknowledged is durable.
CalmLog ==
    /\ \A k \in 1 .. Len(segs) : Untorn(segs[k].items)
    /\ \A k \in 1 .. Len(segs) - 1 :
         segs[k].entry /\ CommittedEnd(segs[k].items) = Len(segs[k].items)
    /\ Len(segs) > 0 => Calmly(pc, fp, dirty, issued, Active)
    /\ pc = "none" => issued = {}
    /\ issued \subseteq AllView(segs)
    /\ acked \subseteq DurableView

LEMMA InDurable ==
    ASSUME NEW r
    PROVE  r \in DurableView <=> \E k \in 1 .. Len(segs) : segs[k].entry /\ r \in Part(segs[k], segs[k].dur)
<1>1. DurableView = UNION {Part(s, s.dur) : s \in {x \in Range1(segs) : x.entry}}
  BY DEF DurableView, ViewOf, Part, Cut
<1> QED BY <1>1 DEF Range1

LEMMA LaterDurable ==
    ASSUME LogInv, LogInv', Later(segs, segs')
    PROVE  DurableView \subseteq DurableView'
<1> SUFFICES ASSUME NEW r \in DurableView PROVE r \in DurableView'
  OBVIOUS
<1>1. PICK k \in 1 .. Len(segs) : segs[k].entry /\ r \in Part(segs[k], segs[k].dur)
  BY InDurable
<1>2. k \in 1 .. Len(segs') /\ segs'[k].entry /\ r \in Part(segs'[k], segs'[k].dur)
  BY <1>1, LaterParts
<1>3. r \in DurableView' <=> \E j \in 1 .. Len(segs') : segs'[j].entry /\ r \in Part(segs'[j], segs'[j].dur)
  <2>1. DurableView' = UNION {Part(s, s.dur) : s \in {x \in Range1(segs') : x.entry}}
    BY DEF DurableView, ViewOf, Part, Cut, Range1
  <2> QED BY <2>1 DEF Range1
<1> QED BY <1>2, <1>3

LEMMA CrashDurable ==
    ASSUME LogInv, MachineCrash
    PROVE  DurableView \subseteq DurableView'
<1> SUFFICES ASSUME NEW r \in DurableView PROVE r \in DurableView'
  OBVIOUS
<1>1. PICK k \in 1 .. Len(segs) : segs[k].entry /\ r \in Part(segs[k], segs[k].dur)
  BY InDurable
<1>2. PICK m \in 0 .. Len(segs) :
        /\ \A j \in m + 1 .. Len(segs) : ~segs[j].entry
        /\ segs' \in Seq(Segment) /\ Len(segs') = m
        /\ \A j \in 1 .. m :
             /\ segs'[j].base = segs[j].base /\ segs'[j].entry
             /\ segs'[j].dur = segs[j].dur
             /\ \E e \in {segs[j].vis, segs[j].dur} :
                  segs'[j].items = SubSeq(segs[j].items, 1, e) /\ Len(segs'[j].items) = e
  BY MachineCrashFiles
<1>3. k \in 1 .. m
  <2>1. Len(segs) \in Nat /\ m \in Nat
    BY DEF LogInv, WriterTypes
  <2>2. k \notin m + 1 .. Len(segs)
    BY <1>1, <1>2
  <2> QED BY <2>1, <2>2
<1> DEFINE s == segs[k]
           t == segs'[k]
<1>4. /\ s \in Segment /\ s.items \in Seq(Items) /\ s.dur \in 0 .. Len(s.items) /\ s.vis \in 0 .. Len(s.items)
      /\ s.dur <= s.vis /\ Len(s.items) \in Nat
  BY SegmentFacts
<1>5. t \in Segment /\ t.base = s.base /\ t.entry /\ t.dur = s.dur
  BY <1>2, <1>3
<1>6. PICK e \in {s.vis, s.dur} : t.items = SubSeq(s.items, 1, e) /\ Len(t.items) = e
  BY <1>2, <1>3
<1> HIDE DEF s, t
<1>7. e \in 0 .. Len(s.items) /\ s.dur <= e /\ e \in Nat /\ s.dur \in Nat
  BY <1>4, <1>6
<1>8. \A j \in 1 .. e : t.items[j] = s.items[j]
  BY <1>4, <1>6, <1>7, PrefixFacts
<1>9. \A j \in 1 .. s.dur : t.items[j] = s.items[j]
  BY <1>7, <1>8
<1>10. t.dur \in 0 .. Len(t.items)
  BY <1>4, <1>5, <1>6, <1>7
<1>11. s.dur <= t.dur
  BY <1>4, <1>5
<1>12. Keeps(s, s.dur, t, t.dur)
  BY <1>4, <1>5, <1>9, <1>10, <1>11, KeepsLonger
<1>13. r \in Part(t, t.dur)
  BY <1>1, <1>4, <1>5, <1>10, <1>12, KeepsFacts DEF s
<1>14. DurableView' = UNION {Part(x, x.dur) : x \in {y \in Range1(segs') : y.entry}}
  BY DEF DurableView, ViewOf, Part, Cut, Range1
<1>15. t \in Range1(segs')
  BY <1>2, <1>3 DEF Range1, t
<1> QED BY <1>5, <1>13, <1>14, <1>15

\* A commit frame behind whole items: everything is committed.
LEMMA FrameEnd ==
    ASSUME NEW q \in Seq(Items), Untorn(q)
    PROVE  Untorn(Append(q, Frame)) /\ CommittedEnd(Append(q, Frame)) = Len(Append(q, Frame))
<1> DEFINE p == Append(q, Frame)
<1>1. /\ p \in Seq(Items) /\ Len(p) = Len(q) + 1 /\ p[Len(q) + 1] = Frame /\ Len(q) \in Nat
      /\ \A k \in 1 .. Len(q) : p[k] = q[k]
      /\ \A k \in 1 .. Len(p) : k \in 1 .. Len(q) \/ k = Len(q) + 1
  BY FrameItem, AppendFacts
<1> HIDE DEF p
<1>2. Untorn(p)
  BY <1>1, FrameItem DEF Untorn
<1>3. CommittedEnd(p) \in 0 .. Len(p)
  BY <1>1, EndFacts
<1>4. Len(p) \in 1 .. Len(p) /\ p[Len(p)].kind = "frame" /\ \A j \in 1 .. Len(p) : p[j].kind # "torn"
  BY <1>1, <1>2, FrameItem DEF Untorn
<1>5. Len(p) <= CommittedEnd(p)
  BY <1>1, <1>4, EndFacts
<1>6. CommittedEnd(p) = Len(p)
  BY <1>1, <1>3, <1>5
<1> QED BY <1>2, <1>6 DEF p

LEMMA UntornAppend ==
    ASSUME NEW q \in Seq(Items), Untorn(q), NEW x \in Items, x.kind # "torn"
    PROVE  Untorn(Append(q, x))
BY AppendFacts DEF Untorn

\* A committed file on the disk is delivered as a whole.
LEMMA DurableAll ==
    ASSUME NEW s \in Segment, CommittedEnd(s.items) = Len(s.items), s.dur = Len(s.items)
    PROVE  Part(s, s.dur) = AllOf(s)
<1>1. s.items \in Seq(Items)
  BY DEF Segment
<1>2. Cut(s, s.dur) = s.items
  BY <1>1, WholePrefix DEF Cut
<1> QED BY <1>2 DEF Part, AllOf

LEMMA AllDurable ==
    ASSUME LogInv, CalmLog, Len(segs) > 0, Active.entry, CommittedEnd(Active.items) = Len(Active.items),
           Active.dur = Len(Active.items)
    PROVE  AllView(segs) \subseteq DurableView
<1> SUFFICES ASSUME NEW r \in AllView(segs) PROVE r \in DurableView
  OBVIOUS
<1>1. PICK k \in 1 .. Len(segs) : r \in AllOf(segs[k])
  BY DEF AllView
<1>2. segs[k].entry /\ CommittedEnd(segs[k].items) = Len(segs[k].items) /\ segs[k].dur = Len(segs[k].items)
  <2>1. CASE k = Len(segs)
    BY <2>1 DEF Active
  <2>2. CASE k # Len(segs)
    <3>1. k \in 1 .. Len(segs) - 1
      BY <2>2 DEF LogInv, WriterTypes
    <3> QED BY <3>1 DEF CalmLog, LogInv, Chained, Full
  <2> QED BY <2>1, <2>2
<1>3. segs[k] \in Segment
  BY SegmentFacts
<1>4. r \in Part(segs[k], segs[k].dur)
  BY <1>1, <1>2, <1>3, DurableAll
<1> QED BY <1>2, <1>4, InDurable

\* A step of the active segment.
LEMMA CalmActive ==
    ASSUME LogInv, LogInv', Later(segs, segs'), CalmLog, Len(segs) > 0, Len(segs') = Len(segs),
           \A k \in 1 .. Len(segs) - 1 : segs'[k] = segs[k],
           Untorn(Active'.items), Calmly(pc', fp', dirty', issued', Active'), pc' = "none" => issued' = {},
           issued' \subseteq AllView(segs'), acked' \subseteq acked \cup DurableView
    PROVE  CalmLog'
<1>1. Len(segs) \in Nat
  BY DEF LogInv, WriterTypes
<1>2. ASSUME NEW k \in 1 .. Len(segs') PROVE Untorn(segs'[k].items)
  <2>1. CASE k = Len(segs')
    BY <2>1 DEF Active
  <2>2. CASE k # Len(segs')
    <3>1. k \in 1 .. Len(segs) - 1 /\ k \in 1 .. Len(segs)
      BY <1>1, <2>2
    <3> QED BY <3>1 DEF CalmLog
  <2> QED BY <2>1, <2>2
<1>3. ASSUME NEW k \in 1 .. Len(segs') - 1
      PROVE  segs'[k].entry /\ CommittedEnd(segs'[k].items) = Len(segs'[k].items)
  <2>1. k \in 1 .. Len(segs) - 1
    OBVIOUS
  <2> QED BY <2>1 DEF CalmLog
<1>4. acked' \subseteq DurableView'
  BY LaterDurable DEF CalmLog
<1> QED BY <1>2, <1>3, <1>4 DEF CalmLog

LEMMA CalmFacts ==
    ASSUME LogInv, CalmLog, Len(segs) > 0
    PROVE  Calmly(pc, fp, dirty, issued, Active) /\ Untorn(Active.items)
<1>1. Len(segs) \in 1 .. Len(segs)
  BY DEF LogInv, WriterTypes
<1> QED BY <1>1 DEF CalmLog, Active

\* The items stay.
LEMMA CalmSame ==
    ASSUME LogInv, LogInv', Later(segs, segs'), CalmLog, Len(segs) > 0, Len(segs') = Len(segs),
           \A k \in 1 .. Len(segs) - 1 : segs'[k] = segs[k],
           Active'.items = Active.items, Active'.base = Active.base,
           Calmly(pc', fp', dirty', issued', Active'), pc' = "none" => issued' = {},
           issued' \subseteq issued, acked' \subseteq acked \cup DurableView
    PROVE  CalmLog'
<1>1. Len(segs) \in Nat
  BY DEF LogInv, WriterTypes
<1>2. Untorn(Active'.items)
  BY CalmFacts
<1>3. ASSUME NEW k \in 1 .. Len(segs) PROVE AllOf(segs'[k]) = AllOf(segs[k])
  <2>1. CASE k = Len(segs)
    BY <2>1 DEF Active, AllOf
  <2>2. CASE k # Len(segs)
    <3>1. k \in 1 .. Len(segs) - 1
      BY <1>1, <2>2
    <3> QED BY <3>1
  <2> QED BY <2>1, <2>2
<1>4. AllView(segs) \subseteq AllView(segs')
  BY <1>3 DEF AllView
<1>5. issued' \subseteq AllView(segs')
  BY <1>4 DEF CalmLog
<1> QED BY <1>2, <1>5, CalmActive

\* The files stay as they are.
LEMMA CalmControl ==
    ASSUME LogInv, LogInv', CalmLog, Len(segs) > 0, UNCHANGED segs,
           Calmly(pc', fp', dirty', issued', Active), pc' = "none" => issued' = {},
           issued' \subseteq issued, acked' \subseteq acked \cup DurableView
    PROVE  CalmLog'
<1>1. Later(segs, segs') /\ Active' = Active
  BY FilesKept
<1> QED BY <1>1, CalmSame

\* A cursor or the directory entry moves.
LEMMA CalmMove ==
    ASSUME LogInv, LogInv', CalmLog, Len(segs) > 0, NEW t, Step(Active, t), SetActive(t), t.items = Active.items,
           Calmly(pc', fp', dirty', issued', t), pc' = "none" => issued' = {},
           issued' \subseteq issued, acked' \subseteq acked \cup DurableView
    PROVE  CalmLog'
<1>1. /\ Later(segs, segs') /\ Len(segs') = Len(segs) /\ Active' = t
      /\ \A k \in 1 .. Len(segs) - 1 : segs'[k] = segs[k]
  BY ActiveStep
<1>2. t.base = Active.base
  BY DEF Step
<1> QED BY <1>1, <1>2, CalmSame

\* A whole item is written.
LEMMA CalmAppend ==
    ASSUME LogInv, LogInv', CalmLog, Len(segs) > 0, NEW x \in Items, x.kind # "torn",
           Whole(Active.items) <= SegLimit, SetActive([Active EXCEPT !.items = Append(@, x)]),
           (x = Frame /\ ~dirty') \/ (fp' /\ dirty'), pc' \notin {"none", "o_dir", "close", "c_ok"}, pc # "r_dir", pc # "o_dir",
           pc' = "idle" => fp' /\ dirty',
           acked' = acked,
           \A r \in issued' : r \in issued \/ (x.kind = "rec" /\ r = <<Active.base + Recs(Active), x.id>>)
    PROVE  CalmLog'
<1> DEFINE s == Active
           t == Active'
           n == Len(s.items)
<1>1. /\ Later(segs, segs') /\ Len(segs') = Len(segs) /\ Len(segs') > 0
      /\ \A k \in 1 .. Len(segs) - 1 : segs'[k] = segs[k]
      /\ t.base = s.base /\ t.items = Append(s.items, x) /\ Len(t.items) = n + 1
      /\ t.dur = s.dur /\ t.entry = s.entry
      /\ Recs(t) = IF x.kind = "rec" THEN Recs(s) + 1 ELSE Recs(s)
  BY ActiveAppend
<1>2. Calmly(pc, fp, dirty, issued, s) /\ Untorn(s.items)
  BY CalmFacts
<1>3. s.items \in Seq(Items) /\ s.base \in Nat /\ Recs(s) \in Nat /\ Len(segs) \in 1 .. Len(segs) /\ n \in Nat
  BY ActiveFacts
<1>4. /\ segs'[Len(segs)] = t /\ segs[Len(segs)] = s
  BY <1>1 DEF Active
<1> HIDE DEF s, t
<1>5. Untorn(t.items)
  BY <1>1, <1>2, <1>3, UntornAppend
<1>6. x = Frame => CommittedEnd(t.items) = Len(t.items)
  BY <1>1, <1>2, <1>3, FrameEnd
<1>7. Calmly(pc', fp', dirty', issued', t)
  <2>1. t.entry
    BY <1>1, <1>2 DEF Calmly
  <2>2. ~fp' \/ ~dirty' => CommittedEnd(t.items) = Len(t.items)
    BY <1>6
  <2>3. ~Settled(pc', fp', dirty')
    BY DEF Settled
  <2> QED BY <2>1, <2>2, <2>3 DEF Calmly
<1>8. t.items \in Seq(Items) /\ t.items[n + 1] = x /\ \A j \in 1 .. n : t.items[j] = s.items[j]
  BY <1>1, <1>3, AppendFacts
<1>9. AllOf(s) \subseteq AllOf(t)
  <2>1. n <= n + 1 /\ n + 1 \in Nat /\ \A j \in 1 .. n : s.items[j] = t.items[j]
    BY <1>3, <1>8
  <2>2. Delivered(s.base, s.items, n) \subseteq Delivered(s.base, t.items, n + 1)
    BY <1>3, <2>1, DeliveredGrows
  <2> QED BY <1>1, <2>2 DEF AllOf
<1>10. AllView(segs) \subseteq AllView(segs')
  <2>1. ASSUME NEW k \in 1 .. Len(segs) PROVE AllOf(segs[k]) \subseteq AllOf(segs'[k])
    <3>1. CASE k = Len(segs)
      BY <1>4, <1>9, <3>1
    <3>2. CASE k # Len(segs)
      <4>1. k \in 1 .. Len(segs) - 1
        BY <1>3, <3>2
      <4> QED BY <1>1, <4>1
    <3> QED BY <3>1, <3>2
  <2> QED BY <1>1, <2>1 DEF AllView
<1>11. ASSUME x.kind = "rec" PROVE <<s.base + Recs(s), x.id>> \in AllView(segs')
  <2>1. n + 1 \in {y \in 1 .. n + 1 : t.items[y].kind = "rec"}
    BY <1>3, <1>8, <1>11
  <2>2. <<t.base + Records(t.items, n + 1) - 1, t.items[n + 1].id>> \in Delivered(t.base, t.items, n + 1)
    BY <2>1 DEF Delivered
  <2>3. Records(t.items, n + 1) = Recs(s) + 1
    BY <1>1, <1>11 DEF Recs
  <2>4. t.base + Records(t.items, n + 1) - 1 = s.base + Recs(s)
    BY <1>1, <1>3, <2>3
  <2>5. <<s.base + Recs(s), x.id>> \in AllOf(t)
    BY <1>1, <1>8, <2>2, <2>4 DEF AllOf
  <2> QED BY <1>1, <1>3, <1>4, <2>5 DEF AllView
<1>12. issued' \subseteq AllView(segs')
  BY <1>10, <1>11 DEF CalmLog, s
<1> QED BY <1>1, <1>5, <1>7, <1>12, CalmActive DEF t

LEMMA CalmFaults ==
    ASSUME Calm
    PROVE  /\ ~Fault("write") /\ ~Fault("flush") /\ ~Fault("sync") /\ ~Fault("dir")
           /\ "process" \notin world
BY DEF Calm, Fault

LEMMA OpenExistingCalm ==
    ASSUME LogInv, LogInv', Later(segs, segs'), CalmLog, OpenExisting
    PROVE  CalmLog'
<1> DEFINE s == Active
           e == CommittedEnd(s.items)
           t == CutTo(s, e)
<1>1. /\ segs # <<>> /\ SetActive(t) /\ pc = "none" /\ dirty' = FALSE /\ fp' = TRUE /\ issued' = {}
      /\ pc' = "idle" /\ UNCHANGED acked
  BY DEF OpenExisting, Go
<1>2. Len(segs) > 0
  BY <1>1, EmptySeq DEF LogInv, WriterTypes
<1>3. s \in Segment /\ Fits(s) /\ s.items \in Seq(Items) /\ Sound(pc, fp, dirty, bytes, next, s)
  BY <1>2, ActiveFacts
<1>4. Calmly(pc, fp, dirty, issued, s) /\ Untorn(s.items)
  BY <1>2, CalmFacts
<1> HIDE DEF s
<1>5. s.vis = Len(s.items)
  BY <1>1, <1>3 DEF Sound
<1>6. /\ Step(s, t) /\ t.entry = s.entry /\ t.items = SubSeq(s.items, 1, e) /\ Len(t.items) = e
      /\ CommittedEnd(t.items) = e
  BY <1>3, <1>5, RecoverFacts
<1>7. e \in 0 .. Len(s.items)
  BY <1>3, EndFacts
<1> HIDE DEF t, e
<1>8. Untorn(t.items)
  <2>1. \A j \in 1 .. e : j \in 1 .. Len(s.items) /\ t.items[j] = s.items[j]
    BY <1>3, <1>6, <1>7, PrefixFacts
  <2> QED BY <1>4, <1>6, <2>1 DEF Untorn
<1>9. Calmly(pc', fp', dirty', issued', t)
  BY <1>1, <1>4, <1>6 DEF Calmly
<1>10. Active' = t /\ Len(segs') = Len(segs) /\ \A k \in 1 .. Len(segs) - 1 : segs'[k] = segs[k]
  BY <1>1, <1>2, <1>6, ActiveStep DEF s
<1> QED BY <1>1, <1>2, <1>8, <1>9, <1>10, CalmActive

LEMMA OpenNewCalm ==
    ASSUME LogInv, LogInv', Later(segs, segs'), CalmLog, OpenNew
    PROVE  CalmLog'
<1> DEFINE t == NewSegment(0)
<1>1. segs = <<>> /\ segs' = <<t>> /\ dirty' = FALSE /\ issued' = {} /\ pc' = "o_dir" /\ UNCHANGED acked
  BY DEF OpenNew, Go
<1>2. t \in Segment /\ t.items = <<>> /\ Len(t.items) = 0
  BY NewFacts
<1> HIDE DEF t
<1>3. Len(segs') = 1 /\ segs'[1] = t
  BY <1>1, <1>2
<1>4. Active' = t
  BY <1>3 DEF Active
<1>5. Calmly(pc', fp', dirty', issued', Active')
  BY <1>1, <1>2, <1>4, EmptyFacts DEF Calmly, Settled
<1>6. \A k \in 1 .. Len(segs') : Untorn(segs'[k].items)
  BY <1>2, <1>3 DEF Untorn
<1>7. acked' \subseteq DurableView'
  BY <1>1, LaterDurable DEF CalmLog
<1> QED BY <1>1, <1>3, <1>5, <1>6, <1>7 DEF CalmLog

LEMMA EntryCalm ==
    ASSUME LogInv, LogInv', CalmLog, Len(segs) > 0, SetActive([Active EXCEPT !.entry = TRUE]),
           pc' = "write" \/ (pc' = "idle" /\ issued = {}), pc # "none",
           UNCHANGED <<fp, dirty, issued, acked>>
    PROVE  CalmLog'
<1> DEFINE s == Active
           t == [s EXCEPT !.entry = TRUE]
<1>1. s \in Segment /\ Fits(s)
  BY ActiveFacts
<1>2. Calmly(pc, fp, dirty, issued, s)
  BY CalmFacts
<1>3. SetActive(t)
  OBVIOUS
<1> HIDE DEF s
<1>4. Step(s, t) /\ t.items = s.items /\ t.entry /\ t.dur = s.dur
  BY <1>1, StepEntry
<1> HIDE DEF t
<1>5. Calmly(pc', fp', dirty', issued', t)
  BY <1>2, <1>4 DEF Calmly, Settled
<1> QED BY <1>3, <1>4, <1>5, CalmMove DEF s

LEMMA OpenSyncDirCalm ==
    ASSUME LogInv, LogInv', CalmLog, Calm, OpenSyncDir
    PROVE  CalmLog'
<1>1. /\ pc = "o_dir" /\ SetActive([Active EXCEPT !.entry = TRUE]) /\ pc' = "idle"
      /\ UNCHANGED <<fp, dirty, issued, acked>>
  BY CalmFaults DEF OpenSyncDir, Go, ghosts
<1>2. Len(segs) > 0
  BY <1>1 DEF LogInv
<1>3. issued = {}
  BY <1>1, <1>2, CalmFacts DEF Calmly
<1> QED BY <1>1, <1>2, <1>3, EntryCalm

LEMMA RotateSyncDirCalm ==
    ASSUME LogInv, LogInv', CalmLog, Calm, RotateSyncDir
    PROVE  CalmLog'
<1>1. /\ pc = "r_dir" /\ SetActive([Active EXCEPT !.entry = TRUE]) /\ pc' = "write"
      /\ UNCHANGED <<fp, dirty, issued, acked>>
  BY CalmFaults DEF RotateSyncDir, Go, ghosts
<1>2. Len(segs) > 0
  BY <1>1 DEF LogInv
<1> QED BY <1>1, <1>2, EntryCalm

LEMMA FlushCalm ==
    ASSUME LogInv, LogInv', CalmLog, Calm, NEW from, NEW to, Flush(from, to),
           (from = "r_flush" /\ to = "r_sync") \/ (from = "c_flush" /\ to = "c_sync")
    PROVE  CalmLog'
<1> DEFINE s == Active
           t == [s EXCEPT !.vis = Len(s.items)]
<1>1. pc = from /\ SetActive(t) /\ pc' = to /\ UNCHANGED <<fp, dirty, issued, acked>>
  BY CalmFaults DEF Flush, Go, ghosts
<1>2. Len(segs) > 0
  BY <1>1 DEF LogInv
<1>3. s \in Segment /\ Fits(s) /\ Len(s.items) \in s.vis .. Len(s.items)
  BY <1>2, ActiveFacts
<1>4. Calmly(pc, fp, dirty, issued, s)
  BY <1>2, CalmFacts
<1> HIDE DEF s
<1>5. Step(s, t) /\ t.items = s.items /\ t.entry = s.entry
  BY <1>3, StepVis
<1> HIDE DEF t
<1>6. Calmly(pc', fp', dirty', issued', t)
  BY <1>1, <1>4, <1>5 DEF Calmly, Settled
<1> QED BY <1>1, <1>2, <1>5, <1>6, CalmMove DEF s

LEMMA SyncCalm ==
    ASSUME LogInv, LogInv', CalmLog, Calm, NEW from, NEW to, Sync(from, to),
           (from = "r_sync" /\ to = "r_close") \/ (from = "c_sync" /\ to = "c_ok")
    PROVE  CalmLog'
<1> DEFINE s == Active
           t == [s EXCEPT !.dur = s.vis]
<1>1. pc = from /\ SetActive(t) /\ pc' = to /\ UNCHANGED <<fp, dirty, issued, acked>>
  BY CalmFaults DEF Sync, Go, ghosts
<1>2. Len(segs) > 0
  BY <1>1 DEF LogInv
<1>3. s \in Segment /\ Fits(s) /\ Sound(pc, fp, dirty, bytes, next, s)
  BY <1>2, ActiveFacts
<1>4. Calmly(pc, fp, dirty, issued, s)
  BY <1>2, CalmFacts
<1> HIDE DEF s
<1>5. Step(s, t) /\ t.items = s.items /\ t.entry = s.entry /\ t.dur = s.vis
  BY <1>3, StepDur
<1>6. s.vis = Len(s.items)
  BY <1>1, <1>3 DEF Sound
<1> HIDE DEF t
<1>7. Calmly(pc', fp', dirty', issued', t)
  BY <1>1, <1>4, <1>5, <1>6 DEF Calmly, Settled
<1> QED BY <1>1, <1>2, <1>5, <1>7, CalmMove DEF s

LEMMA SpillCalm ==
    ASSUME LogInv, LogInv', CalmLog, Spill
    PROVE  CalmLog'
<1> DEFINE s == Active
           v == s.vis + 1
           t == [s EXCEPT !.vis = v]
<1>1. fp /\ s.vis < Len(s.items) /\ SetActive(t) /\ UNCHANGED <<pc, fp, dirty, issued, acked>>
  BY DEF Spill, handle, ghosts
<1>2. Len(segs) > 0
  BY <1>1 DEF LogInv
<1>3. s \in Segment /\ Fits(s) /\ s.vis \in 0 .. Len(s.items) /\ Len(s.items) \in Nat
  BY <1>2, ActiveFacts
<1>4. Calmly(pc, fp, dirty, issued, s) /\ (pc = "none" => issued = {})
  BY <1>2, CalmFacts DEF CalmLog
<1> HIDE DEF s
<1>5. v \in s.vis .. Len(s.items)
  BY <1>1, <1>3
<1> HIDE DEF v
<1>6. Step(s, t) /\ t.items = s.items /\ t.entry = s.entry /\ t.dur = s.dur
  BY <1>3, <1>5, StepVis
<1> HIDE DEF t
<1>7. Calmly(pc', fp', dirty', issued', t)
  BY <1>1, <1>4, <1>6 DEF Calmly
<1> QED BY <1>1, <1>2, <1>4, <1>6, <1>7, CalmMove DEF s

LEMMA AppendCallCalm ==
    ASSUME LogInv, LogInv', CalmLog, AppendCall
    PROVE  CalmLog'
<1>1. /\ pc = "idle" /\ pc' \in {"r_frame", "r_flush", "write"}
      /\ UNCHANGED segs /\ UNCHANGED <<fp, dirty, issued, acked>>
  BY DEF AppendCall, Go, ghosts
<1>2. Len(segs) > 0
  BY <1>1 DEF LogInv
<1>3. Calmly(pc', fp', dirty', issued', Active)
  BY <1>1, <1>2, CalmFacts DEF Calmly, Settled
<1> QED BY <1>1, <1>2, <1>3, CalmControl

LEMMA AppendWriteCalm ==
    ASSUME LogInv, LogInv', CalmLog, Calm, AppendWrite
    PROVE  CalmLog'
<1> DEFINE x == Rec(nappends)
<1>1. /\ pc = "write" /\ pc' = "idle" /\ UNCHANGED <<fp, acked>> /\ dirty' = TRUE
      /\ SetActive([Active EXCEPT !.items = Append(@, x)])
      /\ issued' = issued \cup {<<next, nappends>>}
  BY CalmFaults DEF AppendWrite, ShortWrite, Go
<1>2. Len(segs) > 0
  BY <1>1 DEF LogInv
<1>3. /\ Sound(pc, fp, dirty, bytes, next, Active) /\ SegLimit \in Nat /\ SegLimit >= 1
      /\ bytes \in Nat /\ nappends \in Nat
  BY <1>2, ActiveFacts DEF LogInv, WriterTypes
<1>4. fp /\ bytes = Whole(Active.items) /\ next = Active.base + Recs(Active) /\ (bytes = 0 \/ bytes + 1 <= SegLimit)
  BY <1>1, <1>3 DEF Sound, WithFile
<1>5. Whole(Active.items) <= SegLimit
  BY <1>3, <1>4
<1>6. x \in Items /\ x.kind = "rec" /\ x.id = nappends
  BY <1>3, RecItem DEF Rec
<1> HIDE DEF x
<1>7. \A r \in issued' : r \in issued \/ (x.kind = "rec" /\ r = <<Active.base + Recs(Active), x.id>>)
  BY <1>1, <1>4, <1>6
<1>8. fp' /\ dirty'
  BY <1>1, <1>4
<1> QED BY <1>1, <1>2, <1>5, <1>6, <1>7, <1>8, CalmAppend

LEMMA WriteFrameCalm ==
    ASSUME LogInv, LogInv', CalmLog, Calm, NEW from, NEW to, WriteFrame(from, to),
           (from = "r_frame" /\ to = "r_flush") \/ (from = "c_frame" /\ to = "c_flush")
    PROVE  CalmLog'
<1>1. /\ pc = from /\ pc' = to /\ UNCHANGED <<issued, acked>> /\ dirty' = FALSE
      /\ SetActive([Active EXCEPT !.items = Append(@, Frame)])
  BY CalmFaults DEF WriteFrame, ShortWrite, Go, ghosts
<1>2. Len(segs) > 0
  BY <1>1 DEF LogInv
<1>3. Sound(pc, fp, dirty, bytes, next, Active)
  BY <1>2, ActiveFacts
<1>4. Whole(Active.items) <= SegLimit
  BY <1>1, <1>3 DEF Sound, WithFile
<1>5. \A r \in issued' : r \in issued
  BY <1>1
<1> QED BY <1>1, <1>2, <1>4, <1>5, FrameItem, CalmAppend

LEMMA RotateCloseCalm ==
    ASSUME LogInv, LogInv', CalmLog, RotateClose
    PROVE  CalmLog'
<1>1. /\ pc = "r_close" /\ fp' = FALSE /\ pc' \in {"r_open", "idle"}
      /\ UNCHANGED segs /\ UNCHANGED <<dirty, issued, acked>>
  BY DEF RotateClose, Go, ghosts
<1>2. Len(segs) > 0
  BY <1>1 DEF LogInv
<1>3. Full(Active) /\ ~dirty
  BY <1>1, <1>2, ActiveFacts DEF Sound, Framed
<1>4. Calmly(pc, fp, dirty, issued, Active)
  BY <1>2, CalmFacts
<1>5. Calmly(pc', fp', dirty', issued', Active)
  BY <1>1, <1>3, <1>4 DEF Calmly, Settled, Full
<1> QED BY <1>1, <1>2, <1>5, CalmControl

LEMMA RotateOpenCalm ==
    ASSUME LogInv, LogInv', Later(segs, segs'), CalmLog, RotateOpen
    PROVE  CalmLog'
<1>1. pc = "r_open" /\ UNCHANGED <<next, dirty, issued, acked>>
  BY DEF RotateOpen, ghosts
<1>2. Len(segs) > 0
  BY <1>1 DEF LogInv
<1>3. Full(Active) /\ ~dirty /\ ~fp /\ next \in Nat
  BY <1>1, <1>2, ActiveFacts DEF Sound, Framed, LogInv, WriterTypes
<1>4. Calmly(pc, fp, dirty, issued, Active)
  BY <1>2, CalmFacts
<1>5. CASE segs' = Append(segs, NewSegment(next)) /\ Go("r_dir")
  <2> DEFINE t == NewSegment(next)
  <2>1. t \in Segment /\ t.items = <<>> /\ Len(t.items) = 0
    BY <1>3, NewFacts
  <2>2. segs' = Append(segs, t) /\ segs \in Seq(Segment)
    BY <1>5 DEF LogInv, WriterTypes
  <2> HIDE DEF t
  <2>3. /\ Len(segs) \in Nat /\ Len(segs') = Len(segs) + 1 /\ segs'[Len(segs) + 1] = t
        /\ \A k \in 1 .. Len(segs) : segs'[k] = segs[k]
        /\ \A k \in 1 .. Len(segs') : k \in 1 .. Len(segs) \/ k = Len(segs) + 1
    BY <2>1, <2>2, AppendFacts
  <2>4. Active' = t /\ Len(segs') > 0
    BY <2>3 DEF Active
  <2>5. \A k \in 1 .. Len(segs') : Untorn(segs'[k].items)
    <3>1. Untorn(t.items)
      BY <2>1 DEF Untorn
    <3> QED BY <2>3, <3>1 DEF CalmLog
  <2>6. ASSUME NEW k \in 1 .. Len(segs') - 1
        PROVE  segs'[k].entry /\ CommittedEnd(segs'[k].items) = Len(segs'[k].items)
    <3>1. k \in 1 .. Len(segs) /\ segs'[k] = segs[k]
      BY <2>3
    <3>2. CASE k = Len(segs)
      <4>1. Active.entry /\ CommittedEnd(Active.items) = Len(Active.items)
        BY <1>1, <1>3, <1>4 DEF Calmly
      <4> QED BY <3>1, <3>2, <4>1 DEF Active
    <3>3. CASE k # Len(segs)
      <4>1. k \in 1 .. Len(segs) - 1
        BY <2>3, <3>1, <3>3
      <4> QED BY <3>1, <4>1 DEF CalmLog
    <3> QED BY <3>2, <3>3
  <2>7. Calmly(pc', fp', dirty', issued', Active')
    BY <1>5, <2>1, <2>4, EmptyFacts DEF Calmly, Settled, Go
  <2>8. AllView(segs) \subseteq AllView(segs')
    <3>1. \A k \in 1 .. Len(segs) : k \in 1 .. Len(segs')
      BY <2>3
    <3> QED BY <2>3, <3>1 DEF AllView
  <2>9. issued' \subseteq AllView(segs')
    BY <1>1, <2>8 DEF CalmLog
  <2>10. acked' \subseteq DurableView'
    BY <1>1, LaterDurable DEF CalmLog
  <2>11. pc' # "none"
    BY <1>5 DEF Go
  <2> QED BY <2>4, <2>5, <2>6, <2>7, <2>9, <2>10, <2>11 DEF CalmLog
<1>6. CASE Go("idle") /\ UNCHANGED segs /\ UNCHANGED fp
  <2>1. Calmly(pc', fp', dirty', issued', Active)
    BY <1>1, <1>3, <1>4, <1>6 DEF Calmly, Settled, Full, Go
  <2> QED BY <1>1, <1>2, <1>6, <2>1, CalmControl DEF Go
<1> QED BY <1>5, <1>6 DEF RotateOpen

\* Where a call is settled, what was issued is durable.
LEMMA SettledDurable ==
    ASSUME LogInv, CalmLog, Len(segs) > 0, Settled(pc, fp, dirty)
    PROVE  issued \subseteq DurableView
<1>1. Calmly(pc, fp, dirty, issued, Active)
  BY CalmFacts
<1>2. Sound(pc, fp, dirty, bytes, next, Active)
  BY ActiveFacts
<1>3. CASE issued = {}
  BY <1>3
<1>4. CASE issued # {}
  <2>1. ~fp \/ ~dirty
    BY <1>1, <1>2 DEF Calmly, Settled, Sound, Framed
  <2>2. pc # "none" /\ pc \notin {"o_dir", "r_dir"}
    BY DEF Settled
  <2>3. /\ Active.entry /\ CommittedEnd(Active.items) = Len(Active.items)
        /\ Active.dur = Len(Active.items)
    BY <1>1, <1>4, <2>1, <2>2 DEF Calmly
  <2>4. AllView(segs) \subseteq DurableView
    BY <2>3, AllDurable
  <2> QED BY <2>4 DEF CalmLog
<1> QED BY <1>3, <1>4

LEMMA CommitCleanCalm ==
    ASSUME LogInv, LogInv', CalmLog, CommitClean
    PROVE  CalmLog'
<1>1. /\ pc = "idle" /\ fp /\ ~dirty /\ acked' = acked \cup issued /\ issued' = {}
      /\ UNCHANGED segs /\ UNCHANGED <<pc, fp, dirty>>
  BY DEF CommitClean, handle
<1>2. Len(segs) > 0
  BY <1>1 DEF LogInv
<1>3. issued \subseteq DurableView
  BY <1>1, <1>2, SettledDurable DEF Settled
<1>4. Calmly(pc', fp', dirty', issued', Active)
  BY <1>1, <1>2, CalmFacts DEF Calmly
<1>5. acked' \subseteq acked \cup DurableView
  BY <1>1, <1>3
<1> QED BY <1>1, <1>2, <1>4, <1>5, CalmControl

LEMMA CommitCallCalm ==
    ASSUME LogInv, LogInv', CalmLog, CommitCall
    PROVE  CalmLog'
<1>1. pc = "idle" /\ pc' = "c_frame" /\ UNCHANGED segs /\ UNCHANGED <<fp, dirty, issued, acked>>
  BY DEF CommitCall, Go, ghosts
<1>2. Len(segs) > 0
  BY <1>1 DEF LogInv
<1>3. Calmly(pc', fp', dirty', issued', Active)
  BY <1>1, <1>2, CalmFacts DEF Calmly, Settled
<1> QED BY <1>1, <1>2, <1>3, CalmControl

LEMMA CommitReturnCalm ==
    ASSUME LogInv, LogInv', CalmLog, CommitReturn
    PROVE  CalmLog'
<1>1. /\ pc = "c_ok" /\ UNCHANGED segs /\ UNCHANGED <<fp, dirty>>
      /\ \/ acked' = acked \cup issued /\ issued' = {} /\ pc' = "idle"
         \/ pc' = "close" /\ UNCHANGED <<acked, issued>>
  BY DEF CommitReturn, Go
<1>2. Len(segs) > 0
  BY <1>1 DEF LogInv
<1>3. issued \subseteq DurableView
  BY <1>1, <1>2, SettledDurable DEF Settled
<1>4. ~dirty
  BY <1>1, <1>2, ActiveFacts DEF Sound, Framed
<1>5. Calmly(pc, fp, dirty, issued, Active)
  BY <1>2, CalmFacts
<1>6. Calmly(pc', fp', dirty', issued', Active)
  <2>1. CASE issued' = {} /\ pc' = "idle"
    BY <1>1, <1>4, <1>5, <2>1 DEF Calmly
  <2>2. CASE pc' = "close" /\ UNCHANGED issued
    BY <1>1, <1>4, <1>5, <2>2 DEF Calmly, Settled
  <2> QED BY <1>1, <2>1, <2>2
<1>7. acked' \subseteq acked \cup DurableView /\ issued' \subseteq issued /\ pc' # "none"
  BY <1>1, <1>3
<1> QED BY <1>1, <1>2, <1>6, <1>7, CalmControl

LEMMA CloseCallCalm ==
    ASSUME LogInv, LogInv', CalmLog, CloseCall
    PROVE  CalmLog'
<1>1. /\ pc = "idle" /\ pc' = IF fp /\ dirty THEN "c_frame" ELSE "close"
      /\ UNCHANGED segs /\ UNCHANGED <<fp, dirty, issued, acked>>
  BY DEF CloseCall, Go, ghosts
<1>2. Len(segs) > 0
  BY <1>1 DEF LogInv
<1>3. Calmly(pc, fp, dirty, issued, Active)
  BY <1>2, CalmFacts
<1>4. Calmly(pc', fp', dirty', issued', Active)
  <2>1. CASE fp /\ dirty
    BY <1>1, <1>3, <2>1 DEF Calmly, Settled
  <2>2. CASE ~(fp /\ dirty)
    BY <1>1, <1>3, <2>2 DEF Calmly, Settled
  <2> QED BY <2>1, <2>2
<1>5. pc' # "none"
  BY <1>1
<1> QED BY <1>1, <1>2, <1>4, <1>5, CalmControl

LEMMA CloseFileCalm ==
    ASSUME LogInv, LogInv', CalmLog, CloseFile
    PROVE  CalmLog'
<1>1. /\ pc = "close" /\ issued' = {} /\ pc' = "none"
      /\ (acked' = acked \cup issued \/ UNCHANGED acked)
      /\ IF fp THEN SetActive([Active EXCEPT !.vis = Len(Active.items)]) ELSE UNCHANGED segs
  BY DEF CloseFile
<1>2. Len(segs) > 0
  BY <1>1 DEF LogInv
<1>3. issued \subseteq DurableView
  BY <1>1, <1>2, SettledDurable DEF Settled
<1>4. acked' \subseteq acked \cup DurableView
  BY <1>1, <1>3
<1>5. Active.entry
  BY <1>1, <1>2, CalmFacts DEF Calmly
<1>6. CASE fp
  <2> DEFINE s == Active
             t == [s EXCEPT !.vis = Len(s.items)]
  <2>1. s \in Segment /\ Fits(s) /\ Len(s.items) \in s.vis .. Len(s.items) /\ s.entry
    BY <1>2, <1>5, ActiveFacts
  <2>2. SetActive(t)
    BY <1>1, <1>6
  <2> HIDE DEF s
  <2>3. Step(s, t) /\ t.items = s.items /\ t.entry = s.entry
    BY <2>1, StepVis
  <2> HIDE DEF t
  <2>4. Calmly(pc', fp', dirty', issued', t)
    BY <1>1, <2>1, <2>3 DEF Calmly, Settled
  <2> QED BY <1>1, <1>2, <1>4, <2>2, <2>3, <2>4, CalmMove DEF s
<1>7. CASE ~fp
  <2>1. Calmly(pc', fp', dirty', issued', Active)
    BY <1>1, <1>5 DEF Calmly, Settled
  <2> QED BY <1>1, <1>2, <1>4, <1>7, <2>1, CalmControl
<1> QED BY <1>6, <1>7 DEF LogInv, WriterTypes

LEMMA MachineCrashCalm ==
    ASSUME LogInv, LogInv', CalmLog, MachineCrash
    PROVE  CalmLog'
<1>1. pc' = "none" /\ fp' = FALSE /\ dirty' = FALSE /\ issued' = {} /\ UNCHANGED acked
  BY DEF MachineCrash, NoHandle
<1>2. PICK m \in 0 .. Len(segs) :
        /\ segs' \in Seq(Segment) /\ Len(segs') = m
        /\ \A k \in 1 .. m :
             /\ segs'[k].entry
             /\ \E e \in {segs[k].vis, segs[k].dur} :
                  segs'[k].items = SubSeq(segs[k].items, 1, e) /\ Len(segs'[k].items) = e
             /\ Full(segs[k]) => segs'[k].items = segs[k].items
  BY MachineCrashFiles
<1>3. Len(segs) \in Nat /\ m \in Nat
  BY DEF LogInv, WriterTypes
<1>4. ASSUME NEW k \in 1 .. m PROVE Untorn(segs'[k].items)
  <2>1. k \in 1 .. Len(segs)
    BY <1>3
  <2>2. PICK e \in {segs[k].vis, segs[k].dur} :
           segs'[k].items = SubSeq(segs[k].items, 1, e) /\ Len(segs'[k].items) = e
    BY <1>2
  <2>3. segs[k].items \in Seq(Items) /\ e \in 0 .. Len(segs[k].items)
    BY <2>1, SegmentFacts
  <2>4. \A j \in 1 .. e : j \in 1 .. Len(segs[k].items) /\ segs'[k].items[j] = segs[k].items[j]
    BY <2>2, <2>3, PrefixFacts
  <2>5. Untorn(segs[k].items)
    BY <2>1 DEF CalmLog
  <2> QED BY <2>2, <2>4, <2>5 DEF Untorn
<1>5. ASSUME NEW k \in 1 .. m - 1
      PROVE  segs'[k].entry /\ CommittedEnd(segs'[k].items) = Len(segs'[k].items)
  <2>1. k \in 1 .. m /\ k \in 1 .. Len(segs) - 1
    BY <1>3
  <2>2. Full(segs[k]) /\ CommittedEnd(segs[k].items) = Len(segs[k].items)
    BY <2>1 DEF LogInv, Chained, CalmLog
  <2>3. segs'[k].items = segs[k].items /\ segs'[k].entry
    BY <1>2, <2>1, <2>2
  <2> QED BY <2>2, <2>3
<1>6. Len(segs') > 0 => Calmly(pc', fp', dirty', issued', Active')
  <2> SUFFICES ASSUME Len(segs') > 0 PROVE Calmly(pc', fp', dirty', issued', Active')
    OBVIOUS
  <2>1. m \in 1 .. m /\ Active' = segs'[m]
    BY <1>2, <1>3 DEF Active
  <2>2. Active'.entry
    BY <1>2, <2>1
  <2> QED BY <1>1, <2>2 DEF Calmly, Settled
<1>7. acked' \subseteq DurableView'
  BY <1>1, CrashDurable DEF CalmLog
<1> QED BY <1>1, <1>2, <1>4, <1>5, <1>6, <1>7 DEF CalmLog

LEMMA WriterCalm ==
    ASSUME LogInv, LogInv', Later(segs, segs'), CalmLog, Calm, WriterStep
    PROVE  CalmLog'
<1>1. CASE OpenExisting
  BY <1>1, OpenExistingCalm
<1>2. CASE OpenNew
  BY <1>2, OpenNewCalm
<1>3. CASE OpenSyncDir
  BY <1>3, OpenSyncDirCalm
<1>4. CASE AppendCall
  BY <1>4, AppendCallCalm
<1>5. CASE AppendWrite
  BY <1>5, AppendWriteCalm
<1>6. CASE RotateFrame
  BY <1>6, WriteFrameCalm DEF RotateFrame
<1>7. CASE RotateFlush
  BY <1>7, FlushCalm DEF RotateFlush
<1>8. CASE RotateSync
  BY <1>8, SyncCalm DEF RotateSync
<1>9. CASE RotateClose
  BY <1>9, RotateCloseCalm
<1>10. CASE RotateOpen
  BY <1>10, RotateOpenCalm
<1>11. CASE RotateSyncDir
  BY <1>11, RotateSyncDirCalm
<1>12. CASE CommitClean
  BY <1>12, CommitCleanCalm
<1>13. CASE CommitCall
  BY <1>13, CommitCallCalm
<1>14. CASE CommitFrame
  BY <1>14, WriteFrameCalm DEF CommitFrame
<1>15. CASE CommitFlush
  BY <1>15, FlushCalm DEF CommitFlush
<1>16. CASE CommitSync
  BY <1>16, SyncCalm DEF CommitSync
<1>17. CASE CommitReturn
  BY <1>17, CommitReturnCalm
<1>18. CASE CloseCall
  BY <1>18, CloseCallCalm
<1>19. CASE CloseFile
  BY <1>19, CloseFileCalm
<1>20. CASE Spill
  BY <1>20, SpillCalm
<1> QED BY <1>1, <1>2, <1>3, <1>4, <1>5, <1>6, <1>7, <1>8, <1>9, <1>10, <1>11, <1>12, <1>13, <1>14,
           <1>15, <1>16, <1>17, <1>18, <1>19, <1>20 DEF WriterStep

LEMMA CalmLogSame ==
    ASSUME CalmLog, UNCHANGED <<segs, pc, fp, dirty, issued, acked>>
    PROVE  CalmLog'
<1>1. Active' = Active
  BY DEF Active
<1>2. DurableView' = DurableView
  BY DEF DurableView, ViewOf, Range1
<1> QED BY <1>1, <1>2 DEF CalmLog, AllView

\* What is durable is a log: LSNs from 0 without a gap, one payload each.
LEMMA DurableIsLog ==
    ASSUME LogInv, CalmLog
    PROVE  Lsns(DurableView) = 0 .. Cardinality(DurableView) - 1
<1> DEFINE n == Len(segs)
           V == DurableView
<1>1. segs \in Seq(Segment) /\ Chained(segs) /\ n \in Nat
  BY DEF LogInv, WriterTypes
<1>2. \A r : r \in V <=> \E k \in 1 .. n : segs[k].entry /\ r \in Part(segs[k], segs[k].dur)
  BY InDurable
<1> HIDE DEF V
<1>3. OnePayload(V)
  <2>1. V \subseteq AllView(segs)
    <3>1. ASSUME NEW k \in 1 .. n, NEW r \in Part(segs[k], segs[k].dur) PROVE r \in AllOf(segs[k])
      <4>1. /\ segs[k] \in Segment /\ segs[k].dur \in 0 .. Len(segs[k].items)
            /\ CommittedEnd(Cut(segs[k], segs[k].dur)) \in 0 .. segs[k].dur
        BY SegmentFacts
      <4> QED BY <4>1, DeliveredWithin DEF Part, AllOf
    <3> QED BY <1>2, <3>1 DEF AllView
  <2>2. OnePayload(AllView(segs))
    BY <1>1, ChainOnePayload
  <2> QED BY <2>1, <2>2 DEF OnePayload
<1>4. ASSUME NEW k \in 1 .. n
      PROVE  \E d \in Nat : /\ Lsns(Part(segs[k], segs[k].dur)) = segs[k].base .. segs[k].base + d - 1
                            /\ d <= Recs(segs[k]) /\ (k < n => d = Recs(segs[k]))
  <2> DEFINE s == segs[k]
             c == CommittedEnd(Cut(s, s.dur))
  <2>1. /\ s \in Segment /\ s.dur \in 0 .. Len(s.items) /\ c \in 0 .. s.dur /\ s.items \in Seq(Items)
    BY SegmentFacts
  <2>2. k < n => Full(s) /\ CommittedEnd(s.items) = Len(s.items)
    <3>1. k < n => k \in 1 .. n - 1
      BY <1>1
    <3> QED BY <1>1, <3>1 DEF Chained, CalmLog
  <2> HIDE DEF s
  <2>3. /\ Lsns(Delivered(s.base, Cut(s, s.dur), c)) = s.base .. s.base + Records(s.items, c) - 1
        /\ Records(s.items, c) \in Nat /\ Records(s.items, c) <= Recs(s)
    BY <2>1, DeliveredWithin
  <2>4. k < n => Records(s.items, c) = Recs(s)
    <3> SUFFICES ASSUME k < n PROVE Records(s.items, c) = Recs(s)
      OBVIOUS
    <3>1. s.dur = Len(s.items)
      BY <2>2 DEF Full
    <3>2. Cut(s, s.dur) = s.items
      BY <2>1, <3>1, WholePrefix DEF Cut
    <3> QED BY <2>2, <3>2 DEF Recs
  <2> QED BY <2>3, <2>4 DEF Part, s
<1>5. \E l \in Nat : Lsns(V) = 0 .. l - 1
  <2>1. CASE n = 0
    <3>1. Lsns(V) = {}
      BY <1>2, <2>1 DEF Lsns
    <3> QED BY <3>1
  <2>2. CASE n # 0
    <3>1. n \in 1 .. n /\ segs[n].base \in Nat /\ Recs(segs[n]) \in Nat
      <4>1. n \in 1 .. n
        BY <1>1, <2>2
      <4> QED BY <4>1, SegmentFacts
    <3>2. PICK d \in Nat : /\ Lsns(Part(segs[n], segs[n].dur)) = segs[n].base .. segs[n].base + d - 1
                           /\ d <= Recs(segs[n])
      BY <1>4, <3>1
    <3> DEFINE b == segs[n].base
               l == IF segs[n].entry THEN b + d ELSE b
    <3>3. b \in Nat /\ l \in Nat /\ b <= l
      BY <3>1, <3>2
    <3>4. ASSUME NEW r \in V PROVE r[1] \in 0 .. l - 1
      <4>1. PICK k \in 1 .. n : segs[k].entry /\ r \in Part(segs[k], segs[k].dur)
        BY <1>2
      <4>2. PICK c \in Nat : /\ Lsns(Part(segs[k], segs[k].dur)) = segs[k].base .. segs[k].base + c - 1
                             /\ c <= Recs(segs[k])
        BY <1>4
      <4>3. r[1] \in segs[k].base .. segs[k].base + c - 1
        BY <4>1, <4>2 DEF Lsns
      <4>4. CASE k = n
        <5>1. l = b + d
          BY <4>1, <4>4
        <5>2. r[1] \in b .. b + d - 1
          BY <3>2, <4>1, <4>4 DEF Lsns
        <5> HIDE DEF b, l
        <5> QED BY <3>2, <3>3, <5>1, <5>2
      <4>5. CASE k # n
        <5>1. segs[k].base + Recs(segs[k]) <= b
          BY <1>1, <3>1, <4>5 DEF Chained
        <5>2. segs[k].base \in Nat /\ Recs(segs[k]) \in Nat
          BY SegmentFacts
        <5> HIDE DEF b, l
        <5> QED BY <3>3, <4>2, <4>3, <5>1, <5>2
      <4> QED BY <4>4, <4>5
    <3>5. ASSUME NEW x \in 0 .. l - 1 PROVE \E r \in V : r[1] = x
      <4>0. x \in Nat
        BY <3>3
      <4>1. CASE x < b
        <5>1. x \in 0 .. segs[n].base - 1
          BY <3>3, <4>0, <4>1
        <5>2. PICK k \in 1 .. n - 1 : segs[k].base <= x /\ x < segs[k + 1].base
          BY <1>1, <2>2, <5>1 DEF Chained
        <5>3. k \in 1 .. n /\ k < n
          BY <1>1
        <5>4. segs[k].entry /\ segs[k + 1].base = segs[k].base + Recs(segs[k])
          BY <1>1 DEF CalmLog, Chained
        <5>5. Lsns(Part(segs[k], segs[k].dur)) = segs[k].base .. segs[k].base + Recs(segs[k]) - 1
          BY <1>4, <5>3
        <5>6. segs[k].base \in Nat /\ Recs(segs[k]) \in Nat
          BY <5>3, SegmentFacts
        <5>7. x \in segs[k].base .. segs[k].base + Recs(segs[k]) - 1
          BY <4>0, <5>2, <5>4, <5>6
        <5>8. PICK r \in Part(segs[k], segs[k].dur) : r[1] = x
          BY <5>5, <5>7 DEF Lsns
        <5> QED BY <1>2, <5>3, <5>4, <5>8
      <4>2. CASE ~(x < b)
        <5>1. segs[n].entry /\ l = b + d /\ b <= x
          BY <3>3, <4>0, <4>2
        <5>2. x \in segs[n].base .. segs[n].base + d - 1
          BY <3>2, <3>3, <4>0, <5>1
        <5>3. PICK r \in Part(segs[n], segs[n].dur) : r[1] = x
          BY <3>2, <5>2 DEF Lsns
        <5> QED BY <1>2, <3>1, <5>1, <5>3
      <4> QED BY <4>1, <4>2
    <3>6. Lsns(V) = 0 .. l - 1
      <4> HIDE DEF l
      <4> QED BY <3>4, <3>5 DEF Lsns
    <3> QED BY <3>3, <3>6
  <2> QED BY <2>1, <2>2
<1>6. PICK l \in Nat : Lsns(V) = 0 .. l - 1
  BY <1>5
<1>7. Cardinality(V) \in Nat /\ Lsns(V) = 0 .. 0 + Cardinality(V) - 1
  BY <1>3, <1>6, EntryCount
<1>8. Lsns(V) = 0 .. Cardinality(V) - 1
  BY <1>7
<1> QED BY <1>8 DEF V
-----------------------------------------------------------------------------
(* Scans miss nothing.                                                     *)

\* The scan has delivered r, or will.
Ahead(r) ==
    \/ r \in scan.got
    \/ \E k \in scan.i + 1 .. scan.n : r \in Part(segs[k], segs[k].vis)
    \/ spc = "survey" /\ r \in Part(segs[scan.i], segs[scan.i].vis)
    \/ /\ spc = "deliver"
       /\ r \in Delivered(segs[scan.i].base, Cut(segs[scan.i], segs[scan.i].vis), scan.end)

CalmScan ==
    /\ ~missed /\ spc # "corrupt"
    /\ \A r \in scan.owed : r[1] >= scan.from
    /\ spc \in {"survey", "deliver"} => \A r \in scan.owed : Ahead(r)
    /\ spc = "done" => scan.owed \subseteq scan.got

LEMMA LaterCalmScan ==
    ASSUME LogInv, LogInv', Later(segs, segs'), ScanInv, CalmScan, UNCHANGED <<spc, scan>>, UNCHANGED missed
    PROVE  CalmScan'
<1>1. ASSUME spc \in {"survey", "deliver"}, NEW r \in scan.owed PROVE Ahead(r)'
  <2>1. /\ scan.i \in 1 .. scan.n /\ scan.n <= Len(segs) /\ scan.n \in Nat /\ Len(segs) \in Nat
        /\ spc = "deliver" => scan.end \in 0 .. CommittedEnd(Cut(segs[scan.i], segs[scan.i].vis))
    BY <1>1 DEF ScanInv, Scans, LogInv, WriterTypes
  <2>2. scan.i \in 1 .. Len(segs) /\ \A k \in scan.i + 1 .. scan.n : k \in 1 .. Len(segs)
    BY <2>1
  <2>3. Ahead(r)
    BY <1>1 DEF CalmScan
  <2>4. CASE r \in scan.got
    BY <2>4 DEF Ahead
  <2>5. CASE \E k \in scan.i + 1 .. scan.n : r \in Part(segs[k], segs[k].vis)
    <3>1. PICK k \in scan.i + 1 .. scan.n : r \in Part(segs[k], segs[k].vis)
      BY <2>5
    <3>2. r \in Part(segs'[k], segs'[k].vis)
      BY <2>2, <3>1, LaterParts
    <3> QED BY <3>2 DEF Ahead
  <2>6. CASE spc = "survey" /\ r \in Part(segs[scan.i], segs[scan.i].vis)
    <3>1. r \in Part(segs'[scan.i], segs'[scan.i].vis)
      BY <2>2, <2>6, LaterParts
    <3> QED BY <2>6, <3>1 DEF Ahead
  <2>7. CASE /\ spc = "deliver"
             /\ r \in Delivered(segs[scan.i].base, Cut(segs[scan.i], segs[scan.i].vis), scan.end)
    <3>1. r \in Delivered(segs'[scan.i].base, Cut(segs'[scan.i], segs'[scan.i].vis), scan.end)
      BY <2>1, <2>2, <2>7, LaterParts
    <3> QED BY <2>7, <3>1 DEF Ahead
  <2> QED BY <2>3, <2>4, <2>5, <2>6, <2>7 DEF Ahead
<1> QED BY <1>1 DEF CalmScan

LEMMA ScanListCalm ==
    ASSUME LogInv, CalmLog, CalmScan, NEW from \in Nat, ScanList(from)
    PROVE  CalmScan'
<1> DEFINE owe == {r \in acked : r[1] >= from}
<1>1. /\ scan' = [n |-> Len(segs), from |-> from, i |-> 1, end |-> 0, got |-> {}, owed |-> owe]
      /\ spc' = "survey" /\ 1 \in 1 .. Len(segs) /\ UNCHANGED segs /\ UNCHANGED missed
  BY ScanListStep DEF ghosts
<1>2. scan'.owed = owe /\ scan'.from = from /\ scan'.n = Len(segs) /\ scan'.i = 1
  BY <1>1
<1>3. ASSUME NEW r \in owe PROVE Ahead(r)'
  <2>1. r \in DurableView
    BY DEF CalmLog
  <2>2. PICK k \in 1 .. Len(segs) : r \in Part(segs[k], segs[k].dur)
    BY <2>1, InDurable
  <2> DEFINE s == segs[k]
  <2>3. s \in Segment /\ s.vis \in 0 .. Len(s.items) /\ s.dur \in 0 .. Len(s.items) /\ s.dur <= s.vis
    BY SegmentFacts
  <2>4. r \in Part(s, s.dur)
    BY <2>2
  <2> HIDE DEF s
  <2>5. Keeps(s, s.dur, s, s.vis)
    BY <2>3, KeepsLonger
  <2>6. r \in Part(s, s.vis)
    BY <2>3, <2>4, <2>5, KeepsFacts
  <2>7. r \in Part(segs'[k], segs'[k].vis)
    BY <1>1, <2>6 DEF s
  <2>8. k = 1 \/ k \in 1 + 1 .. Len(segs)
    BY DEF LogInv, WriterTypes
  <2> QED BY <1>1, <1>2, <2>7, <2>8 DEF Ahead
<1>4. \A r \in scan'.owed : r[1] >= scan'.from
  BY <1>2
<1> QED BY <1>1, <1>2, <1>3, <1>4 DEF CalmScan

LEMMA ScanSurveyCalm ==
    ASSUME LogInv, CalmLog, ScanInv, CalmScan, ScanSurvey
    PROVE  CalmScan'
<1> DEFINE k == scan.i
           s == segs[k]
           e == CommittedEnd(Visible(s))
<1>1. spc = "survey" /\ UNCHANGED segs /\ UNCHANGED missed
  BY DEF ScanSurvey, ghosts
<1>2. /\ k \in 1 .. scan.n /\ scan.n <= Len(segs) /\ scan.n \in Nat /\ Len(segs) \in Nat /\ scan \in Scans
      /\ scan.from \in Nat /\ scan.owed \subseteq Nat \X Nat
  BY <1>1 DEF ScanInv, Scans, LogInv, WriterTypes
<1>3. k \in 1 .. Len(segs)
  BY <1>2
<1>4. \A r \in scan.owed : r[1] >= scan.from /\ Ahead(r)
  BY <1>1 DEF CalmScan
<1>5. CASE /\ k < scan.n /\ segs[k + 1].base <= scan.from
           /\ scan' = [scan EXCEPT !.i = @ + 1] /\ UNCHANGED spc
  <2>1. /\ scan' = [n |-> scan.n, from |-> scan.from, i |-> k + 1, end |-> scan.end, got |-> scan.got,
                    owed |-> scan.owed]
    BY <1>2, <1>5 DEF Scans
  <2>2. /\ scan'.n = scan.n /\ scan'.from = scan.from /\ scan'.i = k + 1 /\ scan'.got = scan.got
        /\ scan'.owed = scan.owed
    BY <2>1
  <2>3. segs[k + 1].base = s.base + Recs(s) /\ k \in Nat
    <3>1. k \in 1 .. Len(segs) - 1
      BY <1>2, <1>5
    <3> QED BY <3>1 DEF LogInv, Chained
  <2>4. /\ s \in Segment /\ s.vis \in 0 .. Len(s.items) /\ s.base \in Nat /\ Recs(s) \in Nat
        /\ CommittedEnd(Cut(s, s.vis)) \in 0 .. s.vis
    BY <1>3, SegmentFacts
  <2>5. ASSUME NEW r \in scan.owed PROVE r \notin Part(s, s.vis)
    <3>1. SUFFICES ASSUME r \in Part(s, s.vis) PROVE FALSE
      OBVIOUS
    <3> HIDE DEF s
    <3>2. r \in AllOf(s)
      BY <2>4, <3>1, DeliveredWithin DEF Part, AllOf
    <3>3. r[1] \in s.base .. s.base + Recs(s) - 1
      BY <2>4, <3>2, AllFacts DEF Lsns
    <3>4. r[1] >= scan.from /\ s.base + Recs(s) <= scan.from
      BY <1>4, <1>5, <2>3
    <3> HIDE DEF k
    <3> QED BY <1>2, <2>4, <3>3, <3>4
  <2>6. ASSUME NEW r \in scan.owed PROVE Ahead(r)'
    <3>1. r \in scan.got \/ \E j \in k + 1 .. scan.n : r \in Part(segs[j], segs[j].vis)
      BY <1>1, <1>4, <2>5 DEF Ahead
    <3>2. CASE r \in scan.got
      BY <2>2, <3>2 DEF Ahead
    <3>3. CASE \E j \in k + 1 .. scan.n : r \in Part(segs[j], segs[j].vis)
      <4>1. PICK j \in k + 1 .. scan.n : r \in Part(segs[j], segs[j].vis)
        BY <3>3
      <4>2. r \in Part(segs'[j], segs'[j].vis)
        BY <1>1, <4>1
      <4>3. j = scan'.i \/ j \in scan'.i + 1 .. scan'.n
        <5> HIDE DEF k
        <5> QED BY <1>2, <2>2, <2>3
      <4>4. spc' = "survey"
        BY <1>1, <1>5
      <4> QED BY <4>2, <4>3, <4>4 DEF Ahead
    <3> QED BY <3>1, <3>2, <3>3
  <2>7. \A r \in scan'.owed : r[1] >= scan'.from /\ Ahead(r)'
    BY <1>4, <2>2, <2>6
  <2> QED BY <1>1, <1>5, <2>7 DEF CalmScan
<1>6. CASE /\ spc' = IF k < scan.n /\ e # Len(Visible(s)) THEN "corrupt" ELSE "deliver"
           /\ scan' = [scan EXCEPT !.end = e]
  <2>1. /\ scan' = [n |-> scan.n, from |-> scan.from, i |-> k, end |-> e, got |-> scan.got,
                    owed |-> scan.owed]
    BY <1>2, <1>6 DEF Scans
  <2>2. /\ scan'.n = scan.n /\ scan'.from = scan.from /\ scan'.i = k /\ scan'.got = scan.got
        /\ scan'.owed = scan.owed /\ scan'.end = e
    BY <2>1
  <2>3. spc' = "deliver"
    <3>1. SUFFICES ASSUME k < scan.n PROVE e = Len(Visible(s))
      BY <1>6
    <3>2. k \in 1 .. Len(segs) - 1
      BY <1>2, <3>1
    <3>3. Full(s) /\ CommittedEnd(s.items) = Len(s.items) /\ s.items \in Seq(Items)
      BY <1>3, <3>2, SegmentFacts DEF LogInv, Chained, CalmLog
    <3>4. Visible(s) = s.items
      BY <3>3, WholePrefix DEF Visible, Full
    <3> QED BY <3>3, <3>4
  <2>4. Visible(s) = Cut(s, s.vis)
    BY DEF Visible, Cut
  <2>5. ASSUME NEW r \in scan.owed PROVE Ahead(r)'
    <3>1. \/ r \in scan.got \/ r \in Part(s, s.vis)
          \/ \E j \in k + 1 .. scan.n : r \in Part(segs[j], segs[j].vis)
      BY <1>1, <1>4 DEF Ahead
    <3>2. CASE r \in scan.got
      BY <2>2, <3>2 DEF Ahead
    <3>3. CASE r \in Part(s, s.vis)
      <4>1. r \in Delivered(s.base, Cut(s, s.vis), e)
        BY <2>4, <3>3 DEF Part
      <4>2. s = segs'[scan'.i]
        BY <1>1, <2>2
      <4> HIDE DEF s, e
      <4> QED BY <2>2, <2>3, <4>1, <4>2 DEF Ahead
    <3>4. CASE \E j \in k + 1 .. scan.n : r \in Part(segs[j], segs[j].vis)
      <4>1. \E j \in scan'.i + 1 .. scan'.n : r \in Part(segs'[j], segs'[j].vis)
        BY <1>1, <2>2, <3>4
      <4> QED BY <4>1 DEF Ahead
    <3> QED BY <3>1, <3>2, <3>3, <3>4
  <2>6. \A r \in scan'.owed : r[1] >= scan'.from /\ Ahead(r)'
    BY <1>4, <2>2, <2>5
  <2> QED BY <1>1, <2>3, <2>6 DEF CalmScan
<1> QED BY <1>5, <1>6 DEF ScanSurvey

LEMMA ScanDeliverCalm ==
    ASSUME LogInv, ScanInv, CalmScan, ScanDeliver
    PROVE  CalmScan'
<1>1. /\ scan' = [n |-> scan.n, from |-> scan.from, i |-> scan.i + 1, end |-> scan.end,
                  got |-> scan.got \cup New, owed |-> scan.owed]
      /\ spc = "deliver" /\ spc' = IF scan.i < scan.n THEN "survey" ELSE "done"
      /\ UNCHANGED segs /\ UNCHANGED missed
  BY ScanDeliverStep
<1>2. /\ scan'.n = scan.n /\ scan'.from = scan.from /\ scan'.i = scan.i + 1
      /\ scan'.got = scan.got \cup New /\ scan'.owed = scan.owed
  BY <1>1
<1>3. scan.i \in Nat /\ scan.n \in Nat /\ scan.i \in 1 .. scan.n
  BY <1>1 DEF ScanInv, Scans
<1>4. ASSUME NEW r \in scan.owed
      PROVE  /\ r[1] >= scan.from
             /\ r \in scan'.got \/ \E k \in scan.i + 1 .. scan.n : r \in Part(segs[k], segs[k].vis)
  <2>1. r[1] >= scan.from /\ Ahead(r)
    BY <1>1 DEF CalmScan
  <2>2. r \in Delivered(segs[scan.i].base, Cut(segs[scan.i], segs[scan.i].vis), scan.end) => r \in New
    BY <2>1 DEF New, Visible, Cut
  <2> QED BY <1>1, <1>2, <2>1, <2>2 DEF Ahead
<1>5. CASE scan.i < scan.n
  <2>1. spc' = "survey"
    BY <1>1, <1>5
  <2>2. ASSUME NEW r \in scan.owed PROVE Ahead(r)'
    <3>1. CASE r \in scan'.got
      BY <3>1 DEF Ahead
    <3>2. CASE \E k \in scan.i + 1 .. scan.n : r \in Part(segs[k], segs[k].vis)
      <4>1. PICK k \in scan.i + 1 .. scan.n : r \in Part(segs[k], segs[k].vis)
        BY <3>2
      <4>2. k = scan'.i \/ k \in scan'.i + 1 .. scan'.n
        BY <1>2, <1>3
      <4>3. r \in Part(segs'[k], segs'[k].vis)
        BY <1>1, <4>1
      <4> QED BY <2>1, <4>2, <4>3 DEF Ahead
    <3> QED BY <1>4, <3>1, <3>2
  <2>3. \A r \in scan'.owed : r[1] >= scan'.from /\ Ahead(r)'
    BY <1>2, <1>4, <2>2
  <2> QED BY <1>1, <2>1, <2>3 DEF CalmScan
<1>6. CASE ~(scan.i < scan.n)
  <2>1. spc' = "done"
    BY <1>1, <1>6
  <2>2. scan.i + 1 .. scan.n = {}
    BY <1>3, <1>6
  <2>3. \A r \in scan'.owed : r[1] >= scan'.from /\ r \in scan'.got
    BY <1>2, <1>4, <2>2
  <2> QED BY <1>1, <2>1, <2>3 DEF CalmScan
<1> QED BY <1>5, <1>6

LEMMA ScanReturnCalm ==
    ASSUME CalmScan, ScanReturn
    PROVE  CalmScan'
<1>1. /\ spc \in {"done", "corrupt"} /\ missed' = (missed \/ ~(scan.owed \subseteq scan.got))
      /\ spc' = "idle" /\ scan' = NoScan
  BY DEF ScanReturn
<1>2. ~missed'
  BY <1>1 DEF CalmScan
<1> QED BY <1>1, <1>2, NoScanFacts DEF CalmScan
-----------------------------------------------------------------------------
(* The calm invariant.                                                     *)

CalmInv == ReadInv /\ (Calm => CalmLog /\ CalmScan)

LEMMA CalmInit == ASSUME Init PROVE CalmInv
<1>1. segs = <<>> /\ Len(segs) = 0 /\ issued = {} /\ acked = {} /\ ~missed /\ spc = "idle" /\ scan = NoScan
  BY DEF Init
<1>2. CalmLog
  BY <1>1 DEF CalmLog
<1>3. CalmScan
  BY <1>1, NoScanFacts DEF CalmScan
<1> QED BY <1>2, <1>3, ReadInit DEF CalmInv

LEMMA CalmWorld == ASSUME UNCHANGED world PROVE Calm' = Calm
BY DEF Calm

LEMMA CalmStep == ASSUME CalmInv, [Next]_vars PROVE CalmInv'
<1>0. ReadInv /\ LogInv /\ ScanInv /\ ReadInv' /\ LogInv' /\ UNCHANGED world /\ Calm' = Calm
  <2>1. UNCHANGED world
    BY DEF Next, Stopped, vars
  <2> QED BY <2>1, ReadStep, CalmWorld DEF CalmInv, ReadInv
<1> SUFFICES ASSUME Calm, CalmLog, CalmScan PROVE CalmLog' /\ CalmScan'
  BY <1>0 DEF CalmInv
<1>1. CASE WriterStep
  <2>1. Later(segs, segs') /\ UNCHANGED <<spc, scan>> /\ UNCHANGED missed
    BY <1>0, <1>1, WriterLog, WriterApart
  <2>2. CalmLog'
    BY <1>0, <1>1, <2>1, WriterCalm
  <2>3. CalmScan'
    BY <1>0, <2>1, LaterCalmScan
  <2> QED BY <2>2, <2>3
<1>2. CASE ScanStep
  <2>1. CalmLog'
    BY <1>2, ScanApart, CalmLogSame
  <2>2. CASE \E from \in 0 .. MaxAppends : ScanList(from)
    <3>1. PICK from \in 0 .. MaxAppends : ScanList(from)
      BY <2>2
    <3>2. from \in Nat
      BY AofAssumption
    <3> QED BY <1>0, <2>1, <3>1, <3>2, ScanListCalm
  <2>3. CASE ScanSurvey
    BY <1>0, <2>1, <2>3, ScanSurveyCalm
  <2>4. CASE ScanDeliver
    BY <1>0, <2>1, <2>4, ScanDeliverCalm
  <2>5. CASE ScanReturn
    BY <2>1, <2>5, ScanReturnCalm
  <2> QED BY <1>2, <2>2, <2>3, <2>4, <2>5 DEF ScanStep
<1>3. CASE ProcessCrash
  BY <1>3, CalmFaults DEF ProcessCrash
<1>4. CASE MachineCrash
  <2>1. CalmLog'
    BY <1>0, <1>4, MachineCrashCalm
  <2>2. spc' = "idle" /\ scan' = NoScan /\ UNCHANGED missed
    BY <1>4 DEF MachineCrash
  <2>3. CalmScan'
    BY <2>2, NoScanFacts DEF CalmScan
  <2> QED BY <2>1, <2>3
<1>5. CASE UNCHANGED vars
  <2>1. UNCHANGED <<segs, pc, fp, dirty, issued, acked>> /\ UNCHANGED <<spc, scan>> /\ UNCHANGED missed
    BY <1>5 DEF vars, handle, scanner, ghosts
  <2>2. CalmLog'
    BY <2>1, CalmLogSame
  <2>3. CalmScan'
    BY <2>1 DEF CalmScan, Ahead
  <2> QED BY <2>2, <2>3
<1> QED BY <1>1, <1>2, <1>3, <1>4, <1>5 DEF Next, Stopped

\* Where only open and close fail and the writer dies with its machine: a scan
\* that starts after a commit returned RAY_OK delivers every record the commit
\* covered, and ray_aof_scan reports no damage where there was none.
THEOREM AofScansComplete == Spec => []ScansComplete
<1>1. Init => CalmInv
  BY CalmInit
<1>2. CalmInv /\ [Next]_vars => CalmInv'
  BY CalmStep
<1>3. CalmInv => ScansComplete
  BY DEF CalmInv, CalmScan, ScansComplete
<1> QED BY <1>1, <1>2, <1>3, PTL DEF Spec

\* No step takes an acknowledgement back.
LEMMA AckedGrows == ASSUME [Next]_vars PROVE acked \subseteq acked'
<1>1. CASE WriterStep
  <2>1. CASE OpenExisting \/ OpenNew \/ OpenSyncDir \/ AppendCall \/ AppendWrite
    BY <2>1 DEF OpenExisting, OpenNew, OpenSyncDir, AppendCall, AppendWrite, ghosts
  <2>2. CASE RotateFrame \/ RotateFlush \/ RotateSync \/ CommitFrame \/ CommitFlush \/ CommitSync
    BY <2>2 DEF RotateFrame, RotateFlush, RotateSync, CommitFrame, CommitFlush, CommitSync, WriteFrame,
                Flush, Sync, ghosts
  <2>3. CASE RotateClose \/ RotateOpen \/ RotateSyncDir \/ CommitClean \/ CommitCall
    BY <2>3 DEF RotateClose, RotateOpen, RotateSyncDir, CommitClean, CommitCall, ghosts
  <2>4. CASE CommitReturn
    BY <2>4 DEF CommitReturn
  <2>5. CASE CloseCall \/ CloseFile \/ Spill
    BY <2>5 DEF CloseCall, CloseFile, Spill, ghosts
  <2> QED BY <1>1, <2>1, <2>2, <2>3, <2>4, <2>5 DEF WriterStep
<1>2. CASE ScanStep
  BY <1>2, ScanApart
<1>3. CASE ProcessCrash \/ MachineCrash
  BY <1>3 DEF ProcessCrash, MachineCrash
<1>4. CASE UNCHANGED vars
  BY <1>4 DEF vars, ghosts
<1> QED BY <1>1, <1>2, <1>3, <1>4 DEF Next, Stopped

LEMMA DurableGrows == ASSUME ReadInv, ReadInv', Calm, [Next]_vars PROVE DurableView \subseteq DurableView'
<1>0. LogInv /\ LogInv'
  BY DEF ReadInv
<1>1. CASE WriterStep
  BY <1>0, <1>1, WriterLog, LaterDurable
<1>2. CASE UNCHANGED segs
  BY <1>2 DEF DurableView, ViewOf, Range1
<1>3. CASE ProcessCrash
  BY <1>3, CalmFaults DEF ProcessCrash
<1>4. CASE MachineCrash
  BY <1>0, <1>4, CrashDurable
<1> QED BY <1>1, <1>2, <1>3, <1>4, ScanApart DEF Next, Stopped, vars

LEMMA LogInit == ASSUME Init PROVE Log!Init
<1>1. segs = <<>> /\ acked = {}
  BY DEF Init
<1>2. DurableView = {}
  BY <1>1, InDurable
<1> QED BY <1>1, <1>2 DEF Log!Init

LEMMA KeptIsLog == ASSUME CalmInv, Calm PROVE Log!IsLog(DurableView)
<1>1. Lsns(DurableView) = 0 .. Cardinality(DurableView) - 1
  BY DurableIsLog DEF CalmInv, ReadInv
<1>2. Log!Cardinality(DurableView) = Cardinality(DurableView)
  BY DEF Log!Cardinality, Cardinality
<1> QED BY <1>1, <1>2 DEF Lsns, Log!IsLog

LEMMA LogStep ==
    ASSUME CalmInv, CalmInv', [Next]_vars
    PROVE  [Log!Extend]_<<IF Calm THEN DurableView ELSE {}, IF Calm THEN acked ELSE {}>>
<1>1. UNCHANGED world /\ Calm' = Calm
  <2>1. UNCHANGED world
    BY DEF Next, Stopped, vars
  <2> QED BY <2>1, CalmWorld
<1>2. CASE Calm
  <2>1. DurableView \subseteq DurableView' /\ acked \subseteq acked'
    BY <1>2, DurableGrows, AckedGrows DEF CalmInv
  <2>2. acked' \subseteq DurableView'
    BY <1>1, <1>2 DEF CalmInv, CalmLog
  <2>3. Calm' => Log!IsLog(DurableView)'
    BY KeptIsLog, PTL
  <2>4. Log!Extend
    BY <1>1, <1>2, <2>1, <2>2, <2>3 DEF Log!Extend
  <2> QED BY <2>4
<1>3. CASE ~Calm
  BY <1>1, <1>3
<1> QED BY <1>2, <1>3

\* aof.c implements the durable log: through rotations, power losses and
\* recoveries what is durable is a contiguous sequence of LSNs that only grows
\* at its end, and what ray_aof_commit or ray_aof_close answered RAY_OK for is
\* in it, as long as nothing but open and close fails and the writer dies only
\* with its machine.
THEOREM AofLogKept == Spec => LogKept
<1>1. Init => CalmInv /\ Log!Init
  BY CalmInit, LogInit
<1>2. CalmInv /\ [Next]_vars => CalmInv'
  BY CalmStep
<1>3. CalmInv /\ CalmInv' /\ [Next]_vars
        => [Log!Extend]_<<IF Calm THEN DurableView ELSE {}, IF Calm THEN acked ELSE {}>>
  BY LogStep
<1> QED BY <1>1, <1>2, <1>3, PTL DEF Spec, LogKept, Log!Spec
=============================================================================
