------------------------------ MODULE MCWrites ------------------------------
(* Tables that inserts, upserts and updates built, and partitioned tables   *)
(* that grew, each under every operation.                                   *)
EXTENDS Writes, Input

CONSTANTS
    MaxTable,   \* bound: rows of a table
    MaxParts    \* bound: partitions, and rows of one

Values(t) == CASE t = "i64" -> {Null, 1, 5} [] t = "i32" -> {Null, 1} [] t = "f64" -> {Null, 2, 3} [] t = "sym" -> {Null, 7}
Atoms(t) == {Atom(t, x) : x \in Values(t)}
AnyAtom == UNION {Atoms(t) : t \in {"i64", "i32", "f64", "sym"}}
Names == <<"k", "v">>
Empty(kt, vt) == [names |-> Names, cols |-> <<Column(kt, <<>>), Column(vt, <<>>)>>]
EmptyTables == {Empty("i64", "f64"), Empty("i32", "i64"), Empty("sym", "i32"), Empty("f64", "i64"), Empty("list", "sym")}
List(vals) == [form |-> "list", names |-> <<>>, vals |-> vals]
ByName == [by |-> "name", name |-> "k"]
ByCount(n) == [by |-> "count", count |-> n]

-----------------------------------------------------------------------------
(* What a table says, type by type: numbers in halves.                      *)
Meaning(t, x) == IF x # Null /\ t \in Ints THEN 2 * x ELSE x
Row(T, r) == [c \in 1 .. NCols(T) |-> Meaning(T.cols[c].t, T.cols[c].cells[r])]
Rows(T) == [r \in 1 .. NRows(T) |-> Row(T, r)]
AtomMeaning(a) == IF a.k = "none" THEN Null ELSE Meaning(a.t, a.x)
Fits(t, a) == a.k = "none" \/ a.x = Null \/ (a.t = t /\ t # "list") \/ (t \in Numeric /\ a.t \in Ints)
Exact(t, a) == a.k = "none" \/ a.x = Null \/ t # "i32" \/ a.x = Narrow(a.x)
Rectangular(T) == \A c, d \in DOMAIN T.cols : Len(T.cols[c].cells) = Len(T.cols[d].cells)

TableInit == in \in {[kind |-> "table", T |-> T, upserts |-> TRUE] : T \in EmptyTables}
Bind(T, upserts) == T # Err /\ NRows(T) <= MaxTable /\ in' = [kind |-> "table", T |-> T, upserts |-> upserts]
OwnAtoms(t) == IF t = "list" THEN Atoms("i64") \cup Atoms("f64") ELSE Atoms(t) \cup (IF t = "f64" THEN {Atom("i64", 1)} ELSE {})
InsertStep ==
    /\ in.kind = "table" /\ NCols(in.T) = 2
    /\ \E a \in OwnAtoms(in.T.cols[1].t), b \in OwnAtoms(in.T.cols[2].t) : Bind(Insert(in.T, List(<<a, b>>)), FALSE)
UpsertStep ==
    /\ in.kind = "table" /\ NCols(in.T) = 2 /\ in.upserts
    /\ in.T.cols[1].t # "list"
    /\ \E a \in OwnAtoms(in.T.cols[1].t), b \in OwnAtoms(in.T.cols[2].t) :
          Exact(in.T.cols[1].t, a) /\ a.x # Null /\ Bind(Upsert(in.T, ByName, List(<<a, b>>)), TRUE)
UpdateStep ==
    /\ in.kind = "table" /\ NCols(in.T) = 2 /\ in.T.cols[1].t # "list"
    /\ \/ \E x \in {1, 3} : Bind(UpdateAll(in.T, "v", Vec("f64", [r \in 1 .. NRows(in.T) |-> x])), in.upserts)
       \/ Bind(UpdateBy(in.T, 1, "s", 2), FALSE)
TableNext == InsertStep \/ UpsertStep \/ UpdateStep

-----------------------------------------------------------------------------
T == in.T
Typed == in.kind = "table" /\ in.T.cols[1].t # "list" /\ NCols(in.T) = 2
Free(t) == Atoms(t) \cup {Atom("i64", 1), Atom("f64", 3), Atom("sym", 7), Nothing}
RefRows(vals) == << [c \in DOMAIN vals |-> AtomMeaning(vals[c])] >>

(* Every column grows by the rows of the payload and by nothing else, and a *)
(* value that a column does not take leaves the table as it was.            *)
InsertExact ==
    Typed => \A a \in Free(T.cols[1].t), b \in Free(T.cols[2].t) :
        LET fits == Fits(T.cols[1].t, a) /\ Fits(T.cols[2].t, b)
            exact == Exact(T.cols[1].t, a) /\ Exact(T.cols[2].t, b)
            after == IF a.k = "none" \/ b.k = "none"
                     THEN LET in2 == SelectSeq(<<1, 2>>, LAMBDA i : <<a, b>>[i].k # "none")
                          IN Insert(T, [form |-> "dict", names |-> [i \in DOMAIN in2 |-> Names[in2[i]]], vals |-> [i \in DOMAIN in2 |-> <<a, b>>[in2[i]]]])
                     ELSE Insert(T, List(<<a, b>>))
        IN /\ (after = Err) = ~fits
           /\ fits /\ exact => Rows(after) = Rows(T) \o RefRows(<<a, b>>)

(* Two rows at once, whatever the form and the order of their columns, are  *)
(* the rows one after the other.                                            *)
InsertForms ==
    Typed => \A a1, a2 \in OwnAtoms(T.cols[1].t), b1 \in OwnAtoms(T.cols[2].t) :
        LET ka == Vec("list", <<a1, a2>>)
            vb == Vec("list", <<b1, b1>>)
            one == Insert(Insert(T, List(<<a1, b1>>)), List(<<a2, b1>>))
            typed == a1.t = a2.t
            kv == IF typed THEN Vec(a1.t, <<a1.x, a2.x>>) ELSE ka
        IN /\ Insert(T, List(<<ka, vb>>)) = one
           /\ Insert(T, [form |-> "dict", names |-> <<"v", "k">>, vals |-> <<vb, ka>>]) = one
           /\ Insert(T, [form |-> "table", names |-> <<"v", "k">>, vals |-> <<vb, kv>>]) = one

(* An untyped column takes a type in which its first values all fit.        *)
AdoptsType ==
    in.kind = "table" /\ in.T.cols[1].t = "list" =>
        \A a, a2 \in Atoms("i64") \cup Atoms("f64") :
            LET U == Insert(T, List(<<Vec("list", <<a, a2>>), Vec("sym", <<7, 7>>)>>))
            IN /\ U # Err /\ Rectangular(U) /\ NRows(U) = 2
               /\ Row(U, 1)[1] = AtomMeaning(a) /\ Row(U, 2)[1] = AtomMeaning(a2)

(* A masked update leaves the other rows alone and gives the rows of the    *)
(* mask the value, cut to the column's type.                                *)
Cut(t, a) == IF a.x = Null \/ t = "f64" \/ a.t # "f64" THEN AtomMeaning(a) ELSE 2 * Saturated(t, Trunc(a.x))
Dropped(t, e) == e.k = "vec" /\ <<t, e.t>> \in {<<"i32", "i64">>, <<"i64", "i32">>, <<"f64", "i32">>}
Masked(e, U, mask) ==
    \A r \in 1 .. NRows(T) :
        Row(U, r)[2] = IF mask[r] THEN Cut(T.cols[2].t, IF e.k = "atom" THEN e ELSE Elem(e, r)) ELSE Row(T, r)[2]
Updates(n) == AnyAtom \cup UNION {{Vec(t, [r \in 1 .. n |-> x]) : x \in Values(t)} : t \in {"i64", "i32", "f64", "sym"}}
UpdateMasked ==
    Typed => \A mask \in [1 .. NRows(T) -> BOOLEAN], e \in Updates(NRows(T)) :
        LET U == UpdateWhere(T, mask, "v", e)
        IN U # Err => /\ U.cols[1] = T.cols[1] /\ U.cols[2].t = T.cols[2].t
                      /\ ~Dropped(T.cols[2].t, e) => Masked(e, U, mask)

(* A mask that takes every row says what no mask says, where both are       *)
(* taken and the column keeps its type.                                     *)
UpdateAgrees ==
    Typed => \A e \in Updates(NRows(T)) :
        LET all == [r \in 1 .. NRows(T) |-> TRUE]
            W1 == UpdateWhere(T, all, "v", e)
            W2 == UpdateAll(T, "v", e)
        IN /\ (W1 = Err) = (W2 = Err)
           /\ W1 # Err /\ W1.cols[2].t = W2.cols[2].t => W1 = W2

(* Upserts alone never make two rows of one key, and the last row given for *)
(* a key is the one that stands, in the place where the key first came.     *)
KeyMeanings(U) == [r \in 1 .. NRows(U) |-> Row(U, r)[1]]
UpsertKeyed == in.kind = "table" /\ in.upserts => \A p, q \in 1 .. NRows(in.T) : p # q => Row(in.T, p)[1] # Row(in.T, q)[1]
UpsertLast ==
    Typed /\ in.upserts => \A a1, a2 \in OwnAtoms(T.cols[1].t), b1, b2 \in OwnAtoms(T.cols[2].t) :
        LET U == Upsert(T, ByCount(1), List(<<Vec("list", <<a1, a2>>), Vec("list", <<b1, b2>>)>>))
            same == AtomMeaning(a1) = AtomMeaning(a2)
            given == <<AtomMeaning(a1), AtomMeaning(a2)>>
            vals == <<AtomMeaning(b1), AtomMeaning(b2)>>
            fresh == SelectSeq(IF same THEN <<2>> ELSE <<1, 2>>, LAMBDA i : given[i] \notin ToSet(KeyMeanings(T)))
        IN a1.x # Null /\ a2.x # Null =>
             Rows(U) = [r \in 1 .. NRows(T) |-> IF Row(T, r)[1] = given[2] THEN <<given[2], vals[2]>>
                                                ELSE IF Row(T, r)[1] = given[1] THEN <<given[1], vals[1]>> ELSE Row(T, r)]
                       \o [i \in DOMAIN fresh |-> <<given[fresh[i]], vals[fresh[i]]>>]

(* A partial table changes the columns it has; composite keys must all      *)
(* agree.                                                                   *)
UpsertPartial ==
    Typed => \A a \in Atoms(T.cols[1].t) :
        LET U == Upsert(T, ByName, [form |-> "table", names |-> <<"k">>, vals |-> <<Vec(a.t, <<a.x>>)>>])
        IN a.x # Null => /\ SubSeq(Rows(U), 1, NRows(T)) = Rows(T)
                         /\ NRows(U) = NRows(T) + IF AtomMeaning(a) \in ToSet(KeyMeanings(T)) THEN 0 ELSE 1
UpsertComposite ==
    Typed => \A a \in Atoms(T.cols[1].t), b \in Atoms(T.cols[2].t) :
        a.x # Null /\ b.x # Null =>
            LET U == Upsert(T, ByCount(2), List(<<a, b>>))
            IN Rows(U) = IF <<AtomMeaning(a), AtomMeaning(b)>> \in ToSet(Rows(T)) THEN Rows(T) ELSE Rows(T) \o RefRows(<<a, b>>)

(* Each row gets the sum of its group.                                      *)
GroupBroadcast ==
    in.kind = "table" /\ NCols(in.T) = 3 =>
        \A r \in 1 .. NRows(T) :
            LET rows == {q \in 1 .. NRows(T) : T.cols[1].cells[q] = T.cols[1].cells[r]}
                sum == MapThenSumSet(LAMBDA q : T.cols[2].cells[q], rows)
            IN (\A q \in rows : T.cols[2].cells[q] # Null) /\ sum = Wrapped(sum) => T.cols[3].cells[r] = sum

-----------------------------------------------------------------------------
(* Partitioned tables: one symbol and one number column.  dom starts with   *)
(* the empty symbol.                                                        *)
PartInit ==
    in \in {[kind |-> "parted", P |-> [names |-> <<"s", "n">>, keys |-> <<1>>, counts |-> <<1>>, dom |-> <<0, 7>>,
                                       cols |-> <<[t |-> "sym", segs |-> << <<2>> >>], [t |-> "i64", segs |-> << <<5>> >>]>>]],
            [kind |-> "parted", P |-> [names |-> <<"s", "n">>, keys |-> <<1, 2>>, counts |-> <<1, 2>>, dom |-> <<0, 7>>,
                                       cols |-> <<[t |-> "sym", segs |-> << <<2>>, Missing >>], [t |-> "i64", segs |-> << <<5>>, <<6, 6>> >>]>>]]}
PartPayloads ==
    {List(<<s, n>>) : s \in {Atom("sym", 8), Vec("sym", <<7, 9>>), Vec("sym", <<>>)}, n \in {Atom("i64", 1), Vec("i64", <<1, 2>>), Vec("i64", <<>>)}}
      \cup {[form |-> "table", names |-> <<"n", "s">>, vals |-> <<Vec("i64", <<3>>), Vec("sym", <<9>>)>>], List(<<Atom("sym", 8), Atom("f64", 1)>>)}
PartRows(P) == \* rows with the partition they are in
    FlattenSeq([p \in DOMAIN P.keys |-> [r \in 1 .. P.counts[p] |->
        <<P.keys[p], IF P.cols[1].segs[p] = Missing THEN 0 ELSE P.dom[P.cols[1].segs[p][r]],
          IF P.cols[2].segs[p] = Missing THEN Null ELSE P.cols[2].segs[p][r]>>]])
PartInsert ==
    /\ in.kind = "parted"
    /\ \E key \in 1 .. MaxParts, row \in PartPayloads :
          LET P == InsertParted(in.P, key, row)
          IN P # Err /\ (\A p \in DOMAIN P.counts : P.counts[p] <= MaxParts) /\ in' = [in EXCEPT !.P = P]
PartFails ==
    /\ in.kind = "parted"
    /\ \E key \in 1 .. MaxParts, row \in PartPayloads :
          /\ InsertParted(in.P, key, row) # Err
          /\ \E n \in 1 .. PartedBatch(NormalizeParted(in.P, row)) : in' = [in EXCEPT !.P = InsertFails(@, row, n)]
PartNext == PartInsert \/ PartFails

(* A live insert adds its rows to the last partition, or to a later one,    *)
(* and every row that was there still says what it said: symbols are        *)
(* places in a domain that other inserts, also failed ones, have extended.  *)
LiveTail ==
    in.kind = "parted" => \A key \in 1 .. MaxParts + 1, row \in PartPayloads :
        LET P == in.P
            Q == InsertParted(P, key, row)
            vals == NormalizeParted(P, row)
            batch == IF vals = <<>> THEN 0 ELSE PartedBatch(vals)
        IN Q # Err =>
             /\ batch > 0 => ValidTarget(Q) /\ ~ActiveMissing(Q)
             /\ SubSeq(PartRows(Q), 1, Len(PartRows(P))) = PartRows(P)
             /\ SubSeq(PartRows(Q), Len(PartRows(P)) + 1, Len(PartRows(Q)))
                  = [r \in 1 .. batch |-> <<key, PartedCell(vals[1], r), PartedCell(vals[2], r)>>]

WritesInit == TableInit \/ PartInit
WritesNext == TableNext \/ PartNext
Spec == WritesInit /\ [][WritesNext]_in

-----------------------------------------------------------------------------
(* "Apply updates only to rows matching a predicate": to all of them.       *)
UpdateApplied ==
    Typed => \A mask \in [1 .. NRows(T) -> BOOLEAN], e \in Updates(NRows(T)) :
        LET U == UpdateWhere(T, mask, "v", e) IN U # Err => Masked(e, U, mask)

(* Aggregations skip null values, also those of update ... by.              *)
GroupSkipsNulls ==
    in.kind = "table" /\ NCols(in.T) = 3 =>
        \A r \in 1 .. NRows(T) :
            LET rows == {q \in 1 .. NRows(T) : T.cols[1].cells[q] = T.cols[1].cells[r] /\ T.cols[2].cells[q] # Null}
                sum == MapThenSumSet(LAMBDA q : T.cols[2].cells[q], rows)
            IN sum = Wrapped(sum) => T.cols[3].cells[r] = sum

(* A payload with columns of two lengths is no table.                       *)
InsertRectangular ==
    Typed => LET U == Insert(T, List(<<Vec(T.cols[1].t, <<1, 1>>), Vec(T.cols[2].t, <<1>>)>>)) IN U # Err => Rectangular(U)

(* A table with another column's name in place of one of ours is refused,   *)
(* or its columns are taken in their order.                                 *)
InsertNames ==
    Typed /\ T.cols[1].t = T.cols[2].t =>
        LET U == Insert(T, [form |-> "table", names |-> <<"v", "x">>, vals |-> <<Vec("i64", <<1>>), Vec("i64", <<5>>)>>])
        IN U # Err => Len(U.cols[1].cells) > 0 /\ Last1(U.cols[1].cells) # Last1(U.cols[2].cells)

(* A null key, or one that the column's type cuts, is found again.          *)
UpsertFinds ==
    Typed => \A a \in Atoms(T.cols[1].t) \cup Atoms("i64"), b \in Atoms(T.cols[2].t) :
        LET U == Upsert(T, ByName, List(<<a, b>>)) IN U # Err => Upsert(U, ByName, List(<<a, b>>)) = U
=============================================================================
