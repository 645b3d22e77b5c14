------------------------------- MODULE Writes -------------------------------
(***************************************************************************)
(* The write side of the query language (ops/query.c): update, insert and  *)
(* upsert of a table in memory, and insert into the live tail of a         *)
(* partitioned table.                                                      *)
(*                                                                         *)
(* A table has names and columns; a column has a type t and cells.  Type   *)
(* "f64" holds halves, so 3 is 1.5; "i32" has half the width of "i64", and *)
(* an empty column of type "list" has no type yet.  A value that an        *)
(* expression gave is an atom, a vector (its cells are atoms if its type   *)
(* is "list") or nothing.  Every operation builds a new table and binds it *)
(* only when it is complete, so an operation is an operator on tables that *)
(* gives Err if it fails.                                                  *)
(***************************************************************************)
EXTENDS Integers, Sequences, FiniteSets, SequencesExt, FiniteSetsExt

Null == -99
Half == 4                               \* i32 is -Half .. Half - 1
Err == [names |-> <<>>, cols |-> <<>>]  \* a table has columns
Bad == [t |-> "error", cells |-> <<>>]
Nothing == [k |-> "none", t |-> "none"]
Atom(t, x) == [k |-> "atom", t |-> t, x |-> x]
Vec(t, cells) == [k |-> "vec", t |-> t, cells |-> cells]

Ints == {"i32", "i64"}
Numeric == Ints \cup {"f64"}
Narrow(x) == ((x + Half) % (2 * Half)) - Half
NullOf(t) == IF t = "i32" THEN -Half ELSE -2 * Half
Raw(t, x) == IF x = Null THEN NullOf(t) ELSE x
Trunc(x) == IF x >= 0 THEN x \div 2 ELSE -((-x) \div 2)
Saturated(t, x) == LET top == -NullOf(t) - 1 IN IF x > top THEN top ELSE IF x < -top THEN -top ELSE x
Wrapped(x) == ((x + 2 * Half) % (4 * Half)) - 2 * Half

Column(t, cells) == [t |-> t, cells |-> cells]
NRows(T) == Len(T.cols[1].cells)
NCols(T) == Len(T.cols)
ColIdx(names, n) == IF \E i \in DOMAIN names : names[i] = n THEN Min({i \in DOMAIN names : names[i] = n}) ELSE 0
Elem(p, i) == IF p.t = "list" THEN p.cells[i] ELSE Atom(p.t, p.cells[i])
Count(seq, n) == Cardinality({i \in DOMAIN seq : seq[i] = n})

-----------------------------------------------------------------------------
(* The type that an empty untyped column takes from the first payload.      *)
TypelessColType(p) ==
    IF p.k = "none" THEN "i64"
    ELSE IF p.k = "atom" \/ p.t # "list" THEN p.t
    ELSE IF p.cells = <<>> \/ p.cells[1].k = "vec" THEN "list"
    ELSE LET t == IF p.cells[1].k = "none" THEN "i64" ELSE p.cells[1].t
         IN IF t = "i64" /\ \E i \in DOMAIN p.cells : p.cells[i].t = "f64" /\ p.cells[i].k = "atom" THEN "f64" ELSE t

(* A null of any type is a null of the column's; an integer goes into any   *)
(* numeric column and loses what does not fit.                              *)
Accepts(ct, a) == a.k = "atom" /\ (a.x = Null \/ (ct \in Ints /\ a.t \in Ints) \/ (ct = "f64" /\ a.t \in Numeric) \/ a.t = ct)
Stored(ct, a) ==
    IF a.x = Null THEN Null
    ELSE IF ct = "i32" THEN Narrow(a.x)
    ELSE IF ct = "f64" /\ a.t # "f64" THEN 2 * a.x
    ELSE a.x
AppendAtomToCol(col, a) ==
    IF col.t # "list" /\ Accepts(col.t, a) THEN [col EXCEPT !.cells = Append(@, Stored(col.t, a))] ELSE Bad

(* One payload of a column: nothing, an atom, a vector of the column's type *)
(* that is spliced, or any other collection, cell by cell.                  *)
AppendPayload(col, p) ==
    CASE p.k = "none" -> [col EXCEPT !.cells = Append(@, Null)]
      [] p.k = "atom" -> AppendAtomToCol(col, p)
      [] p.k = "vec" /\ p.t = col.t -> [col EXCEPT !.cells = @ \o p.cells]
      [] OTHER -> FoldLeft(LAMBDA c, i : IF c = Bad THEN Bad
                                         ELSE IF Elem(p, i).k = "none" THEN [c EXCEPT !.cells = Append(@, Null)]
                                         ELSE AppendAtomToCol(c, Elem(p, i)),
                           col, [i \in DOMAIN p.cells |-> i])
(* A table splices its list column; a row puts its value in one box.        *)
AppendBoxed(col, p, splice) ==
    IF splice /\ (p.k # "vec" \/ p.t # "list") THEN Bad
    ELSE Column("list", col.cells \o IF splice THEN p.cells ELSE <<p>>)
AppendColumn(col, p, fromTable) ==
    LET ct == IF col.t = "list" /\ col.cells = <<>> THEN TypelessColType(p) ELSE col.t
    IN IF ct = "list" THEN AppendBoxed(col, p, fromTable) ELSE AppendPayload(Column(ct, col.cells), p)

(* The payload of a row in the order of the columns: a table gives its      *)
(* columns by name, or by place where the name is missing; a dictionary may *)
(* leave columns out.                                                       *)
RowValues(T, row) ==
    CASE row.form = "list" -> row.vals
      [] row.form = "table" ->
            IF Len(row.names) # NCols(T) THEN <<>>
            ELSE [c \in 1 .. NCols(T) |-> row.vals[IF ColIdx(row.names, T.names[c]) # 0 THEN ColIdx(row.names, T.names[c]) ELSE c]]
      [] row.form = "dict" ->
            IF \E d \in DOMAIN row.names : ColIdx(T.names, row.names[d]) = 0 THEN <<>>
            ELSE [c \in 1 .. NCols(T) |-> IF ColIdx(row.names, T.names[c]) = 0 THEN Nothing ELSE row.vals[ColIdx(row.names, T.names[c])]]
Insert(T, row) ==
    LET vals == RowValues(T, row)
        cols == [c \in 1 .. NCols(T) |-> AppendColumn(T.cols[c], vals[c], row.form = "table")]
    IN IF Len(vals) # NCols(T) \/ (\E c \in DOMAIN cols : cols[c] = Bad) THEN Err ELSE [T EXCEPT !.cols = cols]

-----------------------------------------------------------------------------
(* update ... where: the rows of the mask take the expression's value.  A   *)
(* vector of another numeric type is overlaid with a cast, where there is   *)
(* one; everything else must have the column's type.                        *)
Cast(ct, et, x, old) ==
    IF ct \in Ints /\ et = "f64" THEN Saturated(ct, Trunc(x))
    ELSE IF ct = "f64" /\ et = "i64" THEN 2 * x
    ELSE old
Overlay(col, mask, e) ==
    [r \in DOMAIN col.cells |-> IF ~mask[r] THEN col.cells[r]
                                ELSE IF e.cells[r] = Null THEN Null
                                ELSE Cast(col.t, e.t, e.cells[r], col.cells[r])]
AtomFits(ct, a) == a.t = ct \/ (ct = "f64" /\ a.t = "i64")
Broadcast(ct, a, n) == Vec(ct, [r \in 1 .. n |-> Stored(ct, a)])
Merge(col, mask, e) == [r \in DOMAIN col.cells |-> IF mask[r] THEN e.cells[r] ELSE col.cells[r]]
MaskedColumn(col, mask, e) ==
    IF e.k = "vec" /\ e.t # col.t
    THEN IF {e.t, col.t} \subseteq Numeric THEN Column(col.t, Overlay(col, mask, e)) ELSE Bad
    ELSE IF e.k = "atom"
    THEN IF ~AtomFits(col.t, e) THEN Bad ELSE Column(col.t, Merge(col, mask, Broadcast(col.t, e, Len(col.cells))))
    ELSE Column(col.t, Merge(col, mask, e))
(* Only columns that exist are looked at.                                   *)
UpdateWhere(T, mask, name, e) ==
    LET cols == [c \in 1 .. NCols(T) |-> IF T.names[c] = name THEN MaskedColumn(T.cols[c], mask, e) ELSE T.cols[c]]
    IN IF \E c \in DOMAIN cols : cols[c] = Bad THEN Err ELSE [T EXCEPT !.cols = cols]

(* Without a mask the column is replaced, and may change its type.          *)
Promoted(e) == Vec("f64", [r \in DOMAIN e.cells |-> IF e.cells[r] = Null THEN Null ELSE 2 * e.cells[r]])
WholeColumn(col, e) ==
    LET full == IF e.k = "atom" THEN Broadcast(col.t, e, Len(col.cells)) ELSE e
        v == IF full.t = "i64" /\ col.t = "f64" THEN Promoted(full) ELSE full
    IN IF e.k = "atom" /\ ~AtomFits(col.t, e) THEN Bad
       ELSE IF v.t # col.t /\ ~({v.t, col.t} \subseteq Numeric) THEN Bad
       ELSE Column(v.t, v.cells)
UpdateAll(T, name, e) ==
    LET cols == [c \in 1 .. NCols(T) |-> IF T.names[c] = name THEN WholeColumn(T.cols[c], e) ELSE T.cols[c]]
        fresh == IF e.k = "atom" THEN Broadcast(e.t, e, NRows(T)) ELSE e
    IN IF \E c \in DOMAIN cols : cols[c] = Bad THEN Err
       ELSE IF ColIdx(T.names, name) # 0 THEN [T EXCEPT !.cols = cols]
       ELSE [names |-> Append(T.names, name), cols |-> Append(cols, Column(fresh.t, fresh.cells))]

(* update ... by: an aggregate of each group, sent back to the group's      *)
(* rows.  The result is always a new column, also under an old name.  A     *)
(* group's cells are copied without the mark that says there are nulls.     *)
GroupSum(T, by, src, r) ==
    LET col == T.cols[src]
        rows == {q \in 1 .. NRows(T) : T.cols[by].cells[q] = T.cols[by].cells[r]}
        sum == Wrapped(MapThenSumSet(LAMBDA q : Raw(col.t, col.cells[q]), rows))
    IN IF col.t = "f64" THEN (IF \E q \in rows : col.cells[q] = Null THEN Null ELSE MapThenSumSet(LAMBDA q : col.cells[q], rows))
       ELSE IF sum = NullOf("i64") THEN Null ELSE sum
UpdateBy(T, by, name, src) ==
    IF NRows(T) > 0 /\ T.cols[src].t \notin Numeric THEN Err
    ELSE [names |-> Append(T.names, name),
          cols |-> Append(T.cols, Column(IF NRows(T) > 0 /\ T.cols[src].t = "f64" THEN "f64" ELSE "i64",
                                         [r \in 1 .. NRows(T) |-> GroupSum(T, by, src, r)]))]

-----------------------------------------------------------------------------
(* upsert: the first row with the key takes the new values, and keeps its   *)
(* own where there is none; without one the row is inserted.                *)
KeyCols(T, key) == IF key.by = "name" THEN {ColIdx(T.names, key.name)} ELSE 1 .. key.count
SameKey(col, r, a) ==
    CASE col.t = "f64" -> col.cells[r] # Null /\ a.x # Null /\ col.cells[r] = Stored("f64", a)
      [] col.t = "sym" -> col.cells[r] = a.x
      [] OTHER -> Raw(col.t, col.cells[r]) = Raw(a.t, a.x)
MatchShort(T, keys, vals) ==
    LET hits == {r \in 1 .. NRows(T) - 1 : \A c \in keys : SameKey(T.cols[c], r, vals[c])} IN IF hits = {} THEN 0 ELSE Min(hits)
MatchRow(T, keys, vals) ==
    LET hits == {r \in 1 .. NRows(T) : \A c \in keys : SameKey(T.cols[c], r, vals[c])} IN IF hits = {} THEN 0 ELSE Min(hits)
ReplaceRow(T, m, vals) ==
    IF \E c \in DOMAIN vals : vals[c].k # "none" /\ ~Accepts(T.cols[c].t, vals[c]) THEN Err
    ELSE [T EXCEPT !.cols = [c \in DOMAIN T.cols |-> IF vals[c].k = "none" THEN T.cols[c]
                                                     ELSE [T.cols[c] EXCEPT !.cells[m] = Stored(T.cols[c].t, vals[c])]]]
UpsertRow(T, key, vals) ==
    LET keys == KeyCols(T, key)
        m == MatchRow(T, keys, vals)
    IN IF \E c \in keys : T.cols[c].t = "sym" /\ vals[c].t # "sym" THEN Err
       ELSE IF m = 0 THEN Insert(T, [form |-> "list", vals |-> vals])
       ELSE ReplaceRow(T, m, vals)
(* A payload of several rows is taken row by row; one that fails drops all. *)
UpsertRows(T, key, rows) == FoldLeft(LAMBDA U, vals : IF U = Err THEN Err ELSE UpsertRow(U, key, vals), T, rows)
KeyGiven(T, key) == IF key.by = "name" THEN ColIdx(T.names, key.name) # 0 ELSE key.count \in 1 .. NCols(T)
KeyNames(T, key) == {T.names[c] : c \in KeyCols(T, key)}
(* A table may leave out columns that are not keys, and nothing else.       *)
UpsertTable(T, key, row) ==
    IF Len(row.vals[1].cells) = 0 THEN T
    ELSE IF \E d \in DOMAIN row.names : Count(T.names, row.names[d]) # 1 \/ Count(row.names, row.names[d]) # 1 THEN Err
    ELSE IF ~KeyGiven(T, key) \/ ~(KeyNames(T, key) \subseteq ToSet(row.names)) THEN Err
    ELSE UpsertRows(T, key, [r \in DOMAIN row.vals[1].cells |->
             [c \in 1 .. NCols(T) |-> IF ColIdx(row.names, T.names[c]) = 0 THEN Nothing
                                      ELSE Elem(row.vals[ColIdx(row.names, T.names[c])], r)]])
UpsertDict(T, row) ==
    IF Len(row.names) # NCols(T) \/ (\E c \in DOMAIN T.names : Count(T.names, T.names[c]) # 1 \/ Count(row.names, T.names[c]) # 1) THEN <<>>
    ELSE [c \in 1 .. NCols(T) |-> row.vals[ColIdx(row.names, T.names[c])]]
Upsert(T, key, row) ==
    LET vals == IF row.form = "dict" THEN UpsertDict(T, row) ELSE row.vals
        first == Min(KeyCols(T, key))
    IN IF row.form = "table" THEN UpsertTable(T, key, row)
       ELSE IF Len(vals) # NCols(T) \/ ~KeyGiven(T, key) THEN Err
       ELSE IF vals[first].k = "atom" THEN UpsertRow(T, key, vals)
       ELSE IF \E c \in DOMAIN vals : vals[c].k # "vec" THEN Err
       ELSE UpsertRows(T, key, [r \in DOMAIN vals[first].cells |-> [c \in DOMAIN vals |-> Elem(vals[c], r)]])

-----------------------------------------------------------------------------
(* A partitioned table P has increasing partition keys, a count of rows for *)
(* each, and columns that are a sequence of segments, with Missing for one  *)
(* that is not on disk.  Symbol cells are places in the domain P.dom.       *)
Missing == <<Null, Null, Null, Null, Null>>
Last1(s) == s[Len(s)]
ActiveMissing(P) == \E c \in DOMAIN P.cols : Last1(P.cols[c].segs) = Missing
ValidTarget(P) ==
    /\ P.keys # <<>> /\ Len(P.counts) = Len(P.keys) /\ P.cols # <<>>
    /\ \A p \in 2 .. Len(P.keys) : P.keys[p - 1] < P.keys[p]
    /\ \A c \in DOMAIN P.cols :
          /\ Len(P.cols[c].segs) = Len(P.keys) /\ P.cols[c].segs[1] # Missing
          /\ \A p \in DOMAIN P.keys : P.cols[c].segs[p] = Missing => p = Len(P.keys)
          /\ \A p \in DOMAIN P.keys : P.cols[c].segs[p] # Missing => Len(P.cols[c].segs[p]) = P.counts[p]
(* Exact types, one length for all vectors; an atom fills its column.       *)
PartedFits(P, vals) ==
    /\ Len(vals) = Len(P.cols)
    /\ \A c \in DOMAIN vals : vals[c].k # "none" /\ vals[c].t = P.cols[c].t
    /\ \A c, d \in DOMAIN vals : vals[c].k = "vec" /\ vals[d].k = "vec" => Len(vals[c].cells) = Len(vals[d].cells)
PartedBatch(vals) ==
    LET vecs == {c \in DOMAIN vals : vals[c].k = "vec"} IN IF vecs = {} THEN 1 ELSE Len(vals[Min(vecs)].cells)
PartedCell(p, r) == IF p.k = "atom" THEN p.x ELSE p.cells[r]
NormalizeParted(P, row) ==
    IF row.form = "list" THEN row.vals
    ELSE IF Len(row.names) # Len(P.names) \/ ~(ToSet(P.names) = ToSet(row.names)) THEN <<>>
    ELSE [c \in DOMAIN P.cols |-> row.vals[ColIdx(row.names, P.names[c])]]
(* Symbols are interned after everything that can fail; the domain grows.   *)
PayloadSymbols(P, vals, batch) ==
    FlattenSeq([c \in DOMAIN P.cols |-> IF P.cols[c].t # "sym" THEN <<>> ELSE [r \in 1 .. batch |-> PartedCell(vals[c], r)]])
InternAll(dom, names) == FoldLeft(LAMBDA d, n : IF n \in ToSet(d) THEN d ELSE Append(d, n), dom, names)
(* The prefix of a segment that was missing is null.                        *)
OldCells(P, c, fresh) ==
    IF fresh THEN <<>>
    ELSE IF Last1(P.cols[c].segs) = Missing THEN [r \in 1 .. Last1(P.counts) |-> IF P.cols[c].t = "sym" THEN 1 ELSE Null]
    ELSE Last1(P.cols[c].segs)
NewSegment(P, c, fresh, p, batch, dom) ==
    OldCells(P, c, fresh) \o [r \in 1 .. batch |-> IF P.cols[c].t = "sym" THEN ColIdx(dom, PartedCell(p, r)) ELSE PartedCell(p, r)]
InsertParted(P, key, row) ==
    LET vals == NormalizeParted(P, row)
        fresh == key > Last1(P.keys)
        batch == PartedBatch(vals)
        dom == InternAll(P.dom, PayloadSymbols(P, vals, batch))
        kept(s) == IF fresh THEN s ELSE Front(s)
    IN IF ~ValidTarget(P) \/ key < Last1(P.keys) \/ (fresh /\ ActiveMissing(P)) THEN Err
       ELSE IF ~PartedFits(P, vals) \/ (batch = 0 /\ ActiveMissing(P)) THEN Err
       ELSE IF batch = 0 THEN P
       ELSE [P EXCEPT !.keys = kept(@) \o <<key>>,
                      !.counts = IF fresh THEN Append(@, batch) ELSE kept(@) \o <<Last1(@) + batch>>,
                      !.cols = [c \in DOMAIN @ |-> [@[c] EXCEPT !.segs = kept(@) \o <<NewSegment(P, c, fresh, vals[c], batch, dom)>>]],
                      !.dom = dom]
(* Out of memory while the symbols are interned: a part of the vocabulary   *)
(* stays, and nothing is bound.                                             *)
InsertFails(P, row, n) ==
    LET vals == NormalizeParted(P, row)
    IN [P EXCEPT !.dom = InternAll(@, SubSeq(PayloadSymbols(P, vals, PartedBatch(vals)), 1, n))]
=============================================================================
