------------------------------- MODULE Datalog -------------------------------
(* ops/datalog.c: clauses parsed into rules, rules stratified, each body    *)
(* joined literal by literal, a stratum iterated on its deltas, provenance. *)
(* A relation is [types, rows, idb]: the column types, the rows in order.   *)
(* A term is [var, val]: variable var, or the constant val when var is 0.   *)
(* Abstracted: tagged datoms, file domains, names of columns, memory.       *)
EXTENDS Integers, Sequences, SequencesExt, FiniteSetsExt

CONSTANTS
    MaxIter,    \* bound: rounds of a fixpoint, 1000 in the code
    MaxStrata,  \* DL_MAX_STRATA
    MaxVars     \* bound: variables of a rule

Var(v) == [var |-> v, val |-> 0, type |-> "i64"]
Const(x) == [var |-> 0, val |-> x, type |-> "i64"]
Wild == [var |-> -1, val |-> 0, type |-> "i64"]
Rename(a, free) == [i \in DOMAIN a |-> IF a[i].var >= 0 THEN a[i]
                                       ELSE Var(free + Cardinality({j \in 1 .. i : a[j].var < 0}))]

-----------------------------------------------------------------------------
(* A surface clause becomes literals.  A wildcard becomes a variable of its *)
(* own, "between" two comparisons, and a constant on the left moves right.  *)
Flipped(op) == CASE op = "gt" -> "lt" [] op = "ge" -> "le" [] op = "lt" -> "gt" [] op = "le" -> "ge" [] OTHER -> op
ParseCompare(c) ==
    IF c.l.k = "const" /\ c.r.k = "var" THEN [c EXCEPT !.op = Flipped(@), !.l = c.r, !.r = c.l] ELSE c
ParseClause(c, free) ==
    CASE c.t = "triple" -> <<[t |-> "pos", pred |-> "eav", args |-> Rename(c.args, free)]>>
      [] c.t \in {"pos", "neg"} -> <<[c EXCEPT !.args = Rename(@, free)]>>
      [] c.t = "between" -> <<[t |-> "cmp", op |-> "ge", l |-> c.x, r |-> c.lo], [t |-> "cmp", op |-> "le", l |-> c.x, r |-> c.hi]>>
      [] c.t = "cmp" -> <<ParseCompare(c)>>
      [] OTHER -> <<c>>
Wilds(c) == IF c.t \in {"triple", "pos", "neg"} THEN Cardinality({i \in DOMAIN c.args : c.args[i].var < 0}) ELSE 0
ParseBody(cs, free) ==
    FoldLeft(LAMBDA p, c : [lits |-> p.lits \o ParseClause(c, p.free), free |-> p.free + Wilds(c)],
             [lits |-> <<>>, free |-> free], cs).lits
ParseRule(r) == [head |-> r.head, args |-> r.args, body |-> ParseBody(r.body, r.vars)]

-----------------------------------------------------------------------------
(* A rule of a program.  Its head relation is made on first sight, with     *)
(* integer columns, retyped by the first typed constant of a head.          *)
Empty(types) == [types |-> types, rows |-> <<>>, idb |-> TRUE]
EnsureIdb(p, r) ==
    IF r.head \in DOMAIN p.rels THEN p
    ELSE [p EXCEPT !.rels = (r.head :> Empty([i \in DOMAIN r.args |-> "i64"])) @@ p.rels, !.order = Append(@, r.head)]
AlignHead(p, r) ==
    LET rel == p.rels[r.head]
        typed == {i \in DOMAIN r.args : r.args[i].var = 0}
        clash == \E i \in typed : rel.types[i] # "i64" /\ rel.types[i] # r.args[i].type
    IN IF ~rel.idb \/ rel.rows # <<>> \/ Len(rel.types) # Len(r.args) THEN p
       ELSE IF clash THEN [p EXCEPT !.err = TRUE]
       ELSE [p EXCEPT !.rels[r.head].types = [i \in DOMAIN @ |-> IF i \in typed THEN r.args[i].type ELSE @[i]]]
AddRule(p, r) == AlignHead(EnsureIdb([p EXCEPT !.rules = Append(@, r)], r), r)
AddEdb(p, name, types, rows) ==
    [p EXCEPT !.rels = (name :> [types |-> types, rows |-> rows, idb |-> FALSE]) @@ p.rels, !.order = Append(@, name)]

Source(l) == IF l.t \in {"pos", "neg"} THEN <<l.pred, Len(l.args)>> ELSE <<l.pred, 0>>
Reads(l) == l.t \in {"pos", "neg", "agg"}
(* Tables of the environment that rules mention become relations too.       *)
Register(p, env) ==
    LET atoms == FlattenSeq([i \in DOMAIN p.rules |-> SelectSeq(p.rules[i].body, Reads)])
        Known(q, l) == l.pred \in DOMAIN q.rels \/ l.pred \notin DOMAIN env
        Add(q, l) == IF Known(q, l) \/ Source(l)[2] \notin {0, Len(env[l.pred].types)} THEN q
                     ELSE AddEdb(q, l.pred, env[l.pred].types, env[l.pred].rows)
    IN FoldLeft(Add, p, atoms)

NoProgram == [rels |-> <<>>, order |-> <<>>, rules |-> <<>>, err |-> FALSE]
Program(db, env, rules) ==
    Register(FoldLeft(LAMBDA p, r : AddRule(p, ParseRule(r)), AddEdb(NoProgram, "eav", <<"i64", "i64", "i64">>, db), rules), env)

-----------------------------------------------------------------------------
(* dl_stratify: a head is above what it negates or aggregates.              *)
Dep(p, h, b) ==
    LET of == {l \in UNION {ToSet(p.rules[i].body) : i \in {j \in DOMAIN p.rules : p.rules[j].head = h}} : Reads(l) /\ l.pred = b}
    IN IF \E l \in of : l.t # "pos" THEN 2 ELSE IF of # {} THEN 1 ELSE 0
RaisedNegated(dep, s, i, j) == IF dep[i][j] = 2 /\ s[i] <= s[j] THEN [s EXCEPT ![i] = s[j] + 1] ELSE s
Raised(dep, s, i, j) ==
    IF dep[i][j] = 2 /\ s[i] <= s[j] THEN [s EXCEPT ![i] = s[j] + 1]
    ELSE IF dep[i][j] = 1 /\ s[i] < s[j] THEN [s EXCEPT ![i] = s[j]] ELSE s
Pass(dep, s) ==
    LET n == Len(s) IN FoldLeft(LAMBDA t, k : Raised(dep, t, (k \div n) + 1, (k % n) + 1), s, [k \in 1 .. n * n |-> k - 1])
RECURSIVE Settle(_, _, _)
Settle(dep, s, iter) ==
    LET t == Pass(dep, s) IN IF t = s THEN s ELSE IF iter = Len(s) THEN <<>> ELSE Settle(dep, t, iter + 1)
Strata(dep, n) ==
    LET s == Settle(dep, [i \in 1 .. n |-> 0], 0)
    IN IF s # <<>> /\ Max(ToSet(s)) + 1 > MaxStrata THEN <<>> ELSE s
Stratify(p) ==
    LET dep == [i \in DOMAIN p.order |-> [j \in DOMAIN p.order |-> Dep(p, p.order[i], p.order[j])]]
    IN Strata(dep, Len(p.order))

-----------------------------------------------------------------------------
(* The body of a rule: a table of bindings, and the column of each variable.*)
(* out is "go" while it is built, "none" when the rule has no rows, or "err".*)
Start == [types |-> <<>>, rows |-> <<>>, col |-> [v \in 1 .. MaxVars |-> 0], first |-> TRUE, out |-> "go"]
Stop(s, out) == [s EXCEPT !.out = out, !.rows = <<>>]

FilterEq(rel, c, val) ==
    IF rel.types[c] = "f64" THEN rel ELSE [rel EXCEPT !.rows = SelectSeq(@, LAMBDA row : row[c] = val)]
Filtered(rel, args) ==
    FoldLeft(LAMBDA r, c : IF args[c].var = 0 THEN FilterEq(r, c, args[c].val) ELSE r, rel, [c \in DOMAIN args |-> c])
BoundAt(s, args) == SelectSeq([c \in DOMAIN args |-> c], LAMBDA c : args[c].var > 0 /\ s.col[args[c].var] > 0)
KeyPairs(s, args) == LET at == BoundAt(s, args) IN [k \in DOMAIN at |-> <<s.col[args[at[k]].var], at[k]>>]
Agree(l, r, keys) == \A k \in DOMAIN keys : l[keys[k][1]] = r[keys[k][2]]
Others(n, keys) == SelectSeq([c \in 1 .. n |-> c], LAMBDA c : \A k \in DOMAIN keys : keys[k][2] # c)
Cells(row, cols) == [i \in DOMAIN cols |-> row[cols[i]]]

(* Without rows on either side the right columns are left out as well.      *)
JoinTables(s, rel, keys) ==
    LET rest == Others(Len(rel.types), keys)
        Right(l) == SelectSeq(rel.rows, LAMBDA r : Agree(l, r, keys))
        Rows(l) == LET m == Right(l) IN [i \in DOMAIN m |-> l \o Cells(m[i], rest)]
    IN IF s.rows = <<>> \/ rel.rows = <<>> THEN [s EXCEPT !.rows = <<>>]
       ELSE [s EXCEPT !.types = @ \o Cells(rel.types, rest), !.rows = FlattenSeq([i \in DOMAIN @ |-> Rows(@[i])])]
(* A new variable is at the first column it names.                          *)
BindNew(s, args, At(_)) ==
    FoldLeft(LAMBDA t, c : IF args[c].var > 0 /\ t.col[args[c].var] = 0 THEN [t EXCEPT !.col[args[c].var] = At(c)] ELSE t,
             s, [c \in DOMAIN args |-> c])
PosAtom(s, rels, l) ==
    IF s.out # "go" THEN s
    ELSE IF l.pred \notin DOMAIN rels THEN Stop(s, "none")
    ELSE LET rel == Filtered(rels[l.pred], l.args)
             keys == KeyPairs(s, l.args)
             rest == Others(Len(l.args), keys)
             width == Len(s.types)
         IN IF s.first THEN BindNew([s EXCEPT !.types = rel.types, !.rows = rel.rows, !.first = FALSE], l.args, LAMBDA c : c)
            ELSE BindNew(JoinTables(s, rel, keys), l.args, LAMBDA c : width + IndexFirstSubSeq(<<c>>, rest))

-----------------------------------------------------------------------------
(* The other literals, in their order, once all atoms are joined.           *)
AntijoinTables(s, rel, keys) ==
    [s EXCEPT !.rows = SelectSeq(@, LAMBDA row : \A i \in DOMAIN rel.rows : ~Agree(row, rel.rows[i], keys))]
NegAtom(s, rels, l) ==
    IF l.pred \notin DOMAIN rels THEN Stop(s, "none")
    ELSE LET rel == Filtered(rels[l.pred], l.args)
             keys == KeyPairs(s, l.args)
         IN IF keys = <<>> THEN s ELSE AntijoinTables(s, rel, keys)

(* An expression has no value where a variable has no column, or a symbol.  *)
Sign(x) == IF x < 0 THEN -1 ELSE 1
Arith(op, x, y) == CASE op = "add" -> x + y [] op = "sub" -> x - y [] op = "mul" -> x * y
                     [] op = "div" -> IF y = 0 THEN 0 ELSE Sign(x) * Sign(y) * ((Sign(x) * x) \div (Sign(y) * y))
RECURSIVE ExprType(_, _)
ExprType(s, e) ==
    CASE e.k = "const" -> e.type
      [] e.k = "var" -> IF s.col[e.v] \in DOMAIN s.types /\ s.types[s.col[e.v]] # "sym" THEN s.types[s.col[e.v]] ELSE "none"
      [] e.k = "op" -> LET x == ExprType(s, e.l)
                           y == ExprType(s, e.r)
                       IN IF "none" \in {x, y} THEN "none" ELSE IF "f64" \in {x, y} THEN "f64" ELSE "i64"
RECURSIVE ExprValue(_, _, _)
ExprValue(s, e, row) ==
    CASE e.k = "const" -> e.x
      [] e.k = "var" -> row[s.col[e.v]]
      [] e.k = "op" -> Arith(e.op, ExprValue(s, e.l, row), ExprValue(s, e.r, row))
AddColumn(s, v, type, F(_)) ==
    [s EXCEPT !.types = Append(@, type), !.rows = [i \in DOMAIN @ |-> Append(@[i], F(@[i]))], !.col[v] = Len(s.types) + 1]
Assign(s, l) ==
    LET type == ExprType(s, l.e)
    IN IF type = "none" THEN Stop(s, "err") ELSE AddColumn(s, l.v, type, LAMBDA row : ExprValue(s, l.e, row))
Compared(op, x, y) ==
    CASE op = "eq" -> x = y [] op = "ne" -> x # y [] op = "lt" -> x < y [] op = "le" -> x <= y [] op = "gt" -> x > y [] op = "ge" -> x >= y
Compare(s, l) ==
    IF s.rows = <<>> THEN s
    ELSE IF "none" \in {ExprType(s, l.l), ExprType(s, l.r)} THEN Stop(s, "err")
    ELSE [s EXCEPT !.rows = SelectSeq(@, LAMBDA row : Compared(l.op, ExprValue(s, l.l, row), ExprValue(s, l.r, row)))]

(* Builtins of the C interface: before(s, e, t), duration(t1, t2, d), abs.  *)
CellOf(s, v, row) == row[s.col[v]]
Before(s, vs) == [s EXCEPT !.rows = SelectSeq(@, LAMBDA row : CellOf(s, vs[3], row) < CellOf(s, vs[1], row))]
Duration(s, vs) == AddColumn(s, vs[3], "i64", LAMBDA row : CellOf(s, vs[2], row) - CellOf(s, vs[1], row))
AbsOf(s, vs) == AddColumn(s, vs[2], "i64", LAMBDA row : LET x == CellOf(s, vs[1], row) IN IF x < 0 THEN -x ELSE x)
Builtin(s, l) == CASE l.id = "before" -> Before(s, l.vs) [] l.id = "duration" -> Duration(s, l.vs) [] l.id = "abs" -> AbsOf(s, l.vs)
Interval(s, l) == [s EXCEPT !.col[l.start] = s.col[l.fact], !.col[l.end] = s.col[l.fact] + 1]

(* An aggregate of a whole relation, or of each group of it.                *)
Aggregate(op, xs) ==
    CASE op = "count" -> Len(xs)
      [] op = "sum" -> FoldLeft(LAMBDA a, x : a + x, 0, xs)
      [] op = "min" -> Min(ToSet(xs))
      [] op = "max" -> Max(ToSet(xs))
AggType(rel, l) == IF l.op = "count" THEN "i64" ELSE rel.types[l.c]
Values(rows, l) == [i \in DOMAIN rows |-> IF l.op = "count" THEN 0 ELSE rows[i][l.c]]
Scalar(s, rel, l) ==
    IF l.op # "count" /\ l.c \notin DOMAIN rel.types THEN Stop(s, "err")
    ELSE IF rel.rows = <<>> /\ l.op \in {"min", "max"} THEN Stop(s, "none")
    ELSE IF l.op # "count" /\ rel.types[l.c] = "sym" THEN Stop(s, "err")
    ELSE IF s.rows = <<>> THEN s
    ELSE AddColumn(s, l.v, AggType(rel, l), LAMBDA row : Aggregate(l.op, Values(rel.rows, l)))
Firsts(xs) == SelectSeq([i \in DOMAIN xs |-> i], LAMBDA i : \A j \in 1 .. i - 1 : xs[j] # xs[i])
Grouped(s, rel, l, mixed) ==
    LET cols == [i \in DOMAIN l.by |-> l.by[i][2]]
        keys == [i \in DOMAIN rel.rows |-> Cells(rel.rows[i], cols)]
        at == Firsts(keys)
        Rows(i) == LET same == SelectSeq([j \in DOMAIN keys |-> j], LAMBDA j : keys[j] = keys[i])
                   IN [k \in DOMAIN same |-> rel.rows[same[k]]]
    IN IF mixed THEN Stop(s, "err")
       ELSE IF rel.rows = <<>> THEN Stop(s, "none")
       ELSE IF \E i \in DOMAIN cols : cols[i] \notin DOMAIN rel.types THEN Stop(s, "err")
       ELSE IF l.op # "count" /\ l.c \notin DOMAIN rel.types THEN Stop(s, "err")
       ELSE [s EXCEPT !.types = Append(Cells(rel.types, cols), AggType(rel, l)),
                      !.rows = [i \in DOMAIN at |-> Append(keys[at[i]], Aggregate(l.op, Values(Rows(at[i]), l)))],
                      !.col = [v \in DOMAIN @ |-> IF v = l.v THEN Len(cols) + 1
                                                  ELSE LET k == {i \in DOMAIN l.by : l.by[i][1] = v} IN IF k = {} THEN @[v] ELSE Max(k)]]
AggLiteral(s, rels, l, mixed) ==
    IF l.pred \notin DOMAIN rels THEN Stop(s, IF l.by # <<>> /\ mixed THEN "err" ELSE "none")
    ELSE IF l.by # <<>> THEN Grouped(s, rels[l.pred], l, mixed) ELSE Scalar(s, rels[l.pred], l)

Literal(s, rels, l, mixed) ==
    IF s.out # "go" THEN s
    ELSE CASE l.t = "pos" -> s
           [] l.t = "neg" -> NegAtom(s, rels, l)
           [] l.t = "assign" -> Assign(s, l)
           [] l.t = "cmp" -> Compare(s, l)
           [] l.t = "agg" -> AggLiteral(s, rels, l, mixed)
           [] l.t = "builtin" -> Builtin(s, l)
           [] l.t = "interval" -> Interval(s, l)

(* A rule of aggregates alone starts from one row.                          *)
Unit(s, body) ==
    IF ~s.first \/ s.out # "go" THEN s
    ELSE IF \E i \in DOMAIN body : body[i].t = "agg" THEN [s EXCEPT !.types = <<"i64">>, !.rows = <<<<0>>>>, !.first = FALSE]
    ELSE Stop(s, "none")

(* The head: a variable without a column is an error, a column that went    *)
(* missing is one only when there are rows.                                 *)
Project(s, rel, args) ==
    LET lost == {i \in DOMAIN args : args[i].var > 0 /\ s.col[args[i].var] = 0}
        gone == {i \in DOMAIN args : args[i].var > 0 /\ s.col[args[i].var] \notin DOMAIN s.types}
        type(i) == IF args[i].var = 0 THEN args[i].type ELSE IF i \in gone THEN rel.types[i] ELSE s.types[s.col[args[i].var]]
        Cell(row, i) == IF args[i].var = 0 THEN args[i].val ELSE row[s.col[args[i].var]]
    IN IF lost # {} \/ (gone # {} /\ s.rows # <<>>) THEN [out |-> "err", types |-> <<>>, rows |-> <<>>]
       ELSE [out |-> "go", types |-> [i \in DOMAIN args |-> type(i)],
             rows |-> [k \in DOMAIN s.rows |-> [i \in DOMAIN args |-> Cell(s.rows[k], i)]]]
Headed(s, rels, r) == IF s.out # "go" THEN [out |-> s.out, types |-> <<>>, rows |-> <<>>] ELSE Project(s, rels[r.head], r.args)
CompileRule(rels, r) ==
    LET mixed == \E i \in DOMAIN r.body : r.body[i].t = "pos"
        joined == FoldLeft(LAMBDA s, l : IF l.t = "pos" THEN PosAtom(s, rels, l) ELSE s, Start, r.body)
    IN Headed(FoldLeft(LAMBDA s, l : Literal(s, rels, l, mixed), Unit(joined, r.body), r.body), rels, r)

-----------------------------------------------------------------------------
(* Tables.  A union does not look at the types of a side without rows.      *)
Union(a, b) ==
    IF Len(a.types) # Len(b.types) THEN [a EXCEPT !.out = "err"]
    ELSE IF a.rows = <<>> THEN b
    ELSE IF b.rows = <<>> THEN a
    ELSE IF a.types # b.types THEN [a EXCEPT !.out = "err"]
    ELSE [a EXCEPT !.rows = @ \o b.rows]
Distinct(t) == LET at == Firsts(t.rows) IN [t EXCEPT !.rows = [i \in DOMAIN at |-> t.rows[at[i]]]]
Antijoin(a, b) == [a EXCEPT !.rows = SelectSeq(@, LAMBDA row : row \notin ToSet(b.rows))]
AsTable(rel) == [out |-> "go", types |-> rel.types, rows |-> rel.rows]
Store(rel, t) == [rel EXCEPT !.types = t.types, !.rows = t.rows]

(* Phase A: every rule once over whole relations, each seeing the last.     *)
AddTable(p, r, t) ==
    LET m == Union(AsTable(p.rels[r.head]), t)
    IN IF t.out = "none" THEN p
       ELSE IF t.out = "err" \/ m.out = "err" THEN [p EXCEPT !.err = TRUE]
       ELSE [p EXCEPT !.rels[r.head] = Store(@, Distinct(m))]
BaseRule(p, r) == AddTable(p, r, CompileRule(p.rels, r))

NoTable == [out |-> "none", types |-> <<>>, rows |-> <<>>]
(* Phase B: the relation of one body atom is swapped for its delta, in all  *)
(* atoms of the rule that name it.                                          *)
AddDelta(acc, r, t) ==
    LET m == IF acc.new[r.head].out = "none" THEN t ELSE Union(acc.new[r.head], t)
    IN IF t.out = "none" THEN acc
       ELSE IF t.out = "err" THEN [acc EXCEPT !.err = TRUE]
       ELSE IF m.out = "err" THEN [acc EXCEPT !.err = TRUE, !.new[r.head] = NoTable]
       ELSE [acc EXCEPT !.new[r.head] = m]
DeltaRule(p, delta, acc, r, l) ==
    IF l.t # "pos" \/ l.pred \notin DOMAIN delta THEN acc
    ELSE IF delta[l.pred].rows = <<>> THEN acc
    ELSE AddDelta(acc, r, CompileRule([p.rels EXCEPT ![l.pred] = Store(@, delta[l.pred])], r))
Merge(p, delta, new, name) ==
    LET rel == p.rels[name]
        d == Antijoin(Distinct(new[name]), rel)
        m == Union(AsTable(rel), d)
    IN IF new[name].out = "none" THEN [p |-> p, delta |-> [delta EXCEPT ![name] = NoTable]]
       ELSE [p |-> IF d.rows = <<>> THEN p ELSE IF m.out = "err" THEN [p EXCEPT !.err = TRUE] ELSE [p EXCEPT !.rels[name] = Store(@, m)],
             delta |-> [delta EXCEPT ![name] = d]]
MergeAll(p, delta, acc) ==
    FoldLeft(LAMBDA a, n : Merge(a.p, a.delta, acc.new, n), [p |-> [p EXCEPT !.err = @ \/ acc.err], delta |-> delta],
             SelectSeq(p.order, LAMBDA n : n \in DOMAIN delta))
Round(p, rules, delta) ==
    LET pairs == FlattenSeq([i \in DOMAIN rules |-> [k \in DOMAIN rules[i].body |-> <<rules[i], rules[i].body[k]>>]])
    IN MergeAll(p, delta, FoldLeft(LAMBDA a, x : DeltaRule(p, delta, a, x[1], x[2]),
                                   [new |-> [n \in DOMAIN p.rels |-> NoTable], err |-> FALSE], pairs))
(* s: the program p and the delta of each relation of the stratum.          *)
Seeded(p, mine) == [p |-> p, delta |-> [n \in mine |-> AsTable(p.rels[n])]]
RECURSIVE Fixpoint(_, _, _)
Fixpoint(s, rules, iter) ==
    IF \A n \in DOMAIN s.delta : s.delta[n].rows = <<>> THEN s.p
    ELSE IF iter = MaxIter THEN [s.p EXCEPT !.err = TRUE]
    ELSE Fixpoint(Round(s.p, rules, s.delta), rules, iter + 1)
EvalStratum(p, strata, k) ==
    LET At(n) == strata[IndexFirstSubSeq(<<n>>, p.order)]
        rules == SelectSeq(p.rules, LAMBDA r : At(r.head) = k)
        mine == {n \in DOMAIN p.rels : At(n) = k /\ p.rels[n].idb}
    IN IF rules = <<>> THEN p ELSE Fixpoint(Seeded(FoldLeft(BaseRule, p, rules), mine), rules, 0)
(* dl_eval: what is known to be wrong before it starts is not run.          *)
Eval(p) ==
    LET strata == Stratify(p)
    IN IF p.err \/ strata = <<>> THEN [p EXCEPT !.err = TRUE]
       ELSE FoldLeft(LAMBDA q, k : EvalStratum(q, strata, k - 1), p, [k \in 1 .. Max(ToSet(strata)) + 1 |-> k])

-----------------------------------------------------------------------------
(* Provenance of a row: the first rule that gives it on the final tables,   *)
(* and the rows of its body atoms that agree with it on the head variables. *)
Provenance(p, name, row) ==
    LET by == {i \in DOMAIN p.rules : p.rules[i].head = name /\ row \in ToSet(CompileRule(p.rels, p.rules[i]).rows)}
    IN IF by = {} THEN 0 ELSE Min(by)
SourceRows(p, r, row, l) ==
    LET Known(v) == {h \in DOMAIN r.args : r.args[h].var = v}
        Fits(cell, a) == IF a.var = 0 THEN cell = a.val ELSE Known(a.var) = {} \/ cell = row[Max(Known(a.var))]
    IN IF l.pred \notin DOMAIN p.rels THEN {}
       ELSE {k \in DOMAIN p.rels[l.pred].rows : \A c \in DOMAIN l.args : Fits(p.rels[l.pred].rows[k][c], l.args[c])}

-----------------------------------------------------------------------------
(* Triples: asserted at the end, retracted wherever they are.               *)
AssertFact(db, e, a, v) == Append(db, <<e, a, v>>)
RetractFact(db, e, a, v) == SelectSeq(db, LAMBDA d : d # <<e, a, v>>)
ScanEav(db, a) == LET at == SelectSeq(db, LAMBDA d : d[2] = a) IN [i \in DOMAIN at |-> <<at[i][1], at[i][3]>>]
ScanOne(db, e, a) == LET at == SelectSeq(db, LAMBDA d : d[1] = e /\ d[2] = a) IN IF at = <<>> THEN <<>> ELSE <<at[1][3]>>
Pull(db, e, attrs) ==
    LET at == SelectSeq(db, LAMBDA d : d[1] = e /\ (attrs = {} \/ d[2] \in attrs)) IN [i \in DOMAIN at |-> <<at[i][2], at[i][3]>>]
=============================================================================
