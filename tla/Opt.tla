-------------------------------- MODULE Opt --------------------------------
(***************************************************************************)
(* The query optimizer (ops/opt.c, ops/idiom.c): the passes of             *)
(* ray_optimize over a graph of nodes, and what the executor computes from *)
(* a graph before and after them (ops/exec.c, ray_execute), one segment of *)
(* a partitioned table at a time where it can.                             *)
(*                                                                         *)
(* A node has an operation, its inputs, the operands that its extension    *)
(* holds (more), and a value: a literal, a column, a number of rows.  The  *)
(* executor returns rows, or a vector where the root is an expression.     *)
(***************************************************************************)
EXTENDS Input, Integers, Sequences, FiniteSets, SequencesExt, FiniteSetsExt, Functions

CONSTANTS
    MaxRounds,  \* rounds of predicate pushdown (4)
    MaxPlanRows \* bound: rows of the table

Null == -99
Inf == 98
None == 0
Rows(s) == 1 .. Len(s)
Listed(f) == SubSeq(f, 1, Len(f))
Ids(g) == Listed([i \in Rows(g.node) |-> i])
Has(n, k) == k \in Rows(n.in)
Child(g, n, k) == g.node[n.in[k]]
Is(g, id, op) == id # None /\ g.node[id].op = op

Compare == {"eq", "ne", "lt", "le", "gt", "ge"}
Arith == {"add", "sub", "mul", "mod", "div"}
Monadic == {"neg", "abs", "signum"}
Elementwise == Compare \cup Arith \cup Monadic \cup {"and", "or", "not", "in", "if"}
TableOps == {"table", "filter", "select", "group", "head", "join", "materialize", "alias"}

-----------------------------------------------------------------------------
(* What the executor computes (ops/expr.c).  A modulus has the sign of the  *)
(* divisor; division by zero is null.                                       *)
TruncMod(l, r) == LET m == (IF l < 0 THEN -l ELSE l) % (IF r < 0 THEN -r ELSE r) IN IF l < 0 THEN -m ELSE m
FloorMod(l, r) == LET m == TruncMod(l, r) IN IF m # 0 /\ (m < 0) # (r < 0) THEN m + r ELSE m
Holds(op, l, r) ==
    CASE op = "eq" -> l = r [] op = "ne" -> l # r [] op = "lt" -> l < r
      [] op = "le" -> l <= r [] op = "gt" -> l > r [] OTHER -> l >= r
Quotient(l, r) == 10 * l + r   \* stands for l / r: one number for each pair
Binary(op, l, r) ==
    CASE op \in Compare -> IF Null \in {l, r} THEN op = "ne" /\ l # r ELSE Holds(op, l, r)
      [] op = "and" -> l /\ r
      [] op = "or" -> l \/ r
      [] OTHER -> IF Null \in {l, r} THEN Null
                  ELSE CASE op = "add" -> l + r [] op = "sub" -> l - r [] op = "mul" -> l * r
                         [] op = "mod" -> IF r = 0 THEN Null ELSE FloorMod(l, r)
                         [] OTHER -> IF r = 0 THEN Null ELSE Quotient(l, r)
One(op, x) == CASE op = "neg" -> -x [] op = "abs" -> (IF x < 0 THEN -x ELSE x) [] OTHER -> (IF x > 0 THEN 1 ELSE IF x < 0 THEN -1 ELSE 0)

(* A table under way: its rows, and which of them a filter has selected     *)
(* (g->selection); the rows stay until they have to be put together.        *)
Compact(x) == Listed([j \in 1 .. Cardinality(x.keep) |-> x.rows[SetToSortSeq(x.keep, <)[j]]])
Whole(t) == [rows |-> t, keep |-> Rows(t)]

RECURSIVE Vec(_, _, _)
Vec(g, id, t) ==
    LET n == g.node[id]
        In(k) == Vec(g, n.in[k], t)
        Present(s) == SelectSeq(s, LAMBDA x : x # Null)
    IN CASE n.op = "scan" -> Listed([i \in Rows(t) |-> t[i][n.val]])
         [] n.op = "const" -> Listed([i \in Rows(t) |-> n.val])
         [] n.op \in {"alias", "materialize"} -> In(1)
         [] n.op \in Monadic -> LET x == In(1) IN Listed([i \in Rows(x) |-> IF x[i] = Null THEN Null ELSE One(n.op, x[i])])
         [] n.op = "not" -> LET x == In(1) IN Listed([i \in Rows(x) |-> ~x[i]])
         [] n.op = "in" -> LET x == In(1) IN Listed([i \in Rows(x) |-> x[i] \in ToSet(g.node[n.in[2]].val)])
         [] n.op = "if" -> LET c == In(1) a == In(2) b == Vec(g, n.more[1], t) IN Listed([i \in Rows(c) |-> IF c[i] THEN a[i] ELSE b[i]])
         [] n.op = "filter" -> LET x == In(1) p == In(2) IN Compact([rows |-> x, keep |-> {i \in Rows(x) : p[i]}])
         [] n.op = "asc" -> SortSeq(In(1), LAMBDA a, b : a < b)
         [] n.op = "head" -> LET x == In(1) IN SubSeq(x, 1, Min({n.val, Len(x)}))
         [] n.op = "reverse" -> Reverse(In(1))
         [] n.op = "distinct" -> SetToSortSeq(ToSet(In(1)), LAMBDA a, b : a < b)
         [] n.op = "count" -> <<Len(In(1))>>
         [] n.op = "count_distinct" -> <<Cardinality(ToSet(In(1)))>>
         [] n.op = "first" -> IF In(1) = <<>> THEN <<Null>> ELSE <<In(1)[1]>>
         [] n.op = "last" -> IF In(1) = <<>> THEN <<Null>> ELSE <<Last(In(1))>>
         [] n.op = "min" -> LET x == Present(In(1)) IN IF x = <<>> THEN <<Null>> ELSE <<Min(ToSet(x))>>
         [] n.op = "max" -> LET x == Present(In(1)) IN IF x = <<>> THEN <<Null>> ELSE <<Max(ToSet(x))>>
         [] OTHER -> LET l == In(1) r == In(2) IN Listed([i \in Rows(l) |-> Binary(n.op, l[i], r[i])])

GroupRows(t, key) ==
    LET keys == SetToSortSeq({t[i][key] : i \in Rows(t)}, <)
    IN Listed([j \in Rows(keys) |->
           LET own == SelectSeq(t, LAMBDA r : r[key] = keys[j])
           IN [c \in {key, "n"} |-> IF c = "n" THEN Len(own) ELSE keys[j]]])
RECURSIVE Table(_, _, _)
Table(g, id, t) ==
    LET n == g.node[id]
        Of(k) == Table(g, n.in[k], t)
        Passing(p) == {i \in Rows(p) : p[i]}
        Name(c) == IF g.node[c].op = "scan" THEN g.node[c].val ELSE "x"
    IN CASE n.op = "table" -> Whole(t)
         [] n.op \in {"alias", "materialize"} -> Of(1)
         [] n.op = "filter" -> IF Is(g, n.in[1], "group")
                               THEN LET r == Compact(Of(1)) IN [rows |-> r, keep |-> Passing(Vec(g, n.in[2], r))]
                               ELSE LET r == Of(1) IN [r EXCEPT !.keep = @ \cap Passing(Vec(g, n.in[2], t))]
         [] n.op = "select" -> LET r == Of(1)
                                   cols == [c \in ToSet(n.more) |-> Vec(g, c, r.rows)]
                               IN [r EXCEPT !.rows = Listed([i \in Rows(r.rows) |->
                                       [name \in {Name(c) : c \in ToSet(n.more)} |-> cols[CHOOSE c \in ToSet(n.more) : Name(c) = name][i]]])]
         [] n.op = "group" -> Whole(GroupRows(IF Is(g, n.in[1], "filter") THEN Compact(Of(1)) ELSE t, g.node[n.more[1]].val))
         [] n.op = "head" -> LET r == Compact(Of(1)) IN Whole(SubSeq(r, 1, Min({n.val, Len(r)})))

(* Segment by segment where no operation needs more than its own rows, with *)
(* the segments that the optimizer ruled out left out (dag_can_stream).     *)
RECURSIVE Below(_, _)
Below(g, id) == {id} \cup UNION {Below(g, k) : k \in ToSet(g.node[id].in) \cup ToSet(g.node[id].more)}
Streams(g) ==
    /\ \A id \in Below(g, g.root) : g.node[id].op \in Elementwise \cup {"scan", "const", "filter", "select", "alias", "materialize"}
    /\ \E id \in Below(g, g.root) : g.node[id].op = "scan"
NoMask == {-1}
Masked(g) == {id \in Rows(g.node) : g.node[id].mask # NoMask}
Skipped(g, s) == Masked(g) # {} /\ s \notin g.node[Min(Masked(g))].mask
Segment(t, s) == SelectSeq(t, LAMBDA r : r.d = s)
Result(g, t) ==
    LET root == g.node[g.root]
    IN CASE root.op = "join" -> <<Compact(Table(g, root.in[1], t)), Compact(Table(g, root.in[2], t))>>
         [] root.op \in TableOps /\ (\E id \in Below(g, g.root) : g.node[id].op \in {"table", "group"}) -> Compact(Table(g, g.root, t))
         [] OTHER -> Vec(g, g.root, t)
Segments == <<0, 1>>
Execute(g, t) ==
    IF Streams(g)
    THEN FlattenSeq(Listed([j \in Rows(Segments) |-> IF Skipped(g, Segments[j]) THEN <<>> ELSE Result(g, Segment(t, Segments[j]))]))
    ELSE Result(g, t)

-----------------------------------------------------------------------------
(* The nodes below the root, inputs before what uses them.                  *)
Reads(n) == n.in \o n.more
RECURSIVE PostOrder(_, _, _)
PostOrder(g, id, seen) ==
    IF id \in ToSet(seen) THEN seen
    ELSE Append(FoldLeft(LAMBDA acc, k : PostOrder(g, k, acc), seen, Reads(g.node[id])), id)
Order(g) == PostOrder(g, g.root, <<>>)
OverNodes(Step(_, _), g) == FoldLeft(Step, g, Order(g))

(* Types: a literal and a column have theirs, a comparison is a truth       *)
(* value, arithmetic takes the wider.                                       *)
TypeRank == [bool |-> 1, i16 |-> 2, date |-> 3, i64 |-> 4, f64 |-> 5]
Promote(a, b) == IF TypeRank[a] >= TypeRank[b] THEN IF a = "date" THEN "i64" ELSE a ELSE b
InferNode(g, id) ==
    LET n == g.node[id]
        type == CASE n.type # "" -> n.type
                  [] n.op \in Compare \cup {"and", "or", "not", "in"} -> "bool"
                  [] n.op = "div" -> "f64"
                  [] n.op \in Arith -> Promote(Child(g, n, 1).type, Child(g, n, 2).type)
                  [] OTHER -> IF Has(n, 1) THEN Child(g, n, 1).type ELSE "i64"
    IN [g EXCEPT !.node[id].type = type]
TypeInference(g) == OverNodes(InferNode, g)

(* Constants.  An operation on two literals becomes a literal ...           *)
FoldInteger(op, l, r) ==
    CASE op = "add" -> l + r [] op = "sub" -> l - r [] op = "mul" -> l * r
      [] op = "mod" -> IF r # 0 THEN TruncMod(l, r) ELSE 0
FoldFloat(op, l, r) ==
    CASE op = "add" -> l + r [] op = "sub" -> l - r [] op = "mul" -> l * r
      [] op = "div" -> IF r = 0 THEN Inf ELSE Quotient(l, r)
      [] op = "mod" -> IF r = 0 THEN Null ELSE TruncMod(l, r)
FoldBool(op, l, r) == CASE op = "and" -> l /\ r [] op = "or" -> l \/ r [] OTHER -> Holds(op, l, r)
IsConst(n) == n.op = "const" /\ n.type # "null"
ReplaceWithConst(g, id, x) == [g EXCEPT !.node[id] = [@ EXCEPT !.op = "const", !.in = <<>>, !.val = x]]
FoldBinaryConst(g, id) ==
    LET n == g.node[id]
        l == Child(g, n, 1).val
        r == Child(g, n, 2).val
    IN ReplaceWithConst(g, id, CASE n.type = "f64" -> FoldFloat(n.op, l, r)
                                 [] n.type = "bool" -> FoldBool(n.op, l, r)
                                 [] OTHER -> FoldInteger(n.op, l, r))
FoldUnaryConst(g, id) ==
    LET n == g.node[id] x == Child(g, n, 1).val IN ReplaceWithConst(g, id, IF n.op = "not" THEN ~x ELSE One(n.op, x))
(* ... a conjunction or disjunction with one literal becomes the other      *)
(* operand or a literal ...                                                 *)
Absorbed(n, c) == IF n.op = "and" THEN ~c ELSE c
SimplifyAndOr(g, id) ==
    LET n == g.node[id]
        k == IF IsConst(Child(g, n, 1)) THEN 1 ELSE 2
        c == Child(g, n, k).val
    IN IF Absorbed(n, c) THEN ReplaceWithConst(g, id, n.op = "or")
       ELSE [g EXCEPT !.node[id] = [@ EXCEPT !.op = "alias", !.in = <<n.in[3 - k]>>]]
(* ... and a filter whose predicate is a literal lets all rows pass, or     *)
(* none.                                                                    *)
FoldFilter(g, id) ==
    LET n == g.node[id]
    IN [g EXCEPT !.node[id] = IF Child(g, n, 2).val THEN [@ EXCEPT !.op = "materialize", !.in = <<n.in[1]>>]
                              ELSE [@ EXCEPT !.op = "head", !.in = <<n.in[1]>>, !.val = 0]]
FoldNode(g, id) ==
    LET n == g.node[id]
        Lit(k) == Has(n, k) /\ IsConst(Child(g, n, k))
    IN CASE n.op \in Compare \cup Arith \cup {"and", "or"} /\ Lit(1) /\ Lit(2) -> FoldBinaryConst(g, id)
         [] n.op \in {"and", "or"} /\ Lit(1) # Lit(2) -> SimplifyAndOr(g, id)
         [] n.op \in Monadic \cup {"not"} /\ Lit(1) -> FoldUnaryConst(g, id)
         [] n.op = "filter" /\ Lit(2) -> FoldFilter(g, id)
         [] OTHER -> g
ConstantFold(g) == OverNodes(FoldNode, g)

-----------------------------------------------------------------------------
(* Edges.  Only inputs are counted and redirected, not what an extension    *)
(* holds, and not the input of a group, whose arity is zero.                *)
Edges(n) == IF n.op = "group" THEN <<>> ELSE n.in
Live(g, id) == ~g.node[id].dead
Consumers(g, id) == {j \in Rows(g.node) : Live(g, j) /\ id \in ToSet(Edges(g.node[j]))}
Redirect(g, old, new, skip) ==
    [g EXCEPT !.node = Listed([j \in Rows(@) |-> IF @[j].dead \/ j \in skip \/ Edges(@[j]) = <<>> THEN @[j]
                                                  ELSE [@[j] EXCEPT !.in = Listed([k \in Rows(@) |-> IF @[k] = old THEN new ELSE @[k]])]]),
              !.root = IF @ = old THEN new ELSE @]
Added(g, n) == [g EXCEPT !.node = Append(@, n)]

(* Idioms: what is counted need not be put in order, and the ends of what   *)
(* is in order are its extremes, unless there are nulls, which come first.  *)
NoNullsOnAsc(g, n, nulls) == LET src == Child(g, Child(g, n, 1), 1) IN src.op = "scan" /\ src.val \notin nulls
Idiom(g, n, nulls) ==
    LET inner == Child(g, n, 1).op
    IN CASE n.op = "count" /\ inner = "distinct" -> "count_distinct"
         [] n.op = "count" /\ inner \in {"asc", "reverse"} -> "count"
         [] n.op = "first" /\ inner = "asc" /\ NoNullsOnAsc(g, n, nulls) -> "min"
         [] n.op = "last" /\ inner = "asc" /\ NoNullsOnAsc(g, n, nulls) -> "max"
         [] OTHER -> ""
TryRewrite(g, id, nulls) ==
    LET n == g.node[id]
        op == IF Has(n, 1) THEN Idiom(g, n, nulls) ELSE ""
        with == Added(g, [n EXCEPT !.op = op, !.in = Child(g, n, 1).in])
    IN IF op = "" THEN g ELSE [Redirect(with, id, Len(with.node), {}) EXCEPT !.node[id].dead = TRUE]
IdiomPass(g, nulls) == FoldLeft(LAMBDA acc, id : TryRewrite(acc, id, nulls), g, Order(g))

(* A filter moves below what it is on top of: below a projection that       *)
(* nothing else reads, and below a group when it reads only the group's     *)
(* keys.                                                                    *)
Scans(g, id) == {k \in Below(g, id) : g.node[k].op = "scan"}
KeysOnly(g, pred, group) ==
    /\ Scans(g, pred) # {}
    /\ \A s \in Scans(g, pred) : \E k \in ToSet(g.node[group].more) : g.node[k].op = "scan" /\ g.node[k].val = g.node[s].val
Swap(g, id, child, below) ==
    Redirect([g EXCEPT !.node[id].in[1] = below, !.node[child].in[1] = id], id, child, {id, child})
Node(op, args, more, val, type) ==
    [op |-> op, in |-> args, more |-> more, val |-> val, type |-> type, dead |-> FALSE, pushed |-> FALSE, mask |-> NoMask]
PushNode(g, id) ==
    LET n == g.node[id]
        child == n.in[1]
        alone == Cardinality(Consumers(g, child)) <= 1
    IN IF n.dead \/ n.op # "filter" THEN g
       ELSE CASE g.node[child].op \in {"select", "alias"} /\ alone -> Swap(g, id, child, g.node[child].in[1])
              [] g.node[child].op = "group" /\ alone /\ ~Is(g, g.node[child].in[1], "filter") /\ KeysOnly(g, n.in[2], child) ->
                     LET with == Added(g, Node("table", <<>>, <<>>, 0, "table"))
                     IN [Swap(with, id, child, Len(with.node)) EXCEPT !.node[id].pushed = TRUE]
              [] OTHER -> g
PushRound(g) == FoldLeft(PushNode, g, Ids(g))
PredicatePushdown(g) ==
    LET round[k \in 0 .. MaxRounds] == IF k = 0 THEN g ELSE PushRound(round[k - 1]) IN round[MaxRounds]

(* Conjunctions are split into filters one on top of the other, which are   *)
(* then ordered: the predicate that is cheapest and keeps fewest rows runs  *)
(* first.                                                                   *)
Selectivity(g, p) ==
    LET col == IF Child(g, p, 1).op = "const" THEN Child(g, p, 2).type ELSE Child(g, p, 1).type
    IN IF p.op \in {"eq", "in"} /\ (\E k \in Rows(p.in) : Child(g, p, k).op = "const")
       THEN CASE col \in {"i64", "f64"} -> 0 [] col \in {"bool", "i16"} -> 5 [] OTHER -> 2
       ELSE 5
Cost(g, p) ==
    (IF \E k \in Rows(p.in) : Child(g, p, k).op = "const" THEN 0 ELSE 4)
    + (IF Has(p, 1) THEN CASE Child(g, p, 1).type = "bool" -> 0 [] Child(g, p, 1).type = "i16" -> 1 [] Child(g, p, 1).type = "date" -> 2 [] OTHER -> 3 ELSE 3)
    + (CASE p.op \in {"eq", "ne"} -> 0 [] p.op \in Compare -> 2 [] OTHER -> 1)
Rank(g, id) == Selectivity(g, g.node[id]) * 100 + Cost(g, g.node[id])
SplitsPushed(n) == n.op = "filter" /\ ~n.dead
Splits(n) == n.op = "filter" /\ ~n.dead /\ ~n.pushed
SplitNode(g, id) ==
    LET n == g.node[id]
        p == Child(g, n, 2)
        with == Added(g, [Node("filter", <<id, p.in[2]>>, <<>>, 0, n.type) EXCEPT !.pushed = FALSE])
    IN IF ~Splits(n) THEN g ELSE IF p.op # "and" \/ Is(g, n.in[1], "group") THEN g
       ELSE Redirect([with EXCEPT !.node[id].in[2] = p.in[1]], id, Len(with.node), {id, Len(with.node)})
RECURSIVE SplitAll(_)
SplitAll(g) == LET next == FoldLeft(SplitNode, g, Ids(g)) IN IF next = g THEN g ELSE SplitAll(next)
RECURSIVE Chain(_, _)
Chain(g, id) == IF Splits(g.node[id]) THEN <<id>> \o Chain(g, g.node[id].in[1]) ELSE <<>>
ReorderChain(g, id) ==
    LET chain == Chain(g, id)
        preds == SortSeq(Listed([c \in Rows(chain) |-> g.node[chain[c]].in[2]]), LAMBDA a, b : Rank(g, a) > Rank(g, b))
    IN IF Len(chain) < 2 \/ (\E c \in Rows(chain) : Cardinality(Consumers(g, chain[c])) > 1) THEN g
       ELSE [g EXCEPT !.node = Listed([j \in Rows(@) |-> IF j \in ToSet(chain) THEN [@[j] EXCEPT !.in[2] = preds[CHOOSE c \in Rows(chain) : chain[c] = j]] ELSE @[j]])]
FilterReorder(g) == LET split == SplitAll(g) IN FoldLeft(ReorderChain, split, Ids(split))

(* What the root does not reach is dead.  The pass that prunes projections  *)
(* does not see a filter that was pushed below a group, and marks it dead   *)
(* too; the executor does not mind.                                         *)
MarkLive(g) == Below(g, g.root)
RECURSIVE Needed(_, _)
Needed(g, id) == {id} \cup UNION {Needed(g, k) : k \in ToSet(Edges(g.node[id]) \o g.node[id].more)}
MarkDead(g, live) == [g EXCEPT !.node = Listed([j \in Rows(@) |-> IF j \in live THEN @[j] ELSE [@[j] EXCEPT !.dead = TRUE]])]
ProjectionPushdown(g) == MarkDead(g, Needed(g, g.root))
Dce(g) == MarkDead(g, MarkLive(g))

(* A comparison of the partition key with literals rules segments out, for  *)
(* every scan of the table but that of the key.                             *)
Flipped == [eq |-> "eq", ne |-> "ne", lt |-> "gt", gt |-> "lt", le |-> "ge", ge |-> "le"]
KeyPasses(op, swapped, key, x) == IF op = "in" THEN key \in ToSet(x) ELSE Holds(IF swapped THEN Flipped[op] ELSE op, key, x)
PruneBy(g, id) ==
    LET n == g.node[id]
        p == Child(g, n, 2)
        l == Child(g, p, 1)
        r == Child(g, p, 2)
        swapped == r.op = "scan"
        scan == IF swapped THEN p.in[2] ELSE p.in[1]
        lit == IF swapped THEN l ELSE r
        segs == {s \in ToSet(Segments) : KeyPasses(p.op, swapped, s, lit.val)}
        Cut(j) == Live(g, j) /\ g.node[j].op = "scan" /\ j # scan /\ g.node[j].val # "d"
    IN IF n.dead \/ n.op # "filter" THEN g
       ELSE IF p.op \notin Compare \cup {"in"} THEN g
       ELSE IF {l.op, r.op} # {"scan", "const"} \/ g.node[scan].val # "d" \/ lit.type = "null" \/ (p.op = "in" /\ swapped) THEN g
       ELSE [g EXCEPT !.node = Listed([j \in Rows(@) |-> IF Cut(j) THEN [@[j] EXCEPT !.mask = IF @ = NoMask THEN segs ELSE @ \cap segs] ELSE @[j]])]
PartitionPruning(g) == FoldLeft(PruneBy, g, Ids(g))

Optimize(g, nulls) ==
    Dce(PartitionPruning(ProjectionPushdown(FilterReorder(PredicatePushdown(IdiomPass(ConstantFold(TypeInference(g)), nulls))))))

-----------------------------------------------------------------------------
(* Plans: graphs made from terms.  Terms of the same name are one node.     *)
Term(op, args, more, val, type) == [op |-> op, args |-> args, more |-> more, val |-> val, type |-> type, name |-> ""]
RECURSIVE Build(_, _)
Build(g, t) ==
    LET All(start, ts) == FoldLeft(LAMBDA acc, x : LET b == Build(acc.g, x) IN [g |-> b.g, ids |-> Append(acc.ids, b.id)], [g |-> start, ids |-> <<>>], ts)
        args == All(g, t.args)
        more == All(args.g, t.more)
        old == {id \in Rows(g.names) : g.names[id] = t.name /\ t.name # ""}
    IN IF old # {} THEN [g |-> g, id |-> Max(old)]
       ELSE [g |-> [node |-> Append(more.g.node, Node(t.op, args.ids, more.ids, t.val, t.type)), names |-> Append(more.g.names, t.name)],
             id |-> Len(more.g.node) + 1]
Graph(t) == LET b == Build([node |-> <<>>, names |-> <<>>], t) IN [node |-> b.g.node, root |-> b.id]

ColumnType == [d |-> "date", k |-> "i64", v |-> "i16", n |-> "i64"]
Col(c) == Term("scan", <<>>, <<>>, c, ColumnType[c])
Lit(x) == Term("const", <<>>, <<>>, x, "i64")
Float(x) == Term("const", <<>>, <<>>, x, "f64")
Truth(b) == Term("const", <<>>, <<>>, b, "bool")
NullLit == Term("const", <<>>, <<>>, Null, "null")
Op(op, a, b) == Term(op, <<a, b>>, <<>>, 0, "")
Unary(op, a) == Term(op, <<a>>, <<>>, 0, "")
Base == Term("table", <<>>, <<>>, 0, "table")
Filter(t, p) == Term("filter", <<t, p>>, <<>>, 0, "table")
Select(t) == Term("select", <<t>>, <<Col("k"), Op("add", Col("v"), Op("mul", Lit(2), Lit(3)))>>, 0, "table")
Shared == [Select(Base) EXCEPT !.name = "shared"]
Group(arg, key) == Term("group", <<arg>>, <<Col(key)>>, 0, "table")
Take(t, n) == Term("head", <<t>>, <<>>, n, "table")
Simple ==
    << Op("eq", Col("k"), Lit(1)), Op("lt", Col("v"), Lit(1)), Op("ne", Col("d"), Lit(0)), Op("gt", Lit(1), Col("d")),
       Op("in", Col("d"), Term("const", <<>>, <<>>, <<1>>, "i64")), Op("eq", Col("v"), NullLit), Truth(TRUE),
       Op("lt", Op("add", Lit(1), Lit(1)), Lit(1)), Op("and", Truth(TRUE), Op("eq", Col("k"), Lit(1))),
       Op("and", Op("eq", Col("k"), Lit(1)), Op("lt", Lit(1), Lit(0))), Op("or", Op("eq", Col("d"), Lit(1)), Op("le", Col("v"), Lit(0))),
       Op("or", Truth(TRUE), Op("eq", Col("k"), Lit(1))), Unary("not", Op("eq", Col("v"), Lit(0))),
       Op("or", Unary("not", Truth(TRUE)), Op("gt", Col("v"), Unary("neg", Lit(1)))) >>
Predicates ==
    Simple \o << Op("and", Op("lt", Col("v"), Lit(1)), Op("eq", Col("k"), Lit(1))),
                 Op("and", Op("and", Op("ge", Col("v"), Lit(0)), Op("ne", Col("d"), Lit(0))), Op("eq", Col("k"), Lit(0))) >>
Having(key) == << Op("eq", Col(key), Lit(1)), Op("gt", Col("n"), Lit(1)), Op("and", Op("eq", Col(key), Lit(1)), Op("gt", Col("n"), Lit(1))) >>
Each(s, Make(_)) == Listed([i \in Rows(s) |-> Make(s[i])])
Plans ==
    Each(Predicates, LAMBDA p : Filter(Base, p)) \o Each(Predicates, LAMBDA p : Filter(Filter(Base, p), Op("eq", Col("k"), Lit(1))))
    \o Each(Predicates, LAMBDA p : Select(Filter(Base, p))) \o Each(Predicates, LAMBDA p : Filter(Select(Base), p))
    \o Each(Predicates, LAMBDA p : Take(Filter(Base, p), 1))
    \o Each(Predicates, LAMBDA p : Op("join", Filter(Shared, p), Shared))
    \o Each(Having("k"), LAMBDA p : Filter(Group(Col("k"), "k"), p)) \o Each(Having("d"), LAMBDA p : Take(Filter(Group(Col("d"), "d"), p), 1))
    \o Each(Simple, LAMBDA p : Filter(Col("v"), p))
    \o Each(<<"count", "first", "last">>, LAMBDA op : Unary(op, Unary("asc", Col("v"))))
    \o Each(<<"distinct", "reverse">>, LAMBDA op : Unary("count", Unary(op, Col("v"))))
    \o << Op("add", Col("v"), Op("mod", Lit(5), Lit(3))), Op("add", Col("k"), Op("div", Lit(1), Lit(2))),
          Filter(Group(Col("k"), "k"), Op("and", Op("le", Lit(0), Col("k")), Op("lt", Col("k"), Lit(1)))),
          Term("if", <<Op("lt", Col("k"), Lit(1)), Op("mod", Col("v"), Lit(2))>>, <<Op("sub", Unary("abs", Lit(-3)), Unary("signum", Lit(4)))>>, 0, "i64") >>
Folded ==
    << Op("add", Col("v"), Op("mod", Lit(-5), Lit(3))), Op("add", Col("v"), Op("mod", Lit(5), Lit(0))),
       Op("add", Col("v"), Op("mod", Float(-5), Lit(3))), Op("add", Col("v"), Op("div", Lit(1), Lit(0))) >>
Pairs(terms) == Each(terms, LAMBDA t : [was |-> Graph(t), now |-> [nulls \in {{}, {"v"}} |-> Optimize(Graph(t), nulls)]])
Prepared == Pairs(Plans)

PlanRow == [d : ToSet(Segments), k : {0, 1}, v : {Null, 0, 1}]
OptInit == in = [kind |-> "plans", t |-> <<>>]
OptNext ==
    /\ in.kind = "plans" /\ Len(in.t) < MaxPlanRows
    /\ \E r \in PlanRow : (IF in.t = <<>> THEN TRUE ELSE Last(in.t).d <= r.d) /\ in' = [in EXCEPT !.t = Append(@, r)]
NullsIn(t) == IF \E i \in Rows(t) : t[i].v = Null THEN {"v"} ELSE {}

(* An optimized plan returns the same rows in the same order as the plan it *)
(* was made from: whatever is folded, whichever filters are moved, split    *)
(* and reordered, whichever segments are left out (ray_optimize).           *)
PlansKept == in.kind = "plans" => \A p \in Rows(Prepared) : Execute(Prepared[p].now[NullsIn(in.t)], in.t) = Execute(Prepared[p].was, in.t)
(* Not what the code does: an operation on two literals gives what it gives *)
(* on columns.  Folding takes the sign of a remainder from the dividend,    *)
(* and divides by zero.                                                     *)
FoldsAgree == in.kind = "plans" => LET all == Pairs(Folded) IN \A p \in Rows(all) : Execute(all[p].now[{}], in.t) = Execute(all[p].was, in.t)
=============================================================================
