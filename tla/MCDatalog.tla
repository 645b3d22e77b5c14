----------------------------- MODULE MCDatalog -----------------------------
(* Programs over every small set of edges, against the perfect model found  *)
(* by trying every valuation; and every small graph of dependencies.        *)
EXTENDS Datalog, Input, TLC

CONSTANTS
    MaxFacts,   \* bound: triples of a database
    MaxDeps,    \* bound: dependencies of a stratified graph
    Nodes,      \* bound: nodes of an edge
    Arcs,      \* the edges that may be asserted
    Programs    \* the names of the programs that are run

A == 9          \* the attribute of an edge
ConstI(x) == [k |-> "const", x |-> x, type |-> "i64"]
VarE(v) == [k |-> "var", v |-> v]
Plus(l, r) == [k |-> "op", op |-> "add", l |-> l, r |-> r]
Edge(x, y) == [t |-> "triple", args |-> <<x, Const(A), y>>]
Pos(p, args) == [t |-> "pos", pred |-> p, args |-> args]
Neg(p, args) == [t |-> "neg", pred |-> p, args |-> args]
Cmp(op, l, r) == [t |-> "cmp", op |-> op, l |-> l, r |-> r]
Let(v, e) == [t |-> "assign", v |-> v, e |-> e]
Agg(op, v, p, c, by) == [t |-> "agg", op |-> op, v |-> v, pred |-> p, c |-> c, by |-> by]
Rule(h, args, vars, body) == [head |-> h, args |-> args, vars |-> vars, body |-> body]
X == Var(1)
Y == Var(2)
Z == Var(3)
W == Var(4)

(* Each program: its rules, and its heads in an order that can be computed. *)
Catalogue ==
  [ linear   |-> [levels |-> <<{"tc"}>>, rules |-> <<Rule("tc", <<X, Y>>, 2, <<Edge(X, Y)>>),
                    Rule("tc", <<X, Z>>, 3, <<Pos("tc", <<X, Y>>), Edge(Y, Z)>>)>>],
    early    |-> [levels |-> <<{"tc"}>>, rules |-> <<Rule("tc", <<X, Z>>, 3, <<Edge(X, Y), Pos("tc", <<Y, Z>>)>>),
                    Rule("tc", <<X, Y>>, 2, <<Edge(X, Y)>>)>>],
    mutual   |-> [levels |-> <<{"odd", "even"}>>, rules |-> <<Rule("odd", <<X, Y>>, 2, <<Edge(X, Y)>>),
                    Rule("even", <<X, Z>>, 3, <<Pos("odd", <<X, Y>>), Edge(Y, Z)>>),
                    Rule("odd", <<X, Z>>, 3, <<Pos("even", <<X, Y>>), Edge(Y, Z)>>)>>],
    apart    |-> [levels |-> <<{"reach"}, {"un"}, {"cut"}>>, rules |-> <<
                    Rule("cut", <<X, Y>>, 2, <<Pos("un", <<X>>), Edge(X, Y), Neg("un", <<Y>>)>>),
                    Rule("un", <<X>>, 1, <<Pos("n", <<X>>), Neg("reach", <<X>>)>>),
                    Rule("reach", <<Y>>, 2, <<Pos("s", <<X>>), Edge(X, Y)>>),
                    Rule("reach", <<Y>>, 2, <<Pos("reach", <<X>>), Edge(X, Y)>>)>>],
    degree   |-> [levels |-> <<{"deg", "all"}, {"most", "busy"}>>, rules |-> <<
                    Rule("most", <<X>>, 1, <<Agg("max", 1, "deg", 2, <<>>)>>),
                    Rule("deg", <<X, Y>>, 2, <<Agg("count", 2, "eav", 0, <<<<1, 1>>>>)>>),
                    Rule("all", <<X>>, 1, <<Agg("sum", 1, "eav", 3, <<>>)>>),
                    Rule("busy", <<X, Y>>, 2, <<Pos("deg", <<X, Y>>), [t |-> "between", x |-> VarE(2), lo |-> ConstI(2), hi |-> ConstI(3)]>>)>>],
    far      |-> [levels |-> <<{"d"}>>, rules |-> <<Rule("d", <<Y, Const(1)>>, 2, <<Pos("s", <<X>>), Edge(X, Y)>>),
                    Rule("d", <<Y, W>>, 4, <<Pos("d", <<X, Z>>), Edge(X, Y), Let(4, Plus(VarE(3), ConstI(1))), Cmp("ge", ConstI(3), VarE(4))>>)>>],
    sink     |-> [levels |-> <<{"sink"}>>, rules |-> <<Rule("sink", <<X, Const(7)>>, 1, <<Edge(Wild, X), Neg("eav", <<X, Const(A), Wild>>)>>)>>],
    cousin   |-> [levels |-> <<{"sg"}>>, rules |-> <<Rule("sg", <<X, Y>>, 3, <<Edge(Z, X), Edge(Z, Y), Cmp("ne", VarE(1), VarE(2))>>),
                    Rule("sg", <<X, Y>>, 4, <<Edge(Z, X), Pos("sg", <<Z, W>>), Edge(W, Y)>>)>>],
    knot     |-> [levels |-> <<>>, rules |-> <<Rule("p", <<X>>, 1, <<Pos("n", <<X>>), Neg("q", <<X>>)>>),
                    Rule("q", <<X>>, 1, <<Pos("n", <<X>>), Neg("p", <<X>>)>>)>>],
    timed    |-> [levels |-> <<{"pr"}, {"t", "iv"}>>, rules |-> <<Rule("pr", <<X, Y>>, 2, <<Edge(X, Y)>>),
                    Rule("t", <<X, W>>, 4, <<Edge(X, Y), [t |-> "builtin", id |-> "duration", vs |-> <<2, 1, 3>>],
                                             [t |-> "builtin", id |-> "abs", vs |-> <<3, 4>>], [t |-> "builtin", id |-> "before", vs |-> <<1, 1, 2>>]>>),
                    Rule("iv", <<Y, Z>>, 3, <<Pos("pr", <<X, Wild>>), [t |-> "interval", fact |-> 1, start |-> 2, end |-> 3, next |-> 4]>>)>>],
    typed    |-> [levels |-> <<{"k"}>>, rules |-> <<Rule("k", <<X, [Const(5) EXCEPT !.type = "sym"]>>, 1, <<Edge(X, Wild)>>),
                    Rule("k", <<X, [Const(6) EXCEPT !.type = "sym"]>>, 1, <<Pos("n", <<X>>), Pos("k", <<X, Const(5)>>)>>)>>],
    clash    |-> [levels |-> <<>>, rules |-> <<Rule("k", <<X, [Const(5) EXCEPT !.type = "sym"]>>, 1, <<Edge(X, Wild)>>),
                    Rule("k", <<X, [Const(5) EXCEPT !.type = "f64"]>>, 1, <<Edge(Wild, X)>>)>>],
    twice    |-> [levels |-> <<{"tc"}>>, rules |-> <<Rule("tc", <<X, Y>>, 2, <<Edge(X, Y)>>),
                    Rule("tc", <<X, Z>>, 3, <<Pos("tc", <<X, Y>>), Pos("tc", <<Y, Z>>)>>)>>],
    loop     |-> [levels |-> <<{"l"}>>, rules |-> <<Rule("l", <<X>>, 1, <<Edge(X, X)>>)>>],
    behind   |-> [levels |-> <<{"d"}>>, rules |-> <<
                    Rule("d", <<Y, W>>, 4, <<Edge(X, Y), Pos("d", <<X, Z>>), Let(4, Plus(VarE(3), ConstI(1))), Cmp("le", VarE(4), ConstI(3))>>),
                    Rule("d", <<Y, Const(1)>>, 2, <<Pos("s", <<X>>), Edge(X, Y)>>)>>],
    tally    |-> [levels |-> <<{"c"}>>, rules |-> <<Rule("c", <<X, Y>>, 2, <<Edge(X, X), Agg("count", 2, "n", 0, <<>>)>>)>>] ]

Table1(xs) == [types |-> <<"i64">>, rows |-> xs]
Env == [n |-> Table1([i \in 1 .. Nodes |-> <<i - 1>>]), s |-> Table1(<<<<0>>>>)]

-----------------------------------------------------------------------------
(* Inputs: a database by assertions and retractions, with the edges that    *)
(* should be in it; a graph of dependencies edge by edge.                   *)
DatalogInit ==
    in \in {[kind |-> "datalog", prog |-> n, db |-> <<>>, live |-> {}] : n \in Programs}
       \cup {[kind |-> "strata", n |-> 4, at |-> 0, used |-> 0, dep |-> [i \in 1 .. 4 |-> [j \in 1 .. 4 |-> 0]]]}
AssertEdge ==
    /\ in.kind = "datalog" /\ Len(in.db) < MaxFacts
    /\ \E e \in Arcs :
          /\ \A z \in in.live : z[1] * Nodes + z[2] < e[1] * Nodes + e[2]
          /\ in' = [in EXCEPT !.db = AssertFact(@, e[1], A, e[2]), !.live = @ \cup {e}]
RetractEdge ==
    /\ in.kind = "datalog"
    /\ \E z \in in.live : in' = [in EXCEPT !.db = RetractFact(@, z[1], A, z[2]), !.live = @ \ {z}]
Depend ==
    /\ in.kind = "strata" /\ in.used < MaxDeps
    /\ \E k \in in.at .. in.n * in.n - 1, d \in 1 .. 2 :
          in' = [in EXCEPT !.at = k + 1, !.used = @ + 1, !.dep[(k \div in.n) + 1][(k % in.n) + 1] = d]
DatalogNext == AssertEdge \/ RetractEdge \/ Depend
Spec == DatalogInit /\ [][DatalogNext]_in

-----------------------------------------------------------------------------
(* Reference: the facts that hold under some valuation of the variables.    *)
Small == 0 .. Nodes
TermAt(a, f) == IF a.var = 0 THEN a.val ELSE f[a.var]
Holding(rels, p) == IF p \in DOMAIN rels THEN rels[p] ELSE {}
Valued(f, e) == CASE e.k = "const" -> e.x [] e.k = "var" -> f[e.v] [] e.k = "op" -> f[e.l.v] + e.r.x
Groups(rows, l, f) == {r \in rows : \A i \in DOMAIN l.by : r[l.by[i][2]] = f[l.by[i][1]]}
AggIs(rows, l, f) ==
    LET of == Groups(rows, l, f)
    IN CASE l.op = "count" -> (of # {} \/ l.by = <<>>) /\ f[l.v] = Cardinality(of)
         [] l.op = "sum" -> f[l.v] = FoldSet(LAMBDA r, a : a + r[l.c], 0, of)
         [] l.op = "max" -> of # {} /\ f[l.v] = Max({r[l.c] : r \in of})
True(rels, l, f) ==
    LET Args == [i \in DOMAIN l.args |-> TermAt(l.args[i], f)]
    IN CASE l.t = "pos" -> Args \in Holding(rels, l.pred)
         [] l.t = "neg" -> \A r \in Holding(rels, l.pred) : \E i \in DOMAIN l.args : l.args[i].var # Wild.var /\ r[i] # Args[i]
         [] l.t = "cmp" -> Compared(l.op, Valued(f, l.l), Valued(f, l.r))
         [] l.t = "assign" -> f[l.v] = Valued(f, l.e)
         [] l.t = "interval" -> f[l.start] = f[l.fact] /\ f[l.end] = f[l.next]
         [] l.t = "builtin" /\ l.id = "before" -> f[l.vs[3]] < f[l.vs[1]]
         [] l.t = "builtin" /\ l.id = "duration" -> f[l.vs[3]] = f[l.vs[2]] - f[l.vs[1]]
         [] l.t = "builtin" /\ l.id = "abs" -> f[l.vs[2]] = Max({f[l.vs[1]], -f[l.vs[1]]})
         [] l.t = "agg" -> AggIs(Holding(rels, l.pred), l, f)
Gives(rels, r) ==
    LET body == ParseBody(r.body, r.vars)
        neg(l) == IF l.t = "neg" THEN [l EXCEPT !.args = [i \in DOMAIN @ |-> IF @[i].var > r.vars THEN Wild ELSE @[i]]] ELSE l
        free == r.vars + Cardinality({i \in DOMAIN r.body : Wilds(r.body[i]) > 0 /\ r.body[i].t # "neg"})
        top == IF \E i \in DOMAIN body : body[i].t = "agg" THEN 0 .. MaxFacts * Nodes ELSE IF \E i \in DOMAIN body : body[i].t = "builtin" THEN -Nodes .. Nodes ELSE Small
    IN {[i \in DOMAIN r.args |-> TermAt(r.args[i], f)] : f \in {g \in [1 .. free -> top] : \A i \in DOMAIN body : True(rels, neg(body[i]), g)}}
RECURSIVE Close(_, _, _)
Close(rels, rules, heads) ==
    LET next == [p \in DOMAIN rels |-> rels[p] \cup (IF p \notin heads THEN {} ELSE UNION {Gives(rels, r) : r \in {q \in ToSet(rules) : q.head = p}})]
    IN IF next = rels THEN rels ELSE Close(next, rules, heads)
Facts(live) == [eav |-> {<<z[1], A, z[2]>> : z \in live}, n |-> ToSet(Env.n.rows), s |-> ToSet(Env.s.rows)]
Perfect(prog, live) ==
    LET heads == UNION ToSet(prog.levels)
        start == [p \in DOMAIN Facts(live) \cup heads |-> IF p \in heads THEN {} ELSE Facts(live)[p]]
    IN FoldLeft(LAMBDA rels, level : Close(rels, prog.rules, level), start, prog.levels)
Run == Eval(Program(in.db, Env, Catalogue[in.prog].rules))

Models(p, ref) ==
    /\ ~p.err
    /\ \A h \in {n \in DOMAIN p.rels : p.rels[n].idb} : ToSet(p.rels[h].rows) = ref[h] /\ IsInjective(p.rels[h].rows)

(* What dl_eval leaves in each derived relation is the perfect model of the *)
(* rules on the facts asserted and not retracted, each row once; a program  *)
(* that negates itself is refused.                                          *)
FixpointExact ==
    in.kind = "datalog" =>
        IF Catalogue[in.prog].levels = <<>> THEN Run.err ELSE Models(Run, Perfect(Catalogue[in.prog], in.live))

(* datalog-reference.md: "When the delta is empty, the fixpoint has been    *)
(* reached", for rules with two atoms of the relation they define as well.  *)
FixpointReached == in.kind = "datalog" => LET p == Run IN p.err \/ \A h \in UNION ToSet(Catalogue[in.prog].levels) :
    Perfect(Catalogue[in.prog], in.live)[h] \subseteq ToSet(p.rels[h].rows)
(* datalog_coverage.rfl: "repeated-variable self-join (?x :edge ?x) returns *)
(* only self-loops".                                                        *)
OnlyTrueFacts == in.kind = "datalog" => LET p == Run IN p.err \/ \A h \in UNION ToSet(Catalogue[in.prog].levels) :
    ToSet(p.rels[h].rows) \subseteq Perfect(Catalogue[in.prog], in.live)[h]
(* dl_eval: "rule has no rows this pass" is "not a fault".                  *)
EmptyNotFault == in.kind = "datalog" => ~Run.err

TracedBy(p, row, by) == by # 0 /\ \A l \in {x \in ToSet(p.rules[by].body) : x.t = "pos"} : SourceRows(p, p.rules[by], row, l) # {}
Traced(p) ==
    p.err \/ \A name \in {n \in DOMAIN p.rels : p.rels[n].idb} : \A row \in ToSet(p.rels[name].rows) :
                TracedBy(p, row, Provenance(p, name, row))

(* Every derived row has a rule that derives it, and source rows for every  *)
(* atom of that rule.                                                       *)
ProvenanceTotal ==
    in.kind = "datalog" =>
        Traced(Run)

(* Scans and pulls of the database read the triples that were asserted and  *)
(* not retracted.                                                           *)
TriplesRead ==
    in.kind = "datalog" =>
        /\ ToSet(ScanEav(in.db, A)) = in.live
        /\ \A x \in 0 .. Nodes - 1 :
              LET mine == {z[2] : z \in {y \in in.live : y[1] = x}}
                  one == ScanOne(in.db, x, A)
              IN /\ IF mine = {} THEN one = <<>> ELSE one[1] \in mine
                 /\ \A attrs \in {{}, {A}} : ToSet(Pull(in.db, x, attrs)) = {<<A, y>> : y \in mine}

(* Strata exist exactly when no cycle goes through a negation and no chain  *)
(* of negations is too long; and a head is above what it negates.           *)
StrataSound ==
    in.kind = "strata" =>
        LET I == 1 .. in.n
            d == in.dep
            RECURSIVE Reach(_)
            Reach(S) == LET T == S \cup {j \in I : \E i \in S : d[i][j] > 0} IN IF T = S THEN S ELSE Reach(T)
            cyclic == \E i \in I, j \in I : d[i][j] = 2 /\ i \in Reach({j})
            RECURSIVE Depth(_, _)
            Depth(i, seen) == LET out == {j \in I \ seen : d[i][j] > 0}
                              IN IF out = {} THEN 0 ELSE Max({Depth(j, seen \cup {i}) + (IF d[i][j] = 2 THEN 1 ELSE 0) : j \in out})
            s == Strata(d, in.n)
        IN IF cyclic \/ (\E i \in I : Depth(i, {i}) + 1 > MaxStrata) THEN s = <<>>
           ELSE /\ s # <<>>
                /\ \A i \in I, j \in I : (d[i][j] = 2 => s[i] > s[j]) /\ (d[i][j] = 1 => s[i] >= s[j])
=============================================================================
