----------------------------- MODULE MCTraverse -----------------------------
(***************************************************************************)
(* The graph operators on every graph with few nodes and edges, against    *)
(* definitions by paths.  Edges are added in a fixed order, parallel edges *)
(* and self-loops included.                                                *)
(***************************************************************************)
EXTENDS Traverse, Input

CONSTANTS
    MaxNodes,   \* bound: nodes
    MaxEdges,   \* bound: edges added
    Weights     \* weights of edges

(* No edges, or four nodes with two and three ways around.                  *)
Diamond == <<<<0, 1, 1>>, <<1, 3, 1>>, <<0, 2, 1>>, <<2, 3, 3>>, <<1, 2, 1>>>>
GraphInit ==
    in \in {[kind |-> "graph", n |-> n, e |-> <<>>, base |-> 0, room |-> MaxEdges] : n \in 1 .. MaxNodes}
          \cup {[kind |-> "graph", n |-> 4, e |-> Diamond, base |-> Len(Diamond), room |-> 1]}

AddEdge ==
    /\ in.kind = "graph" /\ in.room > 0
    /\ \E a, b \in 0 .. in.n - 1, w \in Weights :
          /\ \A i \in in.base + 1 .. Len(in.e) : ~Lex(<<a, b, w>>, in.e[i])
          /\ in' = [in EXCEPT !.e = Append(@, <<a, b, w>>), !.room = @ - 1]

-----------------------------------------------------------------------------
(* Reference definitions.                                                   *)
V == Nodes(in)
Edges(g, dir) ==
    {<<a, b>> \in Nodes(g) \X Nodes(g) : \E i \in DOMAIN g.e :
        \/ dir # 1 /\ g.e[i][1] = a /\ g.e[i][2] = b
        \/ dir # 0 /\ g.e[i][1] = b /\ g.e[i][2] = a}

(* Distances in hops, by composition of the edge relation.                  *)
RECURSIVE Within(_, _, _, _)
Within(E, N, s, k) ==
    IF k = 0 THEN {s} ELSE LET x == Within(E, N, s, k - 1) IN x \cup {b \in N : \E a \in x : <<a, b>> \in E}

Hops(g, dir, s, t) ==
    LET ks == {k \in 0 .. g.n : t \in Within(Edges(g, dir), Nodes(g), s, k)} IN IF ks = {} THEN Inf ELSE Min(ks)

SimplePaths(g, s, t) ==
    {p \in UNION {[1 .. k -> Nodes(g)] : k \in 1 .. g.n} :
        p[1] = s /\ p[Len(p)] = t /\ IsInjective(p) /\ \A i \in 1 .. Len(p) - 1 : <<p[i], p[i + 1]>> \in Edges(g, 0)}

Cheapest(g, p) ==
    LET step(i) == Min({g.e[k][3] : k \in {j \in DOMAIN g.e : g.e[j][1] = p[i] /\ g.e[j][2] = p[i + 1]}})
    IN FoldLeft(LAMBDA a, i : a + step(i), 0, [i \in 1 .. Len(p) - 1 |-> i])

Distance(g, s, t) == Min({Inf} \cup {Cheapest(g, p) : p \in SimplePaths(g, s, t)})

Simple(g) == \A i, j \in DOMAIN g.e : g.e[i][1] = g.e[j][1] /\ g.e[i][2] = g.e[j][2] => i = j

-----------------------------------------------------------------------------
(* Both adjacency arrays hold every edge once, under its key, and map it to *)
(* its row; lists are sorted as the joins need them.                        *)
CsrExact ==
    in.kind = "graph" =>
        \A rev \in BOOLEAN, v \in V :
            LET s == Slice(Csr(in, rev), v)
                rows == {i \in DOMAIN in.e : in.e[i][IF rev THEN 2 ELSE 1] = v}
            IN /\ {s[k].row : k \in DOMAIN s} = rows /\ Len(s) = Cardinality(rows)
               /\ \A k \in DOMAIN s : s[k].tgt = in.e[s[k].row][IF rev THEN 1 ELSE 2] /\ (k > 1 => s[k - 1].tgt <= s[k].tgt)

(* Expansion with the selection the operator derives, without it, and in    *)
(* factorized form agree: the degrees are the numbers of pairs.             *)
ExpandAgrees ==
    in.kind = "graph" =>
      LET R == Rel(in) IN
        \A dir \in 0 .. 2 :
            LET src == [i \in 1 .. in.n |-> in.n - i]
                all == Expand(R, dir, src, V)
                f == Factorized(R, dir, src)
            IN /\ all = Expand(R, dir, src, Sip(R, dir))
               /\ \A v \in V : Cardinality({i \in DOMAIN all : all[i][1] = v}) =
                               FoldLeft(LAMBDA a, p : IF p[1] = v THEN a + p[2] ELSE a, 0, f)

(* Variable-length expansion returns each node at its distance, once, if    *)
(* the distance is in range.                                                *)
VarExpandExact ==
    in.kind = "graph" =>
      LET R == Rel(in) IN
        \A dir \in 0 .. 2, s \in V :
            LET hops == [v \in V |-> Hops(in, dir, s, v)]
            IN \A min \in 1 .. 2, max \in 1 .. 3 :
                  LET out == VarExpand(R, dir, <<s>>, min, max)
                  IN /\ ToSet(out) = {x \in {s} \X (V \ {s}) \X (min .. max) : hops[x[2]] = x[3]}
                     /\ IsInjective(out)

(* A shortest path is a path, has as many hops as the distance, and is      *)
(* found exactly when the distance is within the bound.                     *)
ShortestPathExact ==
    in.kind = "graph" =>
      LET R == Rel(in) IN
        \A dir \in 0 .. 2, s, t \in V, max \in 1 .. 3 :
            LET p == ShortestPath(R, dir, s, t, max)
                hops == Hops(in, dir, s, t)
            IN IF hops > max THEN p = <<>>
               ELSE /\ Len(p) = hops + 1 /\ p[1] = s /\ Last(p) = t
                    /\ \A i \in 1 .. Len(p) - 1 : <<p[i], p[i + 1]>> \in Edges(in, dir)

(* A component is named by its least node.                                  *)
ComponentsExact ==
    in.kind = "graph" => LET R == Rel(in) IN \A v \in V : ConnectedComp(R)[v] = Min({u \in V : Hops(in, 2, u, v) < Inf})

(* Dijkstra's distances are those of the cheapest paths; the hops reported  *)
(* are those of a path of that cost.                                        *)
DijkstraExact ==
    in.kind = "graph" =>
      LET R == Rel(in) IN
        \A s \in V :
            LET d == Dijkstra(R, s, -1, in.n)
            IN \A t \in V : /\ d.dist[t] = Distance(in, s, t)
                            /\ d.dist[t] < Inf => \E p \in SimplePaths(in, s, t) : Cheapest(in, p) = d.dist[t] /\ Len(p) = d.depth[t] + 1

(* A* finds the cheapest path when the estimate never exceeds the weight of *)
(* an edge plus the estimate after it; nodes lie on a line.                 *)
AStarExact ==
    in.kind = "graph" =>
      LET R == Rel(in) IN
        \A s, t \in V, gap \in 1 .. 3 :
            LET h == [v \in V |-> gap * (IF v > t THEN v - t ELSE t - v)]
            IN (\A i \in DOMAIN in.e : h[in.e[i][1]] <= in.e[i][3] + h[in.e[i][2]])
                  => AStar(R, h, s, t, in.n).dist[t] = Distance(in, s, t)

CheapestFirst(g, all, out, k) ==
    /\ Len(out) = Min({k, Cardinality(all)}) /\ IsInjective(out) /\ ToSet(out) \subseteq all
    /\ \A i, j \in DOMAIN out : i < j => Cheapest(g, out[i]) <= Cheapest(g, out[j])
    /\ \A p \in all \ ToSet(out) : \A q \in ToSet(out) : Cheapest(g, q) <= Cheapest(g, p)

(* The k shortest paths of a graph without parallel edges are simple,       *)
(* distinct, and no path that is left out is cheaper than one that is in.   *)
KShortestExact ==
    in.kind = "graph" /\ Simple(in) =>
      LET R == Rel(in) IN
        \A s, t \in V :
            CheapestFirst(in, SimplePaths(in, s, t), KShortest(R, s, t, 3), 3)

(* A topological order exists exactly when there is no cycle, and then      *)
(* every edge goes forward.                                                 *)
TopSortExact ==
    in.kind = "graph" =>
      LET R == Rel(in) IN
        LET order == TopSort(R)
            cyclic == \E <<a, b>> \in Edges(in, 0) : Hops(in, 0, b, a) < Inf
        IN IF cyclic THEN order = <<>>
           ELSE /\ ToSet(order) = V /\ Len(order) = in.n
                /\ \A i, j \in DOMAIN order : <<order[i], order[j]>> \in Edges(in, 0) => i < j

(* A depth-first walk visits what can be reached, each node from a parent   *)
(* visited before it, one level up.                                         *)
DfsExact ==
    in.kind = "graph" =>
      LET R == Rel(in) IN
        \A s \in V :
            LET out == Dfs(R, s, in.n)
            IN /\ {out[i][1] : i \in DOMAIN out} = {v \in V : Hops(in, 0, s, v) < Inf}
               /\ \A i, j \in DOMAIN out : out[i][1] = out[j][1] => i = j
               /\ \A i \in 2 .. Len(out) : \E j \in 1 .. i - 1 :
                      out[j][1] = out[i][3] /\ out[j][2] + 1 = out[i][2] /\ <<out[j][1], out[i][1]>> \in Edges(in, 0)

(* The spanning forest connects what the graph connects, has no cycle and   *)
(* no forest of the graph is lighter.                                       *)
MstExact ==
    in.kind = "graph" =>
      LET R == Rel(in) IN
        LET sub(rows) == [in EXCEPT !.e = [i \in rows |-> in.e[i]]]
            weight(rows) == MapThenSumSet(LAMBDA i : in.e[i][3], rows)
            reach == [v \in V |-> Within(Edges(in, 2), V, v, in.n)]
            spans(rows) == \A v \in V : Within(Edges(sub(rows), 2), V, v, in.n) = reach[v]
            mst == ToSet(Mst(R))
        IN /\ spans(mst) /\ Cardinality(mst) = in.n - Cardinality({ConnectedComp(R)[v] : v \in V})
           /\ \A rows \in SUBSET DOMAIN in.e : spans(rows) => weight(mst) <= weight(rows)

(* Betweenness is the sum over pairs of the share of shortest paths that    *)
(* pass through a node (no parallel edges).                                 *)
BetweennessExact ==
    in.kind = "graph" /\ Simple(in) =>
      LET R == Rel(in) IN
        LET paths(s, t) == {p \in UNION {[1 .. k -> V] : k \in {Hops(in, 2, s, t) + 1} \cap (2 .. in.n)} :
                               p[1] = s /\ p[Len(p)] = t /\ \A i \in 1 .. Len(p) - 1 : <<p[i], p[i + 1]>> \in Edges(in, 2)}
            share(v, s, t) == LET ps == paths(s, t)
                              IN IF ps = {} \/ v \in {s, t} THEN 0 ELSE (Unit * Cardinality({p \in ps : v \in ToSet(p)})) \div Cardinality(ps)
            pairs == {<<s, t>> \in V \X V : s < t}
        IN \A v \in V : Betweenness(R)[v] = MapThenSumSet(LAMBDA x : share(v, x[1], x[2]), pairs)

(* Closeness has the distances in both directions.                          *)
ClosenessExact ==
    in.kind = "graph" =>
      LET R == Rel(in) IN
        \A s \in V :
            LET reach == {v \in V \ {s} : Hops(in, 2, s, v) < Inf}
            IN Closeness(R, s) = <<Cardinality(reach), MapThenSumSet(LAMBDA v : Hops(in, 2, s, v), reach)>>

(* A pass over the nodes does not lower the modularity, in units of         *)
(* 1 / (2m)^2.                                                              *)
Modularity(r, com) ==
    LET deg(u) == Degree(r.fwd, u) + Degree(r.rev, u)
        pairs == {x \in Nodes(r) \X Nodes(r) : com[x[1]] = com[x[2]]}
        links(u, v) == Len(SelectSeq(AllNbrs(r, 2, u), LAMBDA w : w = v))
    IN MapThenSumSet(LAMBDA x : links(x[1], x[2]) * 2 * Len(r.e) - deg(x[1]) * deg(x[2]), pairs)

LouvainClimbs ==
    in.kind = "graph" => LET R == Rel(in) IN
        \A k \in 0 .. 2 : Modularity(R, Louvain(R, k)) <= Modularity(R, Louvain(R, k + 1))

(* The worst-case optimal join finds every binding of the pattern and none  *)
(* that is not one.                                                         *)
WcoExact ==
    in.kind = "graph" =>
      LET R == Rel(in) IN
        \A vr \in {<<2, 2>>, <<3, 3>>, <<3, 2>>, <<4, 6>>} :
            ToSet(WcoJoin(R, vr[1], vr[2])) =
                {b \in [1 .. vr[1] -> V] : \A i \in 1 .. vr[2] :
                    <<b[DefaultPlan(vr[1], vr[2])[i][1]], b[DefaultPlan(vr[1], vr[2])[i][2]]>> \in Edges(in, 0)}

(* A node within max hops is found by a search bounded to max hops.  Not so *)
(* for exec_dijkstra, exec_astar and exec_dfs: a node is left at the depth  *)
(* of its cheapest, or first, path, and a shorter way to it is ignored.     *)
DepthBound ==
    in.kind = "graph" => LET R == Rel(in) IN
        \A s, t \in V, max \in 1 .. 3 : Hops(in, 0, s, t) <= max =>
            /\ Dijkstra(R, s, -1, max).dist[t] < Inf
            /\ \E i \in DOMAIN Dfs(R, s, max) : Dfs(R, s, max)[i][1] = t

Next == AddEdge
Spec == GraphInit /\ [][Next]_in
=============================================================================
