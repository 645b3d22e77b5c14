------------------------------ MODULE Traverse ------------------------------
(***************************************************************************)
(* The graph operators of src/ops/traverse.c and src/ops/lftj.c over the   *)
(* two compressed adjacency arrays that src/store/csr.c builds from a list *)
(* of edges.  A relation is [n, e]: nodes 0 .. n-1 and a sequence of edges *)
(* <<source, target, weight>>.  Weights are integers and Inf is above any  *)
(* distance; the binary heap is a set from which a least entry is taken.   *)
(***************************************************************************)
EXTENDS Integers, Sequences, FiniteSets, FiniteSetsExt, SequencesExt, TLC

Inf == 1000
Nodes(g) == 0 .. g.n - 1
Lex(a, b) == \E i \in DOMAIN a : a[i] < b[i] /\ \A j \in 1 .. i - 1 : a[j] = b[j]

-----------------------------------------------------------------------------
(* csr.c.                                                                   *)

(* Prefix sums of the degrees.                                              *)
Offsets(g, pairs) == [v \in 0 .. g.n |-> Cardinality({i \in DOMAIN pairs : pairs[i].key < v})]

(* csr_build_from_pairs: the edges sorted by key, target and row.           *)
Csr(g, reverse) ==
    LET pair(i) == [key |-> g.e[i][IF reverse THEN 2 ELSE 1], tgt |-> g.e[i][IF reverse THEN 1 ELSE 2], row |-> i]
        pairs == SortSeq([i \in DOMAIN g.e |-> pair(i)],
                         LAMBDA a, b : Lex(<<a.key, a.tgt, a.row>>, <<b.key, b.tgt, b.row>>))
    IN [off |-> Offsets(g, pairs), edges |-> pairs]

(* ray_rel_from_edges: forward and reverse.                                 *)
Rel(g) == [n |-> g.n, e |-> g.e, fwd |-> Csr(g, FALSE), rev |-> Csr(g, TRUE)]

(* ray_csr_neighbors: the slice between two offsets.                        *)
Slice(csr, v) == SubSeq(csr.edges, csr.off[v] + 1, csr.off[v + 1])
Nbrs(csr, v) == LET s == Slice(csr, v) IN [i \in DOMAIN s |-> s[i].tgt]
Degree(csr, v) == csr.off[v + 1] - csr.off[v]

(* The adjacency arrays a direction goes through: 0 forward, 1 reverse, 2   *)
(* both.                                                                    *)
Arrays(r, dir) == CASE dir = 0 -> <<r.fwd>> [] dir = 1 -> <<r.rev>> [] dir = 2 -> <<r.fwd, r.rev>>
AllNbrs(r, dir, v) == FlattenSeq([i \in DOMAIN Arrays(r, dir) |-> Nbrs(Arrays(r, dir)[i], v)])

-----------------------------------------------------------------------------
(* exec_expand: every source's neighbours, the whole of the forward pass    *)
(* before the reverse one; sources outside the selection are skipped.       *)
ExpandArray(csr, src, sel) ==
    FlattenSeq([i \in DOMAIN src |->
        IF src[i] \notin sel THEN <<>> ELSE [j \in DOMAIN Nbrs(csr, src[i]) |-> <<src[i], Nbrs(csr, src[i])[j]>>]])

Expand(r, dir, src, sel) ==
    FlattenSeq([k \in DOMAIN Arrays(r, dir) |-> ExpandArray(Arrays(r, dir)[k], src, sel)])

(* The selection the operator builds itself: nodes with a degree.           *)
Sip(r, dir) == {v \in Nodes(r) : \E k \in DOMAIN Arrays(r, dir) : Degree(Arrays(r, dir)[k], v) > 0}

(* exec_expand_factorized: degrees instead of pairs.                        *)
Factorized(r, dir, src) ==
    LET deg(v) == FoldLeft(LAMBDA a, c : a + Degree(c, v), 0, Arrays(r, dir))
    IN SelectSeq([i \in DOMAIN src |-> <<src[i], deg(src[i])>>], LAMBDA p : p[2] > 0)

-----------------------------------------------------------------------------
(* Breadth-first searches.  A frontier becomes the unvisited neighbours of  *)
(* its nodes, each once, with the node that found it.                       *)
Discover(r, dir, front, visited) ==
    LET found == FlattenSeq([i \in DOMAIN front |->
                     [j \in DOMAIN AllNbrs(r, dir, front[i]) |-> <<AllNbrs(r, dir, front[i])[j], front[i]>>]])
        once(acc, x) == IF x[1] \in visited \/ \E k \in DOMAIN acc : acc[k][1] = x[1] THEN acc ELSE Append(acc, x)
    IN FoldLeft(once, <<>>, found)

Firsts(s) == [i \in DOMAIN s |-> s[i][1]]

(* The levels of a search of at most left hops.                             *)
RECURSIVE Levels(_, _, _, _, _)
Levels(r, dir, front, visited, left) ==
    IF left = 0 \/ front = <<>> THEN <<>>
    ELSE LET next == Discover(r, dir, front, visited)
         IN <<next>> \o Levels(r, dir, Firsts(next), visited \cup ToSet(Firsts(next)), left - 1)

(* exec_var_expand: a row per node found at a depth in range.               *)
VarExpand(r, dir, starts, min, max) ==
    FlattenSeq([i \in DOMAIN starts |->
        LET s == starts[i]
            ls == Levels(r, dir, <<s>>, {s}, max)
        IN FlattenSeq([d \in DOMAIN ls |->
               IF d >= min THEN [j \in DOMAIN ls[d] |-> <<s, ls[d][j][1], d>>] ELSE <<>>])])

(* exec_shortest_path: follow the parents back; <<>> stands for the error.  *)
RECURSIVE Back(_, _, _)
Back(ls, v, d) ==
    IF d = 0 THEN <<v>>
    ELSE LET p == (CHOOSE x \in ToSet(ls[d]) : x[1] = v)[2] IN Append(Back(ls, p, d - 1), v)

ShortestPath(r, dir, src, dst, max) ==
    IF src = dst THEN <<src>>
    ELSE LET ls == Levels(r, dir, <<src>>, {src}, max)
             at == {d \in DOMAIN ls : dst \in ToSet(Firsts(ls[d]))}
         IN IF at = {} THEN <<>> ELSE Back(ls, dst, Min(at))

(* exec_closeness of one source: nodes reached and the sum of distances.    *)
Closeness(r, s) ==
    LET ls == Levels(r, 2, <<s>>, {s}, r.n)
        total(acc, d) == <<acc[1] + Len(ls[d]), acc[2] + d * Len(ls[d])>>
    IN FoldLeft(total, <<0, 0>>, [d \in DOMAIN ls |-> d])

(* The sampled sources of exec_closeness and exec_betweenness.              *)
Sampled(n, sample) ==
    LET all == ~(sample > 0 /\ sample < n)
        k == IF all THEN n ELSE sample
        stride == IF all THEN 1 ELSE n \div k
    IN [i \in 1 .. k |-> ((i - 1) * stride) % n]

-----------------------------------------------------------------------------
(* exec_connected_comp: sweeps of the nodes in order, in place, until one   *)
(* changes nothing.                                                         *)

RECURSIVE Settle(_, _)
Settle(r, label) ==
    LET least(l, v) == Min({l[v]} \cup {l[u] : u \in ToSet(AllNbrs(r, 2, v))})
        sweep == FoldLeft(LAMBDA l, v : [l EXCEPT ![v] = least(l, v)], label, [i \in 1 .. r.n |-> i - 1])
    IN IF sweep = label THEN label ELSE Settle(r, sweep)

ConnectedComp(r) == Settle(r, [v \in Nodes(r) |-> v])

-----------------------------------------------------------------------------
(* Dijkstra and its relatives.  s holds dist, parent, depth, the visited    *)
(* nodes and the heap of <<priority, node>>.                                *)
Start(r, src, prio) ==
    [dist |-> [v \in Nodes(r) |-> IF v = src THEN 0 ELSE Inf], parent |-> [v \in Nodes(r) |-> -1],
     depth |-> [v \in Nodes(r) |-> 0], visited |-> {}, heap |-> {<<prio, src>>}]

(* Mutant: the first distance of a node stays.                              *)
RelaxAny(r, h, u, s, edge) ==
    LET v == edge.tgt
        d == s.dist[u] + r.e[edge.row][3]
    IN IF s.dist[v] # Inf THEN s
       ELSE [s EXCEPT !.dist[v] = d, !.parent[v] = u, !.depth[v] = s.depth[u] + 1, !.heap = @ \cup {<<d + h[v], v>>}]

Relax(r, h, u, s, edge) ==
    LET v == edge.tgt
        d == s.dist[u] + r.e[edge.row][3]
    IN IF d >= s.dist[v] THEN s
       ELSE [s EXCEPT !.dist[v] = d, !.parent[v] = u, !.depth[v] = s.depth[u] + 1, !.heap = @ \cup {<<d + h[v], v>>}]

(* The edges of u that the masks of nodes and rows leave.                   *)
Open(r, mask, u) == SelectSeq(Slice(r.fwd, u), LAMBDA x : x.row \notin mask.rows /\ x.tgt \notin mask.nodes)

(* Pop; skip what is visited; stop at dst; relax the edges the masks leave. *)
RECURSIVE Search(_, _, _, _, _, _)
Search(r, h, dst, max, mask, s) ==
    IF s.heap = {} THEN s
    ELSE LET top == CHOOSE x \in s.heap : \A y \in s.heap : x[1] <= y[1]
             u == top[2]
             popped == [s EXCEPT !.heap = @ \ {top}]
             seen == [popped EXCEPT !.visited = @ \cup {u}]
         IN IF u \in s.visited THEN Search(r, h, dst, max, mask, popped)
            ELSE IF u = dst THEN seen
            ELSE IF s.depth[u] >= max THEN Search(r, h, dst, max, mask, seen)
            ELSE Search(r, h, dst, max, mask,
                        FoldLeft(LAMBDA a, edge : Relax(r, h, u, a, edge), seen, Open(r, mask, u)))

NoH(r) == [v \in Nodes(r) |-> 0]
NoMask == [nodes |-> {}, rows |-> {}]

(* exec_dijkstra; dst = -1 is none.  Negative weights are refused.          *)
Dijkstra(r, src, dst, max) == Search(r, NoH(r), dst, max, NoMask, Start(r, src, 0))

(* exec_astar with the distances h[v] from the destination.                 *)
AStar(r, h, src, dst, max) == Search(r, h, dst, max, NoMask, Start(r, src, h[src]))

(* dijkstra_masked: the distance and the path along the parents.            *)
RECURSIVE Chain(_, _)
Chain(parent, v) == IF v = -1 THEN <<>> ELSE Append(Chain(parent, parent[v]), v)

Masked(r, src, dst, nodes, rows) ==
    LET s == Search(r, NoH(r), dst, Inf, [nodes |-> nodes, rows |-> rows], Start(r, src, 0))
    IN [cost |-> s.dist[dst], path |-> IF s.dist[dst] < Inf THEN Chain(s.parent, dst) ELSE <<>>]

-----------------------------------------------------------------------------
(* exec_k_shortest: Yen's algorithm.                                        *)
FirstRow(r, a, b) == LET s == SelectSeq(Slice(r.fwd, a), LAMBDA x : x.tgt = b) IN s[1].row
PathCost(r, p) == FoldLeft(LAMBDA a, i : a + r.e[FirstRow(r, p[i], p[i + 1])][3], 0, [i \in 1 .. Len(p) - 1 |-> i])

(* The next edges of the found paths that share the root prev[1 .. i].      *)
MaskedRows(r, found, prev, i) ==
    {FirstRow(r, p[i], p[i + 1]) : p \in {f \in ToSet(found) : Len(f) > i /\ SubSeq(f, 1, i) = SubSeq(prev, 1, i)}}

(* A path that was found, or is waiting already, is not queued again.       *)
Candidate(found, cand, path, cost) ==
    IF cost >= Inf \/ path \in ToSet(found) \/ \E k \in DOMAIN cand : cand[k].path = path
    THEN cand
    ELSE Append(cand, [path |-> path, cost |-> cost])

(* One deviation from the previous path, at its node i.                     *)
Spur(r, dst, found, cand, i) ==
    LET prev == Last(found)
        root == SubSeq(prev, 1, i - 1)
        spur == Masked(r, prev[i], dst, ToSet(root), MaskedRows(r, found, prev, i))
    IN Candidate(found, cand, root \o spur.path, PathCost(r, SubSeq(prev, 1, i)) + spur.cost)

Spurs(r, dst, found, cand) ==
    FoldLeft(LAMBDA c, i : Spur(r, dst, found, c, i), cand, [i \in 1 .. Len(Last(found)) - 1 |-> i])
Best(all) == CHOOSE i \in DOMAIN all : \A j \in DOMAIN all : all[i].cost < all[j].cost \/ (all[i].cost = all[j].cost /\ i <= j)

RECURSIVE Yen(_, _, _, _, _), YenTake(_, _, _, _, _)
YenTake(r, dst, k, found, all) ==
    IF all = <<>> THEN found
    ELSE Yen(r, dst, k - 1, Append(found, all[Best(all)].path), Front([all EXCEPT ![Best(all)] = Last(all)]))
Yen(r, dst, k, found, cand) == IF k = 0 THEN found ELSE YenTake(r, dst, k, found, Spurs(r, dst, found, cand))

KShortest(r, src, dst, k) ==
    LET first == Masked(r, src, dst, {}, {}) IN IF first.cost >= Inf THEN <<>> ELSE Yen(r, dst, k - 1, <<first.path>>, <<>>)

-----------------------------------------------------------------------------
(* exec_topsort: Kahn's algorithm; <<>> stands for the cycle error.         *)
RECURSIVE Kahn(_, _, _, _)
Kahn(r, deg, queue, order) ==
    IF queue = <<>> THEN order
    ELSE LET drop(acc, u) == [deg |-> [acc.deg EXCEPT ![u] = @ - 1],
                              queue |-> IF acc.deg[u] = 1 THEN Append(acc.queue, u) ELSE acc.queue]
             s == FoldLeft(drop, [deg |-> deg, queue |-> Tail(queue)], Nbrs(r.fwd, Head(queue)))
         IN Kahn(r, s.deg, s.queue, Append(order, Head(queue)))

TopSort(r) ==
    LET deg == [v \in Nodes(r) |-> Degree(r.rev, v)]
        order == Kahn(r, deg, SelectSeq([i \in 1 .. r.n |-> i - 1], LAMBDA v : deg[v] = 0), <<>>)
    IN IF Len(order) < r.n THEN <<>> ELSE order

(* exec_dfs: a stack of <<node, depth, parent>>, pushed in reverse order.   *)
RECURSIVE DfsLoop(_, _, _, _, _)
DfsLoop(r, max, stack, visited, out) ==
    IF stack = <<>> THEN out
    ELSE LET x == Last(stack)
             v == x[1]
             new == SelectSeq(Reverse(Nbrs(r.fwd, v)), LAMBDA u : u \notin visited \cup {v})
             pushed == IF x[2] < max THEN [i \in DOMAIN new |-> <<new[i], x[2] + 1, v>>] ELSE <<>>
         IN IF v \in visited THEN DfsLoop(r, max, Front(stack), visited, out)
            ELSE DfsLoop(r, max, Front(stack) \o pushed, visited \cup {v}, Append(out, x))

Dfs(r, src, max) == DfsLoop(r, max, <<<<src, 0, -1>>>>, {}, <<>>)

-----------------------------------------------------------------------------
(* exec_mst: Kruskal with union by rank and path halving; uf holds parents  *)
(* and ranks.                                                               *)
RECURSIVE UfFind(_, _)
UfFind(parent, x) ==
    IF parent[x] = x THEN <<parent, x>>
    ELSE LET half == [parent EXCEPT ![x] = parent[parent[x]]] IN UfFind(half, half[x])

UfUnion(uf, a, b) ==
    LET fa == UfFind(uf.parent, a)
        fb == UfFind(fa[1], b)
        lo == IF uf.rank[fa[2]] < uf.rank[fb[2]] THEN fa[2] ELSE fb[2]
        hi == IF lo = fa[2] THEN fb[2] ELSE fa[2]
    IN IF fa[2] = fb[2] THEN [uf EXCEPT !.parent = fb[1], !.joined = FALSE]
       ELSE [parent |-> [fb[1] EXCEPT ![lo] = hi], joined |-> TRUE,
             rank |-> [uf.rank EXCEPT ![hi] = IF uf.rank[hi] = uf.rank[lo] THEN @ + 1 ELSE @]]

MstOrder(r) == SortSeq(r.fwd.edges, LAMBDA a, b : Lex(<<r.e[a.row][3], a.row>>, <<r.e[b.row][3], b.row>>))

Mst(r) ==
    LET add(acc, x) ==
            LET uf == UfUnion(acc.uf, x.key, x.tgt)
            IN IF Len(acc.rows) < r.n - 1 THEN [uf |-> uf, rows |-> IF uf.joined THEN Append(acc.rows, x.row) ELSE acc.rows]
               ELSE acc
        none == [parent |-> [v \in Nodes(r) |-> v], rank |-> [v \in Nodes(r) |-> 0], joined |-> FALSE]
    IN FoldLeft(add, [uf |-> none, rows |-> <<>>], MstOrder(r)).rows

-----------------------------------------------------------------------------
(* exec_betweenness: Brandes, over both directions; an edge that is there   *)
(* both ways counts once.  Fractions are in units of 1/Unit.                *)
Unit == 36

(* The neighbours of v one level further from the source, as often as the   *)
(* passes count them.                                                       *)
Onward(r, dist, v) ==
    LET far(s) == SelectSeq(s, LAMBDA w : dist[w] = dist[v] + 1)
        f == far(Nbrs(r.fwd, v))
    IN f \o SelectSeq(far(Nbrs(r.rev, v)), LAMBDA w : w \notin ToSet(f))

Brandes(r, s) ==
    LET ls == Levels(r, 2, <<s>>, {s}, r.n)
        order == <<s>> \o FlattenSeq([d \in DOMAIN ls |-> Firsts(ls[d])])
        dist == [v \in Nodes(r) |-> IF v = s THEN 0 ELSE IF v \in ToSet(order) THEN CHOOSE d \in DOMAIN ls : v \in ToSet(Firsts(ls[d])) ELSE -1]
        count(sig, v) == FoldLeft(LAMBDA a, w : [a EXCEPT ![w] = @ + sig[v]], sig, Onward(r, dist, v))
        sigma == FoldLeft(count, [v \in Nodes(r) |-> IF v = s THEN 1 ELSE 0], order)
        depend(delta, w) == [v \in Nodes(r) |-> delta[v] +
            Len(SelectSeq(Onward(r, dist, v), LAMBDA x : x = w)) * ((sigma[v] * (Unit + delta[w])) \div sigma[w])]
        back(delta, w) == IF dist[w] < 1 THEN delta ELSE depend(delta, w)
    IN FoldLeft(back, [v \in Nodes(r) |-> 0], Reverse(order))

Betweenness(r) ==
    [v \in Nodes(r) |-> FoldLeft(LAMBDA a, s : IF s = v THEN a ELSE a + Brandes(r, s)[v], 0, Sampled(r.n, 0)) \div 2]

-----------------------------------------------------------------------------
(* exec_louvain: nodes in order move to the neighbouring community with the *)
(* largest gain, if it is positive.                                         *)
Gain(r, com, v, c) ==
    LET deg(u) == Degree(r.fwd, u) + Degree(r.rev, u)
        tot == FoldLeft(LAMBDA a, u : IF com[u] = c THEN a + deg(u) ELSE a, 0, [i \in 1 .. r.n |-> i - 1])
        two == 2 * Len(r.e)
    IN Len(SelectSeq(AllNbrs(r, 2, v), LAMBDA u : com[u] = c)) * two - tot * deg(v)

Moved(r, com, v) ==
    LET near == SelectSeq(AllNbrs(r, 2, v), LAMBDA u : com[u] # com[v])
        better(best, u) == IF Gain(r, com, v, com[u]) > best[2] THEN <<com[u], Gain(r, com, v, com[u])>> ELSE best
    IN [com EXCEPT ![v] = FoldLeft(better, <<com[v], 0>>, near)[1]]

RECURSIVE Passes(_, _, _)
Passes(r, com, left) ==
    LET next == FoldLeft(LAMBDA c, v : Moved(r, c, v), com, [i \in 1 .. r.n |-> i - 1])
    IN IF left = 0 \/ next = com THEN com ELSE Passes(r, next, left - 1)

(* Communities are numbered by their first nodes.                           *)
Louvain(r, iters) ==
    LET com == Passes(r, [v \in Nodes(r) |-> v], iters)
        first(v) == Min({u \in Nodes(r) : com[u] = com[v]})
    IN [v \in Nodes(r) |-> Cardinality({com[u] : u \in 0 .. first(v) - 1})]

-----------------------------------------------------------------------------
(* lftj.c.  An iterator is a sorted list and a position in it.              *)
Key(it) == it.list[it.pos]
AtEnd(it) == it.pos > Len(it.list)
Seek(it, x) == [it EXCEPT !.pos = Min({i \in it.pos .. Len(it.list) + 1 : i > Len(it.list) \/ it.list[i] >= x})]

Agree(its, k, x) == \A i \in DOMAIN its : Key(its[i]) = x

(* leapfrog_search: seek the next iterator to the largest key.  None of the *)
(* iterators is at its end.                                                 *)
RECURSIVE Leapfrog(_, _)
Leapfrog(its, m) ==
    LET next == (m % Len(its)) + 1
        x == Key(its[m])
        moved == [its EXCEPT ![next] = Seek(@, x)]
    IN IF AtEnd(moved[next]) THEN <<>>
       ELSE IF Key(moved[next]) = x /\ Agree(moved, next, x) THEN moved
       ELSE Leapfrog(moved, next)

LeapfrogSearch(its) ==
    IF \E i \in DOMAIN its : AtEnd(its[i]) THEN <<>>
    ELSE Leapfrog(its, CHOOSE m \in DOMAIN its : \A i \in DOMAIN its :
                           Key(its[i]) < Key(its[m]) \/ (Key(its[i]) = Key(its[m]) /\ m <= i))

(* lftj_build_plan: a relation binds the later of its two variables.        *)
Bindings(ends, d) ==
    SelectSeq([i \in DOMAIN ends |->
                  IF ends[i][1] < ends[i][2] THEN [var |-> ends[i][2], bound |-> ends[i][1], fwd |-> TRUE]
                                             ELSE [var |-> ends[i][1], bound |-> ends[i][2], fwd |-> FALSE]],
              LAMBDA b : b.var = d)

(* lftj_build_default_plan: triangle, parallel, 4-clique, chain.            *)
DefaultPlan(vars, rels) ==
    CASE vars = 3 /\ rels = 3 -> <<<<1, 2>>, <<2, 3>>, <<1, 3>>>>
      [] vars = 2 -> [i \in 1 .. rels |-> <<1, 2>>]
      [] vars = 4 /\ rels = 6 -> <<<<1, 2>>, <<1, 3>>, <<1, 4>>, <<2, 3>>, <<2, 4>>, <<3, 4>>>>
      [] OTHER -> [i \in 1 .. rels |-> <<i, i + 1>>]

(* lftj_enumerate: bind the variables in order, each to the values that all *)
(* its bindings share.                                                      *)
RECURSIVE Matches(_)
Matches(its) ==
    LET hit == LeapfrogSearch(its)
    IN IF hit = <<>> THEN <<>>
       ELSE <<Key(hit[1])>> \o Matches([i \in DOMAIN hit |-> [hit[i] EXCEPT !.pos = @ + 1]])

RECURSIVE Enumerate(_, _, _, _)
Enumerate(r, plan, vars, bound) ==
    LET bs == Bindings(plan, Len(bound) + 1)
        its == [i \in DOMAIN bs |-> [list |-> Nbrs(IF bs[i].fwd THEN r.fwd ELSE r.rev, bound[bs[i].bound]), pos |-> 1]]
        values == IF bound = <<>> THEN [i \in 1 .. r.n |-> i - 1] ELSE Matches(its)
    IN IF Len(bound) = vars THEN <<bound>>
       ELSE FlattenSeq([i \in DOMAIN values |-> Enumerate(r, plan, vars, Append(bound, values[i]))])

(* exec_wco_join of one relation with itself.                               *)
WcoJoin(r, vars, rels) == Enumerate(r, DefaultPlan(vars, rels), vars, <<>>)
=============================================================================
