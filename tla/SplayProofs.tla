---------------------------- MODULE SplayProofs ----------------------------
(***************************************************************************)
(* Splayed tables over a shared symfile, for any number of processes,      *)
(* tables, symbols and saves, with failing calls, deaths of processes and  *)
(* bulk saves, and without power losses: symbol columns mean what was      *)
(* saved, loads return it or fail, and acknowledged saves stay.            *)
(***************************************************************************)
EXTENDS Splay, FiniteSetTheorems, SequenceTheorems, TLAPS

\* Where a call may be.
Flushing == {"verify", "rename", "symdir"}
Interned == {"flush"} \cup Flushing
Writing == {"write", "dirsync"}
Saving == {"open"} \cup Interned \cup Writing
Reading == {"schema", "column"}
Labels == {"idle", "loaddom"} \cup Saving \cup Reading

\* The values of the variables.
Names == {"s", "v", ".d"}
Todos == {<<"s", "v", ".d">>, <<"v", ".d">>, <<".d">>, <<>>}
Saves == [t : Tables, cols : ColumnSets, row : Seq(Syms)]
SaveJobs == [kind : {"save"}, t : Tables, gen : Nat, durable : BOOLEAN, todo : Todos]
LoadJobs == [kind : {"load"}, ts : Seq(Tables), todo : Seq({"s", "v"}), len : Nat, hasdom : BOOLEAN]
Jobs == {NoJob} \cup SaveJobs \cup LoadJobs
Cells == [gen : Nat, t : Tables, c : {"s", "v"}, row : Seq(Syms \cup {None})]
Objects == {None} \cup Domains

Shapes ==
    /\ world \in Worlds /\ vis = [f \in Files |-> vis[f]] /\ \A f \in Files : may[f] # {}
    /\ dom \in [Procs -> Objects] /\ lock \in Procs \cup {None}
    /\ pc \in [Procs -> Labels] /\ job \in [Procs -> Jobs] /\ got \in [Procs -> Seq(Cells)]
    /\ saved \in Seq(Saves) /\ acked \in [Tables -> Nat]

\* The symbols of the symfile, with the file system as an argument.
Disk(v) == IF v[Sym] \in {None, Torn} THEN <<>> ELSE v[Sym]

\* An object of the symfile whose symbols are D: what it believes to be on disk
\* is there.
DomOK(d, D) ==
    /\ d \in Domains /\ d.base <= d.disk /\ d.disk <= Len(d.syms) /\ IsInjective(d.syms)
    /\ d.disk <= Len(D) /\ \A i \in 1 .. d.disk : d.syms[i] = D[i]

\* The files of a table say what was saved.
Of(x, sv, t) == x.gen \in 1 .. Len(sv) /\ sv[x.gen].t = t
ColOK(x, D, sv, t) ==
    /\ x \in SymColumns /\ Of(x, sv, t) /\ x.cnt <= Len(D)
    /\ DOMAIN x.pos = DOMAIN sv[x.gen].row
    /\ \A i \in DOMAIN x.pos : x.pos[i] \in 1 .. x.cnt /\ D[x.pos[i]] = sv[x.gen].row[i]
PlainOK(x, sv, t) == x \in Plains /\ Of(x, sv, t)
SchemaOK(x, sv, t) == x \in Schemas /\ Of(x, sv, t) /\ x.cols = sv[x.gen].cols

\* Files cs of table t are there, of save g or later.
Since(v, t, cs, g) == \A c \in cs : v[File(t, c)] # None /\ v[File(t, c)].gen >= g

\* The files of t are right, the columns of its schema are there, and so are the
\* files of save a, the last one acknowledged.
TableOK(v, sv, a, t) ==
    /\ v[File(t, "s")] = None \/ ColOK(v[File(t, "s")], Disk(v), sv, t)
    /\ v[File(t, "v")] = None \/ PlainOK(v[File(t, "v")], sv, t)
    /\ v[File(t, ".d")] = None \/ SchemaOK(v[File(t, ".d")], sv, t)
    /\ v[File(t, ".d")] # None => Since(v, t, v[File(t, ".d")].cols, v[File(t, ".d")].gen)
    /\ a # 0 => a \in 1 .. Len(sv) /\ Since(v, t, sv[a].cols \cup {".d"}, a)
TablesOK(v, sv, ak) == \A t \in Tables : TableOK(v, sv, ak[t], t)
SymfileOK(v) == v[Sym] = None \/ (v[Sym] \in Seq(Syms) /\ IsInjective(v[Sym]))

\* A save j at l: the files it has written are of this save, and no file of the
\* table is of a later one.
Written(l, j) == {c \in Names : c \notin ToSet(j.todo) \/ (l = "dirsync" /\ c = Head(j.todo))}
ProgressOK(l, j, v, sv) ==
    /\ \A c \in Names : v[File(j.t, c)] = None \/ v[File(j.t, c)].gen <= j.gen
    /\ \A c \in (sv[j.gen].cols \cup {".d"}) \cap Written(l, j) : v[File(j.t, c)] # None /\ v[File(j.t, c)].gen = j.gen
    /\ "s" \in ToSet(j.todo) => "s" \in sv[j.gen].cols
    /\ l = "dirsync" => j.todo # <<>>

\* What its domain object has: every symbol to be written, and at the steps of
\* the flush what the file has.
InternedOK(l, j, d, v, sv) ==
    /\ d # None /\ ToSet(sv[j.gen].row) \subseteq ToSet(d.syms)
    /\ l = "rename" => Len(Disk(v)) = d.disk
    /\ l = "symdir" => Disk(v) = d.syms
    /\ l \in Writing => Flushed(d)

SaveOK(p, l, j, d, v, sv, wr) ==
    /\ j \in SaveJobs /\ Of(j, sv, j.t) /\ wr[j.t] = p
    /\ ProgressOK(l, j, v, sv)
    /\ l \notin Writing => "s" \in sv[j.gen].cols
    /\ l # "open" /\ "s" \in sv[j.gen].cols => InternedOK(l, j, d, v, sv)

CellOK(x, d, sv) ==
    /\ Of(x, sv, x.t)
    /\ x.c = "s" => d # None /\ (Flushed(d) => x.row = sv[x.gen].row)

LoadOK(j, d) == j \in LoadJobs /\ j.ts # <<>> /\ (j.hasdom => d # None)
GotOK(l, g, d, sv) ==
    /\ l \notin Reading => g = <<>>
    /\ \A i \in DOMAIN g : CellOK(g[i], d, sv)

ProcOK(p, l, j, d, g, v, sv, wr) ==
    /\ d = None \/ DomOK(d, Disk(v))
    /\ l \in Saving => SaveOK(p, l, j, d, v, sv, wr)
    /\ l \in {"loaddom"} \cup Reading => LoadOK(j, d)
    /\ GotOK(l, g, d, sv)

\* The lock is held at the steps under it, and only there.
LocksOK == \A p \in Procs : lock = p <=> pc[p] \in Flushing

\* The inductive invariant.
SplayInv ==
    /\ Shapes
    /\ SymfileOK(vis) /\ TablesOK(vis, saved, acked) /\ LocksOK
    /\ \A p \in Procs : ProcOK(p, pc[p], job[p], dom[p], got[p], vis, saved, world.writer)

\* No power losses in this deployment.
NoPower == "power" \notin world.faults

-----------------------------------------------------------------------------
(* Files and sequences.                                                    *)

LEMMA FileFacts ==
    /\ Sym \in Files
    /\ \A t \in Tables, c \in Names : File(t, c) \in Files /\ File(t, c) # Sym
    /\ \A t, u \in Tables, c, d \in Names : File(t, c) = File(u, d) => t = u /\ c = d
BY DEF Files, File, Sym, Names

LEMMA DiskIsOnDisk == OnDisk = Disk(vis)
BY DEF OnDisk, Disk

LEMMA DiskSeq ==
    ASSUME NEW v, SymfileOK(v)
    PROVE  Disk(v) \in Seq(Syms) /\ IsInjective(Disk(v))
<1>1. CASE v[Sym] \in {None, Torn}
  <2>1. Disk(v) = <<>>
    BY <1>1 DEF Disk
  <2> QED BY <2>1 DEF IsInjective
<1>2. CASE v[Sym] \notin {None, Torn}
  BY <1>2 DEF Disk, SymfileOK
<1> QED BY <1>1, <1>2

\* How the symfile changes: symbols are appended.
Grows(D, E) == Len(D) <= Len(E) /\ \A i \in 1 .. Len(D) : E[i] = D[i]

LEMMA DomGrows ==
    ASSUME NEW D \in Seq(Syms), NEW E \in Seq(Syms), Grows(D, E), NEW d, DomOK(d, D)
    PROVE  DomOK(d, E)
<1>1. d \in Domains /\ d.disk \in Nat /\ d.disk <= Len(D) /\ Len(D) <= Len(E)
  BY DEF DomOK, Domains, Grows
<1>2. Len(D) \in Nat /\ Len(E) \in Nat
  OBVIOUS
<1>3. d.disk <= Len(E)
  BY <1>1, <1>2
<1>4. \A i \in 1 .. d.disk : i \in 1 .. Len(D)
  BY <1>1, <1>2
<1>5. \A i \in 1 .. d.disk : d.syms[i] = E[i]
  BY <1>4 DEF DomOK, Grows
<1> QED BY <1>3, <1>5 DEF DomOK

LEMMA ColGrows ==
    ASSUME NEW D \in Seq(Syms), NEW E \in Seq(Syms), Grows(D, E), NEW x, NEW sv, NEW t, ColOK(x, D, sv, t)
    PROVE  ColOK(x, E, sv, t)
<1>1. x.cnt \in Nat /\ x.cnt <= Len(D) /\ Len(D) <= Len(E)
  BY DEF ColOK, SymColumns, Grows
<1>2. Len(D) \in Nat /\ Len(E) \in Nat
  OBVIOUS
<1>3. x.cnt <= Len(E)
  BY <1>1, <1>2
<1>4. \A k \in 1 .. x.cnt : k \in 1 .. Len(D)
  BY <1>1, <1>2
<1>5. \A i \in DOMAIN x.pos : E[x.pos[i]] = sv[x.gen].row[i]
  BY <1>4 DEF ColOK, Grows
<1> QED BY <1>3, <1>5 DEF ColOK

LEMMA PositionFacts ==
    ASSUME NEW s \in Seq(Syms), NEW x \in ToSet(s)
    PROVE  Position(s, x) \in 1 .. Len(s) /\ s[Position(s, x)] = x
<1>1. \E i \in DOMAIN s : s[i] = x
  BY DEF ToSet
<1>2. DOMAIN s = 1 .. Len(s)
  OBVIOUS
<1> QED BY <1>1, <1>2 DEF Position

LEMMA MergedFacts ==
    ASSUME NEW old \in Seq(Syms), IsInjective(old), NEW row \in Seq(Syms), NEW s \in Merged(old, row)
    PROVE  /\ s \in Seq(Syms) /\ IsInjective(s) /\ Grows(old, s)
           /\ ToSet(row) \subseteq ToSet(s)
<1> DEFINE new == ToSet(row) \ ToSet(old)
<1>1. IsFiniteSet(ToSet(row))
  <2>1. row \in Surjection(1 .. Len(row), ToSet(row))
    BY DEF ToSet, Surjection
  <2>2. IsFiniteSet(1 .. Len(row))
    BY FS_Interval
  <2> QED BY <2>1, <2>2, FS_Surjection
<1>2. Cardinality(new) \in Nat
  BY <1>1, FS_Difference, FS_CardinalityType
<1>3. PICK n \in [1 .. Cardinality(new) -> new] :
          /\ s = old \o n /\ new \subseteq ToSet(n)
          /\ \A i, j \in DOMAIN n : i < j =>
                 \E k \in DOMAIN row : row[k] = n[i] /\ \A h \in 1 .. k : row[h] # n[j]
  BY DEF Merged
<1> DEFINE m == Cardinality(new)
<1>4. new \subseteq Syms
  BY DEF ToSet
<1> HIDE DEF new
<1>5. n \in Seq(Syms) /\ Len(n) = m /\ DOMAIN n = 1 .. m
  BY <1>2, <1>4
<1>6. \A i, j \in 1 .. m : i < j => n[i] # n[j]
  BY <1>3, <1>5
<1>7. \A i \in 1 .. Len(old), j \in 1 .. m : old[i] # n[j]
  <2>1. \A j \in 1 .. m : n[j] \in new
    OBVIOUS
  <2>2. \A i \in 1 .. Len(old) : old[i] \in ToSet(old)
    BY DEF ToSet
  <2> QED BY <2>1, <2>2 DEF new
<1> HIDE DEF m
<1>8. /\ s \in Seq(Syms) /\ Len(s) = Len(old) + m
      /\ \A i \in 1 .. Len(s) : s[i] = IF i <= Len(old) THEN old[i] ELSE n[i - Len(old)]
  BY <1>3, <1>5, ConcatProperties
<1>9. m \in Nat /\ Len(old) \in Nat
  BY <1>2 DEF m
<1>10. IsInjective(s)
  <2> SUFFICES ASSUME NEW a \in 1 .. Len(s), NEW b \in 1 .. Len(s), a < b, s[a] = s[b]
               PROVE  FALSE
    <3>1. DOMAIN s = 1 .. Len(s)
      BY <1>8
    <3> QED BY <1>8, <1>9, <3>1 DEF IsInjective
  <2>1. CASE b <= Len(old)
    <3>1. a \in DOMAIN old /\ b \in DOMAIN old /\ a # b
      BY <1>9, <2>1
    <3>2. s[a] = old[a] /\ s[b] = old[b]
      BY <1>8, <1>9, <2>1
    <3>3. old[a] # old[b]
      BY ONLY <3>1, IsInjective(old) DEF IsInjective
    <3> QED BY <3>2, <3>3
  <2>2. CASE a <= Len(old) /\ ~(b <= Len(old))
    <3>1. a \in 1 .. Len(old) /\ b - Len(old) \in 1 .. m
      BY <1>8, <1>9, <2>2
    <3> QED BY <1>7, <1>8, <2>2, <3>1
  <2>3. CASE ~(a <= Len(old))
    <3>1. /\ a - Len(old) \in 1 .. m /\ b - Len(old) \in 1 .. m
          /\ a - Len(old) < b - Len(old) /\ ~(b <= Len(old))
      BY <1>8, <1>9, <2>3
    <3> QED BY <1>6, <1>8, <2>3, <3>1
  <2> QED BY <1>9, <2>1, <2>2, <2>3
<1>11. Grows(old, s)
  <2>1. Len(old) <= Len(s) /\ \A i \in 1 .. Len(old) : i \in 1 .. Len(s) /\ i <= Len(old)
    BY <1>8, <1>9
  <2> QED BY <1>8, <2>1 DEF Grows
<1>12. ASSUME NEW x \in ToSet(row) PROVE x \in ToSet(s)
  <2>1. CASE x \in ToSet(old)
    <3>1. PICK i \in 1 .. Len(old) : old[i] = x
      BY <2>1 DEF ToSet
    <3>2. i \in DOMAIN s /\ s[i] = x
      BY <1>8, <1>9, <3>1
    <3> QED BY <3>2 DEF ToSet
  <2>2. CASE x \notin ToSet(old)
    <3>1. x \in ToSet(n)
      BY <1>3, <2>2 DEF new
    <3>2. PICK i \in 1 .. m : n[i] = x
      BY <1>5, <3>1 DEF ToSet
    <3>3. Len(old) + i \in 1 .. Len(s) /\ ~(Len(old) + i <= Len(old)) /\ (Len(old) + i) - Len(old) = i
      BY <1>8, <1>9
    <3>4. s[Len(old) + i] = x
      BY <1>8, <3>2, <3>3
    <3>5. Len(old) + i \in DOMAIN s
      BY <1>8, <3>3
    <3> QED BY <3>4, <3>5 DEF ToSet
  <2> QED BY <2>1, <2>2
<1> QED BY <1>8, <1>10, <1>11, <1>12

-----------------------------------------------------------------------------
(* A step of one process leaves the others as they are.                    *)

LEMMA Step1 ==
    ASSUME SplayInv, NEW p \in Procs,
           NEW l \in Labels, NEW j \in Jobs, NEW d \in Objects, NEW g \in Seq(Cells),
           pc' = [pc EXCEPT ![p] = l], job' = [job EXCEPT ![p] = j],
           dom' = [dom EXCEPT ![p] = d], got' = [got EXCEPT ![p] = g],
           world' = world, may' = may, vis' = [f \in Files |-> vis'[f]],
           lock' \in Procs \cup {None}, saved' \in Seq(Saves), acked' \in [Tables -> Nat],
           SymfileOK(vis'), TablesOK(vis', saved', acked'),
           \A q \in Procs : lock' = q <=> pc'[q] \in Flushing,
           ProcOK(p, l, j, d, g, vis', saved', world.writer),
           \A q \in Procs \ {p} : ProcOK(q, pc[q], job[q], dom[q], got[q], vis', saved', world.writer)
    PROVE  SplayInv'
<1>1. Shapes
  BY DEF SplayInv
<1>2. /\ pc' \in [Procs -> Labels] /\ job' \in [Procs -> Jobs]
      /\ dom' \in [Procs -> Objects] /\ got' \in [Procs -> Seq(Cells)]
  BY <1>1 DEF Shapes
<1>3. Shapes'
  BY <1>1, <1>2 DEF Shapes
<1>4. /\ pc'[p] = l /\ job'[p] = j /\ dom'[p] = d /\ got'[p] = g
      /\ \A q \in Procs \ {p} : pc'[q] = pc[q] /\ job'[q] = job[q] /\ dom'[q] = dom[q] /\ got'[q] = got[q]
  BY <1>1 DEF Shapes
<1>5. \A q \in Procs : ProcOK(q, pc'[q], job'[q], dom'[q], got'[q], vis', saved', world'.writer)
  BY <1>4
<1>6. LocksOK'
  BY DEF LocksOK
<1> QED BY <1>3, <1>5, <1>6 DEF SplayInv

\* A step that leaves the files alone.
LEMMA Local ==
    ASSUME SplayInv, NEW p \in Procs,
           NEW l \in Labels, NEW j \in Jobs, NEW d \in Objects, NEW g \in Seq(Cells),
           pc' = [pc EXCEPT ![p] = l], job' = [job EXCEPT ![p] = j],
           dom' = [dom EXCEPT ![p] = d], got' = [got EXCEPT ![p] = g],
           UNCHANGED <<world, may, vis, saved, acked>>,
           lock' = lock \/ lock' \in {p, None}, lock \in {lock', p, None}, lock' = p <=> l \in Flushing,
           ProcOK(p, l, j, d, g, vis, saved, world.writer)
    PROVE  SplayInv'
<1>1. /\ Shapes /\ LocksOK /\ SymfileOK(vis) /\ TablesOK(vis, saved, acked)
      /\ \A q \in Procs : ProcOK(q, pc[q], job[q], dom[q], got[q], vis, saved, world.writer)
  BY DEF SplayInv
<1>2. /\ vis = [f \in Files |-> vis[f]] /\ saved \in Seq(Saves) /\ acked \in [Tables -> Nat]
      /\ lock \in Procs \cup {None} /\ pc \in [Procs -> Labels]
  BY <1>1 DEF Shapes
<1>3. lock' \in Procs \cup {None}
  BY <1>2
<1>4. \A q \in Procs : lock' = q <=> pc'[q] \in Flushing
  <2> TAKE q \in Procs
  <2>1. CASE q = p
    BY <1>2, <2>1
  <2>2. CASE q # p
    <3>1. pc'[q] = pc[q]
      BY <1>2, <2>2
    <3>2. q # None
      BY Sentinels
    <3>3. lock' = q <=> lock = q
      BY <2>2, <3>2
    <3> QED BY <1>1, <3>1, <3>3 DEF LocksOK
  <2> QED BY <2>1, <2>2
<1> QED BY <1>1, <1>2, <1>3, <1>4, Step1

LEMMA Parts ==
    ASSUME SplayInv, NEW p \in Procs
    PROVE  /\ pc[p] \in Labels /\ job[p] \in Jobs /\ dom[p] \in Objects /\ got[p] \in Seq(Cells)
           /\ pc = [pc EXCEPT ![p] = pc[p]] /\ job = [job EXCEPT ![p] = job[p]]
           /\ dom = [dom EXCEPT ![p] = dom[p]] /\ got = [got EXCEPT ![p] = got[p]]
           /\ lock = p <=> pc[p] \in Flushing
           /\ dom[p] = None \/ DomOK(dom[p], OnDisk)
           /\ pc[p] \in Saving => SaveOK(p, pc[p], job[p], dom[p], vis, saved, world.writer)
           /\ pc[p] \in {"loaddom"} \cup Reading => LoadOK(job[p], dom[p])
           /\ GotOK(pc[p], got[p], dom[p], saved)
<1>1. Shapes /\ LocksOK /\ ProcOK(p, pc[p], job[p], dom[p], got[p], vis, saved, world.writer)
  BY DEF SplayInv
<1>2. /\ pc[p] \in Labels /\ job[p] \in Jobs /\ dom[p] \in Objects /\ got[p] \in Seq(Cells)
      /\ pc = [pc EXCEPT ![p] = pc[p]] /\ job = [job EXCEPT ![p] = job[p]]
      /\ dom = [dom EXCEPT ![p] = dom[p]] /\ got = [got EXCEPT ![p] = got[p]]
  BY <1>1 DEF Shapes
<1>3. lock = p <=> pc[p] \in Flushing
  BY <1>1 DEF LocksOK
<1> QED BY <1>1, <1>2, <1>3, DiskIsOnDisk DEF ProcOK

\* The call returns, or the process dies: nothing is in progress.
LEMMA IdleOK ==
    ASSUME SplayInv, NEW p \in Procs, NEW j, NEW d, d = dom[p] \/ d = None
    PROVE  ProcOK(p, "idle", j, d, <<>>, vis, saved, world.writer)
<1>1. d = None \/ DomOK(d, Disk(vis))
  BY Parts, DiskIsOnDisk
<1>2. GotOK("idle", <<>>, d, saved)
  BY DEF GotOK, Reading
<1>3. "idle" \notin Saving /\ "idle" \notin {"loaddom"} \cup Reading
  BY DEF Saving, Interned, Flushing, Writing, Reading
<1> QED BY <1>1, <1>2, <1>3 DEF ProcOK

LEMMA ReturnStep ==
    ASSUME SplayInv, NEW p \in Procs, Return(p), UNCHANGED dom, got' = [got EXCEPT ![p] = <<>>],
           lock = p => lock' = None, lock # p => lock' = lock,
           UNCHANGED <<world, may, vis, saved, acked>>
    PROVE  SplayInv'
<1>1. "idle" \in Labels /\ NoJob \in Jobs /\ <<>> \in Seq(Cells) /\ "idle" \notin Flushing
  BY DEF Labels, Jobs, Flushing
<1>2. ProcOK(p, "idle", NoJob, dom[p], <<>>, vis, saved, world.writer)
  BY IdleOK
<1>3. lock' # p
  BY Sentinels
<1>4. dom[p] \in Objects /\ dom' = [dom EXCEPT ![p] = dom[p]]
  BY Parts
<1>5. pc' = [pc EXCEPT ![p] = "idle"] /\ job' = [job EXCEPT ![p] = NoJob]
  BY DEF Return
<1> QED BY <1>1, <1>2, <1>3, <1>4, <1>5, Local

LEMMA SavedFacts ==
    ASSUME SplayInv, NEW g \in 1 .. Len(saved)
    PROVE  saved[g].row \in Seq(Syms) /\ saved[g].cols \in ColumnSets /\ saved[g].t \in Tables
<1>1. saved \in Seq(Saves)
  BY DEF SplayInv, Shapes
<1>2. saved[g] \in Saves
  BY <1>1
<1> QED BY <1>2 DEF Saves

LEMMA NothingGot ==
    ASSUME SplayInv, NEW p \in Procs, pc[p] \notin Reading
    PROVE  got[p] = <<>> /\ got = [got EXCEPT ![p] = <<>>]
<1>1. got[p] = <<>>
  BY Parts DEF GotOK
<1> QED BY <1>1, Parts

-----------------------------------------------------------------------------
(* Opening and flushing the symfile.                                       *)

LEMMA OpenedOK ==
    ASSUME SplayInv, NEW p \in Procs
    PROVE  /\ DomOK(Opened(p), OnDisk) /\ Opened(p) \in Objects /\ Opened(p) # None
           /\ Opened(p).syms \in Seq(Syms) /\ IsInjective(Opened(p).syms)
<1>1. DomOK(Opened(p), OnDisk)
  <2>1. CASE Current(p)
    <3>1. dom[p] # None /\ Opened(p) = dom[p]
      BY <2>1 DEF Current, Opened
    <3> QED BY <3>1, Parts
  <2>2. CASE ~Current(p)
    <3>1. OnDisk \in Seq(Syms) /\ IsInjective(OnDisk)
      BY DiskSeq, DiskIsOnDisk DEF SplayInv
    <3>2. Opened(p) = [syms |-> OnDisk, disk |-> Len(OnDisk), base |-> Len(OnDisk)]
      BY <2>2 DEF Opened
    <3>3. Len(OnDisk) \in Nat
      BY <3>1
    <3> QED BY <3>1, <3>2, <3>3 DEF DomOK, Domains
  <2> QED BY <2>1, <2>2
<1>2. Opened(p) \in Domains
  BY <1>1 DEF DomOK
<1>3. Opened(p).syms \in Seq(Syms) /\ IsInjective(Opened(p).syms)
  BY <1>1, <1>2 DEF DomOK, Domains
<1> QED BY <1>1, <1>2, <1>3, Sentinels DEF Objects

LEMMA SaveOpenStep ==
    ASSUME SplayInv, NEW p \in Procs, SaveOpen(p)
    PROVE  SplayInv'
<1> DEFINE j == job[p] row == saved[j.gen].row o == Opened(p)
<1>1. pc[p] = "open" /\ pc[p] \in Saving /\ pc[p] \notin Writing /\ pc[p] \notin Reading /\ pc[p] \notin Flushing
  BY DEF SaveOpen, Saving, Writing, Interned, Flushing, Reading
<1>2. PICK syms \in Merged(o.syms, row) : dom' = [dom EXCEPT ![p] = [o EXCEPT !.syms = syms]]
  BY DEF SaveOpen
<1>3. SaveOK(p, "open", j, dom[p], vis, saved, world.writer)
  BY <1>1, Parts
<1>4. /\ j \in SaveJobs /\ Of(j, saved, j.t) /\ world.writer[j.t] = p
      /\ ProgressOK("open", j, vis, saved) /\ "s" \in saved[j.gen].cols
  BY <1>1, <1>3 DEF SaveOK
<1>5. row \in Seq(Syms)
  BY <1>4, SavedFacts DEF Of
<1> DEFINE d == [o EXCEPT !.syms = syms]
<1>6. DomOK(o, OnDisk) /\ o.syms \in Seq(Syms) /\ IsInjective(o.syms)
  BY OpenedOK
<1>7. /\ syms \in Seq(Syms) /\ IsInjective(syms) /\ Grows(o.syms, syms)
      /\ ToSet(row) \subseteq ToSet(syms)
  BY <1>2, <1>5, <1>6, MergedFacts
<1> HIDE DEF o, row
<1>8. o \in Domains /\ o.disk \in Nat /\ o.base \in Nat /\ o.base <= o.disk /\ o.disk <= Len(o.syms)
      /\ o.disk <= Len(OnDisk) /\ \A i \in 1 .. o.disk : o.syms[i] = OnDisk[i]
  BY <1>6 DEF DomOK, Domains
<1>9. d \in Domains /\ d.syms = syms /\ d.disk = o.disk /\ d.base = o.base
  BY <1>7, <1>8 DEF Domains
<1> HIDE DEF d
<1>10. DomOK(d, OnDisk)
  <2>1. Len(o.syms) \in Nat /\ Len(syms) \in Nat
    BY <1>6, <1>7
  <2>2. o.disk <= Len(syms)
    BY <1>7, <1>8, <2>1 DEF Grows
  <2>3. \A i \in 1 .. o.disk : i \in 1 .. Len(o.syms)
    BY <1>8, <2>1
  <2>4. \A i \in 1 .. o.disk : syms[i] = OnDisk[i]
    BY <1>7, <1>8, <2>3 DEF Grows
  <2> QED BY <1>7, <1>8, <1>9, <2>2, <2>4 DEF DomOK
<1>11. d # None /\ d \in Objects
  BY <1>9, Sentinels DEF Objects
<1>12. SaveOK(p, "flush", j, d, vis, saved, world.writer)
  <2>1. ProgressOK("flush", j, vis, saved)
    BY <1>4 DEF ProgressOK, Written
  <2>2. InternedOK("flush", j, d, vis, saved)
    BY <1>7, <1>9, <1>11 DEF InternedOK, row, Writing
  <2> QED BY <1>4, <2>1, <2>2 DEF SaveOK
<1>13. GotOK("flush", <<>>, d, saved)
  BY DEF GotOK
<1>14. ProcOK(p, "flush", j, d, <<>>, vis, saved, world.writer)
  <2>1. "flush" \notin {"loaddom"} \cup Reading
    BY DEF Reading
  <2> QED BY <1>10, <1>12, <1>13, <2>1, DiskIsOnDisk DEF ProcOK
<1>15. "flush" \in Labels /\ "flush" \notin Flushing /\ <<>> \in Seq(Cells) /\ lock # p
  BY <1>1, Parts DEF Labels, Saving, Interned, Flushing
<1>16. /\ pc' = [pc EXCEPT ![p] = "flush"] /\ job' = [job EXCEPT ![p] = j]
       /\ dom' = [dom EXCEPT ![p] = d] /\ got' = [got EXCEPT ![p] = <<>>] /\ j \in Jobs
       /\ lock' = lock /\ UNCHANGED <<world, may, vis, saved, acked>>
  BY <1>1, <1>2, Parts, NothingGot DEF SaveOpen, Goto, d, o
<1> QED BY <1>11, <1>14, <1>15, <1>16, Local

LEMMA SaveOpenFailsStep ==
    ASSUME SplayInv, NEW p \in Procs, SaveOpenFails(p)
    PROVE  SplayInv'
<1>1. pc[p] \notin Reading /\ pc[p] \notin Flushing
  BY DEF SaveOpenFails, Reading, Flushing
<1>2. lock # p /\ got' = [got EXCEPT ![p] = <<>>]
  BY <1>1, Parts, NothingGot DEF SaveOpenFails
<1> QED BY <1>2, ReturnStep DEF SaveOpenFails

\* A save goes on with the same object: what SaveOK says at the new place.
LEMMA SaveStep ==
    ASSUME SplayInv, NEW p \in Procs, pc[p] \in Saving, NEW l \in Saving,
           pc' = [pc EXCEPT ![p] = l], UNCHANGED <<job, dom, got, world, may, vis, saved, acked>>,
           lock' = lock \/ lock' \in {p, None}, lock \in {lock', p, None}, lock' = p <=> l \in Flushing,
           SaveOK(p, l, job[p], dom[p], vis, saved, world.writer)
    PROVE  SplayInv'
<1>1. pc[p] \notin Reading /\ l \notin {"loaddom"} \cup Reading /\ l \in Labels
  BY DEF Saving, Reading, Interned, Flushing, Writing, Labels
<1>2. GotOK(l, <<>>, dom[p], saved) /\ <<>> \in Seq(Cells)
  BY DEF GotOK
<1>3. ProcOK(p, l, job[p], dom[p], <<>>, vis, saved, world.writer)
  BY <1>1, <1>2, Parts, DiskIsOnDisk DEF ProcOK
<1>4. /\ job' = [job EXCEPT ![p] = job[p]] /\ dom' = [dom EXCEPT ![p] = dom[p]]
      /\ got' = [got EXCEPT ![p] = <<>>] /\ job[p] \in Jobs /\ dom[p] \in Objects
  BY <1>1, Parts, NothingGot
<1> QED BY <1>1, <1>2, <1>3, <1>4, Local

\* The steps of a flush before the rename have the same progress.
LEMMA Interning ==
    ASSUME SplayInv, NEW p \in Procs, pc[p] \in Interned
    PROVE  /\ job[p] \in SaveJobs /\ Of(job[p], saved, job[p].t) /\ world.writer[job[p].t] = p
           /\ ProgressOK(pc[p], job[p], vis, saved) /\ "s" \in saved[job[p].gen].cols
           /\ InternedOK(pc[p], job[p], dom[p], vis, saved)
           /\ DomOK(dom[p], OnDisk) /\ dom[p] \in Domains /\ dom[p] # None
           /\ dom[p].syms \in Seq(Syms) /\ dom[p].disk \in Nat /\ Len(dom[p].syms) \in Nat
           /\ pc[p] \in Saving /\ pc[p] \notin Writing /\ pc[p] \notin Reading
<1>1. pc[p] \in Saving /\ pc[p] \notin Writing /\ pc[p] # "open" /\ pc[p] \notin Reading
  BY DEF Saving, Interned, Flushing, Writing, Reading
<1>2. SaveOK(p, pc[p], job[p], dom[p], vis, saved, world.writer)
  BY <1>1, Parts
<1>3. InternedOK(pc[p], job[p], dom[p], vis, saved) /\ "s" \in saved[job[p].gen].cols
  BY <1>1, <1>2 DEF SaveOK
<1>4. dom[p] # None
  BY <1>3 DEF InternedOK
<1>5. DomOK(dom[p], OnDisk)
  BY <1>4, Parts
<1>6. dom[p] \in Domains
  BY <1>5 DEF DomOK
<1>7. dom[p].syms \in Seq(Syms) /\ dom[p].disk \in Nat
  BY <1>6 DEF Domains
<1>8. Len(dom[p].syms) \in Nat
  BY <1>7
<1> QED BY <1>1, <1>2, <1>3, <1>4, <1>5, <1>6, <1>7, <1>8 DEF SaveOK

LEMMA SameProgress ==
    ASSUME NEW l, NEW k, l # "dirsync", k # "dirsync", NEW j, NEW v, NEW sv, ProgressOK(l, j, v, sv)
    PROVE  ProgressOK(k, j, v, sv)
BY DEF ProgressOK, Written

LEMMA FlushNothingStep ==
    ASSUME SplayInv, NEW p \in Procs, FlushNothing(p)
    PROVE  SplayInv'
<1>1. pc[p] = "flush" /\ pc[p] \in Interned /\ "write" \in Saving /\ "write" \notin Flushing /\ pc[p] \notin Flushing
      /\ "write" \in Writing
  BY DEF FlushNothing, Interned, Saving, Writing, Flushing
<1>2. Flushed(dom[p])
  BY DEF FlushNothing, Flushed
<1>3. ProgressOK("write", job[p], vis, saved)
  BY <1>1, Interning, SameProgress
<1>4. InternedOK("write", job[p], dom[p], vis, saved)
  BY <1>1, <1>2, Interning DEF InternedOK
<1>5. SaveOK(p, "write", job[p], dom[p], vis, saved, world.writer)
  BY <1>1, <1>3, <1>4, Interning DEF SaveOK
<1>6. lock # p
  BY <1>1, Parts
<1> QED BY <1>1, <1>5, <1>6, Interning, SaveStep DEF FlushNothing, Goto

LEMMA FlushLockStep ==
    ASSUME SplayInv, NEW p \in Procs, FlushLock(p)
    PROVE  SplayInv'
<1>1. pc[p] = "flush" /\ pc[p] \in Interned /\ "verify" \in Saving /\ "verify" \in Flushing /\ "verify" \notin Writing
  BY DEF FlushLock, Interned, Saving, Writing, Flushing
<1>2. ProgressOK("verify", job[p], vis, saved)
  BY <1>1, Interning, SameProgress
<1>3. InternedOK("verify", job[p], dom[p], vis, saved)
  BY <1>1, Interning DEF InternedOK
<1>4. SaveOK(p, "verify", job[p], dom[p], vis, saved, world.writer)
  BY <1>1, <1>2, <1>3, Interning DEF SaveOK
<1> QED BY <1>1, <1>4, Interning, SaveStep DEF FlushLock, Goto

LEMMA FlushVerifyStep ==
    ASSUME SplayInv, NEW p \in Procs, FlushVerify(p)
    PROVE  SplayInv'
<1>1. pc[p] = "verify" /\ pc[p] \in Interned /\ pc[p] \in Flushing /\ pc[p] \notin Reading
  BY DEF FlushVerify, Interned, Flushing, Reading
<1>2. lock = p
  BY <1>1, Parts
<1>3. CASE BaseUnchanged(p)
  <2>1. "rename" \in Saving /\ "rename" \in Flushing /\ "rename" \notin Writing
    BY DEF Interned, Saving, Writing, Flushing
  <2>2. ProgressOK("rename", job[p], vis, saved)
    BY <1>1, Interning, SameProgress
  <2>3. Len(Disk(vis)) = dom[p].disk
    BY <1>3, DiskIsOnDisk DEF BaseUnchanged
  <2>4. InternedOK("rename", job[p], dom[p], vis, saved)
    BY <1>1, <2>1, <2>3, Interning DEF InternedOK
  <2>5. SaveOK(p, "rename", job[p], dom[p], vis, saved, world.writer)
    BY <1>1, <2>1, <2>2, <2>4, Interning DEF SaveOK
  <2>6. pc' = [pc EXCEPT ![p] = "rename"] /\ UNCHANGED <<job, dom, got, world, may, vis, saved, acked, lock>>
    BY <1>3 DEF FlushVerify, Goto
  <2> QED BY <1>1, <1>2, <2>1, <2>5, <2>6, Interning, SaveStep
<1>4. CASE ~BaseUnchanged(p)
  <2>1. Return(p) /\ lock' = None /\ UNCHANGED <<dom, got, world, may, vis, saved, acked>>
    BY <1>4 DEF FlushVerify
  <2>2. got' = [got EXCEPT ![p] = <<>>]
    BY <1>1, <2>1, NothingGot
  <2> QED BY <1>2, <2>1, <2>2, ReturnStep
<1> QED BY <1>3, <1>4

LEMMA FlushFailsStep ==
    ASSUME SplayInv, NEW p \in Procs, FlushFails(p)
    PROVE  SplayInv'
<1>1. pc[p] \in Flushing /\ pc[p] \notin Reading
  BY DEF FlushFails, Flushing, Reading
<1>2. lock = p /\ got' = [got EXCEPT ![p] = <<>>]
  BY <1>1, Parts, NothingGot DEF FlushFails
<1> QED BY <1>2, ReturnStep DEF FlushFails

LEMMA FlushDoneStep ==
    ASSUME SplayInv, NoPower, NEW p \in Procs, FlushDone(p)
    PROVE  SplayInv'
<1> DEFINE d == [dom[p] EXCEPT !.disk = Len(dom[p].syms)]
<1>1. pc[p] = "symdir" /\ pc[p] \in Interned /\ "write" \in Saving /\ "write" \notin Flushing
      /\ pc[p] \in Flushing /\ "write" \in Writing /\ "write" \in Labels /\ "write" \notin {"loaddom"} \cup Reading
  BY DEF FlushDone, Interned, Saving, Writing, Flushing, Labels, Reading
<1>2. Disk(vis) = dom[p].syms
  BY <1>1, Interning DEF InternedOK
<1>3. d \in Domains /\ d.syms = dom[p].syms /\ d.disk = Len(dom[p].syms) /\ d.base = dom[p].base
  BY <1>1, Interning DEF Domains
<1>4. dom[p].base \in Nat /\ dom[p].base <= dom[p].disk /\ dom[p].disk <= Len(dom[p].syms) /\ IsInjective(dom[p].syms)
  BY <1>1, Interning DEF DomOK, Domains
<1>5. dom[p].base <= Len(dom[p].syms)
  BY <1>1, <1>4, Interning
<1> HIDE DEF d
<1>6. DomOK(d, Disk(vis))
  BY <1>1, <1>2, <1>3, <1>4, <1>5, Interning DEF DomOK
<1>7. d # None /\ d \in Objects
  BY <1>3, Sentinels DEF Objects
<1>8. ProgressOK("write", job[p], vis, saved)
  BY <1>1, Interning, SameProgress
<1>9. InternedOK("write", job[p], d, vis, saved)
  BY <1>1, <1>3, <1>7, Interning DEF InternedOK, Flushed
<1>10. SaveOK(p, "write", job[p], d, vis, saved, world.writer)
  BY <1>1, <1>8, <1>9, Interning DEF SaveOK
<1>11. GotOK("write", <<>>, d, saved) /\ <<>> \in Seq(Cells)
  BY DEF GotOK
<1>12. ProcOK(p, "write", job[p], d, <<>>, vis, saved, world.writer)
  BY <1>1, <1>6, <1>10, <1>11 DEF ProcOK
<1>13. /\ pc' = [pc EXCEPT ![p] = "write"] /\ job' = [job EXCEPT ![p] = job[p]] /\ job[p] \in Jobs
       /\ got' = [got EXCEPT ![p] = <<>>]
  BY <1>1, Parts, NothingGot, Interning DEF FlushDone, Goto
<1>14. dom' = [dom EXCEPT ![p] = d]
  BY DEF FlushDone, d
<1>15. may' = may
  BY DEF FlushDone, Left, NoPower
<1>16. lock = p /\ lock' = None /\ lock' # p /\ UNCHANGED <<world, vis, saved, acked>>
  BY <1>1, Parts, Sentinels DEF FlushDone
<1> QED BY <1>1, <1>7, <1>11, <1>12, <1>13, <1>14, <1>15, <1>16, Local

-----------------------------------------------------------------------------
(* What stays when the symfile and the list of saves grow and other files  *)
(* of other tables change.                                                 *)

LEMMA OfGrows ==
    ASSUME NEW sv \in Seq(Saves), NEW tv \in Seq(Saves), Grows(sv, tv), NEW x, NEW t, Of(x, sv, t)
    PROVE  Of(x, tv, t) /\ tv[x.gen] = sv[x.gen] /\ x.gen \in 1 .. Len(sv)
<1>1. x.gen \in 1 .. Len(sv) /\ sv[x.gen].t = t
  BY DEF Of
<1>2. Len(sv) \in Nat /\ Len(tv) \in Nat /\ Len(sv) <= Len(tv)
  BY DEF Grows
<1>3. x.gen \in 1 .. Len(tv)
  BY <1>1, <1>2
<1>4. tv[x.gen] = sv[x.gen]
  BY <1>1 DEF Grows
<1> QED BY <1>1, <1>3, <1>4 DEF Of

LEMMA ColumnNames ==
    ASSUME NEW cs \in ColumnSets
    PROVE  cs \subseteq Names /\ cs \cup {".d"} \subseteq Names /\ "v" \in cs
BY DEF ColumnSets, Names

LEMMA TableFrame ==
    ASSUME NEW v, NEW w, NEW sv \in Seq(Saves), NEW tv \in Seq(Saves), NEW a, NEW t,
           Disk(v) \in Seq(Syms), Disk(w) \in Seq(Syms), Grows(Disk(v), Disk(w)), Grows(sv, tv),
           \A c \in Names : w[File(t, c)] = v[File(t, c)],
           TableOK(v, sv, a, t)
    PROVE  TableOK(w, tv, a, t)
<1>1. "s" \in Names /\ "v" \in Names /\ ".d" \in Names
  BY DEF Names
<1>2. w[File(t, "s")] = None \/ ColOK(w[File(t, "s")], Disk(w), tv, t)
  <2> DEFINE x == v[File(t, "s")]
  <2>1. w[File(t, "s")] = x /\ (x = None \/ ColOK(x, Disk(v), sv, t))
    BY <1>1 DEF TableOK
  <2> HIDE DEF x
  <2>2. ASSUME ColOK(x, Disk(v), sv, t) PROVE ColOK(x, Disk(w), tv, t)
    <3>1. ColOK(x, Disk(w), sv, t)
      BY <2>2, ColGrows
    <3>2. Of(x, tv, t) /\ tv[x.gen] = sv[x.gen]
      BY <2>2, OfGrows DEF ColOK
    <3> QED BY <3>1, <3>2 DEF ColOK
  <2> QED BY <2>1, <2>2
<1>3. w[File(t, "v")] = None \/ PlainOK(w[File(t, "v")], tv, t)
  <2> DEFINE x == v[File(t, "v")]
  <2>1. w[File(t, "v")] = x /\ (x = None \/ PlainOK(x, sv, t))
    BY <1>1 DEF TableOK
  <2> HIDE DEF x
  <2> QED BY <2>1, OfGrows DEF PlainOK
<1>4. /\ w[File(t, ".d")] = None \/ SchemaOK(w[File(t, ".d")], tv, t)
      /\ w[File(t, ".d")] # None => Since(w, t, w[File(t, ".d")].cols, w[File(t, ".d")].gen)
  <2> DEFINE x == v[File(t, ".d")]
  <2>1. /\ w[File(t, ".d")] = x /\ (x = None \/ SchemaOK(x, sv, t))
        /\ x # None => Since(v, t, x.cols, x.gen)
    BY <1>1 DEF TableOK
  <2> HIDE DEF x
  <2>2. ASSUME x # None PROVE SchemaOK(x, tv, t) /\ Since(w, t, x.cols, x.gen)
    <3>1. SchemaOK(x, sv, t) /\ Since(v, t, x.cols, x.gen)
      BY <2>1, <2>2
    <3>2. SchemaOK(x, tv, t)
      BY <3>1, OfGrows DEF SchemaOK
    <3>3. x.cols \in ColumnSets
      BY <3>1 DEF SchemaOK, Schemas
    <3>4. Since(w, t, x.cols, x.gen)
      BY <3>1, <3>3, ColumnNames DEF Since
    <3> QED BY <3>2, <3>4
  <2> QED BY <2>1, <2>2
<1>5. ASSUME a # 0 PROVE a \in 1 .. Len(tv) /\ Since(w, t, tv[a].cols \cup {".d"}, a)
  <2>1. a \in 1 .. Len(sv) /\ Since(v, t, sv[a].cols \cup {".d"}, a)
    BY <1>5 DEF TableOK
  <2>2. sv[a] \in Saves
    BY <2>1
  <2>3. sv[a].cols \in ColumnSets
    BY <2>2 DEF Saves
  <2>4. Len(sv) \in Nat /\ Len(tv) \in Nat /\ Len(sv) <= Len(tv)
    BY DEF Grows
  <2>5. a \in 1 .. Len(tv)
    BY <2>1, <2>4
  <2>6. tv[a] = sv[a]
    BY <2>1 DEF Grows
  <2> QED BY <2>1, <2>3, <2>5, <2>6, ColumnNames DEF Since
<1> QED BY <1>2, <1>3, <1>4, <1>5 DEF TableOK

LEMMA ProcFrame ==
    ASSUME NEW v, NEW w, NEW sv \in Seq(Saves), NEW tv \in Seq(Saves),
           Disk(v) \in Seq(Syms), Disk(w) \in Seq(Syms), Grows(Disk(v), Disk(w)), Grows(sv, tv),
           NEW q, NEW l, NEW j, NEW d, NEW g, NEW wr, ProcOK(q, l, j, d, g, v, sv, wr),
           Disk(w) = Disk(v) \/ l \notin {"rename", "symdir"},
           l \in Saving => \A c \in Names : w[File(j.t, c)] = v[File(j.t, c)]
    PROVE  ProcOK(q, l, j, d, g, w, tv, wr)
<1>1. d = None \/ DomOK(d, Disk(w))
  BY DomGrows DEF ProcOK
<1>2. l \in {"loaddom"} \cup Reading => LoadOK(j, d)
  BY DEF ProcOK
<1>3. GotOK(l, g, d, tv)
  <2>1. ASSUME NEW x, CellOK(x, d, sv) PROVE CellOK(x, d, tv)
    BY <2>1, OfGrows DEF CellOK
  <2>2. GotOK(l, g, d, sv)
    BY DEF ProcOK
  <2> QED BY <2>1, <2>2 DEF GotOK
<1>4. ASSUME l \in Saving PROVE SaveOK(q, l, j, d, w, tv, wr)
  <2>1. SaveOK(q, l, j, d, v, sv, wr) /\ \A c \in Names : w[File(j.t, c)] = v[File(j.t, c)]
    BY <1>4 DEF ProcOK
  <2>2. Of(j, sv, j.t) /\ ProgressOK(l, j, v, sv)
    BY <2>1 DEF SaveOK
  <2>3. Of(j, tv, j.t) /\ tv[j.gen] = sv[j.gen]
    BY <2>2, OfGrows
  <2>4. ProgressOK(l, j, w, tv)
    BY <2>1, <2>2, <2>3 DEF ProgressOK, Written
  <2>5. l # "open" /\ "s" \in tv[j.gen].cols => InternedOK(l, j, d, w, tv)
    BY <2>1, <2>3 DEF SaveOK, InternedOK
  <2> QED BY <2>1, <2>3, <2>4, <2>5 DEF SaveOK
<1> QED BY <1>1, <1>2, <1>3, <1>4 DEF ProcOK

LEMMA GrowsRefl == ASSUME NEW s, Len(s) \in Nat PROVE Grows(s, s)
BY DEF Grows

\* A step of p that changes files or the list of saves: the parts of the others
\* stay if their tables do.
LEMMA Others ==
    ASSUME SplayInv, NEW p \in Procs, saved' \in Seq(Saves), Grows(saved, saved'),
           SymfileOK(vis'), Grows(Disk(vis), Disk(vis')),
           Disk(vis') = Disk(vis) \/ lock = p,
           \A t \in Tables, c \in Names : world.writer[t] # p => vis'[File(t, c)] = vis[File(t, c)],
           NEW q \in Procs \ {p}
    PROVE  ProcOK(q, pc[q], job[q], dom[q], got[q], vis', saved', world.writer)
<1>1. ProcOK(q, pc[q], job[q], dom[q], got[q], vis, saved, world.writer) /\ saved \in Seq(Saves)
  BY DEF SplayInv, Shapes
<1>2. Disk(vis) \in Seq(Syms) /\ Disk(vis') \in Seq(Syms)
  BY DiskSeq DEF SplayInv
<1>3. Disk(vis') = Disk(vis) \/ pc[q] \notin {"rename", "symdir"}
  BY DEF SplayInv, LocksOK, Flushing
<1>4. ASSUME pc[q] \in Saving PROVE \A c \in Names : vis'[File(job[q].t, c)] = vis[File(job[q].t, c)]
  <2>1. SaveOK(q, pc[q], job[q], dom[q], vis, saved, world.writer)
    BY <1>1, <1>4 DEF ProcOK
  <2>2. job[q].t \in Tables /\ world.writer[job[q].t] = q
    BY <2>1 DEF SaveOK, SaveJobs
  <2> QED BY <2>2
<1> QED BY <1>1, <1>2, <1>3, <1>4, ProcFrame

LEMMA FlushRenameStep ==
    ASSUME SplayInv, NoPower, NEW p \in Procs, FlushRename(p)
    PROVE  SplayInv'
<1> DEFINE d == dom[p] s == d.syms
<1>1. pc[p] = "rename" /\ pc[p] \in Interned /\ "symdir" \in Saving /\ "symdir" \in Flushing
      /\ pc[p] \in Flushing /\ "symdir" \notin Writing /\ "symdir" \in Labels /\ "symdir" \notin {"loaddom"} \cup Reading
  BY DEF FlushRename, Interned, Saving, Writing, Flushing, Labels, Reading
<1>2. /\ s \in Seq(Syms) /\ IsInjective(s) /\ Len(Disk(vis)) = d.disk /\ DomOK(d, Disk(vis))
      /\ d.disk <= Len(s)
  BY <1>1, Interning, DiskIsOnDisk DEF InternedOK, DomOK
<1>3. vis' = [vis EXCEPT ![Sym] = s] /\ vis = [f \in Files |-> vis[f]]
  BY DEF FlushRename, Replace, SplayInv, Shapes
<1>4. vis'[Sym] = s /\ vis' = [f \in Files |-> vis'[f]] /\ \A f \in Files : f # Sym => vis'[f] = vis[f]
  BY <1>3, FileFacts
<1>5. Disk(vis') = s /\ SymfileOK(vis')
  BY <1>2, <1>4, Sentinels DEF Disk, SymfileOK
<1>6. Grows(Disk(vis), Disk(vis'))
  BY <1>2, <1>5 DEF Grows, DomOK
<1>7. Disk(vis) \in Seq(Syms) /\ saved \in Seq(Saves) /\ Grows(saved, saved) /\ acked \in [Tables -> Nat]
  <2>1. Disk(vis) \in Seq(Syms) /\ saved \in Seq(Saves) /\ acked \in [Tables -> Nat]
    BY DiskSeq DEF SplayInv, Shapes
  <2>2. Len(saved) \in Nat
    BY <2>1
  <2> QED BY <2>1, <2>2, GrowsRefl
<1>8. \A t \in Tables, c \in Names : vis'[File(t, c)] = vis[File(t, c)]
  BY <1>4, FileFacts
<1>9. TablesOK(vis', saved, acked)
  <2>1. \A t \in Tables : TableOK(vis, saved, acked[t], t)
    BY DEF SplayInv, TablesOK
  <2> QED BY <1>2, <1>5, <1>6, <1>7, <1>8, <2>1, TableFrame DEF TablesOK
<1>10. lock = p
  BY <1>1, Parts
<1>11. \A q \in Procs \ {p} : ProcOK(q, pc[q], job[q], dom[q], got[q], vis', saved, world.writer)
  <2>1. saved' = saved
    BY DEF FlushRename
  <2> QED BY <1>5, <1>6, <1>7, <1>8, <1>10, <2>1, Others
<1>12. ProcOK(p, "symdir", job[p], d, <<>>, vis', saved, world.writer)
  <2>1. DomOK(d, Disk(vis'))
    BY <1>2, <1>5, <1>6, <1>7, DomGrows
  <2>2. job[p].t \in Tables
    BY <1>1, Interning DEF SaveJobs
  <2>3. ProgressOK("symdir", job[p], vis, saved)
    BY <1>1, Interning, SameProgress
  <2>4. ProgressOK("symdir", job[p], vis', saved)
    <3>1. \A c \in Names : vis'[File(job[p].t, c)] = vis[File(job[p].t, c)]
      BY <1>8, <2>2
    <3>2. saved[job[p].gen].cols \in ColumnSets
      BY <1>1, Interning, SavedFacts DEF Of
    <3> QED BY <2>3, <3>1, <3>2, ColumnNames DEF ProgressOK
  <2>5. InternedOK("symdir", job[p], d, vis', saved)
    BY <1>1, <1>5, Interning DEF InternedOK
  <2>6. SaveOK(p, "symdir", job[p], d, vis', saved, world.writer)
    BY <1>1, <2>4, <2>5, Interning DEF SaveOK
  <2>7. GotOK("symdir", <<>>, d, saved)
    BY DEF GotOK
  <2> QED BY <1>1, <2>1, <2>6, <2>7 DEF ProcOK
<1>13. /\ pc' = [pc EXCEPT ![p] = "symdir"] /\ job' = [job EXCEPT ![p] = job[p]] /\ job[p] \in Jobs
       /\ got' = [got EXCEPT ![p] = <<>>] /\ dom' = [dom EXCEPT ![p] = d] /\ d \in Objects /\ <<>> \in Seq(Cells)
  BY <1>1, Parts, NothingGot, Interning DEF FlushRename, Goto
<1>14. may' = may /\ world' = world /\ lock' = lock /\ saved' = saved /\ acked' = acked
  BY DEF FlushRename, Replace, Left, NoPower
<1>15. \A q \in Procs : lock' = q <=> pc'[q] \in Flushing
  <2>1. \A q \in Procs : lock = q <=> pc[q] \in Flushing
    BY DEF SplayInv, LocksOK
  <2>2. pc \in [Procs -> Labels]
    BY DEF SplayInv, Shapes
  <2> QED BY <1>1, <1>13, <1>14, <2>1, <2>2
<1>16. lock' \in Procs \cup {None}
  BY <1>10, <1>14
<1> HIDE DEF d, s
<1> QED BY <1>1, <1>4, <1>5, <1>7, <1>9, <1>11, <1>12, <1>13, <1>14, <1>15, <1>16, Step1

-----------------------------------------------------------------------------
(* Saving.                                                                 *)

LEMMA TodoSets ==
    /\ ToSet(<<"s", "v", ".d">>) = {"s", "v", ".d"} /\ ToSet(<<"v", ".d">>) = {"v", ".d"}
    /\ ToSet(<<".d">>) = {".d"} /\ ToSet(<<>>) = {}
<1>1. \A i : i \in 1 .. 3 <=> i \in {1, 2, 3}
  OBVIOUS
<1>2. \A i : i \in 1 .. 2 <=> i \in {1, 2}
  OBVIOUS
<1>3. \A i : i \in 1 .. 1 <=> i \in {1}
  OBVIOUS
<1>4. ToSet(<<"s", "v", ".d">>) = {"s", "v", ".d"}
  BY <1>1 DEF ToSet
<1>5. ToSet(<<"v", ".d">>) = {"v", ".d"}
  BY <1>2 DEF ToSet
<1>6. ToSet(<<".d">>) = {".d"}
  BY <1>3 DEF ToSet
<1>7. ToSet(<<>>) = {}
  BY DEF ToSet
<1> QED BY <1>4, <1>5, <1>6, <1>7

LEMMA SaveFilesFacts ==
    ASSUME NEW cols \in ColumnSets
    PROVE  /\ SaveFiles(cols) \in Todos /\ SaveFiles(cols) # <<>>
           /\ ToSet(SaveFiles(cols)) = cols \cup {".d"}
<1>1. CASE cols = {"s", "v"}
  <2>1. SaveFiles(cols) = <<"s", "v", ".d">>
    BY <1>1 DEF SaveFiles
  <2>2. ToSet(SaveFiles(cols)) = cols \cup {".d"}
    BY <1>1, <2>1, TodoSets
  <2> QED BY <2>1, <2>2 DEF Todos
<1>2. CASE cols = {"v"}
  <2>1. SaveFiles(cols) = <<"v", ".d">>
    BY <1>2 DEF SaveFiles
  <2>2. ToSet(SaveFiles(cols)) = cols \cup {".d"}
    BY <1>2, <2>1, TodoSets
  <2> QED BY <2>1, <2>2 DEF Todos
<1> QED BY <1>1, <1>2 DEF ColumnSets

LEMMA AppendGrows ==
    ASSUME NEW S, NEW s \in Seq(S), NEW e \in S
    PROVE  /\ Append(s, e) \in Seq(S) /\ Grows(s, Append(s, e))
           /\ Len(Append(s, e)) = Len(s) + 1 /\ Append(s, e)[Len(s) + 1] = e
BY DEF Grows

LEMMA TodoFacts ==
    ASSUME NEW todo \in Todos, todo # <<>>
    PROVE  /\ Head(todo) \in Names /\ Tail(todo) \in Todos
           /\ ToSet(todo) = {Head(todo)} \cup ToSet(Tail(todo))
           /\ Head(todo) = ".d" => ToSet(todo) = {".d"}
<1>1. CASE todo = <<"s", "v", ".d">>
  <2>1. Head(todo) = "s" /\ Tail(todo) = <<"v", ".d">>
    BY <1>1
  <2> QED BY <1>1, <2>1, TodoSets DEF Todos, Names
<1>2. CASE todo = <<"v", ".d">>
  <2>1. Head(todo) = "v" /\ Tail(todo) = <<".d">>
    BY <1>2
  <2> QED BY <1>2, <2>1, TodoSets DEF Todos, Names
<1>3. CASE todo = <<".d">>
  <2>1. Head(todo) = ".d" /\ Tail(todo) = <<>>
    BY <1>3
  <2> QED BY <1>3, <2>1, TodoSets DEF Todos, Names
<1> QED BY <1>1, <1>2, <1>3 DEF Todos

LEMMA TableGens ==
    ASSUME NEW v, NEW sv, NEW a, NEW t, TableOK(v, sv, a, t), NEW c \in Names, v[File(t, c)] # None
    PROVE  v[File(t, c)].gen \in 1 .. Len(sv)
BY DEF TableOK, ColOK, PlainOK, SchemaOK, Of, Names

LEMMA AckDropped ==
    ASSUME NEW v, NEW sv, NEW a, NEW t, TableOK(v, sv, a, t)
    PROVE  TableOK(v, sv, 0, t)
BY DEF TableOK

LEMMA SaveCallStep ==
    ASSUME SplayInv, NEW p \in Procs, NEW t \in Tables, NEW x \in Contents, NEW durable \in BOOLEAN,
           SaveCall(p, t, x, durable)
    PROVE  SplayInv'
<1> DEFINE e == [t |-> t, cols |-> x.cols, row |-> x.row]
           n == Len(saved) + 1
           j == [kind |-> "save", t |-> t, gen |-> n, durable |-> durable, todo |-> SaveFiles(x.cols)]
           l == IF "s" \in x.cols THEN "open" ELSE "write"
<1>1. pc[p] = "idle" /\ pc[p] \notin Reading /\ pc[p] \notin Flushing /\ world.writer[t] = p
  BY DEF SaveCall, Reading, Flushing
<1>2. x.cols \in ColumnSets /\ x.row \in Seq(Syms)
  BY Shape
<1>3. e \in Saves
  BY <1>2 DEF Saves
<1>4. saved \in Seq(Saves) /\ acked \in [Tables -> Nat] /\ pc \in [Procs -> Labels] /\ lock \in Procs \cup {None}
      /\ vis = [f \in Files |-> vis[f]]
  BY DEF SplayInv, Shapes
<1>5. saved' = Append(saved, e)
  BY DEF SaveCall
<1> HIDE DEF e
<1>6. /\ saved' \in Seq(Saves) /\ Grows(saved, saved') /\ Len(saved') = n /\ saved'[n] = e /\ Len(saved) \in Nat
  BY <1>3, <1>4, <1>5, AppendGrows
<1>7. e.t = t /\ e.cols = x.cols /\ n \in Nat /\ n \in 1 .. Len(saved')
  BY <1>6 DEF e
<1>8. Disk(vis) \in Seq(Syms) /\ SymfileOK(vis) /\ vis' = vis /\ Grows(Disk(vis), Disk(vis))
  <2>1. Disk(vis) \in Seq(Syms) /\ SymfileOK(vis) /\ vis' = vis
    BY DiskSeq DEF SplayInv, SaveCall
  <2>2. Len(Disk(vis)) \in Nat
    BY <2>1
  <2> QED BY <2>1, <2>2, GrowsRefl
<1>9. \A u \in Tables : TableOK(vis, saved, acked[u], u)
  BY DEF SplayInv, TablesOK
<1>10. TablesOK(vis, saved', acked')
  <2> SUFFICES ASSUME NEW u \in Tables PROVE TableOK(vis, saved', acked'[u], u)
    BY DEF TablesOK
  <2>1. TableOK(vis, saved', acked[u], u)
    BY <1>4, <1>6, <1>8, <1>9, TableFrame
  <2>2. acked'[u] = acked[u] \/ acked'[u] = 0
    BY <1>4 DEF SaveCall
  <2> QED BY <2>1, <2>2, AckDropped
<1>11. \A q \in Procs \ {p} : ProcOK(q, pc[q], job[q], dom[q], got[q], vis, saved', world.writer)
  BY <1>6, <1>8, Others
<1>12. SaveFiles(x.cols) \in Todos /\ ToSet(SaveFiles(x.cols)) = x.cols \cup {".d"}
  BY <1>2, SaveFilesFacts
<1>13. j \in SaveJobs /\ j.t = t /\ j.gen = n /\ j.todo = SaveFiles(x.cols)
  BY <1>7, <1>12 DEF SaveJobs
<1>14. /\ pc' = [pc EXCEPT ![p] = l] /\ job' = [job EXCEPT ![p] = j] /\ dom' = dom /\ got' = got
       /\ may' = may /\ world' = world /\ lock' = lock
  BY DEF SaveCall, Goto
<1> HIDE DEF j, n
<1>15. /\ l \in Labels /\ l \notin {"loaddom"} \cup Reading /\ l \notin Flushing /\ l # "dirsync"
       /\ l \notin Writing => "s" \in x.cols
       /\ ~(l # "open" /\ "s" \in x.cols)
  BY DEF Labels, Saving, Interned, Flushing, Writing, Reading
<1> HIDE DEF l
<1>16. ProgressOK(l, j, vis, saved')
  <2>1. \A c \in Names : vis[File(t, c)] = None \/ vis[File(t, c)].gen <= n
    <3> TAKE c \in Names
    <3>1. vis[File(t, c)] = None \/ vis[File(t, c)].gen \in 1 .. Len(saved)
      BY <1>9, TableGens
    <3> QED BY <1>6, <3>1 DEF n
  <2>2. (x.cols \cup {".d"}) \cap Written(l, j) = {}
    BY <1>12, <1>13, <1>15 DEF Written
  <2>3. saved'[j.gen].cols = x.cols
    BY <1>6, <1>7, <1>13
  <2>4. "s" \in ToSet(j.todo) => "s" \in x.cols
    BY <1>12, <1>13
  <2> QED BY <1>13, <1>15, <2>1, <2>2, <2>3, <2>4 DEF ProgressOK
<1>17. SaveOK(p, l, j, dom[p], vis, saved', world.writer)
  <2>1. Of(j, saved', j.t) /\ saved'[j.gen].cols = x.cols
    BY <1>6, <1>7, <1>13 DEF Of
  <2> QED BY <1>1, <1>13, <1>15, <1>16, <2>1 DEF SaveOK
<1>18. ProcOK(p, l, j, dom[p], <<>>, vis, saved', world.writer)
  <2>1. GotOK(l, <<>>, dom[p], saved')
    BY DEF GotOK
  <2>2. dom[p] = None \/ DomOK(dom[p], Disk(vis))
    BY Parts, DiskIsOnDisk
  <2> QED BY <1>15, <1>17, <2>1, <2>2 DEF ProcOK
<1>19. \A q \in Procs : lock' = q <=> pc'[q] \in Flushing
  <2>1. \A q \in Procs : lock = q <=> pc[q] \in Flushing
    BY DEF SplayInv, LocksOK
  <2> QED BY <1>1, <1>4, <1>14, <1>15, <2>1
<1>20. /\ dom' = [dom EXCEPT ![p] = dom[p]] /\ got' = [got EXCEPT ![p] = <<>>]
       /\ dom[p] \in Objects /\ <<>> \in Seq(Cells) /\ j \in Jobs
  BY <1>1, <1>13, <1>14, Parts, NothingGot DEF Jobs
<1>21. acked' \in [Tables -> Nat]
  BY <1>4 DEF SaveCall
<1>22. /\ vis' = [f \in Files |-> vis'[f]] /\ SymfileOK(vis') /\ TablesOK(vis', saved', acked')
       /\ ProcOK(p, l, j, dom[p], <<>>, vis', saved', world.writer)
       /\ \A q \in Procs \ {p} : ProcOK(q, pc[q], job[q], dom[q], got[q], vis', saved', world.writer)
  BY <1>4, <1>8, <1>10, <1>11, <1>18
<1>23. lock' \in Procs \cup {None}
  BY <1>4, <1>14
<1> QED BY <1>6, <1>14, <1>15, <1>19, <1>20, <1>21, <1>22, <1>23, Step1

\* What is known while files are written.
LEMMA Writes ==
    ASSUME SplayInv, NEW p \in Procs, pc[p] \in Writing
    PROVE  /\ job[p] \in SaveJobs /\ job[p] \in Jobs /\ job[p].t \in Tables /\ job[p].todo \in Todos /\ job[p].gen \in Nat
           /\ Of(job[p], saved, job[p].t) /\ world.writer[job[p].t] = p
           /\ ProgressOK(pc[p], job[p], vis, saved)
           /\ "s" \in saved[job[p].gen].cols => InternedOK(pc[p], job[p], dom[p], vis, saved)
           /\ saved[job[p].gen].row \in Seq(Syms) /\ saved[job[p].gen].cols \in ColumnSets
           /\ lock # p /\ pc[p] \notin Reading /\ got = [got EXCEPT ![p] = <<>>]
           /\ TableOK(vis, saved, acked[job[p].t], job[p].t)
<1>1. pc[p] \in Saving /\ pc[p] # "open" /\ pc[p] \notin Reading /\ pc[p] \notin Flushing
  BY DEF Saving, Writing, Interned, Flushing, Reading
<1>2. SaveOK(p, pc[p], job[p], dom[p], vis, saved, world.writer)
  BY <1>1, Parts
<1>3. job[p] \in SaveJobs
  BY <1>2 DEF SaveOK
<1>4. job[p].t \in Tables /\ job[p].todo \in Todos /\ job[p].gen \in Nat /\ job[p] \in Jobs
  BY <1>3 DEF SaveJobs, Jobs
<1>5. Of(job[p], saved, job[p].t)
  BY <1>2 DEF SaveOK
<1>6. saved[job[p].gen].row \in Seq(Syms) /\ saved[job[p].gen].cols \in ColumnSets
  BY <1>5, SavedFacts DEF Of
<1>7. lock # p /\ got = [got EXCEPT ![p] = <<>>]
  BY <1>1, Parts, NothingGot
<1>8. TableOK(vis, saved, acked[job[p].t], job[p].t)
  BY <1>4 DEF SplayInv, TablesOK
<1> QED BY <1>1, <1>2, <1>3, <1>4, <1>5, <1>6, <1>7, <1>8 DEF SaveOK

LEMMA WriteFailsStep ==
    ASSUME SplayInv, NEW p \in Procs, WriteFails(p)
    PROVE  SplayInv'
<1>1. pc[p] \in Writing
  BY DEF WriteFails, Writing
<1>2. lock # p /\ got' = [got EXCEPT ![p] = <<>>]
  BY <1>1, Writes DEF WriteFails
<1> QED BY <1>2, ReturnStep DEF WriteFails

LEMMA SyncDirStep ==
    ASSUME SplayInv, NoPower, NEW p \in Procs, SyncDir(p)
    PROVE  SplayInv'
<1> DEFINE i == job[p] j == [i EXCEPT !.todo = Tail(i.todo)]
<1>1. pc[p] = "dirsync" /\ pc[p] \in Writing /\ "write" \in Writing /\ "write" \in Labels
      /\ "write" \notin {"loaddom"} \cup Reading /\ "write" \notin Flushing
  BY DEF SyncDir, Writing, Labels, Saving, Reading, Flushing
<1>2. i.todo # <<>> /\ i \in SaveJobs /\ i.todo \in Todos
  BY <1>1, Writes DEF ProgressOK
<1>3. Tail(i.todo) \in Todos /\ ToSet(i.todo) = {Head(i.todo)} \cup ToSet(Tail(i.todo))
  BY <1>2, TodoFacts
<1>4. j \in SaveJobs /\ j.t = i.t /\ j.gen = i.gen /\ j.todo = Tail(i.todo)
  BY <1>2, <1>3 DEF SaveJobs
<1>5. job' = [job EXCEPT ![p] = j]
  BY DEF SyncDir
<1>6. pc' = [pc EXCEPT ![p] = "write"] /\ UNCHANGED <<world, vis, dom, lock, got, saved, acked>> /\ may' = may
  BY DEF SyncDir, Goto, Left, NoPower
<1> HIDE DEF j
<1>7. ProgressOK("write", j, vis, saved)
  <2>1. Written("write", j) \subseteq Written("dirsync", i)
    BY <1>3, <1>4 DEF Written
  <2>2. ProgressOK("dirsync", i, vis, saved)
    BY <1>1, Writes
  <2> QED BY <1>3, <1>4, <2>1, <2>2 DEF ProgressOK
<1>8. "s" \in saved[j.gen].cols => InternedOK("write", j, dom[p], vis, saved)
  BY <1>1, <1>4, Writes DEF InternedOK
<1>9. SaveOK(p, "write", j, dom[p], vis, saved, world.writer)
  BY <1>1, <1>4, <1>7, <1>8, Writes DEF SaveOK, Of
<1>10. GotOK("write", <<>>, dom[p], saved) /\ <<>> \in Seq(Cells) /\ j \in Jobs
  BY <1>4 DEF GotOK, Jobs
<1>11. ProcOK(p, "write", j, dom[p], <<>>, vis, saved, world.writer)
  BY <1>1, <1>9, <1>10, Parts, DiskIsOnDisk DEF ProcOK
<1>12. /\ dom' = [dom EXCEPT ![p] = dom[p]] /\ dom[p] \in Objects /\ got' = [got EXCEPT ![p] = <<>>] /\ lock # p
  BY <1>1, <1>6, Parts, Writes
<1> QED BY <1>1, <1>5, <1>6, <1>10, <1>11, <1>12, Local

\* What a save writes is right.
LEMMA ContentOK ==
    ASSUME SplayInv, NEW p \in Procs, pc[p] = "write", job[p].todo # <<>>
    PROVE  LET c == Head(job[p].todo)
               x == Content(p, c)
           IN /\ x.gen = job[p].gen /\ x # None
              /\ c = "s" => ColOK(x, Disk(vis), saved, job[p].t)
              /\ c = "v" => PlainOK(x, saved, job[p].t)
              /\ c = ".d" => SchemaOK(x, saved, job[p].t) /\ x.cols = saved[job[p].gen].cols
<1> DEFINE c == Head(job[p].todo) x == Content(p, c) g == job[p].gen row == saved[g].row
           d == dom[p] syms == d.syms t == job[p].t
<1>1. pc[p] \in Writing
  BY DEF Writing
<1>2. /\ g \in Nat /\ Of(job[p], saved, t) /\ row \in Seq(Syms) /\ saved[g].cols \in ColumnSets
      /\ ProgressOK("write", job[p], vis, saved) /\ c \in Names /\ c \in ToSet(job[p].todo)
  BY <1>1, Writes, TodoFacts
<1>3. Len(row) \in Nat
  BY <1>2
<1>4. CASE c = "s"
  <2>1. "s" \in saved[g].cols
    BY <1>2, <1>4 DEF ProgressOK
  <2>2. InternedOK("write", job[p], d, vis, saved)
    BY <1>1, <2>1, Writes
  <2>3. d # None /\ Flushed(d) /\ ToSet(row) \subseteq ToSet(syms)
    BY <1>1, <2>2 DEF InternedOK
  <2>4. DomOK(d, Disk(vis))
    BY <2>3, Parts, DiskIsOnDisk
  <2>5. d \in Domains
    BY <2>4 DEF DomOK
  <2>6. syms \in Seq(Syms) /\ d.disk \in Nat /\ Len(syms) = d.disk
    BY <2>3, <2>5 DEF Domains, Flushed
  <2>7. Len(syms) <= Len(Disk(vis)) /\ \A i \in 1 .. Len(syms) : syms[i] = Disk(vis)[i]
    BY <2>4, <2>6 DEF DomOK
  <2>8. x = [gen |-> g, cnt |-> Len(syms), pos |-> [i \in DOMAIN row |-> Position(syms, row[i])]]
    BY <1>4 DEF Content
  <2>9. DOMAIN row = 1 .. Len(row) /\ \A i \in DOMAIN row : row[i] \in ToSet(row)
    BY <1>2 DEF ToSet
  <2> HIDE DEF row, syms, x
  <2>10. \A i \in DOMAIN row : Position(syms, row[i]) \in 1 .. Len(syms) /\ syms[Position(syms, row[i])] = row[i]
    BY <2>3, <2>6, <2>9, PositionFacts
  <2>11. [i \in DOMAIN row |-> Position(syms, row[i])] \in Seq(Nat)
    <3>1. \A i \in 1 .. Len(row) : Position(syms, row[i]) \in Nat
      BY <2>6, <2>9, <2>10
    <3> QED BY <1>3, <2>9, <3>1
  <2>12. x \in SymColumns /\ x.gen = g /\ x.cnt = Len(syms)
    BY <1>2, <2>6, <2>8, <2>11 DEF SymColumns
  <2>13. DOMAIN x.pos = DOMAIN row /\ \A i \in DOMAIN row : x.pos[i] = Position(syms, row[i])
    BY <2>8
  <2>14. Of(x, saved, t)
    BY <1>2, <2>12 DEF Of
  <2>15. ColOK(x, Disk(vis), saved, t)
    BY <2>7, <2>10, <2>12, <2>13, <2>14 DEF ColOK, row
  <2>16. x # None
    BY <2>12, Sentinels
  <2> QED BY <1>4, <2>12, <2>15, <2>16 DEF x
<1>5. CASE c = "v"
  <2>1. x = [gen |-> g, len |-> Len(row)]
    BY <1>5 DEF Content
  <2>2. x \in Plains /\ x.gen = g
    BY <1>2, <1>3, <2>1 DEF Plains
  <2>3. Of(x, saved, t)
    BY <1>2, <2>2 DEF Of
  <2>4. x # None
    BY <2>2, Sentinels
  <2> QED BY <1>5, <2>2, <2>3, <2>4 DEF PlainOK
<1>6. CASE c = ".d"
  <2>1. x = [gen |-> g, cols |-> saved[g].cols]
    BY <1>6 DEF Content
  <2>2. x \in Schemas /\ x.gen = g /\ x.cols = saved[g].cols
    BY <1>2, <2>1 DEF Schemas
  <2>3. Of(x, saved, t)
    BY <1>2, <2>2 DEF Of
  <2>4. x # None
    BY <2>2, Sentinels
  <2> QED BY <1>6, <2>2, <2>3, <2>4 DEF SchemaOK
<1> QED BY <1>2, <1>4, <1>5, <1>6 DEF Names

LEMMA WriteTableOK ==
    ASSUME SplayInv, NEW p \in Procs, pc[p] = "write", job[p].todo # <<>>,
           NEW v, Disk(v) = Disk(vis),
           v[Target(p)] = Content(p, Head(job[p].todo)),
           \A c \in Names : c # Head(job[p].todo) => v[File(job[p].t, c)] = vis[File(job[p].t, c)]
    PROVE  TableOK(v, saved, acked[job[p].t], job[p].t) /\ ProgressOK("dirsync", job[p], v, saved)
<1> DEFINE c == Head(job[p].todo) x == Content(p, c) g == job[p].gen t == job[p].t a == acked[t]
<1>1. pc[p] \in Writing
  BY DEF Writing
<1>2. /\ g \in Nat /\ g \in 1 .. Len(saved) /\ saved[g].cols \in ColumnSets /\ t \in Tables
      /\ ProgressOK("write", job[p], vis, saved) /\ TableOK(vis, saved, a, t)
  BY <1>1, Writes DEF Of
<1>3. c \in Names /\ (c = ".d" => ToSet(job[p].todo) = {".d"}) /\ v[File(t, c)] = x
  BY <1>1, Writes, TodoFacts DEF Target
<1>4. /\ x.gen = g /\ x # None
      /\ c = "s" => ColOK(x, Disk(vis), saved, t)
      /\ c = "v" => PlainOK(x, saved, t)
      /\ c = ".d" => SchemaOK(x, saved, t) /\ x.cols = saved[g].cols
  BY ContentOK
<1>5. \A n \in Names : n # c => v[File(t, n)] = vis[File(t, n)]
  OBVIOUS
<1>6. a \in Nat
  BY <1>2 DEF SplayInv, Shapes
<1>7. \A n \in Names : vis[File(t, n)] # None => vis[File(t, n)].gen \in Nat /\ vis[File(t, n)].gen <= g
  <2>1. \A n \in Names : vis[File(t, n)] # None => vis[File(t, n)].gen \in 1 .. Len(saved)
    BY <1>2, TableGens
  <2> QED BY <1>2, <2>1 DEF ProgressOK
<1> HIDE DEF x, c, g, t, a
<1>8. "s" \in Names /\ "v" \in Names /\ ".d" \in Names
  BY DEF Names
<1>9. /\ v[File(t, "s")] = None \/ ColOK(v[File(t, "s")], Disk(v), saved, t)
      /\ v[File(t, "v")] = None \/ PlainOK(v[File(t, "v")], saved, t)
      /\ v[File(t, ".d")] = None \/ SchemaOK(v[File(t, ".d")], saved, t)
  BY <1>2, <1>3, <1>4, <1>5, <1>8 DEF TableOK
<1>10. ASSUME NEW cs \in SUBSET Names, NEW h \in Nat, h <= g, Since(vis, t, cs, h) PROVE Since(v, t, cs, h)
  <2> SUFFICES ASSUME NEW n \in cs PROVE v[File(t, n)] # None /\ v[File(t, n)].gen >= h
    BY DEF Since
  <2>1. CASE n = c
    BY <1>2, <1>3, <1>4, <1>10, <2>1 DEF g
  <2>2. CASE n # c
    BY <1>5, <1>10, <2>2 DEF Since
  <2> QED BY <2>1, <2>2
<1>11. v[File(t, ".d")] # None => Since(v, t, v[File(t, ".d")].cols, v[File(t, ".d")].gen)
  <2>1. CASE c = ".d"
    <3>1. v[File(t, ".d")] = x /\ x.cols = saved[g].cols /\ x.gen = g
      BY <1>3, <1>4, <2>1
    <3>2. ASSUME NEW n \in saved[g].cols PROVE vis[File(t, n)] # None /\ vis[File(t, n)].gen = g /\ n # c
      <4>1. n \in Names /\ n # ".d"
        BY <1>2 DEF ColumnSets, Names
      <4>2. n \in Written("write", job[p])
        BY <1>3, <2>1, <4>1 DEF Written
      <4> QED BY <1>2, <2>1, <4>1, <4>2 DEF ProgressOK, t, g
    <3>3. ASSUME NEW n \in saved[g].cols PROVE v[File(t, n)] # None /\ v[File(t, n)].gen >= g
      <4>1. n \in Names
        BY <1>2, ColumnNames
      <4> QED BY <1>2, <1>5, <3>2, <4>1
    <3> QED BY <3>1, <3>3 DEF Since
  <2>2. CASE c # ".d"
    <3>1. v[File(t, ".d")] = vis[File(t, ".d")]
      BY <1>5, <1>8, <2>2
    <3>2. ASSUME vis[File(t, ".d")] # None
          PROVE  Since(v, t, vis[File(t, ".d")].cols, vis[File(t, ".d")].gen)
      <4>1. vis[File(t, ".d")].cols \in ColumnSets
        BY <1>2, <3>2 DEF TableOK, SchemaOK, Schemas
      <4>2. vis[File(t, ".d")].gen \in Nat /\ vis[File(t, ".d")].gen <= g
        BY <1>7, <1>8, <3>2
      <4>3. Since(vis, t, vis[File(t, ".d")].cols, vis[File(t, ".d")].gen)
        BY <1>2, <3>2 DEF TableOK
      <4> QED BY <1>10, <4>1, <4>2, <4>3, ColumnNames
    <3> QED BY <3>1, <3>2
  <2> QED BY <2>1, <2>2
<1>12. ASSUME a # 0 PROVE a \in 1 .. Len(saved) /\ Since(v, t, saved[a].cols \cup {".d"}, a)
  <2>1. a \in 1 .. Len(saved) /\ Since(vis, t, saved[a].cols \cup {".d"}, a)
    BY <1>2, <1>12 DEF TableOK
  <2>2. vis[File(t, ".d")] # None /\ vis[File(t, ".d")].gen >= a
    BY <2>1 DEF Since
  <2>3. a <= g
    BY <1>2, <1>6, <1>7, <1>8, <2>2 DEF g
  <2>4. saved[a].cols \cup {".d"} \in SUBSET Names
    BY <2>1, SavedFacts, ColumnNames
  <2> QED BY <1>6, <1>10, <2>1, <2>3, <2>4
<1>13. TableOK(v, saved, a, t)
  BY <1>9, <1>11, <1>12 DEF TableOK
<1>14. ProgressOK("dirsync", job[p], v, saved)
  <2>1. \A n \in Names : v[File(t, n)] = None \/ v[File(t, n)].gen <= g
    <3> TAKE n \in Names
    <3>1. CASE n = c
      BY <1>2, <1>3, <1>4, <3>1
    <3>2. CASE n # c
      BY <1>5, <1>7, <3>2
    <3> QED BY <3>1, <3>2
  <2>2. ASSUME NEW n \in (saved[g].cols \cup {".d"}) \cap Written("dirsync", job[p])
        PROVE  v[File(t, n)] # None /\ v[File(t, n)].gen = g
    <3>1. n \in Names
      BY DEF Written
    <3>2. CASE n = c
      BY <1>3, <1>4, <3>2
    <3>3. CASE n # c
      <4>1. n \in Written("write", job[p])
        BY <3>3 DEF Written, c
      <4>2. vis[File(t, n)] # None /\ vis[File(t, n)].gen = g
        BY <1>2, <4>1 DEF ProgressOK, t, g
      <4> QED BY <1>5, <3>1, <3>3, <4>2
    <3> QED BY <3>2, <3>3
  <2>3. "s" \in ToSet(job[p].todo) => "s" \in saved[job[p].gen].cols
    BY <1>2 DEF ProgressOK
  <2> QED BY <2>1, <2>2, <2>3 DEF ProgressOK, t, g
<1> QED BY <1>13, <1>14 DEF t, a

LEMMA WriteFileStep ==
    ASSUME SplayInv, NoPower, NEW p \in Procs, WriteFile(p)
    PROVE  SplayInv'
<1> DEFINE c == Head(job[p].todo) x == Content(p, c) t == job[p].t f == File(t, c)
<1>1. pc[p] = "write" /\ job[p].todo # <<>> /\ pc[p] \in Writing /\ "dirsync" \in Writing /\ "dirsync" \in Labels
      /\ "dirsync" \notin {"loaddom"} \cup Reading /\ "dirsync" \notin Flushing /\ pc[p] \notin Flushing
  BY DEF WriteFile, Writing, Labels, Saving, Reading, Flushing
<1>2. t \in Tables /\ c \in Names /\ f \in Files /\ f # Sym /\ f = Target(p)
  BY <1>1, Writes, TodoFacts, FileFacts DEF Target
<1>3. vis' = [vis EXCEPT ![f] = x] /\ vis = [h \in Files |-> vis[h]]
  BY DEF WriteFile, Replace, Target, SplayInv, Shapes
<1> HIDE DEF x
<1>4. vis'[f] = x /\ vis' = [h \in Files |-> vis'[h]] /\ \A h \in Files : h # f => vis'[h] = vis[h]
  BY <1>2, <1>3
<1>5. Disk(vis') = Disk(vis) /\ SymfileOK(vis')
  <2>1. vis'[Sym] = vis[Sym] /\ SymfileOK(vis)
    BY <1>2, <1>4, FileFacts DEF SplayInv
  <2> QED BY <2>1 DEF Disk, SymfileOK
<1>6. \A u \in Tables, n \in Names : u # t \/ n # c => vis'[File(u, n)] = vis[File(u, n)]
  BY <1>2, <1>4, FileFacts
<1>7. /\ TableOK(vis', saved, acked[t], t) /\ ProgressOK("dirsync", job[p], vis', saved)
  BY <1>1, <1>2, <1>4, <1>5, <1>6, WriteTableOK DEF x
<1> HIDE DEF c, f
<1>8. /\ saved \in Seq(Saves) /\ Grows(saved, saved) /\ Disk(vis) \in Seq(Syms) /\ Grows(Disk(vis), Disk(vis))
      /\ acked \in [Tables -> Nat] /\ lock \in Procs \cup {None} /\ pc \in [Procs -> Labels]
  <2>1. /\ Disk(vis) \in Seq(Syms) /\ saved \in Seq(Saves) /\ acked \in [Tables -> Nat]
        /\ lock \in Procs \cup {None} /\ pc \in [Procs -> Labels]
    BY DiskSeq DEF SplayInv, Shapes
  <2>2. Len(Disk(vis)) \in Nat /\ Len(saved) \in Nat
    BY <2>1
  <2> QED BY <2>1, <2>2, GrowsRefl
<1>9. TablesOK(vis', saved, acked)
  <2> SUFFICES ASSUME NEW u \in Tables PROVE TableOK(vis', saved, acked[u], u)
    BY DEF TablesOK
  <2>1. CASE u = t
    BY <1>7, <2>1
  <2>2. CASE u # t
    <3>1. TableOK(vis, saved, acked[u], u)
      BY DEF SplayInv, TablesOK
    <3> QED BY <1>5, <1>6, <1>8, <2>2, <3>1, TableFrame
  <2> QED BY <2>1, <2>2
<1>10. world.writer[t] = p
  BY <1>1, Writes
<1>11. may' = may /\ world' = world /\ lock' = lock /\ saved' = saved /\ acked' = acked
  BY DEF WriteFile, Replace, Left, NoPower
<1>12. \A q \in Procs \ {p} : ProcOK(q, pc[q], job[q], dom[q], got[q], vis', saved', world.writer)
  BY <1>5, <1>6, <1>8, <1>10, <1>11, Others
<1>13. ProcOK(p, "dirsync", job[p], dom[p], <<>>, vis', saved', world.writer)
  <2>1. "s" \in saved[job[p].gen].cols => InternedOK("dirsync", job[p], dom[p], vis', saved)
    BY <1>1, Writes DEF InternedOK
  <2>2. SaveOK(p, "dirsync", job[p], dom[p], vis', saved, world.writer)
    BY <1>1, <1>7, <2>1, Writes DEF SaveOK
  <2>3. GotOK("dirsync", <<>>, dom[p], saved)
    BY DEF GotOK
  <2>4. dom[p] = None \/ DomOK(dom[p], Disk(vis'))
    BY <1>5, Parts, DiskIsOnDisk
  <2> QED BY <1>1, <1>11, <2>2, <2>3, <2>4 DEF ProcOK
<1>14. /\ pc' = [pc EXCEPT ![p] = "dirsync"] /\ job' = [job EXCEPT ![p] = job[p]] /\ job[p] \in Jobs
       /\ got' = [got EXCEPT ![p] = <<>>] /\ dom' = [dom EXCEPT ![p] = dom[p]] /\ dom[p] \in Objects /\ <<>> \in Seq(Cells)
  BY <1>1, Parts, Writes DEF WriteFile, Goto
<1>15. \A q \in Procs : lock' = q <=> pc'[q] \in Flushing
  <2>1. \A q \in Procs : lock = q <=> pc[q] \in Flushing
    BY DEF SplayInv, LocksOK
  <2> QED BY <1>1, <1>8, <1>11, <1>14, <2>1
<1>16. lock' \in Procs \cup {None} /\ saved' \in Seq(Saves) /\ acked' \in [Tables -> Nat] /\ TablesOK(vis', saved', acked')
  BY <1>8, <1>9, <1>11
<1> QED BY <1>1, <1>4, <1>5, <1>11, <1>12, <1>13, <1>14, <1>15, <1>16, Step1

LEMMA SweepTableOK ==
    ASSUME SplayInv, NEW p \in Procs, pc[p] = "write", job[p].todo = <<>>,
           NEW v, Disk(v) = Disk(vis),
           \A c \in saved[job[p].gen].cols \cup {".d"} : v[File(job[p].t, c)] = vis[File(job[p].t, c)],
           \A c \in Names : v[File(job[p].t, c)] \in {None, vis[File(job[p].t, c)]},
           NEW a, a \in {0, job[p].gen}
    PROVE  TableOK(v, saved, a, job[p].t)
<1> DEFINE g == job[p].gen t == job[p].t cs == saved[g].cols \cup {".d"}
<1>1. pc[p] \in Writing
  BY DEF Writing
<1>2. /\ g \in Nat /\ g \in 1 .. Len(saved) /\ saved[g].cols \in ColumnSets /\ t \in Tables
      /\ ProgressOK("write", job[p], vis, saved) /\ TableOK(vis, saved, acked[t], t)
  BY <1>1, Writes DEF Of
<1>3. cs \subseteq Names /\ ".d" \in cs
  BY <1>2, ColumnNames
<1>4. \A c \in cs : vis[File(t, c)] # None /\ vis[File(t, c)].gen = g
  <2>1. cs \subseteq Written("write", job[p])
    BY <1>3, TodoSets DEF Written
  <2> QED BY <1>2, <2>1 DEF ProgressOK
<1>5. \A c \in cs : v[File(t, c)] # None /\ v[File(t, c)].gen >= g
  BY <1>2, <1>4
<1>6. vis[File(t, ".d")].cols = saved[g].cols /\ v[File(t, ".d")] = vis[File(t, ".d")]
  BY <1>2, <1>3, <1>4 DEF TableOK, SchemaOK
<1>7. v[File(t, ".d")] # None => Since(v, t, v[File(t, ".d")].cols, v[File(t, ".d")].gen)
  BY <1>3, <1>4, <1>5, <1>6 DEF Since
<1>8. a # 0 => a \in 1 .. Len(saved) /\ Since(v, t, saved[a].cols \cup {".d"}, a)
  BY <1>2, <1>5 DEF Since
<1>9. "s" \in Names /\ "v" \in Names /\ ".d" \in Names
  BY DEF Names
<1>10. /\ v[File(t, "s")] = None \/ ColOK(v[File(t, "s")], Disk(v), saved, t)
       /\ v[File(t, "v")] = None \/ PlainOK(v[File(t, "v")], saved, t)
       /\ v[File(t, ".d")] = None \/ SchemaOK(v[File(t, ".d")], saved, t)
  BY <1>2, <1>9 DEF TableOK
<1> HIDE DEF t
<1>11. TableOK(v, saved, a, t)
  BY <1>7, <1>8, <1>10 DEF TableOK
<1> QED BY <1>11 DEF t

LEMMA SweepStep ==
    ASSUME SplayInv, NoPower, NEW p \in Procs, Sweep(p)
    PROVE  SplayInv'
<1> DEFINE t == job[p].t g == job[p].gen
           stale == {File(t, c) : c \in {"s", "v"} \ saved[g].cols}
<1>1. pc[p] = "write" /\ job[p].todo = <<>> /\ pc[p] \in Writing
  BY DEF Sweep, Writing
<1>2. t \in Tables /\ g \in Nat /\ saved[g].cols \in ColumnSets /\ world.writer[t] = p /\ lock # p
  BY <1>1, Writes
<1>3. /\ vis' = [f \in Files |-> IF f \in stale THEN None ELSE vis[f]]
      /\ acked' = [acked EXCEPT ![t] = IF job[p].durable THEN g ELSE 0]
      /\ UNCHANGED <<world, dom, lock, got, saved>>
  BY DEF Sweep
<1>4. may' = may
  BY DEF Sweep, Left, NoPower
<1>5. Sym \notin stale /\ \A u \in Tables, c \in Names : u # t \/ c \in saved[g].cols \cup {".d"} => File(u, c) \notin stale
  <2>1. "s" \in Names /\ "v" \in Names
    BY DEF Names
  <2> QED BY <1>2, <2>1, FileFacts
<1> HIDE DEF stale
<1>6. /\ vis'[Sym] = vis[Sym] /\ vis' = [f \in Files |-> vis'[f]]
      /\ \A u \in Tables, c \in Names : u # t \/ c \in saved[g].cols \cup {".d"} => vis'[File(u, c)] = vis[File(u, c)]
      /\ \A u \in Tables, c \in Names : vis'[File(u, c)] \in {None, vis[File(u, c)]}
  BY <1>3, <1>5, FileFacts
<1>7. Disk(vis') = Disk(vis) /\ SymfileOK(vis')
  BY <1>6 DEF Disk, SymfileOK, SplayInv
<1>8. /\ saved \in Seq(Saves) /\ Grows(saved, saved) /\ Disk(vis) \in Seq(Syms) /\ Grows(Disk(vis), Disk(vis))
      /\ acked \in [Tables -> Nat] /\ lock \in Procs \cup {None} /\ pc \in [Procs -> Labels]
  <2>1. /\ Disk(vis) \in Seq(Syms) /\ saved \in Seq(Saves) /\ acked \in [Tables -> Nat]
        /\ lock \in Procs \cup {None} /\ pc \in [Procs -> Labels]
    BY DiskSeq DEF SplayInv, Shapes
  <2>2. Len(Disk(vis)) \in Nat /\ Len(saved) \in Nat
    BY <2>1
  <2> QED BY <2>1, <2>2, GrowsRefl
<1>9. acked' \in [Tables -> Nat] /\ acked'[t] \in {0, g} /\ \A u \in Tables : u # t => acked'[u] = acked[u]
  BY <1>2, <1>3, <1>8
<1>10. TablesOK(vis', saved, acked')
  <2> SUFFICES ASSUME NEW u \in Tables PROVE TableOK(vis', saved, acked'[u], u)
    BY DEF TablesOK
  <2>1. CASE u = t
    <3>1. saved[g].cols \cup {".d"} \subseteq Names
      BY <1>2, ColumnNames
    <3> QED BY <1>1, <1>2, <1>6, <1>7, <1>9, <2>1, <3>1, SweepTableOK
  <2>2. CASE u # t
    <3>1. TableOK(vis, saved, acked[u], u)
      BY DEF SplayInv, TablesOK
    <3> QED BY <1>6, <1>7, <1>8, <1>9, <2>2, <3>1, TableFrame
  <2> QED BY <2>1, <2>2
<1>11. \A q \in Procs \ {p} : ProcOK(q, pc[q], job[q], dom[q], got[q], vis', saved', world.writer)
  BY <1>2, <1>3, <1>6, <1>7, <1>8, Others
<1>12. ProcOK(p, "idle", NoJob, dom[p], <<>>, vis', saved', world.writer)
  <2>1. ProcOK(p, "idle", NoJob, dom[p], <<>>, vis, saved, world.writer)
    BY IdleOK
  <2>2. "idle" \notin Saving
    BY DEF Saving, Interned, Flushing, Writing
  <2> QED BY <1>3, <1>7, <2>1, <2>2 DEF ProcOK
<1>13. /\ pc' = [pc EXCEPT ![p] = "idle"] /\ job' = [job EXCEPT ![p] = NoJob] /\ NoJob \in Jobs /\ "idle" \in Labels
       /\ got' = [got EXCEPT ![p] = <<>>] /\ dom' = [dom EXCEPT ![p] = dom[p]] /\ dom[p] \in Objects /\ <<>> \in Seq(Cells)
       /\ "idle" \notin Flushing
  BY <1>1, <1>3, Parts, Writes DEF Sweep, Return, Jobs, Labels, Flushing
<1>14. \A q \in Procs : lock' = q <=> pc'[q] \in Flushing
  <2>1. \A q \in Procs : lock = q <=> pc[q] \in Flushing
    BY DEF SplayInv, LocksOK
  <2> QED BY <1>2, <1>3, <1>8, <1>13, <2>1
<1>15. lock' \in Procs \cup {None} /\ saved' \in Seq(Saves) /\ TablesOK(vis', saved', acked') /\ world' = world
  BY <1>3, <1>8, <1>10
<1> QED BY <1>4, <1>6, <1>7, <1>9, <1>11, <1>12, <1>13, <1>14, <1>15, Step1

-----------------------------------------------------------------------------
(* Loading, and the end of a process.                                      *)

\* A load goes on: what LoadOK and GotOK say at the new place.
LEMMA LoadStep ==
    ASSUME SplayInv, NEW p \in Procs, pc[p] \notin Flushing,
           NEW l \in {"loaddom"} \cup Reading, NEW j, NEW d \in Objects, NEW g \in Seq(Cells),
           pc' = [pc EXCEPT ![p] = l], job' = [job EXCEPT ![p] = j],
           dom' = [dom EXCEPT ![p] = d], got' = [got EXCEPT ![p] = g],
           UNCHANGED <<world, may, vis, lock, saved, acked>>,
           d = None \/ DomOK(d, OnDisk), LoadOK(j, d), GotOK(l, g, d, saved)
    PROVE  SplayInv'
<1>1. l \in Labels /\ l \notin Saving /\ l \notin Flushing
  BY DEF Labels, Saving, Interned, Flushing, Writing, Reading
<1>2. j \in Jobs
  BY DEF LoadOK, Jobs
<1>3. lock # p
  BY Parts
<1>4. ProcOK(p, l, j, d, g, vis, saved, world.writer)
  BY <1>1, DiskIsOnDisk DEF ProcOK
<1> QED BY <1>1, <1>2, <1>3, <1>4, Local

LEMMA TableSequences ==
    ASSUME NEW ts \in {<<t>> : t \in Tables} \cup {SetToSeq(Tables)}
    PROVE  ts \in Seq(Tables) /\ ts # <<>>
<1>1. CASE ts \in {<<t>> : t \in Tables}
  <2>1. PICK t \in Tables : ts = <<t>>
    BY <1>1
  <2>2. <<t>> \in Seq(Tables) /\ Len(<<t>>) = 1
    OBVIOUS
  <2> QED BY <2>1, <2>2
<1>2. CASE ts = SetToSeq(Tables)
  <2> DEFINE n == Cardinality(Tables)
  <2>1. n \in Nat /\ ExistsBijection(1 .. n, Tables)
    BY Shape, FS_CardinalityType
  <2>2. \E f \in [1 .. n -> Tables] : IsInjective(f)
    BY <2>1 DEF ExistsBijection, Bijection, Injection, Surjection, IsInjective
  <2>3. ts \in [1 .. n -> Tables]
    BY <1>2, <2>2 DEF SetToSeq
  <2>4. n # 0
    BY Shape, FS_EmptySet
  <2> HIDE DEF n
  <2>5. ts \in Seq(Tables) /\ Len(ts) = n
    BY <2>1, <2>3
  <2> QED BY <2>4, <2>5
<1> QED BY <1>1, <1>2

LEMMA LoadCallStep ==
    ASSUME SplayInv, NEW p \in Procs, NEW ts \in {<<t>> : t \in Tables} \cup {SetToSeq(Tables)}, LoadCall(p, ts)
    PROVE  SplayInv'
<1> DEFINE j == [kind |-> "load", ts |-> ts, todo |-> <<>>, len |-> 0, hasdom |-> FALSE]
<1>1. pc[p] = "idle" /\ pc[p] \notin Flushing /\ pc[p] \notin Reading /\ "loaddom" \notin Reading
  BY DEF LoadCall, Flushing, Reading
<1>2. LoadOK(j, dom[p])
  <2>1. ts \in Seq(Tables) /\ ts # <<>>
    BY TableSequences
  <2>2. <<>> \in Seq({"s", "v"})
    OBVIOUS
  <2> QED BY <2>1, <2>2 DEF LoadOK, LoadJobs
<1>3. GotOK("loaddom", <<>>, dom[p], saved) /\ <<>> \in Seq(Cells)
  BY DEF GotOK
<1>4. /\ pc' = [pc EXCEPT ![p] = "loaddom"] /\ job' = [job EXCEPT ![p] = j]
      /\ dom' = [dom EXCEPT ![p] = dom[p]] /\ got' = [got EXCEPT ![p] = <<>>]
      /\ UNCHANGED <<world, may, vis, lock, saved, acked>> /\ dom[p] \in Objects
      /\ dom[p] = None \/ DomOK(dom[p], OnDisk)
  BY <1>1, Parts, NothingGot DEF LoadCall, Goto
<1> HIDE DEF j
<1> QED BY <1>1, <1>2, <1>3, <1>4, LoadStep

LEMMA LoadDomStep ==
    ASSUME SplayInv, NEW p \in Procs, LoadDom(p)
    PROVE  SplayInv'
<1> DEFINE j == job[p]
<1>1. pc[p] = "loaddom" /\ pc[p] \notin Flushing /\ pc[p] \notin Reading /\ "schema" \in Reading
  BY DEF LoadDom, Flushing, Reading
<1>2. LoadOK(j, dom[p]) /\ j \in LoadJobs
  BY <1>1, Parts DEF LoadOK
<1>3. UNCHANGED <<world, vis, may, lock, got, saved, acked>>
  BY DEF LoadDom
<1>4. got' = [got EXCEPT ![p] = <<>>] /\ <<>> \in Seq(Cells) /\ \A d : GotOK("schema", <<>>, d, saved)
  BY <1>1, <1>3, NothingGot DEF GotOK
<1>5. CASE vis[Sym] = None
  <2>1. pc' = [pc EXCEPT ![p] = "schema"] /\ UNCHANGED <<dom, job>>
    BY <1>5 DEF LoadDom, Goto
  <2>2. /\ job' = [job EXCEPT ![p] = j] /\ dom' = [dom EXCEPT ![p] = dom[p]] /\ dom[p] \in Objects
        /\ dom[p] = None \/ DomOK(dom[p], OnDisk)
    BY <2>1, Parts
  <2> QED BY <1>1, <1>2, <1>3, <1>4, <2>1, <2>2, LoadStep
<1>6. CASE vis[Sym] # None /\ Return(p) /\ UNCHANGED dom
  <2>1. lock # p
    BY <1>1, Parts
  <2> QED BY <1>3, <1>4, <1>6, <2>1, ReturnStep
<1>7. CASE /\ vis[Sym] # None /\ dom' = [dom EXCEPT ![p] = Opened(p)]
           /\ job' = [job EXCEPT ![p].hasdom = TRUE] /\ Goto(p, "schema")
  <2> DEFINE k == [j EXCEPT !.hasdom = TRUE]
  <2>1. job' = [job EXCEPT ![p] = k] /\ pc' = [pc EXCEPT ![p] = "schema"]
    BY <1>7 DEF Goto
  <2>2. k \in LoadJobs /\ k.ts = j.ts
    BY <1>2 DEF LoadJobs
  <2>3. Opened(p) \in Objects /\ Opened(p) # None /\ DomOK(Opened(p), OnDisk)
    BY OpenedOK
  <2>4. LoadOK(k, Opened(p))
    BY <1>2, <2>2, <2>3 DEF LoadOK
  <2> HIDE DEF k
  <2> QED BY <1>1, <1>3, <1>4, <1>7, <2>1, <2>3, <2>4, LoadStep
<1> QED BY <1>5, <1>6, <1>7 DEF LoadDom

\* What is known while a load reads.
LEMMA Reads ==
    ASSUME SplayInv, NEW p \in Procs, pc[p] \in Reading
    PROVE  /\ job[p] \in LoadJobs /\ LoadOK(job[p], dom[p]) /\ GotOK(pc[p], got[p], dom[p], saved)
           /\ Head(job[p].ts) \in Tables /\ pc[p] \notin Flushing /\ lock # p
           /\ dom[p] \in Objects /\ dom = [dom EXCEPT ![p] = dom[p]] /\ got[p] \in Seq(Cells)
           /\ got = [got EXCEPT ![p] = got[p]] /\ pc = [pc EXCEPT ![p] = pc[p]]
           /\ dom[p] = None \/ DomOK(dom[p], OnDisk)
<1>1. pc[p] \notin Flushing
  BY DEF Reading, Flushing
<1>2. LoadOK(job[p], dom[p]) /\ lock # p
  BY <1>1, Parts
<1>3. job[p] \in LoadJobs /\ job[p].ts # <<>>
  BY <1>2 DEF LoadOK
<1>4. job[p].ts \in Seq(Tables)
  BY <1>3 DEF LoadJobs
<1>5. Head(job[p].ts) \in Tables
  BY <1>3, <1>4
<1> QED BY <1>1, <1>2, <1>3, <1>5, Parts

LEMMA LoadSchemaStep ==
    ASSUME SplayInv, NEW p \in Procs, LoadSchema(p)
    PROVE  SplayInv'
<1> DEFINE x == vis[File(Head(job[p].ts), ".d")]
<1>1. pc[p] = "schema" /\ pc[p] \in Reading /\ "column" \in Reading
  BY DEF LoadSchema, Reading
<1>2. UNCHANGED <<world, vis, may, dom, lock, saved, acked>>
  BY DEF LoadSchema
<1>3. CASE x \in {None, Torn}
  <2>1. Return(p) /\ got' = [got EXCEPT ![p] = <<>>]
    BY <1>3 DEF LoadSchema
  <2> QED BY <1>1, <1>2, <2>1, Reads, ReturnStep
<1>4. CASE x \notin {None, Torn}
  <2> DEFINE j == [job[p] EXCEPT !.todo = LoadFiles(x.cols), !.len = 0]
  <2>1. job' = [job EXCEPT ![p] = j] /\ pc' = [pc EXCEPT ![p] = "column"] /\ got' = got
    BY <1>4 DEF LoadSchema, Goto
  <2>2. LoadFiles(x.cols) \in Seq({"s", "v"})
    <3>1. <<"s", "v">> \in Seq({"s", "v"}) /\ <<"v">> \in Seq({"s", "v"})
      OBVIOUS
    <3> QED BY <3>1 DEF LoadFiles
  <2> HIDE DEF x
  <2>3. j \in LoadJobs /\ j.ts = job[p].ts /\ j.hasdom = job[p].hasdom
    BY <1>1, <2>2, Reads DEF LoadJobs
  <2>4. LoadOK(j, dom[p])
    BY <1>1, <2>3, Reads DEF LoadOK
  <2>5. GotOK("column", got[p], dom[p], saved)
    BY <1>1, Reads DEF GotOK
  <2> HIDE DEF j
  <2>6. /\ dom' = [dom EXCEPT ![p] = dom[p]] /\ got' = [got EXCEPT ![p] = got[p]]
    BY <1>1, <1>2, <2>1, Reads
  <2> QED BY <1>1, <1>2, <2>1, <2>4, <2>5, <2>6, Reads, LoadStep
<1> QED BY <1>3, <1>4

LEMMA LoadNextStep ==
    ASSUME SplayInv, NEW p \in Procs, LoadNext(p)
    PROVE  SplayInv'
<1>1. pc[p] = "column" /\ pc[p] \in Reading /\ "schema" \in Reading
  BY DEF LoadNext, Reading
<1>2. UNCHANGED <<world, vis, may, dom, lock, saved, acked>>
  BY DEF LoadNext
<1>3. CASE Len(job[p].ts) = 1
  <2>1. Return(p) /\ got' = [got EXCEPT ![p] = <<>>]
    BY <1>3 DEF LoadNext
  <2> QED BY <1>1, <1>2, <2>1, Reads, ReturnStep
<1>4. CASE Len(job[p].ts) # 1
  <2> DEFINE ts == job[p].ts j == [job[p] EXCEPT !.ts = Tail(ts)]
  <2>1. job' = [job EXCEPT ![p] = j] /\ pc' = [pc EXCEPT ![p] = "schema"] /\ got' = got
    BY <1>4 DEF LoadNext, Goto
  <2>2. ts \in Seq(Tables) /\ ts # <<>> /\ Len(ts) # 1
    BY <1>1, <1>4, Reads DEF LoadOK, LoadJobs
  <2>3. Tail(ts) \in Seq(Tables) /\ Tail(ts) # <<>>
    <3>1. Tail(ts) \in Seq(Tables) /\ Len(Tail(ts)) = Len(ts) - 1
      BY <2>2, HeadTailProperties
    <3>2. Len(ts) \in Nat /\ Len(<<>>) = 0
      BY <2>2
    <3>3. Len(Tail(ts)) # 0
      BY <2>2, <3>1, <3>2
    <3> QED BY <3>1, <3>2, <3>3
  <2> HIDE DEF ts
  <2>4. j \in LoadJobs /\ j.ts = Tail(ts) /\ j.hasdom = job[p].hasdom
    BY <1>1, <2>3, Reads DEF LoadJobs
  <2>5. LoadOK(j, dom[p])
    BY <1>1, <2>3, <2>4, Reads DEF LoadOK
  <2>6. GotOK("schema", got[p], dom[p], saved)
    BY <1>1, Reads DEF GotOK
  <2> HIDE DEF j
  <2>7. /\ dom' = [dom EXCEPT ![p] = dom[p]] /\ got' = [got EXCEPT ![p] = got[p]]
    BY <1>1, <1>2, <2>1, Reads
  <2> QED BY <1>1, <1>2, <2>1, <2>5, <2>6, <2>7, Reads, LoadStep
<1> QED BY <1>3, <1>4

\* A column that is not rejected decodes to what was saved, unless the object has
\* symbols that are not on disk.
LEMMA DecodedRight ==
    ASSUME NEW d, NEW D \in Seq(Syms), DomOK(d, D), Flushed(d), NEW sv, NEW t, NEW x, ColOK(x, D, sv, t),
           x.cnt <= Len(d.syms), sv[x.gen].row \in Seq(Syms)
    PROVE  [i \in DOMAIN x.pos |-> Decoded(d.syms, x.pos[i])] = sv[x.gen].row
<1>1. d.syms \in Seq(Syms) /\ d.disk \in Nat /\ Len(d.syms) = d.disk
  BY DEF DomOK, Domains, Flushed
<1>2. x.cnt \in Nat
  BY DEF ColOK, SymColumns
<1>3. \A i \in DOMAIN x.pos : Decoded(d.syms, x.pos[i]) = sv[x.gen].row[i]
  <2> TAKE i \in DOMAIN x.pos
  <2>1. x.pos[i] \in 1 .. x.cnt /\ D[x.pos[i]] = sv[x.gen].row[i]
    BY DEF ColOK
  <2>2. x.pos[i] \in 1 .. d.disk /\ x.pos[i] \in DOMAIN d.syms
    BY <1>1, <1>2, <2>1
  <2> QED BY <2>1, <2>2 DEF DomOK, Decoded
<1>4. DOMAIN x.pos = DOMAIN sv[x.gen].row
  BY DEF ColOK
<1> QED BY <1>3, <1>4

LEMMA LoadColumnStep ==
    ASSUME SplayInv, NEW p \in Procs, LoadColumn(p)
    PROVE  SplayInv'
<1> DEFINE col == Head(job[p].todo) t == Head(job[p].ts) x == vis[File(t, col)]
           row == IF col = "s" THEN [i \in DOMAIN x.pos |-> Decoded(dom[p].syms, x.pos[i])] ELSE <<>>
           y == [gen |-> x.gen, t |-> t, c |-> col, row |-> row]
<1>1. pc[p] = "column" /\ pc[p] \in Reading /\ job[p].todo # <<>>
  BY DEF LoadColumn, Reading
<1>2. UNCHANGED <<world, vis, may, dom, lock, saved, acked>>
  BY DEF LoadColumn
<1>3. t \in Tables /\ job[p] \in LoadJobs /\ LoadOK(job[p], dom[p])
  BY <1>1, Reads
<1>4. job[p].todo \in Seq({"s", "v"})
  BY <1>3 DEF LoadJobs
<1>5. col \in {"s", "v"} /\ Tail(job[p].todo) \in Seq({"s", "v"})
  BY <1>1, <1>4
<1>6. CASE Rejected(p, col, x)
  <2>1. Return(p) /\ got' = [got EXCEPT ![p] = <<>>]
    BY <1>6 DEF LoadColumn
  <2> QED BY <1>1, <1>2, <2>1, Reads, ReturnStep
<1>7. CASE ~Rejected(p, col, x)
  <2> DEFINE n == IF col = "s" THEN Len(x.pos) ELSE x.len
             j == [job[p] EXCEPT !.todo = Tail(job[p].todo), !.len = n]
  <2>1. /\ job' = [job EXCEPT ![p] = j] /\ pc' = pc
        /\ got' = [got EXCEPT ![p] = Append(got[p], y)]
    BY <1>7 DEF LoadColumn
  <2>2. x # None
    BY <1>7 DEF Rejected
  <2>3. TableOK(vis, saved, acked[t], t)
    BY <1>3 DEF SplayInv, TablesOK
  <2>4. /\ col = "s" => ColOK(x, OnDisk, saved, t)
        /\ col = "v" => PlainOK(x, saved, t)
    BY <2>2, <2>3, DiskIsOnDisk DEF TableOK
  <2>5. Of(x, saved, t) /\ x.gen \in Nat
    BY <1>5, <2>4 DEF ColOK, PlainOK, SymColumns, Plains
  <2>6. n \in Nat
    <3>1. CASE col = "s"
      <4>1. x.pos \in Seq(Nat)
        BY <2>4, <3>1 DEF ColOK, SymColumns
      <4> QED BY <3>1, <4>1
    <3>2. CASE col = "v"
      BY <2>4, <3>2 DEF PlainOK, Plains
    <3> QED BY <1>5, <3>1, <3>2
  <2>7. row \in Seq(Syms \cup {None})
    <3>1. CASE col = "s"
      <4>1. x.pos \in Seq(Nat) /\ DOMAIN x.pos = 1 .. Len(x.pos) /\ Len(x.pos) \in Nat
        BY <2>4, <3>1 DEF ColOK, SymColumns
      <4>2. dom[p] # None
        BY <1>3, <1>7, <3>1 DEF Rejected, LoadOK
      <4>3. dom[p].syms \in Seq(Syms)
        BY <1>1, <4>2, Reads DEF DomOK, Domains
      <4>4. \A i \in 1 .. Len(x.pos) : Decoded(dom[p].syms, x.pos[i]) \in Syms \cup {None}
        BY <4>3 DEF Decoded
      <4>5. row = [i \in 1 .. Len(x.pos) |-> Decoded(dom[p].syms, x.pos[i])]
        BY <3>1, <4>1
      <4>6. row \in [1 .. Len(x.pos) -> Syms \cup {None}]
        BY <4>4, <4>5
      <4> HIDE DEF row, x
      <4> QED BY <4>1, <4>6
    <3>2. CASE col # "s"
      BY <3>2
    <3> QED BY <3>1, <3>2
  <2>8. CellOK(y, dom[p], saved)
    <3>1. ASSUME col = "s" PROVE dom[p] # None /\ (Flushed(dom[p]) => row = saved[x.gen].row)
      <4>1. dom[p] # None /\ ~(x.cnt > Len(dom[p].syms))
        BY <1>3, <1>7, <3>1 DEF Rejected, LoadOK
      <4>2. DomOK(dom[p], OnDisk) /\ ColOK(x, OnDisk, saved, t)
        BY <1>1, <2>4, <3>1, <4>1, Reads
      <4>4. dom[p].syms \in Seq(Syms) /\ x.cnt \in Nat
        BY <4>2 DEF DomOK, Domains, ColOK, SymColumns
      <4>5. x.cnt <= Len(dom[p].syms)
        <5>1. Len(dom[p].syms) \in Nat
          BY <4>4
        <5> QED BY <4>1, <4>4, <5>1
      <4>3. OnDisk \in Seq(Syms) /\ saved[x.gen].row \in Seq(Syms)
        BY <2>5, DiskSeq, DiskIsOnDisk, SavedFacts DEF SplayInv, Of
      <4> HIDE DEF x
      <4> QED BY <3>1, <4>1, <4>2, <4>3, <4>5, DecodedRight
    <3> HIDE DEF row, x
    <3> QED BY <2>5, <3>1 DEF CellOK, Of
  <2>9. y \in Cells
    <3> HIDE DEF row, x, col, t
    <3> QED BY <1>3, <1>5, <2>5, <2>7 DEF Cells
  <2> HIDE DEF n, y
  <2>10. j \in LoadJobs /\ j.ts = job[p].ts /\ j.hasdom = job[p].hasdom
    BY <1>3, <1>5, <2>6 DEF LoadJobs
  <2> HIDE DEF j
  <2>11. LoadOK(j, dom[p])
    BY <1>3, <2>10 DEF LoadOK
  <2>12. got[p] \in Seq(Cells) /\ GotOK("column", got[p], dom[p], saved)
    BY <1>1, Reads
  <2>13. /\ Append(got[p], y) \in Seq(Cells) /\ DOMAIN got[p] = 1 .. Len(got[p]) /\ Len(got[p]) \in Nat
         /\ DOMAIN Append(got[p], y) = 1 .. Len(got[p]) + 1
         /\ \A i \in 1 .. Len(got[p]) : Append(got[p], y)[i] = got[p][i]
         /\ Append(got[p], y)[Len(got[p]) + 1] = y
    BY <2>9, <2>12
  <2>14. \A i \in DOMAIN Append(got[p], y) : CellOK(Append(got[p], y)[i], dom[p], saved)
    <3> TAKE i \in DOMAIN Append(got[p], y)
    <3>1. CASE i \in 1 .. Len(got[p])
      BY <2>12, <2>13, <3>1 DEF GotOK
    <3>2. CASE i = Len(got[p]) + 1
      BY <2>8, <2>13, <3>2
    <3>3. i \in 1 .. Len(got[p]) \/ i = Len(got[p]) + 1
      BY <2>13
    <3> QED BY <3>1, <3>2, <3>3
  <2>15. GotOK("column", Append(got[p], y), dom[p], saved)
    BY <1>1, <2>14 DEF GotOK
  <2>16. pc' = [pc EXCEPT ![p] = "column"] /\ dom' = [dom EXCEPT ![p] = dom[p]]
    BY <1>1, <1>2, <2>1, Reads
  <2>17. /\ pc[p] \notin Flushing /\ "column" \in {"loaddom"} \cup Reading /\ dom[p] \in Objects
         /\ dom[p] = None \/ DomOK(dom[p], OnDisk)
    BY <1>1, Reads
  <2> DEFINE all == Append(got[p], y)
  <2>18. all \in Seq(Cells) /\ got' = [got EXCEPT ![p] = all] /\ GotOK("column", all, dom[p], saved)
    BY <2>1, <2>13, <2>15
  <2> HIDE DEF all
  <2> QED BY <1>2, <2>1, <2>11, <2>16, <2>17, <2>18, LoadStep
<1> QED BY <1>6, <1>7

-----------------------------------------------------------------------------
(* Deaths, and the theorems.                                               *)

LEMMA DropDomainStep ==
    ASSUME SplayInv, NEW p \in Procs, DropDomain(p)
    PROVE  SplayInv'
<1>1. pc[p] = "idle" /\ pc[p] \notin Reading /\ pc[p] \notin Flushing /\ "idle" \in Labels
  BY DEF DropDomain, Reading, Flushing, Labels
<1>2. UNCHANGED <<world, vis, may, lock, pc, job, got, saved, acked>> /\ dom' = [dom EXCEPT ![p] = None]
  BY DEF DropDomain
<1>3. None \in Objects /\ <<>> \in Seq(Cells) /\ job[p] \in Jobs
  BY Parts DEF Objects
<1>4. ProcOK(p, "idle", job[p], None, <<>>, vis, saved, world.writer)
  BY IdleOK
<1>5. pc' = [pc EXCEPT ![p] = "idle"] /\ job' = [job EXCEPT ![p] = job[p]] /\ lock' # p
  BY <1>1, <1>2, Parts
<1>6. got' = [got EXCEPT ![p] = <<>>]
  BY <1>1, <1>2, NothingGot
<1> QED BY <1>1, <1>2, <1>3, <1>4, <1>5, <1>6, Local

LEMMA CrashStep ==
    ASSUME SplayInv, NEW p \in Procs, Crash(p)
    PROVE  SplayInv'
<1>1. UNCHANGED <<world, vis, may, saved, acked>> /\ Die({p})
  BY DEF Crash
<1>2. /\ dom \in [Procs -> Objects] /\ pc \in [Procs -> Labels]
      /\ job \in [Procs -> Jobs] /\ got \in [Procs -> Seq(Cells)]
  BY DEF SplayInv, Shapes
<1>3. dom' = [dom EXCEPT ![p] = None] /\ pc' = [pc EXCEPT ![p] = "idle"]
  BY <1>1, <1>2 DEF Die
<1>4. job' = [job EXCEPT ![p] = NoJob] /\ got' = [got EXCEPT ![p] = <<>>]
  BY <1>1, <1>2 DEF Die
<1>5. lock' = IF lock = p THEN None ELSE lock
  BY <1>1 DEF Die
<1>6. None \in Objects /\ <<>> \in Seq(Cells) /\ NoJob \in Jobs /\ "idle" \in Labels /\ "idle" \notin Flushing
  BY DEF Objects, Jobs, Labels, Flushing
<1>7. ProcOK(p, "idle", NoJob, None, <<>>, vis, saved, world.writer)
  BY IdleOK
<1>8. lock' # p /\ (lock' = lock \/ lock' \in {p, None}) /\ lock \in {lock', p, None}
  BY <1>5, Sentinels
<1> QED BY <1>1, <1>3, <1>4, <1>6, <1>7, <1>8, Local

LEMMA SplayInit == Init => SplayInv
<1> SUFFICES ASSUME Init PROVE SplayInv
  OBVIOUS
<1>1. \A f \in Files : vis[f] = None /\ may[f] = {None}
  BY DEF Init
<1>2. Shapes
  <2>1. <<>> \in Seq(Cells) /\ <<>> \in Seq(Saves) /\ NoJob \in Jobs /\ None \in Objects /\ "idle" \in Labels
    BY DEF Jobs, Objects, Labels
  <2>2. vis = [f \in Files |-> vis[f]]
    BY DEF Init
  <2>3. /\ dom \in [Procs -> Objects] /\ pc \in [Procs -> Labels]
        /\ job \in [Procs -> Jobs] /\ got \in [Procs -> Seq(Cells)]
    BY <2>1 DEF Init
  <2>4. world \in Worlds /\ lock \in Procs \cup {None} /\ saved \in Seq(Saves) /\ acked \in [Tables -> Nat]
    BY <2>1 DEF Init
  <2> QED BY <1>1, <2>2, <2>3, <2>4 DEF Shapes
<1>3. SymfileOK(vis)
  BY <1>1, FileFacts DEF SymfileOK
<1>4. TablesOK(vis, saved, acked)
  <2> SUFFICES ASSUME NEW t \in Tables PROVE TableOK(vis, saved, acked[t], t)
    BY DEF TablesOK
  <2>1. vis[File(t, "s")] = None /\ vis[File(t, "v")] = None /\ vis[File(t, ".d")] = None
    BY <1>1, FileFacts DEF Names
  <2>2. acked[t] = 0
    BY DEF Init
  <2> QED BY <2>1, <2>2 DEF TableOK
<1>5. LocksOK
  <2>1. \A p \in Procs : pc[p] = "idle" /\ lock # p
    BY Sentinels DEF Init
  <2> QED BY <2>1 DEF LocksOK, Flushing
<1>6. ASSUME NEW p \in Procs PROVE ProcOK(p, pc[p], job[p], dom[p], got[p], vis, saved, world.writer)
  <2>1. pc[p] = "idle" /\ dom[p] = None /\ got[p] = <<>>
    BY DEF Init
  <2> QED BY <2>1 DEF ProcOK, GotOK, Saving, Interned, Flushing, Writing, Reading
<1> QED BY <1>2, <1>3, <1>4, <1>5, <1>6 DEF SplayInv

LEMMA WorldFixed == [Next]_vars => world' = world
<1> SUFFICES ASSUME [Next]_vars PROVE world' = world
  OBVIOUS
<1>1. ASSUME NEW p \in Procs, Call(p) PROVE world' = world
  BY <1>1 DEF Call, SaveCall, LoadCall
<1>2. ASSUME NEW p \in Procs, Step(p) PROVE world' = world
  BY <1>2 DEF Step, SaveOpen, SaveOpenFails, FlushNothing, FlushLock, FlushVerify, FlushRename, FlushDone,
              FlushFails, WriteFile, SyncDir, WriteFails, Sweep, LoadDom, LoadSchema, LoadColumn, LoadNext
<1>3. ASSUME NEW p \in Procs, DropDomain(p) \/ Crash(p) PROVE world' = world
  BY <1>3 DEF DropDomain, Crash
<1>4. PowerLoss => world' = world
  BY DEF PowerLoss
<1>5. CASE UNCHANGED vars
  BY <1>5 DEF vars
<1> QED BY <1>1, <1>2, <1>3, <1>4, <1>5 DEF Next

LEMMA SplayNext == SplayInv /\ NoPower /\ [Next]_vars => SplayInv' /\ NoPower'
<1> SUFFICES ASSUME SplayInv, NoPower, [Next]_vars PROVE SplayInv' /\ NoPower'
  OBVIOUS
<1>1. ASSUME NEW p \in Procs, Call(p) PROVE SplayInv'
  BY <1>1, SaveCallStep, LoadCallStep DEF Call
<1>2. ASSUME NEW p \in Procs, Step(p) PROVE SplayInv'
  BY <1>2, SaveOpenStep, SaveOpenFailsStep, FlushNothingStep, FlushLockStep, FlushVerifyStep, FlushRenameStep,
     FlushDoneStep, FlushFailsStep, WriteFileStep, SyncDirStep, WriteFailsStep, SweepStep,
     LoadDomStep, LoadSchemaStep, LoadColumnStep, LoadNextStep DEF Step
<1>3. ~PowerLoss
  BY DEF PowerLoss, NoPower
<1>4. ASSUME UNCHANGED vars PROVE SplayInv'
  <2>1. UNCHANGED <<world, vis, may, dom, lock, pc, job, got, saved, acked>>
    BY <1>4 DEF vars
  <2>2. Shapes' /\ LocksOK'
    BY <2>1 DEF SplayInv, Shapes, LocksOK
  <2>3. /\ SymfileOK(vis') /\ TablesOK(vis', saved', acked')
        /\ \A p \in Procs : ProcOK(p, pc'[p], job'[p], dom'[p], got'[p], vis', saved', world'.writer)
    BY <2>1 DEF SplayInv
  <2> QED BY <2>2, <2>3 DEF SplayInv
<1>5. SplayInv'
  BY <1>1, <1>2, <1>3, <1>4, DropDomainStep, CrashStep DEF Next
<1> QED BY <1>5, WorldFixed DEF NoPower

\* What the invariant says of the files: nothing is torn, and files are of saves.
LEMMA FilesFacts ==
    ASSUME SplayInv, NEW t \in Tables, NEW c \in Names, vis[File(t, c)] # None
    PROVE  vis[File(t, c)] # Torn /\ vis[File(t, c)].gen \in Nat
<1>1. TableOK(vis, saved, acked[t], t)
  BY DEF SplayInv, TablesOK
<1>2. CASE c = "s"
  BY <1>1, <1>2, Sentinels DEF TableOK, ColOK, SymColumns
<1>3. CASE c = "v"
  BY <1>1, <1>3, Sentinels DEF TableOK, PlainOK, Plains
<1>4. CASE c = ".d"
  BY <1>1, <1>4, Sentinels DEF TableOK, SchemaOK, Schemas
<1> QED BY <1>2, <1>3, <1>4 DEF Names

LEMMA InvCovers == SplayInv => SymCovers
<1> SUFFICES ASSUME SplayInv, NEW t \in Tables, vis[File(t, "s")] # None
             PROVE  Means(vis[File(t, "s")], OnDisk)
  BY DEF SymCovers
<1>1. TableOK(vis, saved, acked[t], t)
  BY DEF SplayInv, TablesOK
<1>2. ColOK(vis[File(t, "s")], OnDisk, saved, t)
  BY <1>1, DiskIsOnDisk DEF TableOK
<1> QED BY <1>2 DEF ColOK, Means

LEMMA InvHonest == SplayInv => TablesHonest
<1> SUFFICES ASSUME SplayInv PROVE TablesHonest
  OBVIOUS
<1>1. TypeOK
  <2>1. ASSUME NEW p \in Procs, dom[p] # None
        PROVE  /\ dom[p].syms \in Seq(Syms) /\ dom[p].base <= dom[p].disk
               /\ dom[p].disk <= Len(dom[p].syms) /\ IsInjective(dom[p].syms)
    BY <2>1, Parts DEF DomOK, Domains
  <2>2. lock \in Procs \cup {None} /\ \A f \in Files : may[f] # {}
    BY DEF SplayInv, Shapes
  <2>3. \A p \in Procs : lock = p <=> pc[p] \in {"verify", "rename", "symdir"}
    BY DEF SplayInv, LocksOK, Flushing
  <2> QED BY <2>1, <2>2, <2>3 DEF TypeOK
<1>2. LoadHonest
  <2> SUFFICES ASSUME NEW p \in Procs, dom[p] = None \/ Flushed(dom[p]), NEW i \in DOMAIN got[p]
               PROVE  Right(got[p][i])
    BY DEF LoadHonest
  <2>1. CellOK(got[p][i], dom[p], saved)
    BY Parts DEF GotOK
  <2> QED BY <2>1 DEF CellOK, Of, Right
<1>3. CommitMarker
  <2> SUFFICES ASSUME NEW t \in Tables, vis[File(t, ".d")] # None, NEW c \in vis[File(t, ".d")].cols
               PROVE  vis[File(t, c)] \notin {None, Torn} /\ vis[File(t, c)].gen >= vis[File(t, ".d")].gen
    BY DEF CommitMarker
  <2>1. TableOK(vis, saved, acked[t], t)
    BY DEF SplayInv, TablesOK
  <2>2. SchemaOK(vis[File(t, ".d")], saved, t) /\ Since(vis, t, vis[File(t, ".d")].cols, vis[File(t, ".d")].gen)
    BY <2>1 DEF TableOK
  <2>3. c \in Names
    BY <2>2, ColumnNames DEF SchemaOK, Schemas
  <2>4. vis[File(t, c)] # None /\ vis[File(t, c)].gen >= vis[File(t, ".d")].gen
    BY <2>2 DEF Since
  <2> QED BY <2>3, <2>4, FilesFacts
<1> QED BY <1>1, <1>2, <1>3 DEF TablesHonest

LEMMA InvDurable == SplayInv => Durable
<1> SUFFICES ASSUME SplayInv, NEW t \in Tables, acked[t] # 0, NEW c \in saved[acked[t]].cols \cup {".d"}
             PROVE  vis[File(t, c)] \notin {None, Torn} /\ vis[File(t, c)].gen >= acked[t]
  BY DEF Durable
<1>1. TableOK(vis, saved, acked[t], t)
  BY DEF SplayInv, TablesOK
<1>2. acked[t] \in 1 .. Len(saved) /\ Since(vis, t, saved[acked[t]].cols \cup {".d"}, acked[t])
  BY <1>1 DEF TableOK
<1>3. c \in Names
  BY <1>2, SavedFacts, ColumnNames
<1>4. vis[File(t, c)] # None /\ vis[File(t, c)].gen >= acked[t]
  BY <1>2 DEF Since
<1> QED BY <1>3, <1>4, FilesFacts

\* SplayInv holds throughout, in every deployment without power losses
\* (splay_save_impl, splay_load_impl, ray_sym_domain_flush).
THEOREM SplayInvariant == Spec => [](NoPower => SplayInv)
<1>1. Init => (NoPower => SplayInv)
  BY SplayInit
<1>2. (NoPower => SplayInv) /\ [Next]_vars => (NoPower => SplayInv)'
  <2>1. ASSUME ~NoPower, [Next]_vars PROVE ~NoPower'
    BY <2>1, WorldFixed DEF NoPower
  <2> QED BY <2>1, SplayNext
<1> QED BY <1>1, <1>2, PTL DEF Spec

\* Symbols first: a symbol column on disk refers to positions of the symfile that
\* stand for the symbols saved, however many processes append to it, fail in the
\* middle or die, and whether their saves are durable or bulk
\* (ray_sym_domain_flush before the columns in splay_save_impl).
THEOREM SplaySymCovers == Spec => [](NoPower => SymCovers)
<1>1. (NoPower => SplayInv) => (NoPower => SymCovers)
  BY InvCovers
<1> QED BY <1>1, SplayInvariant, PTL

\* A load of one table or of several returns what was saved or fails, .d lists
\* columns that are there, and the lock of the symfile is held exactly by the
\* process rewriting it (splay_load_impl, the loader of col.c, the lock of
\* ray_sym_domain_flush).
THEOREM SplayHonest == Spec => [](NoPower => TablesHonest)
<1>1. (NoPower => SplayInv) => (NoPower => TablesHonest)
  BY InvHonest
<1> QED BY <1>1, SplayInvariant, PTL

\* The files of an acknowledged save stay, of it or of a later save, through the
\* failures and deaths of that table's writer and of the others; the sweep of
\* stale columns never takes one (splay_sweep_stale).
THEOREM SplayDurable == Spec => [](NoPower => Durable)
<1>1. (NoPower => SplayInv) => (NoPower => Durable)
  BY InvDurable
<1> QED BY <1>1, SplayInvariant, PTL
=============================================================================
