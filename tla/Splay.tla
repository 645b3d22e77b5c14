------------------------------- MODULE Splay -------------------------------
(***************************************************************************)
(* Splayed tables and the symbol file they share: src/store/splay.c, the   *)
(* symbol domains of src/table/domain.c and the column files of            *)
(* src/store/col.c.  A table is a directory: a file per column and the     *)
(* schema file .d; cells of symbol columns are positions in a symfile that *)
(* several tables (the partitions of a database) share.  A save writes the *)
(* symfile, then the columns, then .d, each by write, sync, rename and     *)
(* sync of the directory; a bulk save leaves the syncs out.                *)
(*                                                                         *)
(* Every table has one writer, the processes share only the symfile.       *)
(* A table has a symbol column "s" and a plain column "v", or only "v".    *)
(* Position 0 is the empty symbol in every symfile and left out, so        *)
(* positions start at 1; symbols all have the same length, so that files   *)
(* with as many symbols have the same size.                                *)
(***************************************************************************)
EXTENDS Integers, Sequences, FiniteSets, SequencesExt

CONSTANTS
    Procs,      \* processes
    Tables,     \* table directories
    Worlds,     \* deployments: who saves which table, which faults may happen
    Syms,       \* symbols
    Contents,   \* what a table is saved with: its columns, the cells of its rows
    None,       \* no such file, no such domain
    Torn,       \* a file whose content did not reach the disk
    MaxGen,     \* bound: saves
    MaxLoads,   \* bound: loads
    MaxCrash    \* bound: deaths of processes and power losses

Kinds == {"bulk", "io", "power", "crash"}

(* What files and domain objects hold.                                      *)
ColumnSets == {{"s", "v"}, {"v"}}
SymColumns == [gen : Nat, cnt : Nat, pos : Seq(Nat)]
Plains == [gen : Nat, len : Nat]
Schemas == [gen : Nat, cols : ColumnSets]
Domains == [syms : Seq(Syms), disk : Nat, base : Nat]

ASSUME Shape ==
    /\ Worlds \subseteq [writer : [Tables -> Procs], faults : SUBSET Kinds]
    /\ Contents \subseteq [cols : ColumnSets, row : Seq(Syms) \ {<<>>}]
    /\ IsFiniteSet(Tables) /\ Tables # {}
    /\ MaxGen \in Nat /\ MaxLoads \in Nat /\ MaxCrash \in Nat

ASSUME Sentinels ==
    /\ None \notin Procs /\ None \notin Domains
    /\ \A x \in {None, Torn} : x \notin Seq(Syms) /\ x \notin SymColumns /\ x \notin Plains /\ x \notin Schemas

VARIABLES
    world,  \* the deployment; never changes
    vis,    \* vis[f]: what a process reads from file f
    may,    \* may[f]: what may be left of f after a power loss
    dom,    \* dom[p]: domain object of the symfile: its symbols, disk_count, base_count
    lock,   \* holder of the symfile's lock file
    pc,     \* pc[p]: where the call of p is
    job,    \* job[p]: the call's arguments and progress
    got,    \* got[p]: the columns the load of p has read
    saved,  \* history: saved[g] is the table of save g
    acked,  \* history: acked[t] is the last durable save that returned RAY_OK
    loads, crashes

vars == <<world, vis, may, dom, lock, pc, job, got, saved, acked, loads, crashes>>

Sym == <<"sym", "sym">>
File(t, c) == <<t, c>>
Files == {Sym} \cup (Tables \X {"s", "v", ".d"})
NoJob == [kind |-> "none"]

Init ==
    /\ world \in Worlds
    /\ vis = [f \in Files |-> None] /\ may = [f \in Files |-> {None}]
    /\ dom = [p \in Procs |-> None] /\ lock = None
    /\ pc = [p \in Procs |-> "idle"] /\ job = [p \in Procs |-> NoJob] /\ got = [p \in Procs |-> <<>>]
    /\ saved = <<>> /\ acked = [t \in Tables |-> 0]
    /\ loads = 0 /\ crashes = 0

-----------------------------------------------------------------------------
(* Files.                                                                   *)

(* What a power loss may leave matters only where there may be one.         *)
Left(m) == may' = IF "power" \in world.faults THEN m ELSE may

(* Write to a temporary file and rename; the data is synced first when the  *)
(* save is durable.                                                         *)
Replace(f, content, durable) ==
    /\ vis' = [vis EXCEPT ![f] = content]
    /\ Left([may EXCEPT ![f] = @ \cup (IF durable THEN {content} ELSE {content, Torn})])

(* Mutant: the directory is never synced.                                   *)
DirUnsynced(fs) == may

(* ray_file_sync_dir: names are on disk now, data that was never synced may *)
(* still be missing.                                                        *)
DirSynced(fs) == [f \in Files |-> IF f \in fs THEN may[f] \cap {vis[f], Torn} ELSE may[f]]
DirOf(f) == {g \in Files : g[1] = f[1]}

Return(p) == pc' = [pc EXCEPT ![p] = "idle"] /\ job' = [job EXCEPT ![p] = NoJob]
Goto(p, l) == pc' = [pc EXCEPT ![p] = l]

-----------------------------------------------------------------------------
(* The domain object.                                                       *)
OnDisk == IF vis[Sym] \in {None, Torn} THEN <<>> ELSE vis[Sym]

(* dom_extend_from_file_locked: the file grew by appends and nothing in     *)
(* memory is unflushed.  The published positions are compared record by     *)
(* record with the image mapped at open; the symbols appended and flushed   *)
(* since are not in it, and past base the comparison reads what it finds.   *)
Extends(d) == Len(OnDisk) >= d.disk /\ Len(d.syms) = d.disk /\ IsPrefix(d.syms, OnDisk)

(* dom_open_impl: the cached object if the size of the file is what it was, *)
(* or the file extends it; a fresh mapping if there is none.                *)
Current(p) == dom[p] # None /\ Len(OnDisk) = dom[p].disk
ReadsPast(p) == dom[p] # None /\ ~Current(p) /\ Extends(dom[p]) /\ Len(dom[p].syms) > dom[p].base
Openable(p) == Current(p) \/ (vis[Sym] # Torn /\ IF dom[p] = None THEN TRUE ELSE Extends(dom[p]))
Opened(p) == IF Current(p) THEN dom[p] ELSE [syms |-> OnDisk, disk |-> Len(OnDisk), base |-> Len(OnDisk)]

(* ray_sym_domain_intern of every cell: the symbols that are not there yet  *)
(* are appended, each once, in the order in which the cells have them.      *)
Merged(syms, row) ==
    LET new == ToSet(row) \ ToSet(syms)
        Before(x, y) == \E i \in DOMAIN row : row[i] = x /\ \A j \in 1 .. i : row[j] # y
    IN {syms \o add : add \in {n \in [1 .. Cardinality(new) -> new] :
            /\ new \subseteq ToSet(n)
            /\ \A i, j \in DOMAIN n : i < j => Before(n[i], n[j])}}

Position(syms, x) == CHOOSE i \in DOMAIN syms : syms[i] = x

(* The last reference to the domain goes with the columns that held it.     *)
DropDomain(p) ==
    /\ pc[p] = "idle" /\ dom[p] # None
    /\ dom' = [dom EXCEPT ![p] = None]
    /\ UNCHANGED <<world, vis, may, lock, pc, job, got, saved, acked, loads, crashes>>

-----------------------------------------------------------------------------
(* ray_splay_save, ray_splay_save_bulk.                                     *)

SaveFiles(cols) == IF "s" \in cols THEN <<"s", "v", ".d">> ELSE <<"v", ".d">>
LoadFiles(cols) == IF "s" \in cols THEN <<"s", "v">> ELSE <<"v">>

SaveCall(p, t, x, durable) ==
    /\ pc[p] = "idle" /\ world.writer[t] = p /\ Len(saved) < MaxGen
    /\ saved' = Append(saved, [t |-> t, cols |-> x.cols, row |-> x.row])
    /\ job' = [job EXCEPT ![p] = [kind |-> "save", t |-> t, gen |-> Len(saved) + 1, durable |-> durable,
                                  todo |-> SaveFiles(x.cols)]]
    /\ Goto(p, IF "s" \in x.cols THEN "open" ELSE "write")
    /\ acked' = IF durable THEN acked ELSE [acked EXCEPT ![t] = 0]
    /\ UNCHANGED <<world, vis, may, dom, lock, got, loads, crashes>>

SaveOpen(p) ==
    /\ pc[p] = "open" /\ Openable(p)
    /\ \E syms \in Merged(Opened(p).syms, saved[job[p].gen].row) :
          dom' = [dom EXCEPT ![p] = [Opened(p) EXCEPT !.syms = syms]]
    /\ Goto(p, "flush")
    /\ UNCHANGED <<world, vis, may, lock, job, got, saved, acked, loads, crashes>>

SaveOpenFails(p) ==
    /\ pc[p] = "open" /\ (Openable(p) => ReadsPast(p))
    /\ Return(p)
    /\ UNCHANGED <<world, vis, may, dom, lock, got, saved, acked, loads, crashes>>

(* ray_sym_domain_flush.                                                    *)
FlushNothing(p) ==
    /\ pc[p] = "flush" /\ Len(dom[p].syms) = dom[p].disk
    /\ Goto(p, "write")
    /\ UNCHANGED <<world, vis, may, dom, lock, job, got, saved, acked, loads, crashes>>

FlushLock(p) ==
    /\ pc[p] = "flush" /\ Len(dom[p].syms) # dom[p].disk
    /\ lock = None /\ lock' = p
    /\ Goto(p, "verify")
    /\ UNCHANGED <<world, vis, may, dom, job, got, saved, acked, loads, crashes>>

(* Mutant: the file is overwritten whatever is in it.                       *)
BaseUnchecked(p) == TRUE

(* Size and count of the file are what this object last persisted.          *)
BaseUnchanged(p) == vis[Sym] # Torn /\ Len(OnDisk) = dom[p].disk

FlushVerify(p) ==
    /\ pc[p] = "verify"
    /\ IF BaseUnchanged(p) THEN Goto(p, "rename") /\ UNCHANGED <<lock, job>>
                           ELSE lock' = None /\ Return(p)
    /\ UNCHANGED <<world, vis, may, dom, got, saved, acked, loads, crashes>>

FlushRename(p) ==
    /\ pc[p] = "rename"
    /\ Replace(Sym, dom[p].syms, job[p].durable)
    /\ Goto(p, "symdir")
    /\ UNCHANGED <<world, dom, lock, job, got, saved, acked, loads, crashes>>

FlushDone(p) ==
    /\ pc[p] = "symdir"
    /\ Left(IF job[p].durable THEN DirSynced({Sym}) ELSE may)
    /\ dom' = [dom EXCEPT ![p].disk = Len(dom[p].syms)]
    /\ lock' = None
    /\ Goto(p, "write")
    /\ UNCHANGED <<world, vis, job, got, saved, acked, loads, crashes>>

(* Any of the calls fails before the rename, or the sync of the directory   *)
(* after it.                                                                *)
FlushFails(p) ==
    /\ "io" \in world.faults
    /\ pc[p] \in {"verify", "rename"} \/ (pc[p] = "symdir" /\ job[p].durable)
    /\ lock' = None /\ Return(p)
    /\ UNCHANGED <<world, vis, may, dom, got, saved, acked, loads, crashes>>

(* Column files, re-encoded as positions, and .d.                           *)
Content(p, c) ==
    LET g == job[p].gen
        row == saved[g].row
        syms == dom[p].syms
    IN CASE c = "s" -> [gen |-> g, cnt |-> Len(syms), pos |-> [i \in DOMAIN row |-> Position(syms, row[i])]]
         [] c = "v" -> [gen |-> g, len |-> Len(row)]
         [] c = ".d" -> [gen |-> g, cols |-> saved[g].cols]

Target(p) == File(job[p].t, Head(job[p].todo))

WriteFile(p) ==
    /\ pc[p] = "write" /\ job[p].todo # <<>>
    /\ Replace(Target(p), Content(p, Head(job[p].todo)), job[p].durable)
    /\ Goto(p, "dirsync")
    /\ UNCHANGED <<world, dom, lock, job, got, saved, acked, loads, crashes>>

SyncDir(p) ==
    /\ pc[p] = "dirsync"
    /\ Left(IF job[p].durable THEN DirSynced(DirOf(Target(p))) ELSE may)
    /\ job' = [job EXCEPT ![p].todo = Tail(@)]
    /\ Goto(p, "write")
    /\ UNCHANGED <<world, vis, dom, lock, got, saved, acked, loads, crashes>>

WriteFails(p) ==
    /\ "io" \in world.faults
    /\ (pc[p] = "write" /\ job[p].todo # <<>>) \/ (pc[p] = "dirsync" /\ job[p].durable)
    /\ Return(p)
    /\ UNCHANGED <<world, vis, may, dom, lock, got, saved, acked, loads, crashes>>

(* splay_sweep_stale, then RAY_OK.                                          *)
Sweep(p) ==
    /\ pc[p] = "write" /\ job[p].todo = <<>>
    /\ LET t == job[p].t
           stale == {File(t, c) : c \in {"s", "v"} \ saved[job[p].gen].cols}
       IN /\ vis' = [f \in Files |-> IF f \in stale THEN None ELSE vis[f]]
          /\ Left([f \in Files |-> IF f \in stale THEN may[f] \cup {None} ELSE may[f]])
          /\ acked' = [acked EXCEPT ![t] = IF job[p].durable THEN job[p].gen ELSE 0]
    /\ Return(p)
    /\ UNCHANGED <<world, dom, lock, got, saved, loads, crashes>>

-----------------------------------------------------------------------------
(* ray_read_splayed of one table, ray_read_parted of several: the symfile   *)
(* is opened once, before any schema or column.                             *)
LoadCall(p, ts) ==
    /\ pc[p] = "idle" /\ loads < MaxLoads
    /\ loads' = loads + 1
    /\ job' = [job EXCEPT ![p] = [kind |-> "load", ts |-> ts, todo |-> <<>>, len |-> 0, hasdom |-> FALSE]]
    /\ Goto(p, "loaddom")
    /\ UNCHANGED <<world, vis, may, dom, lock, got, saved, acked, crashes>>

LoadDom(p) ==
    /\ pc[p] = "loaddom"
    /\ IF vis[Sym] = None
       THEN Goto(p, "schema") /\ UNCHANGED <<dom, job>>
       ELSE \/ (Openable(p) => ReadsPast(p)) /\ Return(p) /\ UNCHANGED dom
            \/ /\ Openable(p)
               /\ dom' = [dom EXCEPT ![p] = Opened(p)]
               /\ job' = [job EXCEPT ![p].hasdom = TRUE]
               /\ Goto(p, "schema")
    /\ UNCHANGED <<world, vis, may, lock, got, saved, acked, loads, crashes>>

LoadSchema(p) ==
    /\ pc[p] = "schema"
    /\ LET d == vis[File(Head(job[p].ts), ".d")]
       IN IF d \in {None, Torn} THEN Return(p) /\ got' = [got EXCEPT ![p] = <<>>]
          ELSE /\ job' = [job EXCEPT ![p].todo = LoadFiles(d.cols), ![p].len = 0]
               /\ Goto(p, "column") /\ UNCHANGED got
    /\ UNCHANGED <<world, vis, may, dom, lock, saved, acked, loads, crashes>>

(* Mutant: the count of symbols stored in the column is not checked.        *)
RejectedNoCount(p, c, x) ==
    \/ x \in {None, Torn}
    \/ c = "s" /\ (~job[p].hasdom \/ \E i \in DOMAIN x.pos : x.pos[i] > Len(dom[p].syms) + 1)
    \/ c = "v" /\ job[p].len > 0 /\ x.len # job[p].len

(* The checks of the column loader and of the length against the first      *)
(* column; anything wrong ends the load with an error.                      *)
Rejected(p, c, x) ==
    \/ x \in {None, Torn}
    \/ c = "s" /\ (~job[p].hasdom \/ x.cnt > Len(dom[p].syms))
    \/ c = "v" /\ job[p].len > 0 /\ x.len # job[p].len

(* A position the domain does not have reads as no symbol.                  *)
Decoded(syms, i) == IF i \in DOMAIN syms THEN syms[i] ELSE None

LoadColumn(p) ==
    /\ pc[p] = "column" /\ job[p].todo # <<>>
    /\ LET col == Head(job[p].todo)
           t == Head(job[p].ts)
           x == vis[File(t, col)]
       IN IF Rejected(p, col, x) THEN Return(p) /\ got' = [got EXCEPT ![p] = <<>>]
          ELSE /\ got' = [got EXCEPT ![p] =
                              Append(@, [gen |-> x.gen, t |-> t, c |-> col,
                                         row |-> IF col = "s" THEN [i \in DOMAIN x.pos |-> Decoded(dom[p].syms, x.pos[i])] ELSE <<>>])]
               /\ job' = [job EXCEPT ![p].todo = Tail(@), ![p].len = IF col = "s" THEN Len(x.pos) ELSE x.len]
               /\ UNCHANGED pc
    /\ UNCHANGED <<world, vis, may, dom, lock, saved, acked, loads, crashes>>

LoadNext(p) ==
    /\ pc[p] = "column" /\ job[p].todo = <<>>
    /\ IF Len(job[p].ts) = 1 THEN Return(p) /\ got' = [got EXCEPT ![p] = <<>>]
       ELSE job' = [job EXCEPT ![p].ts = Tail(@)] /\ Goto(p, "schema") /\ UNCHANGED got
    /\ UNCHANGED <<world, vis, may, dom, lock, saved, acked, loads, crashes>>

-----------------------------------------------------------------------------
(* A process dies: its memory and its lock go, files stay as they are.      *)
Die(ps) ==
    /\ dom' = [p \in Procs |-> IF p \in ps THEN None ELSE dom[p]]
    /\ pc' = [p \in Procs |-> IF p \in ps THEN "idle" ELSE pc[p]]
    /\ job' = [p \in Procs |-> IF p \in ps THEN NoJob ELSE job[p]]
    /\ got' = [p \in Procs |-> IF p \in ps THEN <<>> ELSE got[p]]
    /\ lock' = IF lock \in ps THEN None ELSE lock
    /\ crashes' = crashes + 1

Crash(p) ==
    /\ "crash" \in world.faults /\ crashes < MaxCrash /\ pc[p] # "idle"
    /\ Die({p})
    /\ UNCHANGED <<world, vis, may, saved, acked, loads>>

PowerLoss ==
    /\ "power" \in world.faults /\ crashes < MaxCrash
    /\ Die(Procs)
    /\ \E k \in [Files -> 1 .. Max({Cardinality(may[f]) : f \in Files})] :
          /\ \A f \in Files : k[f] <= Cardinality(may[f])
          /\ vis' = [f \in Files |-> SetToSeq(may[f])[k[f]]]
    /\ may' = [f \in Files |-> {vis'[f]}]
    /\ UNCHANGED <<world, saved, acked, loads>>

Step(p) ==
    \/ SaveOpen(p) \/ SaveOpenFails(p)
    \/ FlushNothing(p) \/ FlushLock(p) \/ FlushVerify(p) \/ FlushRename(p) \/ FlushDone(p) \/ FlushFails(p)
    \/ WriteFile(p) \/ SyncDir(p) \/ WriteFails(p) \/ Sweep(p)
    \/ LoadDom(p) \/ LoadSchema(p) \/ LoadColumn(p) \/ LoadNext(p)

Call(p) ==
    \/ \E t \in Tables, x \in Contents, durable \in BOOLEAN :
          (durable \/ "bulk" \in world.faults) /\ SaveCall(p, t, x, durable)
    \/ \E ts \in {<<t>> : t \in Tables} \cup {SetToSeq(Tables)} : LoadCall(p, ts)

Next ==
    \/ \E p \in Procs : Call(p) \/ Step(p) \/ DropDomain(p) \/ Crash(p)
    \/ PowerLoss

Spec == Init /\ [][Next]_vars /\ \A p \in Procs : WF_vars(Step(p))

-----------------------------------------------------------------------------
(* Types.                                                                   *)
TypeOK ==
    /\ \A p \in Procs : dom[p] = None \/ (dom[p].syms \in Seq(Syms) /\ dom[p].base <= dom[p].disk /\ dom[p].disk <= Len(dom[p].syms) /\ IsInjective(dom[p].syms))
    /\ lock \in Procs \cup {None}
    /\ \A p \in Procs : (lock = p) <=> pc[p] \in {"verify", "rename", "symdir"}
    /\ \A f \in Files : may[f] # {}

(* What a column file says, read with the symbols that are in the symfile.  *)
Means(x, syms) == x.cnt <= Len(syms) /\ \A i \in DOMAIN x.pos : syms[x.pos[i]] = saved[x.gen].row[i]

(* Symfile first: every symbol column that can be read refers to positions  *)
(* that the symfile has, and they stand for the symbols that were saved,    *)
(* whoever appended to the symfile in between, failed or died.              *)
SymCovers == \A t \in Tables : vis[File(t, "s")] \in {None, Torn} \/ Means(vis[File(t, "s")], OnDisk)

(* A load that succeeds returns what was saved: every column decodes to the *)
(* cells of one save of that table.  Errors are allowed, wrong symbols are  *)
(* not, as long as the process holds no symbol that a flush failed to       *)
(* write.                                                                   *)
Flushed(d) == Len(d.syms) = d.disk
Right(x) == saved[x.gen].t = x.t /\ (x.c = "s" => x.row = saved[x.gen].row)
LoadHonest ==
    \A p \in Procs : dom[p] = None \/ Flushed(dom[p]) => \A i \in DOMAIN got[p] : Right(got[p][i])

(* domain.c on a domain whose file was changed by others: "any other        *)
(* divergence is loud".  Not so for a process with symbols a flush failed to*)
(* write: another process writes others at their positions, and the count   *)
(* the column is checked against includes the unwritten ones.               *)
LoadAlways == \A p \in Procs : \A i \in DOMAIN got[p] : Right(got[p][i])

(* .d is the commit marker: the columns it lists are there, of its save or  *)
(* of a later one that overwrites the table.                                *)
CommitMarker ==
    \A t \in Tables :
        LET d == vis[File(t, ".d")]
        IN d \in {None, Torn} \/ \A c \in d.cols :
              vis[File(t, c)] \notin {None, Torn} /\ vis[File(t, c)].gen >= d.gen

(* What can be loaded at any moment: loads are honest, the commit marker is *)
(* true, and the lock is held exactly by the process that is rewriting the  *)
(* symfile (splay_load_impl, splay_save_impl, ray_sym_domain_flush).        *)
TablesHonest == TypeOK /\ LoadHonest /\ CommitMarker

(* What a durable save acknowledged survives a power loss: every file of    *)
(* it is there, of that save or of a later one of the same table.           *)
Durable ==
    \A t \in Tables : acked[t] # 0 =>
        \A c \in saved[acked[t]].cols \cup {".d"} :
            vis[File(t, c)] \notin {None, Torn} /\ vis[File(t, c)].gen >= acked[t]

(* The symbol column of a table that a durable save acknowledged reads as   *)
(* saved after a power loss.  Not so when its symbols were already in the   *)
(* symfile, put there by a bulk save or by another process that has not yet *)
(* synced the directory: there is nothing to flush, and nothing is synced.  *)
Persisted ==
    \A t \in Tables : acked[t] # 0 /\ "s" \in saved[acked[t]].cols /\ vis[File(t, "s")] \notin {None, Torn} =>
        Means(vis[File(t, "s")], OnDisk)

(* domain.c on the image the published positions are compared with: "old    *)
(* image bytes (count > 0)".  Not so for a process that appended symbols of *)
(* its own since it opened the symfile.                                     *)
ImageCovers == \A p \in Procs : pc[p] \in {"open", "loaddom"} => ~(ReadsPast(p) /\ dom[p].base > 0)
=============================================================================
