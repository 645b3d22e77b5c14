-------------------------------- MODULE Sym --------------------------------
(***************************************************************************)
(* The process-wide symbol table (table/sym.c): interning, dotted names,   *)
(* the snapshot file that restores ids in a later process, and the lazily  *)
(* mapped dictionary of a large snapshot.                                  *)
(*                                                                         *)
(* Every operation holds the table's spinlock, so it is one step; a save   *)
(* gives the lock back once it has copied the strings, and its file steps  *)
(* interleave with everything else.  Id k of the code is k + 1 here.  A    *)
(* name is the sequence of its parts between dots: <<"a", "b">> is a.b and *)
(* <<"", "s", "b">> is .s.b; <<"">> is the empty symbol, the first id.     *)
(***************************************************************************)
EXTENDS Integers, Sequences, FiniteSets, SequencesExt, FiniteSetsExt

CONSTANTS
    Names,      \* names a program interns; HashOf is total on their segments
    Literals,   \* names a parsed text mentions
    Bulk,       \* names a CSV import interns
    Builtins,   \* names of the language, in the order they are interned
    HashOf,     \* hash of a name
    Cap0,       \* SYM_INIT_CAP
    LazyMin,    \* SYM_LAZY_LOAD_MIN_BYTES, in entries
    None,
    MaxSyms,    \* bound: entries of the table
    MaxSaves,   \* bound: saves
    MaxBoots    \* bound: processes

VARIABLES
    tab,    \* strings, buckets, scanned ids, segs of the dotted ids
    lazy,   \* the mapped dictionary and the next id to take from it
    disk,   \* the snapshot file, and what a power loss may leave of it
    save,   \* where the save is, and its copy of the strings
    up,     \* whether a process runs
    kept,   \* history: the strings of the last save that returned RAY_OK
    boots, saves

vars == <<tab, lazy, disk, save, up, kept, boots, saves>>

Empty == <<"">>
NoLazy == [file |-> <<>>, next |-> 1]

-----------------------------------------------------------------------------
(* The hash table.                                                          *)
CapOf(b) == Cardinality(DOMAIN b)
(* The first slot from h on that satisfies stop.                            *)
WalkTo(b, h, Stop(_)) ==
    LET at(j) == (h + j) % CapOf(b)
        hit == {j \in 0 .. CapOf(b) - 1 : Stop(at(j))}
    IN at(Min(hit))
HtInsert(b, h, id) == LET s == WalkTo(b, h, LAMBDA x : b[x] = 0) IN [b EXCEPT ![s] = id]
NoBuckets(cap) == [x \in 0 .. cap - 1 |-> 0]

HtGrowTo(t, cap) ==
    LET put(b, x) == IF t.buckets[x] = 0 THEN b ELSE HtInsert(b, HashOf[t.strings[t.buckets[x]]], t.buckets[x])
    IN [t EXCEPT !.buckets = FoldLeft(put, NoBuckets(cap), [i \in 1 .. CapOf(t.buckets) |-> i - 1])]

(* sym_probe: the id of a name, or 0.                                       *)
Probe(t, name) == t.buckets[WalkTo(t.buckets, HashOf[name], LAMBDA x : t.buckets[x] = 0 \/ t.strings[t.buckets[x]] = name)]

Loaded(count, cap) == count * 100 >= cap * 70
RoomFor(count, cap) == CHOOSE c \in {cap, 2 * cap, 4 * cap, 8 * cap} : ~Loaded(count, c) /\ \A d \in {cap, 2 * cap, 4 * cap} : d < c => Loaded(count, d)
(* sym_reserve_capacity, ray_sym_ensure_cap.                                *)
Reserve(t, more) ==
    LET cap == RoomFor(Len(t.strings) + more, CapOf(t.buckets))
    IN IF cap > CapOf(t.buckets) THEN HtGrowTo(t, cap) ELSE t

CommitNew(t, name) ==
    LET g == IF Loaded(Len(t.strings), CapOf(t.buckets)) THEN HtGrowTo(t, 2 * CapOf(t.buckets)) ELSE t
    IN [g EXCEPT !.strings = Append(@, name), !.buckets = HtInsert(@, HashOf[name], Len(g.strings) + 1)]

-----------------------------------------------------------------------------
(* Dotted names.  A trailing dot, an empty segment and a lone leading dot   *)
(* make a plain name; a leading dot belongs to the first segment.           *)
Segments(name) ==
    LET lead == name[1] = ""
        segs == IF lead THEN <<SubSeq(name, 1, 2)>> \o [i \in 1 .. Len(name) - 2 |-> <<name[i + 2]>>]
                ELSE [i \in DOMAIN name |-> <<name[i]>>]
        plain == \/ Len(name) = 1 \/ name[Len(name)] = ""
                 \/ lead /\ Len(name) = 2
                 \/ \E i \in DOMAIN segs : segs[i] = <<"">> \/ segs[i] = <<"", "">>
    IN IF plain THEN <<>> ELSE segs

(* Every segment is looked up first, and those that were missing are added  *)
(* one by one.                                                              *)
AddSegments(t, segs) ==
    LET found == [i \in DOMAIN segs |-> Probe(t, segs[i])]
        add(b, i) == IF found[i] # 0 THEN [b EXCEPT !.ids = Append(@, found[i])]
                     ELSE LET Plain(c) == [t |-> [c EXCEPT !.scanned = @ \cup {Len(c.strings)}], ids |-> Append(b.ids, Len(c.strings))]
                          IN Plain(CommitNew(b.t, segs[i]))
        fresh == Cardinality({i \in DOMAIN segs : found[i] = 0})
    IN FoldLeft(add, [t |-> Reserve(t, fresh + 1), ids |-> <<>>], [i \in DOMAIN segs |-> i])
Settle(t, id, ids) ==
    [t EXCEPT !.scanned = @ \cup {id}, !.segs = IF ids = <<>> THEN @ ELSE [k \in DOMAIN @ \cup {id} |-> IF k = id THEN ids ELSE @[k]]]

(* sym_cache_segments: of an existing symbol; ok says whether memory lasts. *)
CacheSegments(t, id, ok) ==
    LET segs == Segments(t.strings[id])
        Done(b) == Settle(b.t, id, b.ids)
    IN IF id \in t.scanned THEN t
       ELSE IF segs = <<>> THEN Settle(t, id, <<>>)
       ELSE IF ~ok THEN t
       ELSE Done(AddSegments(t, segs))

-----------------------------------------------------------------------------
(* sym_lazy_materialize_to_locked: strings come from the mapping in order.  *)
Unread(lz) == lz.next <= Len(lz.file)
TakeNext(b) ==
    LET id == b.lz.next
        name == b.lz.file[id]
    IN IF ~b.ok THEN b
       ELSE IF b.t.strings[id] # None THEN [b EXCEPT !.ok = b.t.strings[id] = name, !.lz.next = IF b.t.strings[id] = name THEN @ + 1 ELSE @]
       ELSE [b EXCEPT !.t.strings[id] = name, !.t.buckets = HtInsert(@, HashOf[name], id), !.lz.next = @ + 1]
Materialize(t, lz, target) ==
    FoldLeft(LAMBDA b, i : TakeNext(b), [t |-> t, lz |-> lz, ok |-> TRUE], [i \in 1 .. target - lz.next + 1 |-> i])
MaterializeAll(t, lz) == Materialize(t, lz, Len(lz.file))

(* The lookup that ends in a scan of the mapping.                           *)
(* Mutant: the mapping is left alone.                                       *)
SearchTable(t, lz, name, search) == [t |-> t, lz |-> lz, ok |-> TRUE]
Search(t, lz, name, search) ==
    IF search /\ Probe(t, name) = 0 /\ Unread(lz) THEN MaterializeAll(t, lz) ELSE [t |-> t, lz |-> lz, ok |-> TRUE]

Result(t, lz, id) == [t |-> t, lz |-> lz, id |-> id]
(* sym_intern_nolock: s is what the lookup left.                            *)
NewSymbol(c, lz, ids) == Result(Settle(c, Len(c.strings), ids), lz, Len(c.strings))
AddSymbol(b, lz, name) == NewSymbol(CommitNew(b.t, name), lz, b.ids)
InternIn(s, name, ok) ==
    LET id == Probe(s.t, name)
    IN IF ~s.ok THEN Result(s.t, s.lz, 0)
       ELSE IF id # 0 THEN Result(CacheSegments(s.t, id, ok), s.lz, id)
       ELSE IF ~ok THEN Result(s.t, s.lz, 0)
       ELSE AddSymbol(AddSegments(s.t, Segments(name)), s.lz, name)
InternName(t, lz, name, search, ok) == InternIn(Search(t, lz, name, search), name, ok)
(* sym_intern_nolock_noseg.                                                 *)
NoSplitIn(s, name) ==
    LET Newest(c) == Result(c, s.lz, Len(c.strings))
    IN IF ~s.ok THEN Result(s.t, s.lz, 0)
       ELSE IF Probe(s.t, name) # 0 THEN Result(s.t, s.lz, Probe(s.t, name))
       ELSE Newest(CommitNew(s.t, name))
InternNoSplit(t, lz, name) == NoSplitIn(Search(t, lz, name, TRUE), name)

(* ray_sym_rebuild_segments: over the entries there were at the call.       *)
Rebuild(t) ==
    FoldLeft(LAMBDA b, id : IF b.strings[id] = None THEN b ELSE CacheSegments(b, id, TRUE), t, [i \in DOMAIN t.strings |-> i])

-----------------------------------------------------------------------------
(* ray_sym_load into a fresh table.                                         *)
Fresh == Result([strings |-> <<>>, buckets |-> NoBuckets(Cap0), scanned |-> {}, segs |-> <<>>], NoLazy, 0)
Initial == InternName(Fresh.t, NoLazy, Empty, TRUE, TRUE).t

(* Every entry must land at its place in the file.                          *)
LoadEager(file) ==
    LET Placed(r, i) == [t |-> r.t, lz |-> NoLazy, ok |-> r.id = i]
        step(b, i) == IF ~b.ok THEN b ELSE Placed(InternNoSplit(b.t, NoLazy, file[i]), i)
        Rebuilt(end) == IF end.ok THEN [end EXCEPT !.t = Rebuild(@)] ELSE end
    IN Rebuilt(FoldLeft(step, [t |-> Initial, lz |-> NoLazy, ok |-> TRUE], [i \in DOMAIN file |-> i]))
(* A large file stays mapped: ids are taken at once, strings later; what    *)
(* the table already has must agree with it.                                *)
MapOver(t, file) ==
    LET now == Len(t.strings)
        more == IF Len(file) > now THEN Len(file) - now ELSE 0
        grown == [Reserve(t, more) EXCEPT !.strings = @ \o [i \in 1 .. more |-> None]]
        Kept(m) == IF m.ok THEN m ELSE [m EXCEPT !.lz = NoLazy]
    IN Kept(Materialize(grown, [file |-> file, next |-> 1], IF now < Len(file) THEN now ELSE Len(file)))
LoadLazy(file) == MapOver(Initial, file)
Load(file) ==
    IF file = None THEN [t |-> Initial, lz |-> NoLazy, ok |-> TRUE]
    ELSE IF Len(file) >= LazyMin THEN LoadLazy(file) ELSE LoadEager(file)

InternAll(t, lz, names) ==
    FoldLeft(LAMBDA b, name : InternName(b.t, b.lz, name, TRUE, TRUE), Result(t, lz, 0), names)
(* The snapshot goes before the names of the language.                      *)
Start(file) == LET Named(l) == InternAll(l.t, l.lz, Builtins) IN Named(Load(file))

-----------------------------------------------------------------------------
Idle == [pc |-> "idle", snap |-> <<>>]
Init ==
    /\ disk = [file |-> None, may |-> {None}]
    /\ tab = Fresh.t /\ lazy = NoLazy /\ save = Idle /\ up = FALSE
    /\ kept = <<>> /\ boots = 0 /\ saves = 0

Reply(r) == tab' = r.t /\ lazy' = r.lz

(* ray_runtime_create_with_sym.                                             *)
Boot ==
    /\ ~up /\ boots < MaxBoots
    /\ Reply(Start(disk.file))
    /\ up' = TRUE /\ boots' = boots + 1
    /\ UNCHANGED <<disk, save, kept, saves>>

Stay == UNCHANGED <<disk, save, up, kept, boots, saves>>
Room == up /\ Len(tab.strings) + 3 <= MaxSyms

Intern(name, ok) == Room /\ Reply(InternName(tab, lazy, name, TRUE, ok)) /\ Stay
InternRuntime(name, ok) == Room /\ Reply(InternName(tab, lazy, name, FALSE, ok)) /\ Stay
(* The merge of a CSV import: a batch without segments, then a rebuild.     *)
BulkIntern(names) ==
    /\ Room
    /\ Reply(FoldLeft(LAMBDA r, name : InternNoSplit(r.t, r.lz, name), Result(Reserve(tab, Len(names)), lazy, 0), names))
    /\ Stay
RebuildSegments == up /\ Reply(Result(Rebuild(tab), lazy, 0)) /\ Stay
(* ray_sym_find: the mapping is read to its end before the answer is no.    *)
Find(name) ==
    /\ up
    /\ Reply(Search(tab, lazy, name, TRUE))
    /\ Stay

(* ray_sym_save.                                                            *)
SaveBegin ==
    /\ up /\ save.pc = "idle" /\ saves < MaxSaves
    /\ saves' = saves + 1
    /\ LET m == MaterializeAll(tab, lazy)
       IN /\ tab' = m.t /\ lazy' = m.lz
          /\ save' = IF m.ok THEN [pc |-> "write", snap |-> m.t.strings] ELSE Idle
    /\ UNCHANGED <<disk, up, kept, boots>>
(* The temporary file is written and synced, or removed.                    *)
SaveWrite == save.pc = "write" /\ save' = [save EXCEPT !.pc = "rename"] /\ UNCHANGED <<tab, lazy, disk, up, kept, boots, saves>>
SaveRename ==
    /\ save.pc = "rename" /\ save' = [save EXCEPT !.pc = "dir"]
    /\ disk' = [file |-> save.snap, may |-> disk.may \cup {save.snap}]
    /\ UNCHANGED <<tab, lazy, up, kept, boots, saves>>
SaveDone ==
    /\ save.pc = "dir" /\ save' = Idle
    /\ disk' = [disk EXCEPT !.may = {disk.file}]
    /\ kept' = save.snap
    /\ UNCHANGED <<tab, lazy, up, boots, saves>>
SaveFails == save.pc # "idle" /\ save' = Idle /\ UNCHANGED <<tab, lazy, disk, up, kept, boots, saves>>

Gone == up' = FALSE /\ tab' = Fresh.t /\ lazy' = NoLazy /\ save' = Idle /\ UNCHANGED <<kept, boots, saves>>
Exit == up /\ Gone /\ UNCHANGED disk
PowerLoss == up /\ Gone /\ \E file \in disk.may : disk' = [file |-> file, may |-> {file}]

Next ==
    \/ Boot
    \/ \E name \in Names : Intern(name, TRUE) \/ Intern(name, FALSE) \/ Find(name)
    \/ \E name \in Literals, ok \in BOOLEAN : InternRuntime(name, ok)
    \/ BulkIntern(Bulk) \/ RebuildSegments
    \/ SaveBegin \/ SaveWrite \/ SaveRename \/ SaveDone \/ SaveFails
    \/ Exit \/ PowerLoss
Spec == Init /\ [][Next]_vars

-----------------------------------------------------------------------------
(* What an id stands for: its string, or its entry in the mapping.          *)
Str(t, lz, id) == IF t.strings[id] # None THEN t.strings[id] ELSE IF id \in DOMAIN lz.file THEN lz.file[id] ELSE None
Words == [id \in DOMAIN tab.strings |-> Str(tab, lazy, id)]

(* Types: a string for every entry, ids in the buckets and in the caches.   *)
TypeOK ==
    /\ \A id \in DOMAIN Words : Words[id] # None
    /\ \A x \in DOMAIN tab.buckets : tab.buckets[x] \in 0 .. Len(tab.strings)
    /\ DOMAIN tab.segs \subseteq tab.scanned /\ tab.scanned \subseteq DOMAIN tab.strings
    /\ disk.file \in disk.may

(* A name has one id, whatever was interned, looked up or still unread.     *)
OneId == \A i, j \in DOMAIN Words : Words[i] = Words[j] => i = j

(* Every string is found by its hash after any growth of the table.         *)
ProbeFinds == \A id \in DOMAIN tab.strings : tab.strings[id] # None => Probe(tab, tab.strings[id]) = id

(* A settled name is dotted exactly when its spelling is, and its segments  *)
(* spell it; env lookup walks them.                                         *)
DottedHonest ==
    \A id \in tab.scanned :
        LET segs == Segments(Words[id])
        IN IF id \in DOMAIN tab.segs THEN [i \in DOMAIN tab.segs[id] |-> Words[tab.segs[id][i]]] = segs ELSE segs = <<>>

(* Ids of an acknowledged snapshot mean the same in every later process,    *)
(* after crashes and power losses and whatever later saves got to.          *)
KeptStable == up => Len(kept) <= Len(Words) /\ \A id \in DOMAIN kept : Words[id] = kept[id]

(* Whatever the snapshot file holds can be loaded again.                    *)
LoadsBack == disk.file # None => Load(disk.file).ok
=============================================================================
