------------------------------- MODULE Domain -------------------------------
(***************************************************************************)
(* The symbols of a symfile in one process (table/domain.c): positions are *)
(* looked up without a lock while a thread that holds the domain's lock    *)
(* appends symbols or takes over those another process appended.           *)
(*                                                                         *)
(* The atoms live in an array that growth replaces, and an array that was  *)
(* replaced is retired, not freed.  A slot of the file is empty until its  *)
(* first use.  lut translates positions to ids of the process-wide table.  *)
(* Symbol s is the number s, its id in that table is Id(s).                *)
(***************************************************************************)
EXTENDS Integers, Sequences

CONSTANTS
    Readers,    \* threads that look positions up
    Start,      \* symbols in the file when it is opened
    MinCap,     \* 8: smallest capacity of an appended array
    MaxSyms     \* bound: symbols

ASSUME DomainAssumption == Start \in Nat /\ MinCap \in Nat \ {0} /\ MaxSyms \in Nat

Nil == 0
Wild == -1      \* read through an offset the mapping does not have
Id(s) == s + 10

VARIABLES
    arrays,     \* every array ever allocated: its slots
    freed,      \* arrays given back
    atoms,      \* the published array
    count,      \* the published count
    lut,        \* the published translation, or empty
    syms,       \* what the file and the appends say, position by position
    base,       \* entries of the mapping this process has
    file,       \* entries of the file; the process may not have seen them
    w,          \* the thread with the lock: its step, target and new array
    rd,         \* rd[r]: where reader r is, what it loaded
    known       \* positions other threads may hold: below it

vars == <<arrays, freed, atoms, count, lut, syms, base, file, w, rd, known>>

Free == [pc |-> "free", to |-> 0, arr |-> 0]
Quiet == [pc |-> "idle", pos |-> 0, arr |-> 0, got |-> Nil]
Init ==
    /\ syms = [i \in 1 .. Start |-> i] /\ file = Start /\ base = Start
    /\ arrays = <<[i \in 1 .. Start |-> Nil]>> /\ atoms = 1 /\ freed = {}
    /\ count = Start /\ known = Start /\ lut = <<>>
    /\ w = Free /\ rd = [r \in Readers |-> Quiet]

(* Another process flushes a symbol of its own; only when everything here   *)
(* is on disk does the next open take it over.                              *)
FileGrows ==
    /\ Len(syms) < MaxSyms /\ file = Len(syms) /\ count = file
    /\ syms' = Append(syms, Len(syms) + 1) /\ file' = file + 1
    /\ UNCHANGED <<arrays, freed, atoms, count, lut, base, w, rd, known>>
(* ray_sym_domain_flush: what is in memory is on disk.                      *)
Flush ==
    /\ w = Free /\ file < count /\ file' = count
    /\ UNCHANGED <<arrays, freed, atoms, count, lut, syms, base, w, rd, known>>

-----------------------------------------------------------------------------
(* dom_append_locked.                                                       *)
(* dom_build_index_locked: the index reads every symbol, so no slot stays   *)
(* empty.                                                                   *)
Filled == [arrays EXCEPT ![atoms] = [i \in DOMAIN @ |-> IF i <= count THEN syms[i] ELSE @[i]]]
CapFor == LET cap == Len(arrays[atoms]) IN IF cap < MinCap THEN MinCap ELSE 2 * cap
Grown == [i \in 1 .. CapFor |-> IF i <= count THEN syms[i] ELSE Nil]

(* Mutant: the replaced array is given back.                                *)
RetiredFreed(arr) == freed \cup {arr}
(* dom_retire: kept until the domain goes.                                  *)
Retired(arr) == freed

AppendBegin ==
    /\ w = Free /\ Len(syms) = count /\ count < MaxSyms
    /\ syms' = Append(syms, count + 1)
    /\ IF count >= Len(arrays[atoms])
       THEN arrays' = Append(Filled, Grown) /\ w' = [pc |-> "grow", to |-> count + 1, arr |-> Len(arrays) + 1]
       ELSE arrays' = Filled /\ w' = [pc |-> "slot", to |-> count + 1, arr |-> atoms]
    /\ UNCHANGED <<freed, atoms, count, lut, base, file, rd, known>>
AppendPublishArray ==
    /\ w.pc = "grow"
    /\ freed' = Retired(atoms) /\ atoms' = w.arr
    /\ w' = [w EXCEPT !.pc = "slot"]
    /\ UNCHANGED <<arrays, count, lut, syms, base, file, rd, known>>
AppendSlot ==
    /\ w.pc = "slot"
    /\ arrays' = [arrays EXCEPT ![w.arr][w.to] = syms[w.to]]
    /\ w' = [w EXCEPT !.pc = "count"]
    /\ UNCHANGED <<freed, atoms, count, lut, syms, base, file, rd, known>>
AppendPublishCount ==
    /\ w.pc = "count"
    /\ count' = w.to /\ w' = [w EXCEPT !.pc = "lut"]
    /\ UNCHANGED <<arrays, freed, atoms, lut, syms, base, file, rd, known>>

DropLut == lut' = <<>>
(* Mutant: an early return leaves the lock taken.                           *)
GrowDoneHeld ==
    /\ w.pc = "lut" /\ DropLut /\ w' = [w EXCEPT !.pc = "held"] /\ known' = count
    /\ UNCHANGED <<arrays, freed, atoms, count, syms, base, file, rd>>
(* Both ways of growing end by dropping the translation; then the caller    *)
(* hands the new positions out.                                             *)
GrowDone ==
    /\ w.pc = "lut" /\ DropLut /\ w' = Free /\ known' = count
    /\ UNCHANGED <<arrays, freed, atoms, count, syms, base, file, rd>>

(* dom_extend_from_file_locked, at a cache hit of dom_open_impl.            *)
ExtendBegin ==
    /\ w = Free /\ file > count
    /\ arrays' = Append(arrays, [i \in 1 .. file |-> IF i <= count THEN arrays[atoms][i] ELSE Nil])
    /\ w' = [pc |-> "swap", to |-> file, arr |-> Len(arrays) + 1]
    /\ UNCHANGED <<freed, atoms, count, lut, syms, base, file, rd, known>>
ExtendPublishArray ==
    /\ w.pc = "swap"
    /\ freed' = Retired(atoms) /\ atoms' = w.arr /\ base' = w.to
    /\ w' = [w EXCEPT !.pc = "count"]
    /\ UNCHANGED <<arrays, count, lut, syms, file, rd, known>>

-----------------------------------------------------------------------------
(* ray_sym_domain_runtime_lut: built under the lock, over the whole         *)
(* vocabulary.                                                              *)
BuildLut ==
    /\ w = Free /\ lut = <<>> /\ count > 0
    /\ arrays' = Filled
    /\ lut' = [i \in 1 .. count |-> Id(syms[i])]
    /\ UNCHANGED <<freed, atoms, count, syms, base, file, w, rd, known>>

(* ray_sym_domain_str: three loads, and the lock only for an empty slot.    *)
ReadCount(r, pos) ==
    /\ rd[r].pc = "idle" /\ pos <= count
    /\ rd' = [rd EXCEPT ![r] = [Quiet EXCEPT !.pc = "array", !.pos = pos]]
    /\ UNCHANGED <<arrays, freed, atoms, count, lut, syms, base, file, w, known>>
ReadArray(r) ==
    /\ rd[r].pc = "array" /\ rd' = [rd EXCEPT ![r].pc = "slot", ![r].arr = atoms]
    /\ UNCHANGED <<arrays, freed, atoms, count, lut, syms, base, file, w, known>>
Slot(r) == IF rd[r].pos \in DOMAIN arrays[rd[r].arr] THEN arrays[rd[r].arr][rd[r].pos] ELSE Nil
ReadSlot(r) ==
    /\ rd[r].pc = "slot"
    /\ rd' = [rd EXCEPT ![r].pc = IF Slot(r) = Nil THEN "fill" ELSE "done", ![r].got = Slot(r)]
    /\ UNCHANGED <<arrays, freed, atoms, count, lut, syms, base, file, w, known>>
(* dom_atom_at_locked: the published array, from the mapping unless someone *)
(* was faster.                                                              *)
Fill(r) ==
    LET pos == rd[r].pos IN
    [arrays EXCEPT ![atoms][pos] = IF @ # Nil THEN @ ELSE IF pos <= base THEN syms[pos] ELSE Wild]
ReadFill(r) ==
    /\ rd[r].pc = "fill" /\ w = Free
    /\ arrays' = Fill(r)
    /\ rd' = [rd EXCEPT ![r].pc = "done", ![r].got = arrays'[atoms][rd[r].pos]]
    /\ UNCHANGED <<freed, atoms, count, lut, syms, base, file, w, known>>
(* A translation by the published table.                                    *)
ReadLut(r, pos) ==
    /\ rd[r].pc = "idle" /\ pos <= known /\ lut # <<>>
    /\ rd' = [rd EXCEPT ![r] = [Quiet EXCEPT !.pc = "lut", !.pos = pos, !.got = IF pos \in DOMAIN lut THEN lut[pos] ELSE Nil]]
    /\ UNCHANGED <<arrays, freed, atoms, count, lut, syms, base, file, w, known>>
ReadEnd(r) ==
    /\ rd[r].pc \in {"done", "lut"} /\ rd' = [rd EXCEPT ![r] = Quiet]
    /\ UNCHANGED <<arrays, freed, atoms, count, lut, syms, base, file, w, known>>

Write == AppendBegin \/ AppendPublishArray \/ AppendSlot \/ AppendPublishCount \/ GrowDone \/ ExtendBegin \/ ExtendPublishArray
Read(r) == ReadArray(r) \/ ReadSlot(r) \/ ReadFill(r) \/ ReadEnd(r)
Next ==
    \/ Write \/ FileGrows \/ Flush \/ BuildLut
    \/ \E r \in Readers : Read(r) \/ \E pos \in 1 .. MaxSyms : ReadCount(r, pos) \/ ReadLut(r, pos)
Fairness ==
    /\ WF_vars(AppendPublishArray \/ AppendSlot \/ AppendPublishCount \/ GrowDone \/ ExtendPublishArray)
    /\ \A r \in Readers : WF_vars(ReadArray(r) \/ ReadSlot(r) \/ ReadEnd(r)) /\ SF_vars(ReadFill(r))
Spec == Init /\ [][Next]_vars /\ Fairness

-----------------------------------------------------------------------------
(* Types: the published array has room for the published count.             *)
TypeOK ==
    /\ atoms \in DOMAIN arrays /\ count <= Len(arrays[atoms]) /\ count <= Len(syms) /\ known <= count
    /\ file <= Len(syms) /\ freed \subseteq DOMAIN arrays

(* A position below a count that a thread loaded reads as its symbol,       *)
(* whatever grows between its three loads (ray_sym_domain_str).             *)
ReadRight == \A r \in Readers : rd[r].pc = "done" => rd[r].got = syms[rd[r].pos]
(* A translation (ray_sym_domain_runtime_lut) covers every position that    *)
(* was given out, and gives the id of its symbol.                           *)
LutRight == \A r \in Readers : rd[r].pc = "lut" => rd[r].got = Id(syms[rd[r].pos])
(* No thread reads an array that was given back (dom_retire).               *)
NoStaleArray == \A r \in Readers : rd[r].pc = "slot" => rd[r].arr \notin freed
(* A position that was given out reads as its symbol and translates to its  *)
(* id at every moment of a growth, and never through an array that was      *)
(* given back (ray_sym_domain_str, ray_sym_domain_runtime_lut, dom_retire). *)
DomainRight == TypeOK /\ ReadRight /\ LutRight /\ NoStaleArray
(* Every lookup ends, also one that waits for the lock of a growing domain. *)
ReadsEnd == \A r \in Readers : rd[r].pc # "idle" ~> rd[r].pc = "idle"
=============================================================================
