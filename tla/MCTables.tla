------------------------------ MODULE MCTables ------------------------------
(* The values every table is made of: symbols (Sym) and vectors (Vec).  They *)
(* share no state here, so a behaviour exercises one of them.                *)
EXTENDS Sym

(* A handful of names; the hash makes some of them collide.                  *)
Plain(x) == <<x>>
Some == {<<"a", "b">>, <<"c", "">>}
Twice == {<<"a", "a">>}
Lits == {<<"", "s", "b">>}
Csv == <<<<"c", "d">>>>
Lang == <<<<"", "s", "k">>>>
Vocabulary == {<<"">>, <<"", "s">>} \cup {Plain(x) : x \in {"a", "b", "c", "d", "k"}}
              \cup Some \cup Twice \cup Lits \cup ToSet(Csv) \cup ToSet(Lang)
Hashes == [n \in Vocabulary |-> IF Len(n) = 1 THEN (CASE n = <<"a">> -> 3 [] n = <<"b">> -> 7 [] n = <<"c">> -> 3 [] OTHER -> 1) ELSE 2 + Len(n)]

CONSTANTS NHandles, NBlocks, MaxLen, MaxSteps, IndexStrings, WriteSlices

VARIABLES part, heap, hold, want, type, steps

V == INSTANCE Vec
vvars == <<heap, hold, want, type, steps>>

MCInit ==
    /\ part \in {"symbols", "vectors"} /\ Init /\ V!Init
    /\ part = "symbols" => type = "int"
MCNext ==
    \/ part = "symbols" /\ Next /\ UNCHANGED <<part, vvars>>
    \/ part = "vectors" /\ V!Next /\ UNCHANGED <<part, vars>>
MCSpec == MCInit /\ [][MCNext]_<<part, vars, vvars>>

(* A name has one id, found by its hash after any growth of the table; its   *)
(* cached segments spell it; and the ids of an acknowledged snapshot mean    *)
(* the same in every later process, which can load whatever file it finds    *)
(* (sym_intern_nolock, ht_grow_to, sym_cache_segments, ray_sym_save,         *)
(* ray_sym_load).                                                            *)
SymsRight ==
    part = "symbols" => TypeOK /\ OneId /\ ProbeFinds /\ DottedHonest /\ KeptStable /\ LoadsBack

(* No operation on one handle changes the value of another, a block lives    *)
(* exactly as long as somebody holds it, and what a vector says of its cells *)
(* is true of them (ray_cow, ray_release_owned_refs, vec_drop_index_inplace).*)
VecsRight ==
    part = "vectors" => V!ValuesKept /\ V!RefsCounted /\ V!MarksHonest
=============================================================================
