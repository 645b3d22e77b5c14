----------------------------- MODULE DurableLog -----------------------------
(***************************************************************************)
(* What a durable log promises: a sequence of entries that is only ever    *)
(* extended at its end, and a set of promises, each kept from the moment   *)
(* it is made.  Entries are pairs <<lsn, payload>>.  src/store/aof.c       *)
(* implements this (module Aof).                                           *)
(***************************************************************************)
EXTENDS Integers, FiniteSets

VARIABLES
    stable,     \* the entries that survive any crash
    promised    \* the entries whose writer was told so

\* One payload per LSN, LSNs 0, 1, 2, ... without a gap.
IsLog(entries) ==
    {e[1] : e \in entries} = 0 .. Cardinality(entries) - 1

Init == stable = {} /\ promised = {}

\* Entries become stable behind the existing ones; promises follow.
Extend ==
    /\ stable \subseteq stable'
    /\ IsLog(stable')
    /\ promised \subseteq promised'
    /\ promised' \subseteq stable'

Spec == Init /\ [][Extend]_<<stable, promised>>
=============================================================================
