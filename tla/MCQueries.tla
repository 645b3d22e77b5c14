------------------------------ MODULE MCQueries ------------------------------
(* What a query is made of besides its columns' operators: the planning of  *)
(* select, the optimizer, writes to tables, graphs, datalog programs and    *)
(* the CSV files that tables come from.                                     *)
EXTENDS Opt

Selects == INSTANCE Select WITH MaxK <- 4, MaxSelect <- 3
Tables == INSTANCE MCWrites WITH MaxTable <- 2, MaxParts <- 2
Graphs == INSTANCE MCTraverse WITH MaxNodes <- 3, MaxEdges <- 3, Weights <- {1, 3}
Rules == INSTANCE MCDatalog WITH
    MaxIter <- 9, MaxStrata <- 3, MaxVars <- 5, MaxFacts <- 4, MaxDeps <- 4, Nodes <- 3, Arcs <- (0 .. 2) \X (0 .. 2),
    Programs <- {"linear", "early", "mutual", "apart", "degree", "far", "sink", "cousin", "knot", "timed", "typed", "clash"}
Files == INSTANCE Csv WITH ManyRows <- 1, Narrow8 <- 2, SampleRows <- 3, MaxText <- 6, MaxCells <- 2, MaxTokens <- 4

Init ==
    \/ Selects!SelectInit
    \/ OptInit
    \/ Tables!WritesInit
    \/ Graphs!GraphInit
    \/ Rules!DatalogInit
    \/ Files!CsvInit
Next ==
    \/ Selects!SelectNext
    \/ OptNext
    \/ Tables!WritesNext
    \/ Graphs!Next
    \/ Rules!DatalogNext
    \/ Files!CsvNext

(* However ray_select answers a query (a buffer of the best rows, a group   *)
(* stage that never emits losers, a filter deferred behind the grouping, a  *)
(* scatter for what the group stage cannot compute, a rewrite), the answer  *)
(* is the one of filtering, grouping, sorting and taking in turn (query.c). *)
SelectsRight ==
    /\ Selects!TopRowsAgree
    /\ Selects!GroupsAgree
    /\ Selects!OutputsAgree
    /\ Selects!RewritesAgree
(* An optimized plan returns the same rows in the same order as the plan it *)
(* was made from: whatever is folded, whichever filters are moved, split    *)
(* and reordered, whichever segments are left out (ray_optimize, opt.c).    *)
PlansRight == PlansKept
(* Inserts, updates and upserts change the rows and columns that they name  *)
(* and no other, in every form of the payload; a failed one changes nothing;*)
(* live partitions keep what they hold (query.c, tblop.c).                  *)
TablesRight ==
    /\ Tables!InsertExact
    /\ Tables!InsertForms
    /\ Tables!AdoptsType
    /\ Tables!UpdateMasked
    /\ Tables!UpdateAgrees
    /\ Tables!UpsertKeyed
    /\ Tables!UpsertLast
    /\ Tables!UpsertPartial
    /\ Tables!UpsertComposite
    /\ Tables!GroupBroadcast
    /\ Tables!LiveTail
(* The graph operators compute what paths define: expansion, components,    *)
(* shortest and cheapest paths, orders, trees, centralities and the joins   *)
(* of several edges (csr.c, traverse.c, graph_builtin.c).                   *)
GraphsRight ==
    /\ Graphs!CsrExact
    /\ Graphs!ExpandAgrees
    /\ Graphs!VarExpandExact
    /\ Graphs!ShortestPathExact
    /\ Graphs!ComponentsExact
    /\ Graphs!DijkstraExact
    /\ Graphs!AStarExact
    /\ Graphs!KShortestExact
    /\ Graphs!TopSortExact
    /\ Graphs!DfsExact
    /\ Graphs!MstExact
    /\ Graphs!BetweennessExact
    /\ Graphs!ClosenessExact
    /\ Graphs!WcoExact
(* Semi-naive evaluation, stratum by stratum, ends with the perfect model   *)
(* of the program, each row once and with a derivation; what has no strata  *)
(* is refused (dl_eval, dl_stratify, datalog.c).                            *)
RulesRight ==
    /\ Rules!FixpointExact
    /\ Rules!ProvenanceTotal
    /\ Rules!StrataSound
    /\ Rules!TriplesRead
(* A CSV file splits into the fields that its quotes say, what is written   *)
(* reads back, and the type found for a column keeps the values of its      *)
(* cells (csv.c).                                                           *)
FilesRight == Files!CsvKept
=============================================================================
