------------------------------ MODULE MCSplay ------------------------------
(* Instances of Splay: two writers whose calls and lives may fail, and one  *)
(* writer that only saves durably under power losses.                       *)
EXTENDS Splay
CONSTANTS p, q, a, b, c
TwoWriters == "t1" :> p @@ "t2" :> q
OneWriter == "t1" :> p @@ "t2" :> p
World(w, fs) == [writer |-> w, faults |-> fs]
Sound == {World(TwoWriters, {"io", "crash"}), World(OneWriter, {"bulk"}), World(OneWriter, {"power"})}
BulkPower == {World(OneWriter, {"bulk", "power"})}
SharedPower == {World(TwoWriters, {"power"})}
Shared == {World(TwoWriters, {})}
Single == {[cols |-> {"s", "v"}, row |-> <<x>>] : x \in {a, b, c}}
Few == {[cols |-> {"s", "v"}, row |-> <<a, b>>], [cols |-> {"s", "v"}, row |-> <<c>>], [cols |-> {"v"}, row |-> <<c>>]}
=============================================================================
