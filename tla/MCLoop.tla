------------------------------- MODULE MCLoop -------------------------------
(* What the poll loop of a process serves: connections (Ipc) and timers      *)
(* (Timers).  They share no state, so a behaviour exercises one of them, in  *)
(* one of two settings:                                                      *)
(*   pair   one connection: handshake, nested requests, hooks, cancels;      *)
(*   two    handlers that close their connection and open another into the   *)
(*          same slot, nested requests on both;                              *)
(*   fire   callbacks that set and delete timers while the heap is drained;  *)
(*   heap   six timers, deletion at every slot, allocations that fail.       *)
EXTENDS Ipc, Timers

VARIABLE world

OneLink  == {<<"p", "q", 1>>}
Back     == {<<"p", "q", 1>>, <<"q", "p", 1>>}
\* The <<ms, num>> that timers are set with.
MixedKinds == {<<0, 1>>, <<1, 0>>, <<1, 2>>, <<2, 3>>}
OneShots   == {<<0, 1>>, <<1, 1>>}

Two == INSTANCE Ipc WITH
    Links <- Back, Opened <- OneLink, NSlots <- 2, Secured <- {},
    Calls <- {"open", "close", "send"}, CloseCalls <- {}, Faults <- {},
    MaxMsgs <- 3, MaxCalls <- 5, MaxCancels <- 0
Six == INSTANCE Timers WITH
    InitCap <- 1, Kinds <- OneShots, InCallback <- {"del"}, AllocFails <- TRUE,
    MaxTimers <- 6, MaxNow <- 0

MCInit ==
    \/ world = "pair" /\ Init /\ TInit
    \/ world = "two" /\ Two!Init /\ TInit
    \/ world = "fire" /\ Init /\ TInit
    \/ world = "heap" /\ Init /\ Six!TInit

MCNext ==
    \/ world = "pair" /\ Next /\ UNCHANGED <<world, tvars>>
    \/ world = "two" /\ Two!Next /\ UNCHANGED <<world, tvars>>
    \/ world = "fire" /\ TNext /\ UNCHANGED <<world, vars>>
    \/ world = "heap" /\ Six!TNext /\ UNCHANGED <<world, vars>>

MCSpec ==
    /\ MCInit /\ [][MCNext]_<<world, vars, tvars>>
    /\ \A p \in Procs : /\ WF_vars(world = "pair" /\ Step(p))
                        /\ SF_vars(world = "pair" /\ Read(p))
    /\ WF_tvars(Pop \/ FireEnd \/ Reschedule)

(* Every sync request returns: the pump of sync_send serves the peer's       *)
(* requests while it waits.                                                  *)
RequestsReturn ==
    \A m \in Msgs : world = "pair" /\ h.result[m] = "waits" ~> h.result[m] # "waits"

(* Timers fire in order of deadline and id, exactly as often as they were    *)
(* set to (ray_timers_fire_expired), and the array stays a heap under every  *)
(* deletion (ray_timers_del).                                                *)
TimersRight ==
    /\ world = "fire" => TimersTypeOK /\ DueFirst /\ FiresExactly
    /\ world = "heap" => Six!HeapOrder
=============================================================================
