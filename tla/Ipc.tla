--------------------------------- MODULE Ipc ---------------------------------
(***************************************************************************)
(* Connections between rayforce processes: the selector table and the      *)
(* receive loop of src/core/epoll.c and poll.c under the wire protocol of  *)
(* src/core/ipc.c.  Every process runs the same code: one thread with a    *)
(* call stack, because a handler evaluates user code, user code may send a *)
(* sync request, and the request pumps its connection while it waits,      *)
(* which runs handlers again.                                              *)
(*                                                                         *)
(* A link is one TCP connection with a client end and a server end; what   *)
(* travels on it are handshake units and, per message, a header and a      *)
(* payload.  A handle is a slot of the owner's selector table.             *)
(***************************************************************************)
EXTENDS Integers, Sequences, FiniteSets, SequencesExt

CONSTANTS
    Procs,       \* processes; each listens
    Links,       \* connections that may be opened: <<from, to, number>>
    Opened,      \* those that are open when the model starts
    NSlots,      \* slots a selector table can grow to, listener excluded
    Secured,     \* processes started with -u: they ask for credentials
    Calls,       \* what user code calls: subset of {"open", "close", "post", "send"}
    CloseCalls,  \* what the on.close hook calls: subset of the same
    Faults,      \* subset of {"version", "big", "reuse", "rx", "reply", "poll"}
    MaxMsgs,     \* bound on the messages sent
    MaxCalls,    \* bound on the calls user code makes
    MaxCancels   \* bound on Ctrl-C

ASSUME IpcAssumption ==
    /\ \A l \in Links : l[1] \in Procs /\ l[2] \in Procs /\ l[1] # l[2]
    /\ Opened \subseteq Links /\ IsFiniteSet(Opened)
    /\ NSlots \in Nat \ {0} /\ Secured \subseteq Procs
    /\ Calls \cup CloseCalls \subseteq {"open", "close", "post", "send"}
    /\ Faults \subseteq {"version", "big", "reuse", "rx", "reply", "poll"}
    /\ MaxMsgs \in Nat /\ MaxCalls \in Nat /\ MaxCancels \in Nat

VARIABLES
    ep,       \* end of a link -> its ray_ipc_conn_data_t and selector
    sels,     \* process -> poll->sels: slot -> end, or None
    net,      \* end -> units that were sent to it and not yet received
    oob,      \* ends with an urgent byte that was not yet taken
    stack,    \* process -> frames, innermost last; empty in ray_poll_run_for
    events,   \* process -> what epoll_wait returned and is still to be handled
    active,   \* process -> g_ipc_active_fd
    intr,     \* process -> g_eval_interrupted
    eintr,    \* process -> a signal ended its wait in sync_send
    ctx,      \* process -> the handle .ipc.handle answers, 0 outside hooks
    n,        \* counters behind the bounds
    h         \* ghost: what happened to messages and connections

vars == <<ep, sels, net, oob, stack, events, active, intr, eintr, ctx, n, h>>

Ends  == Links \X {"c", "s"}
Slots == 1 .. NSlots
Msgs  == 1 .. MaxMsgs
None  == <<>>
Peer(e)  == <<e[1], IF e[2] = "c" THEN "s" ELSE "c">>
Owner(e) == IF e[2] = "c" THEN e[1][1] ELSE e[1][2]

Unit(u, t, m)  == [u |-> u, t |-> t, m |-> m]
Eof            == Unit("eof", "", 0)
Message(t, m)  == <<Unit("header", t, m), Unit("payload", t, m)>>
Frame(k, id, e, m, prev) == [k |-> k, id |-> id, e |-> e, m |-> m, prev |-> prev]

Top(p)  == Last(stack[p])
Below(p) == Front(stack[p])
In(p, kinds) == stack[p] # <<>> /\ Top(p).k \in kinds
Hooks == {"open", "close", "auth"}
Evals == {"eval", "evala"}      \* of a sync and of an async message
User  == Hooks \cup Evals \cup {"script"}

Blank == [st |-> "none", addr |-> None, buf |-> TRUE, hdr |-> Unit("", "", 0),
          waiting |-> FALSE, ready |-> FALSE, resp |-> 0]

\* The connections process p has at the start.
Held(p) == SetToSeq({e \in Opened \X {"c", "s"} : Owner(e) = p})

Init ==
    /\ ep = [e \in Ends |-> IF e[1] \in Opened THEN [Blank EXCEPT !.st = "header", !.addr = e]
                            ELSE Blank]
    /\ sels = [p \in Procs |-> [s \in Slots |-> IF s <= Len(Held(p)) THEN Held(p)[s] ELSE None]]
    /\ net = [e \in Ends |-> <<>>]
    /\ oob = {}
    /\ stack = [p \in Procs |-> <<>>]
    /\ events = [p \in Procs |-> <<>>]
    /\ active = [p \in Procs |-> None]
    /\ intr = [p \in Procs |-> FALSE]
    /\ eintr = [p \in Procs |-> FALSE]
    /\ ctx = [p \in Procs |-> 0]
    /\ n = [msgs |-> 0, calls |-> 0, cancels |-> 0]
    /\ h = [from   |-> [m \in Msgs |-> None],       \* end that sent it
            runs   |-> [m \in Msgs |-> 0],          \* evaluations
            replies |-> [m \in Msgs |-> 0],
            result |-> [m \in Msgs |-> "none"],     \* what sync_send returned
            cancel |-> {},                          \* messages that were cancelled
            asked  |-> {},                          \* messages whose sender pressed Ctrl-C
            opened |-> [e \in Ends |-> IF e \in Opened \X {"s"} THEN 1 ELSE 0],
            closed |-> [e \in Ends |-> 0],
            fault  |-> FALSE]                       \* freed memory was touched

-----------------------------------------------------------------------------
(* Selectors and sockets                                                   *)

Alive(e) == ep[e].st \notin {"none", "freed"}
Ready(e) == net[e] # <<>>

\* ray_sock_send: what is written to a peer that has closed is lost.
Write(q, e, us) == IF Alive(Peer(e)) THEN [q EXCEPT ![Peer(e)] = @ \o us] ELSE q

\* close(fd): the peer reads end of file after what was sent before.
Shut(q, e) == [Write(q, e, <<Eof>>) EXCEPT ![e] = <<>>]

\* ray_sys_alloc: an address named by the end that first had it.  It may be one
\* that was freed.
FreeAddrs(p, e) ==
    LET mine == {x \in Ends : Owner(x) = p} IN
    {e} \cup IF "reuse" \in Faults
             THEN {ep[x].addr : x \in mine} \ {ep[x].addr : x \in {y \in mine : Alive(y)}}
             ELSE {}

\* ray_poll_register: the first free slot.
FreeSlots(p) == {s \in Slots : sels[p][s] = None}
FirstFree(p) == CHOOSE s \in FreeSlots(p) : \A r \in FreeSlots(p) : s <= r

\* ray_poll_rx_request: a fresh buffer that may not be had.
Bufs == IF "rx" \in Faults THEN BOOLEAN ELSE {TRUE}

\* Mutant: a result that cannot be serialised is not answered.
LostUnserialised == BOOLEAN

\* send_response: without memory for it the reply is dropped.
Lost == IF "reply" \in Faults THEN BOOLEAN ELSE {FALSE}

Register(p, e, st) ==
    \E a \in FreeAddrs(p, e) \ {None}, b \in Bufs :
        /\ sels' = [sels EXCEPT ![p][FirstFree(p)] = e]
        /\ ep' = [ep EXCEPT ![e].st = st, ![e].addr = a, ![e].buf = b]

\* The end of ray_poll_deregister and of ipc_on_close: the data, the socket and
\* the selector go, then the slot is cleared.  q is what the sockets hold.
Free(p, id, e, below, q) ==
    /\ h' = [h EXCEPT !.fault = @ \/ ep[e].st = "freed"]
    /\ ep' = [ep EXCEPT ![e] = [Blank EXCEPT !.st = "freed", !.addr = ep[e].addr]]
    /\ sels' = [sels EXCEPT ![p][id] = None]
    /\ net' = IF ep[e].st = "freed" THEN q ELSE Shut(q, e)
    /\ oob' = oob \ {e}
    /\ stack' = [stack EXCEPT ![p] = below]

\* The guards of ipc_on_close: inbound, and the handshake is done.
Announced(e) == e[2] = "s" /\ ep[e].st \in {"header", "payload"}

\* ray_poll_deregister and ipc_on_close up to the on.close hook, which runs for
\* inbound connections that finished the handshake; the slot is still taken.
Deregister(p, id, below, q) ==
    LET e == sels[p][id] IN
    IF Announced(e)
    THEN /\ stack' = [stack EXCEPT ![p] =
                below \o <<Frame("dereg", id, e, 0, 0), Frame("close", id, e, 0, ctx[p])>>]
         /\ ctx' = [ctx EXCEPT ![p] = id]
         /\ h' = [h EXCEPT !.closed[e] = @ + 1]
         /\ net' = q
         /\ UNCHANGED <<ep, sels, oob>>
    ELSE Free(p, id, e, below, q) /\ UNCHANGED ctx

\* ipc_on_close after the hook.
DeregisterEnd(p) ==
    /\ In(p, {"dereg"})
    /\ Free(p, Top(p).id, Top(p).e, Below(p), net)
    /\ UNCHANGED <<events, active, intr, eintr, ctx, n>>

-----------------------------------------------------------------------------
(* ray_poll_run_for                                                        *)

Backlog(p) == {e \in Ends : Owner(e) = p /\ ep[e].st = "backlog"}
Readable(p) == {s \in Slots : sels[p][s] # None /\ Ready(sels[p][s])}

\* epoll_wait: the readable selectors in some order, the listener as slot 0;
\* a connection its peer has closed may be reported with EPOLLHUP.
EpollWait(p) ==
    /\ stack[p] = <<>> /\ events[p] = <<>>
    /\ LET ready == Readable(p) \cup IF Backlog(p) = {} THEN {} ELSE {0}
           gone  == {s \in Readable(p) : ~Alive(Peer(sels[p][s]))} IN
       /\ ready # {}
       /\ \E order \in SetToSeqs(ready), hup \in SUBSET gone :
            events' = [events EXCEPT ![p] = [i \in DOMAIN order |->
                [id |-> order[i], hup |-> order[i] \in hup,
                 e |-> IF order[i] = 0 THEN None ELSE sels[p][order[i]]]]]
    /\ UNCHANGED <<ep, sels, net, oob, stack, active, intr, eintr, ctx, n, h>>

\* ipc_accept: one connection per event, registered for the handshake.
Accept(p) ==
    /\ stack[p] = <<>> /\ events[p] # <<>> /\ Head(events[p]).id = 0
    /\ \E e \in Backlog(p) :
         IF FreeSlots(p) = {}
         THEN /\ ep' = [ep EXCEPT ![e].st = "freed"]
              /\ net' = Shut(net, e)
              /\ UNCHANGED sels
         ELSE Register(p, e, "handshake") /\ UNCHANGED net
    /\ events' = [events EXCEPT ![p] = Tail(@)]
    /\ UNCHANGED <<oob, stack, active, intr, eintr, ctx, n, h>>

\* The event of a slot: skipped when the slot is empty.
TakeEvent(p) ==
    /\ stack[p] = <<>> /\ events[p] # <<>> /\ Head(events[p]).id # 0
    /\ LET v == Head(events[p]) IN
         stack' = IF sels[p][v.id] = None THEN stack
                  ELSE [stack EXCEPT ![p] =
                          <<Frame(IF v.hup THEN "rxhup" ELSE "rx", v.id, v.e, 0, 0)>>]
    /\ events' = [events EXCEPT ![p] = Tail(@)]
    /\ UNCHANGED <<ep, sels, net, oob, active, intr, eintr, ctx, n, h>>

\* The loop reads on while units are there; a payload may still be on its way.
Dry(e) == ep[e].buf /\ net[e] # <<>> => Head(net[e]).u = "payload"
HasUnit(e) == ep[e].buf /\ net[e] # <<>> /\ Head(net[e]) # Eof
AtEof(e) == ep[e].buf /\ net[e] # <<>> /\ Head(net[e]) = Eof

\* The selector is gone after read_fn: next event.
RxGone(p) ==
    /\ In(p, {"rx", "rxhup"}) /\ sels[p][Top(p).id] = None
    /\ stack' = [stack EXCEPT ![p] = Below(p)]
    /\ UNCHANGED <<ep, sels, net, oob, events, active, intr, eintr, ctx, n, h>>

\* Nothing more to read; a hangup reported with the event deregisters whatever
\* the slot holds now.
RxDry(p) ==
    /\ In(p, {"rx", "rxhup"})
    /\ LET f == Top(p)  e == sels[p][f.id] IN
       /\ e # None /\ Dry(e)
       /\ IF f.k = "rx"
          THEN /\ stack' = [stack EXCEPT ![p] = Below(p)]
               /\ UNCHANGED <<ep, sels, net, oob, ctx, h>>
          ELSE Deregister(p, f.id, Below(p), net)
    /\ UNCHANGED <<events, active, intr, eintr, n>>

\* recv returned 0: the peer has closed.
RxEof(p) ==
    /\ In(p, {"rx", "rxhup"})
    /\ LET f == Top(p)  e == sels[p][f.id] IN
         e # None /\ AtEof(e) /\ Deregister(p, f.id, Below(p), net)
    /\ UNCHANGED <<events, active, intr, eintr, n>>

-----------------------------------------------------------------------------
(* read_fn: called by the loop above and by conn_pump, with the frames of   *)
(* the caller in below                                                     *)

Consumed(e) == [net EXCEPT ![e] = Tail(@)]
Call(p, below, frame) ==
    /\ stack' = [stack EXCEPT ![p] = Append(below, frame)]
    /\ ctx' = [ctx EXCEPT ![p] = frame.id]

\* ipc_read_handshake: a peer of another wire version is dropped.
ReadHandshake(p, id, below, e) ==
    /\ ep[e].st = "handshake"
    /\ CASE Head(net[e]).t = "old" -> Deregister(p, id, below, Consumed(e))
         [] Head(net[e]).t # "old" /\ p \in Secured ->
              /\ net' = Write(Consumed(e), e, <<Unit("hello", "auth", 0)>>)
              /\ ep' = [ep EXCEPT ![e].st = "creds"]
              /\ stack' = [stack EXCEPT ![p] = below]
              /\ UNCHANGED <<sels, oob, ctx, h>>
         [] OTHER ->
              /\ net' = Write(Consumed(e), e, <<Unit("hello", "ok", 0)>>)
              /\ ep' = [ep EXCEPT ![e].st = "header"]
              /\ Call(p, below, Frame("open", id, e, 0, ctx[p]))
              /\ h' = [h EXCEPT !.opened[e] = @ + 1]
              /\ UNCHANGED <<sels, oob>>
    /\ UNCHANGED <<active, intr>>

\* ipc_read_creds up to the on.auth hook, which only a right password reaches.
ReadCreds(p, id, below, e) ==
    /\ ep[e].st = "creds"
    /\ IF Head(net[e]).t = "good"
       THEN /\ net' = Consumed(e)
            /\ Call(p, below, Frame("auth", id, e, 0, ctx[p]))
            /\ UNCHANGED <<ep, sels, oob, h>>
       ELSE Deregister(p, id, below, Write(Consumed(e), e, <<Unit("auth", "no", 0)>>))
    /\ UNCHANGED <<active, intr>>

\* ipc_read_header: what is not a header of a message of at most 256 MB closes.
ReadHeader(p, id, below, e) ==
    /\ ep[e].st = "header"
    /\ LET u == Head(net[e]) IN
       IF u.u = "header" /\ u.t # "big"
       THEN /\ \E b \in Bufs :
                 ep' = [ep EXCEPT ![e].st = "payload", ![e].hdr = u, ![e].buf = b]
            /\ net' = Consumed(e)
            /\ stack' = [stack EXCEPT ![p] = below]
            /\ UNCHANGED <<sels, oob, ctx, h>>
       ELSE Deregister(p, id, below, Consumed(e))
    /\ UNCHANGED <<active, intr>>

\* Mutant: re-armed only after the dispatch.
RearmedLate(e, b) == [ep[e] EXCEPT !.buf = b]

\* ipc_read_payload re-arms the selector for the next header before it does
\* anything with the payload.
Rearmed(e, b) == [ep[e] EXCEPT !.st = "header", !.buf = b]

\* A response goes to the sync_send that waits on this connection, or nowhere.
ReadResponse(p, below, e) ==
    /\ ep[e].st = "payload" /\ ep[e].hdr.t = "resp"
    /\ \E b \in Bufs :
         ep' = [ep EXCEPT ![e] =
             IF ep[e].waiting /\ ~ep[e].ready
             THEN [Rearmed(e, b) EXCEPT !.ready = TRUE, !.resp = ep[e].hdr.m]
             ELSE Rearmed(e, b)]
    /\ net' = Consumed(e)
    /\ stack' = [stack EXCEPT ![p] = below]
    /\ UNCHANGED <<sels, oob, active, intr, ctx, h>>

\* A pending urgent byte cancels the message unread.
ReadCancelled(p, id, below, e) ==
    /\ ep[e].st = "payload" /\ ep[e].hdr.t # "resp" /\ e \in oob
    /\ oob' = oob \ {e}
    /\ \E b \in Bufs : ep' = [ep EXCEPT ![e] = Rearmed(e, b)]
    /\ stack' = [stack EXCEPT ![p] = below]
    /\ LET m == ep[e].hdr.m IN
       \E lost \in Lost :
         /\ h' = [h EXCEPT !.cancel = @ \cup {m},
                           !.replies[m] = IF ep[e].hdr.t = "sync" THEN @ + 1 ELSE @]
         /\ net' = IF ep[e].hdr.t = "sync" /\ ~lost
                   THEN Write(Consumed(e), e, Message("resp", m)) ELSE Consumed(e)
    /\ UNCHANGED <<sels, active, intr, ctx>>

\* Otherwise the message is evaluated; g_ipc_active_fd names its connection.
ReadRequest(p, id, below, e) ==
    /\ ep[e].st = "payload" /\ ep[e].hdr.t # "resp" /\ e \notin oob
    /\ \E b \in Bufs : ep' = [ep EXCEPT ![e] = Rearmed(e, b)]
    /\ Call(p, below, Frame(IF ep[e].hdr.t = "sync" THEN "eval" ELSE "evala",
                            id, e, ep[e].hdr.m, ctx[p]))
    /\ net' = Consumed(e)
    /\ intr' = [intr EXCEPT ![p] = FALSE]
    /\ active' = [active EXCEPT ![p] = e]
    /\ h' = [h EXCEPT !.runs[ep[e].hdr.m] = @ + 1]
    /\ UNCHANGED <<sels, oob>>

ReadFn(p, id, below) ==
    LET e == sels[p][id] IN
    \/ ReadHandshake(p, id, below, e)
    \/ ReadCreds(p, id, below, e)
    \/ ReadHeader(p, id, below, e)
    \/ ReadResponse(p, below, e)
    \/ ReadCancelled(p, id, below, e)
    \/ ReadRequest(p, id, below, e)

RxRead(p) ==
    /\ In(p, {"rx", "rxhup"})
    /\ LET id == Top(p).id IN
         sels[p][id] # None /\ HasUnit(sels[p][id]) /\ ReadFn(p, id, stack[p])
    /\ UNCHANGED <<events, eintr, n>>

-----------------------------------------------------------------------------
(* User code: evaluated messages, hooks, and what the console or a timer    *)
(* starts                                                                  *)

Counted(msgs) == [n EXCEPT !.calls = @ + 1, !.msgs = @ + msgs]

Script(p) ==
    /\ stack[p] = <<>> /\ events[p] = <<>> /\ n.calls < MaxCalls
    /\ stack' = [stack EXCEPT ![p] = <<Frame("script", 0, None, 0, ctx[p])>>]
    /\ intr' = [intr EXCEPT ![p] = FALSE]
    /\ n' = Counted(0)
    /\ UNCHANGED <<ep, sels, net, oob, events, active, eintr, ctx, h>>

\* Interrupted user code unwinds at its next checkpoint.
MayCall(p, what) ==
    /\ In(p, User) /\ ~intr[p] /\ n.calls < MaxCalls
    /\ what \in IF Top(p).k = "close" THEN CloseCalls ELSE Calls

\* Mutant: any selector resolves.
ResolvesAny(p, id) == sels[p][id] # None

\* conn_resolve: a connection that has finished its handshake.
Resolves(p, id) == sels[p][id] # None /\ ep[sels[p][id]].st \in {"header", "payload"}

\* ray_ipc_close
Close(p, id) ==
    /\ MayCall(p, "close") /\ Resolves(p, id)
    /\ Deregister(p, id, stack[p], net)
    /\ n' = Counted(0)
    /\ UNCHANGED <<events, active, intr, eintr>>

\* The types conn_write_msg may put into the header it writes.
Sizes(t) == {t} \cup ({"big"} \cap Faults)

\* ray_ipc_send_async
Post(p, id) ==
    /\ MayCall(p, "post") /\ Resolves(p, id) /\ n.msgs < MaxMsgs
    /\ LET e == sels[p][id]  m == n.msgs + 1 IN
       /\ \E t \in Sizes("async") : net' = Write(net, e, Message(t, m))
       /\ h' = [h EXCEPT !.from[m] = e]
    /\ n' = Counted(1)
    /\ UNCHANGED <<ep, sels, oob, stack, events, active, intr, eintr, ctx>>

\* A sync request already waits on this connection.
Busy(e) == ep[e].waiting

\* sync_send up to the wait.  Writing to a peer that has closed may fail at once.
Send(p, id) ==
    /\ MayCall(p, "send") /\ Resolves(p, id) /\ n.msgs < MaxMsgs
    /\ LET e == sels[p][id]  m == n.msgs + 1 IN
       \/ /\ Busy(e)
          /\ h' = [h EXCEPT !.result[m] = "busy"]
          /\ UNCHANGED <<ep, net, stack>>
       \/ /\ ~Busy(e) /\ ~Alive(Peer(e))
          /\ h' = [h EXCEPT !.result[m] = "error"]
          /\ UNCHANGED <<ep, net, stack>>
       \/ /\ ~Busy(e)
          /\ \E t \in Sizes("sync") : net' = Write(net, e, Message(t, m))
          /\ ep' = [ep EXCEPT ![e].waiting = TRUE, ![e].ready = FALSE, ![e].resp = 0]
          /\ stack' = [stack EXCEPT ![p] = Append(@, Frame("sync", id, e, m, 0))]
          /\ h' = [h EXCEPT !.from[m] = e, !.result[m] = "waits"]
    /\ n' = Counted(1)
    /\ UNCHANGED <<sels, oob, events, active, intr, eintr, ctx>>

\* Where the reply goes: to the slot, if its data is still where the
\* connection's was.
ReplyTo(p, f) ==
    LET cur == sels[p][f.id] IN
    IF f.k = "eval" /\ cur # None /\ ep[cur].addr = ep[f.e].addr THEN cur ELSE None

\* The body of a message ends: g_ipc_active_fd is reset, the handle restored, a
\* sync message answered.  An interrupt may have cut it short.
EvalEnd(p) ==
    /\ In(p, Evals)
    /\ LET f == Top(p)  to == ReplyTo(p, f) IN
       /\ \E cut \in {FALSE, intr[p]}, t \in Sizes("resp"), lost \in Lost :
            /\ net' = IF to = None \/ lost THEN net ELSE Write(net, to, Message(t, f.m))
            /\ h' = [h EXCEPT !.cancel = IF cut THEN @ \cup {f.m} ELSE @,
                              !.replies[f.m] = IF to = None THEN @
                                               ELSE IF to = f.e THEN @ + 1 ELSE 2]
       /\ active' = [active EXCEPT ![p] = None]
       /\ ctx' = [ctx EXCEPT ![p] = f.prev]
    /\ stack' = [stack EXCEPT ![p] = Below(p)]
    /\ UNCHANGED <<ep, sels, oob, events, intr, eintr, n>>

\* on.open, on.close and scripts return to their caller.
HookEnd(p) ==
    /\ In(p, {"open", "close", "script"})
    /\ stack' = [stack EXCEPT ![p] = Below(p)]
    /\ ctx' = [ctx EXCEPT ![p] = Top(p).prev]
    /\ UNCHANGED <<ep, sels, net, oob, events, active, intr, eintr, n, h>>

\* ipc_read_creds after the on.auth hook, which uses the selector it was called with.
AuthEnd(p) ==
    /\ In(p, {"auth"})
    /\ LET f == Top(p) IN
       \/ /\ ep' = [ep EXCEPT ![f.e].st = "header"]
          /\ net' = Write(net, f.e, <<Unit("auth", "ok", 0)>>)
          /\ stack' = [stack EXCEPT ![p] =
                Append(Below(p), Frame("open", f.id, f.e, 0, f.prev))]
          /\ h' = [h EXCEPT !.fault = @ \/ ep[f.e].st = "freed", !.opened[f.e] = @ + 1]
          /\ UNCHANGED <<sels, oob, ctx>>
       \/ /\ Free(p, f.id, f.e, Below(p), Write(net, f.e, <<Unit("auth", "no", 0)>>))
          /\ ctx' = [ctx EXCEPT ![p] = f.prev]
    /\ UNCHANGED <<events, active, intr, eintr, n>>

-----------------------------------------------------------------------------
(* sync_send: conn_pump, then the wait                                     *)

\* What it returns, with the frame gone.
SyncReturn(p, r) ==
    /\ stack' = [stack EXCEPT ![p] = Below(p)]
    /\ h' = [h EXCEPT !.result[Top(p).m] = r]

Syncing(p) == In(p, {"sync"}) /\ ~eintr[p]

SyncPump(p) ==
    /\ Syncing(p)
    /\ LET id == Top(p).id IN
         sels[p][id] # None /\ HasUnit(sels[p][id]) /\ ReadFn(p, id, stack[p])
    /\ UNCHANGED <<events, eintr, n>>

\* conn_pump reads end of file: it deregisters the connection and sync_send
\* reports it closed.
SyncEof(p) ==
    /\ Syncing(p)
    /\ LET id == Top(p).id IN
         /\ sels[p][id] # None /\ AtEof(sels[p][id])
         /\ Deregister(p, id, Append(Below(p), [Top(p) EXCEPT !.k = "closed"]), net)
    /\ UNCHANGED <<events, active, intr, eintr, n>>

\* The pump finds the slot empty, or holding data that is not this connection's.
SyncClosed(p) ==
    /\ \/ In(p, {"closed"})
       \/ /\ Syncing(p)
          /\ LET f == Top(p)  cur == sels[p][f.id] IN
               cur # None => Dry(cur) /\ ep[cur].addr # ep[f.e].addr
    /\ SyncReturn(p, "error")
    /\ UNCHANGED <<ep, sels, net, oob, events, active, intr, eintr, ctx, n>>

\* The connection whose data sync_send still holds, with nothing left to read.
Pumped(p) ==
    LET f == Top(p)  cur == sels[p][f.id] IN
    Syncing(p) /\ cur # None /\ Dry(cur) /\ ep[cur].addr = ep[f.e].addr

SyncTake(p) ==
    /\ Pumped(p)
    /\ LET f == Top(p)  cur == sels[p][f.id] IN
       /\ ep[cur].ready
       /\ ep' = [ep EXCEPT ![cur].waiting = FALSE, ![cur].ready = FALSE, ![cur].resp = 0]
       /\ SyncReturn(p, IF ep[cur].resp = f.m THEN "reply" ELSE "other")
    /\ UNCHANGED <<sels, net, oob, events, active, intr, eintr, ctx, n>>

\* poll() fails: the wait is given up, the request is not.
SyncPollFails(p) ==
    /\ "poll" \in Faults /\ Pumped(p)
    /\ LET cur == sels[p][Top(p).id] IN
         ~ep[cur].ready /\ ep' = [ep EXCEPT ![cur].waiting = FALSE]
    /\ SyncReturn(p, "error")
    /\ UNCHANGED <<sels, net, oob, events, active, intr, eintr, ctx, n>>

Blocked(p) == Pumped(p) /\ ~ep[sels[p][Top(p).id]].ready

\* An urgent byte reaches end e.  SIGURG is raised for accepted connections;
\* ipc_sigurg_handler takes the byte if e is the one being evaluated.
Urgent(e, flags, waits) ==
    LET q == Owner(e)  hit == e[2] = "s" /\ active[q] = e IN
    /\ oob' = IF Alive(e) /\ ~hit THEN oob \cup {e} ELSE oob
    /\ intr' = IF hit THEN [flags EXCEPT ![q] = TRUE] ELSE flags
    /\ eintr' = IF e[2] = "s" /\ Blocked(q) THEN [waits EXCEPT ![q] = TRUE] ELSE waits

\* Ctrl-C while a request waits is forwarded as an urgent byte.
CtrlC(p) ==
    /\ Blocked(p) /\ n.cancels < MaxCancels
    /\ Urgent(Peer(sels[p][Top(p).id]), intr, eintr)
    /\ n' = [n EXCEPT !.cancels = @ + 1]
    /\ h' = [h EXCEPT !.asked = @ \cup {Top(p).m}]
    /\ UNCHANGED <<ep, sels, net, stack, events, active, ctx>>

\* A signal ended the wait: if it was an interrupt, it is passed on.
SyncEintr(p) ==
    /\ In(p, {"sync"}) /\ eintr[p]
    /\ LET waits == [eintr EXCEPT ![p] = FALSE] IN
       IF intr[p]
       THEN /\ Urgent(Peer(sels[p][Top(p).id]), [intr EXCEPT ![p] = FALSE], waits)
            /\ h' = [h EXCEPT !.asked = @ \cup {Top(p).m}]
       ELSE eintr' = waits /\ UNCHANGED <<oob, intr, h>>
    /\ UNCHANGED <<ep, sels, net, stack, events, active, ctx, n>>

-----------------------------------------------------------------------------
(* ray_ipc_connect: a handshake that blocks the process                    *)

Open(p, l) ==
    LET c == <<l, "c">> IN
    /\ MayCall(p, "open") /\ l[1] = p /\ ep[c].st = "none"
    /\ ep' = [ep EXCEPT ![c].st = "connecting", ![Peer(c)].st = "backlog"]
    /\ \E v \in {"ok"} \cup (IF "version" \in Faults THEN {"old"} ELSE {}) :
         net' = [net EXCEPT ![Peer(c)] = <<Unit("hello", v, 0)>>]
    /\ stack' = [stack EXCEPT ![p] = Append(@, Frame("hello", 0, c, 0, 0))]
    /\ n' = Counted(0)
    /\ UNCHANGED <<sels, oob, events, active, intr, eintr, ctx, h>>

\* The connection becomes a selector parked on a header read.
Connected(p) ==
    /\ \/ In(p, {"hello"}) /\ Ready(Top(p).e) /\ Head(net[Top(p).e]) = Unit("hello", "ok", 0)
       \/ In(p, {"login"}) /\ Ready(Top(p).e) /\ Head(net[Top(p).e]) = Unit("auth", "ok", 0)
    /\ FreeSlots(p) # {}
    /\ Register(p, Top(p).e, "header")
    /\ net' = Consumed(Top(p).e)
    /\ stack' = [stack EXCEPT ![p] = Below(p)]
    /\ UNCHANGED <<oob, events, active, intr, eintr, ctx, n, h>>

\* The server asks for credentials.
Login(p) ==
    /\ In(p, {"hello"}) /\ Ready(Top(p).e) /\ Head(net[Top(p).e]) = Unit("hello", "auth", 0)
    /\ \E c \in {"good", "bad"} :
         net' = Write(Consumed(Top(p).e), Top(p).e, <<Unit("creds", c, 0)>>)
    /\ stack' = [stack EXCEPT ![p] = Append(Below(p), [Top(p) EXCEPT !.k = "login"])]
    /\ UNCHANGED <<ep, sels, oob, events, active, intr, eintr, ctx, n, h>>

\* End of file, a refusal, no credentials to give, no slot, or the time is up.
ConnectFails(p) ==
    /\ In(p, {"hello", "login"})
    /\ ep' = [ep EXCEPT ![Top(p).e].st = "freed"]
    /\ net' = Shut(net, Top(p).e)
    /\ stack' = [stack EXCEPT ![p] = Below(p)]
    /\ UNCHANGED <<sels, oob, events, active, intr, eintr, ctx, n, h>>

-----------------------------------------------------------------------------
UserCall(p) ==
    \/ Script(p) \/ CtrlC(p)
    \/ \E id \in Slots : Close(p, id) \/ Post(p, id) \/ Send(p, id)
    \/ \E l \in Links : Open(p, l)

Read(p) == RxRead(p) \/ SyncPump(p)

Step(p) ==
    \/ EpollWait(p) \/ Accept(p) \/ TakeEvent(p)
    \/ RxGone(p) \/ RxDry(p) \/ RxEof(p) \/ DeregisterEnd(p)
    \/ EvalEnd(p) \/ HookEnd(p) \/ AuthEnd(p)
    \/ SyncEof(p) \/ SyncClosed(p) \/ SyncTake(p) \/ SyncEintr(p)
    \/ Connected(p) \/ Login(p) \/ ConnectFails(p)

Next == \E p \in Procs : UserCall(p) \/ Read(p) \/ Step(p) \/ SyncPollFails(p)

Spec == Init /\ [][Next]_vars

\* Every process keeps running, user code ends, and what was sent arrives; that
\* poll() fails is nothing to count on.
FairSpec == Spec /\ \A p \in Procs : WF_vars(Step(p)) /\ SF_vars(Read(p))

-----------------------------------------------------------------------------
(* Correctness                                                             *)

\* Type invariant: frames name slots and ends of their process, and a selector
\* is a live connection of the process whose table holds it.
TypeOK ==
    /\ \A e \in DOMAIN ep : ep[e].st \in {"none", "backlog", "connecting", "handshake", "creds",
                                     "header", "payload", "freed"}
    /\ \A p \in Procs : \A s \in DOMAIN sels[p] : sels[p][s] # None =>
         /\ sels[p][s] \in DOMAIN ep /\ Owner(sels[p][s]) = p
         /\ ep[sels[p][s]].st \in {"handshake", "creds", "header", "payload"}
    /\ \A p \in Procs : active[p] \in DOMAIN ep \cup {None}
    /\ \A p \in Procs : \A i \in DOMAIN stack[p] : stack[p][i].id \in {0} \cup DOMAIN sels[p]

\* A message is evaluated at most once and answered at most once, on the
\* connection it came from: ipc_read_payload re-arms the selector before it
\* dispatches, so that a nested pump does not see the payload again.
RunsOnce == \A m \in DOMAIN h.runs : h.runs[m] <= 1 /\ h.replies[m] <= 1

\* A sync request returns another's reply only where an earlier one on the same
\* connection was given up while its reply was still to come (sync_send when
\* poll fails).
OwnReply ==
    \A m \in DOMAIN h.result : h.result[m] = "other" =>
        \E k \in DOMAIN h.result : h.from[k] = h.from[m] /\ h.result[k] = "error"

\* What .ipc.send and .ipc.post count on: a message is evaluated at most once and
\* answered at most once, and a request gets its own reply unless one on its
\* connection was given up (ipc_read_payload, send_response, sync_send).
MessagesRight == TypeOK /\ RunsOnce /\ OwnReply

\* docs, ipc-hooks.md: on.close "pairs 1-to-1 with .ipc.on.open".
HooksPaired ==
    \A e \in Ends : /\ h.opened[e] <= 1
                    /\ h.closed[e] <= h.opened[e]
                    /\ ep[e].st = "freed" => h.closed[e] = h.opened[e]

\* No callback touches a selector or connection data after they were freed.
NoUseAfterFree == ~h.fault

\* docs, ipc.md: .ipc.handle is the connection that triggered the running hook.
HandleIsCaller == \A p \in Procs : In(p, User) => ctx[p] = Top(p).id

\* ipc.c: a cancel "is always scoped to the connection that sent it and never
\* affects another client's query".
CancelScoped == \A m \in h.cancel : \E k \in h.asked : h.from[k] = h.from[m]

\* A cancel hits the request its sender was waiting for (ipc.c: a prior cancel
\* would otherwise "make every later query fail spuriously").
CancelTimely == h.cancel \subseteq h.asked

\* A hangup reported for one connection is not applied to another one that took
\* over its slot.
HangupIsOwn ==
    \A p \in Procs : In(p, {"rxhup"}) => sels[p][Top(p).id] \in {None, Top(p).e}

\* docs, ipc.md: while .ipc.send waits, "frames are never silently swallowed": the
\* pump does not run into end of file with the reply in its hands.
ReplyKept ==
    \A p \in Procs : Syncing(p) =>
        LET cur == sels[p][Top(p).id] IN cur # None => ~(AtEof(cur) /\ ep[cur].ready)

\* Every sync request returns.
SyncReturns == \A m \in Msgs : h.result[m] = "waits" ~> h.result[m] # "waits"
=============================================================================
