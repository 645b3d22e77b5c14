----------------------------- MODULE IpcProofs -----------------------------
(***************************************************************************)
(* Connections and messages, for any processes, links, slots, calls and    *)
(* faults.  As long as the on.close hook only opens and posts, no callback *)
(* touches a selector or the data of a connection after they were freed;   *)
(* and when no freed address is allocated again either, every message is   *)
(* evaluated and answered at most once and a request gets its own reply.   *)
(***************************************************************************)
EXTENDS Ipc, FiniteSetTheorems, SequenceTheorems, WellFoundedInduction, TLAPS

\* The values of the variables.
Live == {"handshake", "creds", "header", "payload"}
States == {"none", "backlog", "connecting", "freed"} \cup Live
UnitNames == {"", "hello", "creds", "auth", "header", "payload", "eof"}
UnitTypes == {"", "ok", "old", "auth", "no", "good", "bad", "sync", "async", "resp", "big"}
Units == [u : UnitNames, t : UnitTypes, m : Nat]
Conns == [st : States, addr : Ends \cup {None}, buf : BOOLEAN, hdr : Units,
          waiting : BOOLEAN, ready : BOOLEAN, resp : Nat]
Ids == 0 .. NSlots
FrameKinds == {"rx", "rxhup", "dereg", "sync", "closed", "hello", "login"} \cup User
Frames == [k : FrameKinds, id : Ids, e : Ends \cup {None}, m : Nat, prev : Ids]
Events == [id : Ids, hup : BOOLEAN, e : Ends \cup {None}]
Counts == [msgs : Nat, calls : Nat, cancels : Nat]
Tables == [Slots -> Ends \cup {None}]
Sockets == [Ends -> Seq(Units)]

Values ==
    /\ ep \in [Ends -> Conns] /\ sels \in [Procs -> Tables] /\ net \in Sockets
    /\ stack \in [Procs -> Seq(Frames)] /\ events \in [Procs -> Seq(Events)]
    /\ active \in [Procs -> Ends \cup {None}] /\ ctx \in [Procs -> Ids]
    /\ n \in Counts /\ "fault" \in DOMAIN h

\* The table t of p with connections c: its selectors are connections of p that
\* have not been freed, each in one slot.
TableOK(p, t, c) ==
    /\ \A s \in Slots : t[s] # None => Owner(t[s]) = p /\ c[t[s]].st \in Live
    /\ \A r, s \in Slots : t[r] # None /\ t[r] = t[s] => r = s

\* The end a frame that will free or use it was made for is still in its slot.
Holds(f, t) == f.id \in Slots /\ f.e # None /\ t[f.id] = f.e

\* The stack k of p, frame by frame.  The loop is at the bottom and a handshake of
\* ray_ipc_connect at the top.  Above a deregistration only its on.close hook and
\* what that opens; above an on.auth hook no frame that reads from its slot.
LoopOK(k, i) == k[i].k \in {"rx", "rxhup"} => i = 1 /\ k[i].id \in Slots
ConnectOK(p, k, i, c) ==
    k[i].k \in {"hello", "login"} =>
        i = Len(k) /\ k[i].e # None /\ Owner(k[i].e) = p /\ c[k[i].e].st = "connecting"
DeregOK(k, i, t, c) ==
    k[i].k = "dereg" =>
        /\ Holds(k[i], t) /\ c[k[i].e].st \in {"header", "payload"}
        /\ \A j \in DOMAIN k : j > i => k[j].k \in {"close", "hello", "login"}
AuthOK(k, i, t, c) ==
    k[i].k = "auth" =>
        /\ Holds(k[i], t) /\ c[k[i].e].st = "creds"
        /\ \A j \in DOMAIN k : j > i /\ k[j].k \in {"sync", "auth"} => k[j].id # k[i].id
SlotOK(f) == f.k \in {"sync", "eval", "evala"} => f.id \in Slots
StackOK(p, k, t, c) ==
    \A i \in DOMAIN k :
        /\ LoopOK(k, i) /\ ConnectOK(p, k, i, c) /\ DeregOK(k, i, t, c) /\ AuthOK(k, i, t, c)
        /\ SlotOK(k[i])

\* A connection begins at its client.
LinksOK(c) == \A l \in Links : c[<<l, "c">>].st = "none" => c[<<l, "s">>].st = "none"

\* The inductive invariant.
IpcInv ==
    /\ Values /\ LinksOK(ep) /\ ~h.fault
    /\ \A p \in Procs : TableOK(p, sels[p], ep) /\ StackOK(p, stack[p], sels[p], ep)

-----------------------------------------------------------------------------
(* Ends, units and sockets.                                                *)

LEMMA EndFacts ==
    ASSUME NEW e \in Ends
    PROVE  /\ e # None /\ Owner(e) \in Procs /\ Peer(e) \in Ends
           /\ Owner(Peer(e)) # Owner(e) /\ Peer(e) # e
           /\ e[1] \in Links /\ e = <<e[1], e[2]>> /\ e[2] \in {"c", "s"}
<1>1. e[1] \in Links /\ e[2] \in {"c", "s"} /\ e = <<e[1], e[2]>>
  BY DEF Ends
<1>2. e[1][1] \in Procs /\ e[1][2] \in Procs /\ e[1][1] # e[1][2]
  BY <1>1, IpcAssumption
<1>3. e # None
  BY <1>1 DEF None
<1>4. Peer(e) \in Ends /\ Peer(e)[1] = e[1] /\ Peer(e)[2] # e[2]
  BY <1>1 DEF Peer, Ends
<1>5. Owner(e) \in Procs /\ Owner(Peer(e)) # Owner(e)
  BY <1>1, <1>2, <1>4 DEF Owner, Peer
<1> QED BY <1>1, <1>3, <1>4, <1>5

LEMMA UnitFacts ==
    ASSUME NEW u \in UnitNames, NEW t \in UnitTypes, NEW m \in Nat
    PROVE  Unit(u, t, m) \in Units
BY DEF Unit, Units

LEMMA UnitSeqs ==
    /\ \A u \in UnitNames, t \in UnitTypes : <<Unit(u, t, 0)>> \in Seq(Units)
    /\ <<Eof>> \in Seq(Units)
    /\ \A t \in UnitTypes, m \in Nat : Message(t, m) \in Seq(Units)
<1>1. \A x \in Units : <<x>> \in Seq(Units)
  OBVIOUS
<1>2. \A x, y \in Units : <<x, y>> \in Seq(Units)
  OBVIOUS
<1>3. "eof" \in UnitNames /\ "" \in UnitTypes /\ "header" \in UnitNames /\ "payload" \in UnitNames
  BY DEF UnitNames, UnitTypes
<1>4. Eof \in Units
  BY <1>3, UnitFacts DEF Eof
<1>5. ASSUME NEW t \in UnitTypes, NEW m \in Nat PROVE Message(t, m) \in Seq(Units)
  BY <1>2, <1>3, UnitFacts DEF Message
<1>6. \A u \in UnitNames, t \in UnitTypes : <<Unit(u, t, 0)>> \in Seq(Units)
  BY <1>1, UnitFacts
<1>7. <<Eof>> \in Seq(Units)
  BY <1>1, <1>4
<1> QED BY <1>5, <1>6, <1>7, Zenon

LEMMA WriteType ==
    ASSUME NEW q \in Sockets, NEW e \in Ends, NEW us \in Seq(Units)
    PROVE  Write(q, e, us) \in Sockets
<1>1. q[Peer(e)] \o us \in Seq(Units)
  BY EndFacts, ConcatProperties DEF Sockets
<1> QED BY <1>1, EndFacts DEF Write, Sockets

LEMMA ShutType ==
    ASSUME NEW q \in Sockets, NEW e \in Ends
    PROVE  Shut(q, e) \in Sockets
<1>1. Write(q, e, <<Eof>>) \in Sockets
  BY WriteType, UnitSeqs
<1> DEFINE w == Write(q, e, <<Eof>>)
<1>2. Shut(q, e) = [w EXCEPT ![e] = <<>>]
  BY DEF Shut
<1>3. w \in Sockets
  BY <1>1
<1> HIDE DEF w
<1>4. w \in [Ends -> Seq(Units)] /\ <<>> \in Seq(Units)
  BY <1>3 DEF Sockets
<1> QED BY <1>2, <1>4 DEF Sockets

LEMMA ConsumedType ==
    ASSUME net \in Sockets, NEW e \in Ends, net[e] # <<>>
    PROVE  Consumed(e) \in Sockets /\ Head(net[e]) \in Units
<1>1. net[e] \in Seq(Units)
  BY DEF Sockets
<1>2. Tail(net[e]) \in Seq(Units) /\ Head(net[e]) \in Units
  BY <1>1
<1> QED BY <1>2 DEF Consumed, Sockets

-----------------------------------------------------------------------------
(* Stacks.                                                                 *)

LEMMA FrontFacts ==
    ASSUME NEW k \in Seq(Frames), k # <<>>
    PROVE  /\ Front(k) \in Seq(Frames) /\ Last(k) \in Frames /\ Last(k) = k[Len(k)]
           /\ Len(k) \in Nat \ {0} /\ DOMAIN k = 1 .. Len(k)
           /\ Len(Front(k)) = Len(k) - 1 /\ DOMAIN Front(k) = 1 .. Len(k) - 1
           /\ \A i \in 1 .. Len(k) - 1 : Front(k)[i] = k[i]
<1>1. Len(k) \in Nat \ {0} /\ DOMAIN k = 1 .. Len(k)
  BY EmptySeq
<1>2. /\ SubSeq(k, 1, Len(k) - 1) \in Seq(Frames) /\ Len(SubSeq(k, 1, Len(k) - 1)) = Len(k) - 1
      /\ \A i \in 1 .. Len(k) - 1 : SubSeq(k, 1, Len(k) - 1)[i] = k[i]
  BY <1>1
<1>3. Front(k) = SubSeq(k, 1, Len(k) - 1) /\ Last(k) = k[Len(k)]
  BY DEF Front, Last
<1>4. k[Len(k)] \in Frames
  BY <1>1
<1> QED BY <1>1, <1>2, <1>3, <1>4

LEMMA FrameTypes ==
    ASSUME NEW k \in Seq(Frames)
    PROVE  \A i \in DOMAIN k :
               /\ k[i] \in Frames /\ k[i].k \in FrameKinds /\ k[i].id \in Ids /\ k[i].prev \in Ids
               /\ k[i].m \in Nat /\ k[i].e \in Ends \cup {None}
<1> TAKE i \in DOMAIN k
<1>1. k[i] \in Frames
  OBVIOUS
<1> QED BY <1>1 DEF Frames

LEMMA PushFacts ==
    ASSUME NEW k \in Seq(Frames), NEW f \in Frames
    PROVE  /\ Append(k, f) \in Seq(Frames) /\ Len(Append(k, f)) = Len(k) + 1 /\ Len(k) \in Nat
           /\ DOMAIN k = 1 .. Len(k) /\ DOMAIN Append(k, f) = 1 .. Len(k) + 1
           /\ \A i \in 1 .. Len(k) : Append(k, f)[i] = k[i]
           /\ Append(k, f)[Len(k) + 1] = f
OBVIOUS

\* No frame that is about to free a connection or to open one.
Quiet(k) == \A i \in DOMAIN k : k[i].k \notin {"dereg", "hello", "login"}

\* No on.auth hook is running for the connection in slot id.
AuthElsewhere(k, id) == \A i \in DOMAIN k : k[i].k = "auth" => k[i].id # id

LEMMA StackFront ==
    ASSUME NEW p, NEW k \in Seq(Frames), k # <<>>, NEW t, NEW c, StackOK(p, k, t, c)
    PROVE  StackOK(p, Front(k), t, c) /\ \A i \in DOMAIN Front(k) : Front(k)[i].k \notin {"hello", "login"}
<1> DEFINE b == Front(k)
<1>1. /\ Len(k) \in Nat \ {0} /\ DOMAIN k = 1 .. Len(k) /\ Len(b) = Len(k) - 1
      /\ DOMAIN b = 1 .. Len(k) - 1 /\ \A i \in 1 .. Len(k) - 1 : b[i] = k[i]
  BY FrontFacts
<1> HIDE DEF b
<1>2. \A i \in DOMAIN b : i \in DOMAIN k /\ b[i] = k[i] /\ i # Len(k)
  BY <1>1
<1>3. ASSUME NEW i \in DOMAIN b
      PROVE  /\ LoopOK(b, i) /\ ConnectOK(p, b, i, c) /\ DeregOK(b, i, t, c) /\ AuthOK(b, i, t, c)
             /\ SlotOK(b[i])
  <2>1. i \in DOMAIN k /\ b[i] = k[i] /\ i # Len(k)
    BY <1>2
  <2>2. /\ LoopOK(k, i) /\ ConnectOK(p, k, i, c) /\ DeregOK(k, i, t, c) /\ AuthOK(k, i, t, c)
        /\ SlotOK(k[i])
    BY <2>1 DEF StackOK
  <2>3. LoopOK(b, i) /\ ConnectOK(p, b, i, c)
    BY <2>1, <2>2 DEF LoopOK, ConnectOK
  <2>4. DeregOK(b, i, t, c)
    BY <1>2, <2>1, <2>2 DEF DeregOK
  <2>5. AuthOK(b, i, t, c)
    BY <1>2, <2>1, <2>2 DEF AuthOK
  <2> QED BY <2>1, <2>2, <2>3, <2>4, <2>5
<1>4. \A i \in DOMAIN b : b[i].k \notin {"hello", "login"}
  BY <1>2 DEF StackOK, ConnectOK
<1> QED BY <1>3, <1>4 DEF StackOK, b

\* What the new frame must satisfy by itself, and with the frames below it.
FrameOK(p, f, t, c) ==
    /\ f.k \notin {"rx", "rxhup"}
    /\ f.k \in {"hello", "login"} => f.e # None /\ Owner(f.e) = p /\ c[f.e].st = "connecting"
    /\ f.k = "dereg" => Holds(f, t) /\ c[f.e].st \in {"header", "payload"}
    /\ f.k = "auth" => Holds(f, t) /\ c[f.e].st = "creds"
    /\ SlotOK(f)
Fits(k, f) ==
    /\ \A i \in DOMAIN k : k[i].k \notin {"hello", "login"}
    /\ f.k \notin {"close", "hello", "login"} => \A i \in DOMAIN k : k[i].k # "dereg"
    /\ f.k \in {"sync", "auth"} => AuthElsewhere(k, f.id)

LEMMA StackPush ==
    ASSUME NEW p, NEW k \in Seq(Frames), NEW f \in Frames, NEW t, NEW c, StackOK(p, k, t, c),
           FrameOK(p, f, t, c), Fits(k, f)
    PROVE  StackOK(p, Append(k, f), t, c)
<1> DEFINE b == Append(k, f)  m == Len(k) + 1
<1>1. /\ Len(b) = m /\ Len(k) \in Nat /\ m \in Nat /\ DOMAIN k = 1 .. Len(k) /\ DOMAIN b = 1 .. m
      /\ \A i \in 1 .. Len(k) : b[i] = k[i]
      /\ b[m] = f
  BY PushFacts
<1>2. \A i \in DOMAIN b : (i \in DOMAIN k /\ b[i] = k[i] /\ i < m) \/ i = m
  BY <1>1
<1>3. ~ \E j \in DOMAIN b : j > m
  BY <1>1
<1> HIDE DEF b, m
<1>4. ASSUME NEW i \in DOMAIN b
      PROVE  /\ LoopOK(b, i) /\ ConnectOK(p, b, i, c) /\ DeregOK(b, i, t, c) /\ AuthOK(b, i, t, c)
             /\ SlotOK(b[i])
  <2>1. CASE i \in DOMAIN k /\ b[i] = k[i] /\ i < m
    <3>1. /\ LoopOK(k, i) /\ ConnectOK(p, k, i, c) /\ DeregOK(k, i, t, c) /\ AuthOK(k, i, t, c)
          /\ SlotOK(k[i])
      BY <2>1 DEF StackOK
    <3>2. LoopOK(b, i) /\ ConnectOK(p, b, i, c)
      BY <2>1, <3>1 DEF LoopOK, ConnectOK, Fits
    <3>3. DeregOK(b, i, t, c)
      BY <1>1, <1>2, <2>1, <3>1 DEF DeregOK, Fits
    <3>4. AuthOK(b, i, t, c)
      BY <1>1, <1>2, <2>1, <3>1 DEF AuthOK, Fits, AuthElsewhere
    <3> QED BY <2>1, <3>1, <3>2, <3>3, <3>4
  <2>2. CASE i = m
    <3>1. b[i] = f
      BY <1>1, <2>2
    <3>2. LoopOK(b, i) /\ ConnectOK(p, b, i, c) /\ SlotOK(b[i])
      BY <1>1, <2>2, <3>1 DEF LoopOK, ConnectOK, FrameOK
    <3>3. DeregOK(b, i, t, c) /\ AuthOK(b, i, t, c)
      BY <1>3, <2>2, <3>1 DEF DeregOK, AuthOK, FrameOK
    <3> QED BY <3>2, <3>3
  <2> QED BY <1>2, <2>1, <2>2
<1> QED BY <1>4 DEF StackOK, b

LEMMA QuietTop ==
    ASSUME NEW p, NEW k \in Seq(Frames), k # <<>>, NEW t, NEW c, StackOK(p, k, t, c),
           Last(k).k \notin {"dereg", "close", "hello", "login"}
    PROVE  Quiet(k)
<1>1. Last(k) = k[Len(k)] /\ Len(k) \in Nat \ {0} /\ DOMAIN k = 1 .. Len(k)
  BY FrontFacts
<1> SUFFICES ASSUME NEW i \in DOMAIN k, k[i].k \in {"dereg", "hello", "login"} PROVE FALSE
  BY DEF Quiet
<1>2. ConnectOK(p, k, i, c) /\ DeregOK(k, i, t, c)
  BY DEF StackOK
<1>3. i = Len(k) \/ (Len(k) \in DOMAIN k /\ Len(k) > i)
  BY <1>1
<1>4. CASE k[i].k = "dereg"
  BY <1>1, <1>2, <1>3, <1>4 DEF DeregOK
<1>5. CASE k[i].k \in {"hello", "login"}
  BY <1>1, <1>2, <1>5 DEF ConnectOK
<1> QED BY <1>4, <1>5

LEMMA QuietFront ==
    ASSUME NEW p, NEW k \in Seq(Frames), k # <<>>, NEW t, NEW c, StackOK(p, k, t, c),
           Last(k).k \notin {"close", "hello", "login"}
    PROVE  Quiet(Front(k))
<1>1. /\ Last(k) = k[Len(k)] /\ Len(k) \in Nat \ {0} /\ DOMAIN k = 1 .. Len(k)
      /\ DOMAIN Front(k) = 1 .. Len(k) - 1 /\ \A i \in 1 .. Len(k) - 1 : Front(k)[i] = k[i]
  BY FrontFacts
<1> SUFFICES ASSUME NEW i \in DOMAIN Front(k), Front(k)[i].k \in {"dereg", "hello", "login"} PROVE FALSE
  BY DEF Quiet
<1>2. i \in DOMAIN k /\ Len(k) > i /\ Len(k) \in DOMAIN k /\ k[i].k \in {"dereg", "hello", "login"} /\ i # Len(k)
  BY <1>1
<1>3. ConnectOK(p, k, i, c) /\ DeregOK(k, i, t, c)
  BY <1>2 DEF StackOK
<1> QED BY <1>1, <1>2, <1>3 DEF ConnectOK, DeregOK

\* Under a frame that reads from a slot no on.auth hook has that slot.
LEMMA TopElsewhere ==
    ASSUME NEW p, NEW k \in Seq(Frames), k # <<>>, NEW t, NEW c, StackOK(p, k, t, c),
           Last(k).k \in {"sync", "auth"}
    PROVE  AuthElsewhere(Front(k), Last(k).id)
<1>1. /\ Last(k) = k[Len(k)] /\ Len(k) \in Nat \ {0} /\ DOMAIN k = 1 .. Len(k)
      /\ DOMAIN Front(k) = 1 .. Len(k) - 1 /\ \A i \in 1 .. Len(k) - 1 : Front(k)[i] = k[i]
  BY FrontFacts
<1> SUFFICES ASSUME NEW i \in DOMAIN Front(k), Front(k)[i].k = "auth" PROVE Front(k)[i].id # Last(k).id
  BY DEF AuthElsewhere
<1>2. i \in DOMAIN k /\ Len(k) > i /\ Len(k) \in DOMAIN k /\ k[i] = Front(k)[i]
  BY <1>1
<1>3. AuthOK(k, i, t, c)
  BY <1>2 DEF StackOK
<1> QED BY <1>1, <1>2, <1>3 DEF AuthOK

\* One end and one slot change, and no frame is about them.
EndsBut(c, d, e) == \A x \in Ends \ {e} : d[x].st = c[x].st
SlotsBut(t, u, id) == \A s \in Slots \ {id} : u[s] = t[s]
Apart(k, e, id) ==
    \A i \in DOMAIN k :
        /\ k[i].k \in {"dereg", "auth"} => k[i].id # id /\ k[i].e # e
        /\ k[i].k \in {"hello", "login"} => k[i].e # e

LEMMA StackMoved ==
    ASSUME NEW p, NEW k \in Seq(Frames), NEW t, NEW c, StackOK(p, k, t, c),
           NEW u, NEW d, NEW e, NEW id, EndsBut(c, d, e), SlotsBut(t, u, id), Apart(k, e, id)
    PROVE  StackOK(p, k, u, d)
<1> SUFFICES ASSUME NEW i \in DOMAIN k
             PROVE  /\ LoopOK(k, i) /\ ConnectOK(p, k, i, d) /\ DeregOK(k, i, u, d) /\ AuthOK(k, i, u, d)
                    /\ SlotOK(k[i])
  BY DEF StackOK
<1>1. /\ LoopOK(k, i) /\ ConnectOK(p, k, i, c) /\ DeregOK(k, i, t, c) /\ AuthOK(k, i, t, c)
      /\ SlotOK(k[i])
  BY DEF StackOK
<1>2. k[i].e \in Ends \cup {None}
  BY FrameTypes
<1>3. ConnectOK(p, k, i, d)
  BY <1>1, <1>2 DEF ConnectOK, Apart, EndsBut
<1>4. DeregOK(k, i, u, d)
  BY <1>1, <1>2 DEF DeregOK, Holds, Apart, EndsBut, SlotsBut
<1>5. AuthOK(k, i, u, d)
  BY <1>1, <1>2 DEF AuthOK, Holds, Apart, EndsBut, SlotsBut
<1> QED BY <1>1, <1>3, <1>4, <1>5

-----------------------------------------------------------------------------
(* Steps.                                                                  *)

\* What is known of a process.
LEMMA Parts ==
    ASSUME IpcInv, NEW p \in Procs
    PROVE  /\ sels[p] \in Tables /\ stack[p] \in Seq(Frames)
           /\ TableOK(p, sels[p], ep) /\ StackOK(p, stack[p], sels[p], ep)
           /\ ep \in [Ends -> Conns] /\ net \in Sockets /\ LinksOK(ep)
           /\ sels = [sels EXCEPT ![p] = sels[p]] /\ stack = [stack EXCEPT ![p] = stack[p]]
           /\ ctx[p] \in Ids /\ "fault" \in DOMAIN h /\ ~h.fault
<1>1. Values /\ TableOK(p, sels[p], ep) /\ StackOK(p, stack[p], sels[p], ep) /\ LinksOK(ep) /\ ~h.fault
  BY DEF IpcInv
<1> QED BY <1>1 DEF Values

\* The connections of q that have begun are in the state they were in.
Kept(q, c, d) == \A x \in Ends : Owner(x) = q /\ c[x].st # "none" => d[x].st = c[x].st

LEMMA KeptFacts ==
    ASSUME NEW q, NEW t \in Tables, NEW c, NEW d, Kept(q, c, d), TableOK(q, t, c),
           NEW k \in Seq(Frames), StackOK(q, k, t, c)
    PROVE  TableOK(q, t, d) /\ StackOK(q, k, t, d)
<1>1. TableOK(q, t, d)
  BY DEF TableOK, Tables, Live, Kept
<1>2. \A i \in DOMAIN k : k[i].e \in Ends \cup {None}
  BY FrameTypes
<1>3. ASSUME NEW i \in DOMAIN k
      PROVE  /\ LoopOK(k, i) /\ ConnectOK(q, k, i, d) /\ DeregOK(k, i, t, d) /\ AuthOK(k, i, t, d)
             /\ SlotOK(k[i])
  <2>1. LoopOK(k, i) /\ ConnectOK(q, k, i, c) /\ DeregOK(k, i, t, c) /\ AuthOK(k, i, t, c) /\ SlotOK(k[i])
    BY DEF StackOK
  <2>2. ConnectOK(q, k, i, d)
    BY <1>2, <2>1 DEF ConnectOK, Kept
  <2>3. Holds(k[i], t) => k[i].e \in Ends /\ Owner(k[i].e) = q
    BY <1>2 DEF Holds, TableOK
  <2>4. DeregOK(k, i, t, d)
    BY <2>1, <2>3 DEF DeregOK, Kept
  <2>5. AuthOK(k, i, t, d)
    BY <2>1, <2>3 DEF AuthOK, Kept
  <2> QED BY <2>1, <2>2, <2>4, <2>5
<1> QED BY <1>1, <1>3 DEF StackOK

\* A step of p leaves the ends of the others as they are, but for those of links
\* that begin.
LEMMA StepOf ==
    ASSUME IpcInv, NEW p \in Procs, ep' \in [Ends -> Conns],
           \A x \in Ends : Owner(x) # p /\ ep[x].st # "none" => ep'[x].st = ep[x].st,
           LinksOK(ep'),
           NEW t \in Tables, sels' = [sels EXCEPT ![p] = t],
           NEW k \in Seq(Frames), stack' = [stack EXCEPT ![p] = k],
           TableOK(p, t, ep'), StackOK(p, k, t, ep'),
           net' \in Sockets, events' \in [Procs -> Seq(Events)], active' \in [Procs -> Ends \cup {None}],
           ctx' \in [Procs -> Ids], n' \in Counts, "fault" \in DOMAIN h', ~h'.fault
    PROVE  IpcInv'
<1>1. Values
  BY DEF IpcInv
<1>2. sels' \in [Procs -> Tables] /\ stack' \in [Procs -> Seq(Frames)]
  BY <1>1 DEF Values
<1>3. Values'
  BY <1>1, <1>2 DEF Values
<1>4. ASSUME NEW q \in Procs PROVE TableOK(q, sels'[q], ep') /\ StackOK(q, stack'[q], sels'[q], ep')
  <2>1. CASE q = p
    <3>1. sels'[q] = t /\ stack'[q] = k
      BY <1>1, <2>1 DEF Values
    <3> QED BY <2>1, <3>1
  <2>2. CASE q # p
    <3>1. sels'[q] = sels[q] /\ stack'[q] = stack[q] /\ sels[q] \in Tables /\ stack[q] \in Seq(Frames)
      BY <1>1, <2>2 DEF Values
    <3>2. TableOK(q, sels[q], ep) /\ StackOK(q, stack[q], sels[q], ep)
      BY DEF IpcInv
    <3>3. \A x \in Ends : Owner(x) = q /\ ep[x].st # "none" => ep'[x].st = ep[x].st
      BY <2>2
    <3>4. TableOK(q, sels[q], ep') /\ StackOK(q, stack[q], sels[q], ep')
      BY <3>1, <3>2, <3>3, KeptFacts DEF Kept
    <3> QED BY <3>1, <3>4
  <2> QED BY <2>1, <2>2
<1> QED BY <1>3, <1>4 DEF IpcInv

\* The other variables keep their types.
Typed ==
    /\ net' \in Sockets /\ events' \in [Procs -> Seq(Events)] /\ active' \in [Procs -> Ends \cup {None}]
    /\ ctx' \in [Procs -> Ids] /\ n' \in Counts

LEMMA TypesKept ==
    ASSUME IpcInv
    PROVE  /\ events \in [Procs -> Seq(Events)] /\ active \in [Procs -> Ends \cup {None}]
           /\ ctx \in [Procs -> Ids] /\ n \in Counts /\ net \in Sockets
BY DEF IpcInv, Values

\* A step that leaves connections and tables alone.
LEMMA StackStep ==
    ASSUME IpcInv, NEW p \in Procs, UNCHANGED <<ep, sels>>, NEW k \in Seq(Frames),
           stack' = [stack EXCEPT ![p] = k], StackOK(p, k, sels[p], ep), Typed,
           "fault" \in DOMAIN h', ~h'.fault
    PROVE  IpcInv'
<1>1. /\ sels[p] \in Tables /\ TableOK(p, sels[p], ep) /\ ep \in [Ends -> Conns] /\ LinksOK(ep)
      /\ sels' = [sels EXCEPT ![p] = sels[p]]
  BY Parts
<1>2. /\ net' \in Sockets /\ events' \in [Procs -> Seq(Events)] /\ active' \in [Procs -> Ends \cup {None}]
      /\ ctx' \in [Procs -> Ids] /\ n' \in Counts
  BY DEF Typed
<1>3. /\ ep' \in [Ends -> Conns] /\ LinksOK(ep') /\ TableOK(p, sels[p], ep') /\ StackOK(p, k, sels[p], ep')
      /\ \A x \in Ends : Owner(x) # p /\ ep[x].st # "none" => ep'[x].st = ep[x].st
  BY <1>1
<1> QED BY <1>1, <1>2, <1>3, StepOf

\* The connection in a slot, and what must be in the way of nothing.
Served(p, id, k) ==
    /\ id \in Slots /\ sels[p][id] # None /\ k \in Seq(Frames) /\ StackOK(p, k, sels[p], ep)
    /\ Quiet(k) /\ AuthElsewhere(k, id)

LEMMA ServedFacts ==
    ASSUME IpcInv, NEW p \in Procs, NEW id, NEW k, Served(p, id, k)
    PROVE  /\ sels[p][id] \in Ends /\ Owner(sels[p][id]) = p /\ ep[sels[p][id]].st \in Live
           /\ ep[sels[p][id]] \in Conns /\ id \in Slots /\ id \in Ids /\ k \in Seq(Frames)
           /\ Apart(k, sels[p][id], id)
<1>1. /\ id \in Slots /\ sels[p][id] # None /\ k \in Seq(Frames) /\ StackOK(p, k, sels[p], ep)
      /\ Quiet(k) /\ AuthElsewhere(k, id)
  BY DEF Served
<1>2. sels[p] \in Tables /\ TableOK(p, sels[p], ep) /\ ep \in [Ends -> Conns] /\ LinksOK(ep)
  BY Parts
<1>3. sels[p][id] \in Ends /\ Owner(sels[p][id]) = p /\ ep[sels[p][id]].st \in Live /\ ep[sels[p][id]] \in Conns
  BY <1>1, <1>2 DEF TableOK, Tables
<1>5. ASSUME NEW i \in DOMAIN k, k[i].k \in {"dereg", "auth"} PROVE k[i].id # id /\ k[i].e # sels[p][id]
  <2>1. k[i].k = "auth" /\ k[i].id # id
    BY <1>1, <1>5 DEF Quiet, AuthElsewhere
  <2>2. Holds(k[i], sels[p])
    BY <1>1, <2>1 DEF StackOK, AuthOK
  <2> QED BY <1>1, <1>2, <2>1, <2>2 DEF TableOK, Holds
<1>6. \A i \in DOMAIN k : k[i].k \in {"hello", "login"} => k[i].e # sels[p][id]
  BY <1>1 DEF Quiet
<1>7. id \in Ids
  BY <1>1, IpcAssumption DEF Slots, Ids
<1> QED BY <1>1, <1>3, <1>5, <1>6, <1>7 DEF Apart

\* Its data changes, it stays in its slot.
LEMMA ConnStep ==
    ASSUME IpcInv, NEW p \in Procs, NEW id, NEW b, Served(p, id, b),
           NEW c \in Conns, c.st \in Live, ep' = [ep EXCEPT ![sels[p][id]] = c], UNCHANGED sels,
           NEW k \in Seq(Frames), stack' = [stack EXCEPT ![p] = k],
           StackOK(p, b, sels[p], ep') => StackOK(p, k, sels[p], ep'), Typed,
           "fault" \in DOMAIN h', ~h'.fault
    PROVE  IpcInv'
<1> DEFINE e == sels[p][id]
<1>1. /\ e \in Ends /\ Owner(e) = p /\ ep[e].st \in Live /\ id \in Slots
      /\ Apart(b, e, id)
  BY ServedFacts
<1>2. /\ sels[p] \in Tables /\ TableOK(p, sels[p], ep) /\ ep \in [Ends -> Conns] /\ LinksOK(ep)
      /\ sels' = [sels EXCEPT ![p] = sels[p]]
  BY Parts
<1>3. b \in Seq(Frames) /\ StackOK(p, b, sels[p], ep)
  BY DEF Served
<1> HIDE DEF e
<1>4. ep' = [ep EXCEPT ![e] = c]
  BY DEF e
<1>5. ep' \in [Ends -> Conns] /\ ep'[e] = c /\ \A x \in Ends \ {e} : ep'[x] = ep[x]
  BY <1>1, <1>2, <1>4
<1>6. StackOK(p, b, sels[p], ep')
  <2>1. EndsBut(ep, ep', e) /\ SlotsBut(sels[p], sels[p], id)
    BY <1>5 DEF EndsBut, SlotsBut
  <2> QED BY <1>1, <1>3, <2>1, StackMoved
<1>7. TableOK(p, sels[p], ep')
  BY <1>1, <1>2, <1>5 DEF TableOK, Tables
<1>8. LinksOK(ep')
  <2> SUFFICES ASSUME NEW l \in Links, ep'[<<l, "c">>].st = "none" PROVE ep'[<<l, "s">>].st = "none"
    BY DEF LinksOK
  <2>1. <<l, "c">> \in Ends /\ <<l, "s">> \in Ends
    BY DEF Ends
  <2>2. <<l, "c">> # e
    BY <1>5 DEF Live
  <2>3. ep[<<l, "s">>].st = "none"
    BY <1>2, <1>5, <2>1, <2>2 DEF LinksOK
  <2>4. <<l, "s">> # e
    BY <1>1, <2>3 DEF Live
  <2> QED BY <1>5, <2>1, <2>3, <2>4
<1>9. \A x \in Ends : Owner(x) # p /\ ep[x].st # "none" => ep'[x].st = ep[x].st
  BY <1>1, <1>5
<1>10. /\ net' \in Sockets /\ events' \in [Procs -> Seq(Events)] /\ active' \in [Procs -> Ends \cup {None}]
       /\ ctx' \in [Procs -> Ids] /\ n' \in Counts
  BY DEF Typed
<1>11. StackOK(p, k, sels[p], ep')
  BY <1>6
<1> QED BY <1>2, <1>5, <1>7, <1>8, <1>9, <1>10, <1>11, StepOf

LEMMA BlankConn ==
    ASSUME NEW a \in Ends \cup {None}
    PROVE  /\ [Blank EXCEPT !.st = "freed", !.addr = a] \in Conns
           /\ [Blank EXCEPT !.st = "freed", !.addr = a].st = "freed"
<1>1. Unit("", "", 0) \in Units
  BY UnitFacts DEF UnitNames, UnitTypes
<1> QED BY <1>1 DEF Blank, Conns, States

\* It is freed and its slot cleared.
LEMMA FreeStep ==
    ASSUME IpcInv, NEW p \in Procs, NEW id, NEW k, Served(p, id, k), NEW q \in Sockets,
           Free(p, id, sels[p][id], k, q),
           events' \in [Procs -> Seq(Events)], active' \in [Procs -> Ends \cup {None}],
           ctx' \in [Procs -> Ids], n' \in Counts
    PROVE  IpcInv'
<1> DEFINE e == sels[p][id]  t == [sels[p] EXCEPT ![id] = None]
           c == [Blank EXCEPT !.st = "freed", !.addr = ep[e].addr]
<1>1. /\ e \in Ends /\ Owner(e) = p /\ ep[e].st \in Live /\ ep[e] \in Conns /\ id \in Slots /\ k \in Seq(Frames)
      /\ Apart(k, e, id)
  BY ServedFacts
<1>2. /\ sels[p] \in Tables /\ TableOK(p, sels[p], ep) /\ ep \in [Ends -> Conns] /\ LinksOK(ep)
      /\ "fault" \in DOMAIN h /\ ~h.fault
  BY Parts
<1>3. StackOK(p, k, sels[p], ep)
  BY DEF Served
<1>4. ep[e].addr \in Ends \cup {None}
  BY <1>1 DEF Conns
<1>5. c \in Conns /\ c.st = "freed"
  BY <1>4, BlankConn
<1>6. /\ ep' = [ep EXCEPT ![e] = c] /\ sels' = [sels EXCEPT ![p] = t] /\ stack' = [stack EXCEPT ![p] = k]
      /\ h' = [h EXCEPT !.fault = @ \/ ep[e].st = "freed"]
      /\ net' = IF ep[e].st = "freed" THEN q ELSE Shut(q, e)
  BY DEF Free
<1> HIDE DEF e, c
<1>7. ep' \in [Ends -> Conns] /\ ep'[e] = c /\ \A x \in Ends \ {e} : ep'[x] = ep[x]
  BY <1>1, <1>2, <1>5, <1>6
<1>8. t \in Tables /\ t[id] = None /\ \A s \in Slots \ {id} : t[s] = sels[p][s]
  BY <1>1, <1>2 DEF Tables
<1> HIDE DEF t
<1>9. StackOK(p, k, t, ep')
  <2>1. EndsBut(ep, ep', e) /\ SlotsBut(sels[p], t, id)
    BY <1>7, <1>8 DEF EndsBut, SlotsBut
  <2> QED BY <1>1, <1>3, <2>1, StackMoved
<1>10. TableOK(p, t, ep')
  <2>1. \A s \in Slots : t[s] # None => t[s] = sels[p][s] /\ t[s] # e /\ t[s] \in Ends
    BY <1>1, <1>2, <1>8 DEF TableOK, Tables, e
  <2> QED BY <1>2, <1>7, <2>1 DEF TableOK
<1>11. LinksOK(ep')
  <2> SUFFICES ASSUME NEW l \in Links, ep'[<<l, "c">>].st = "none" PROVE ep'[<<l, "s">>].st = "none"
    BY DEF LinksOK
  <2>1. <<l, "c">> \in Ends /\ <<l, "s">> \in Ends
    BY DEF Ends
  <2>2. <<l, "c">> # e
    BY <1>5, <1>7
  <2>3. ep[<<l, "s">>].st = "none"
    BY <1>2, <1>7, <2>1, <2>2 DEF LinksOK
  <2>4. <<l, "s">> # e
    BY <1>1, <2>3 DEF Live
  <2> QED BY <1>7, <2>1, <2>3, <2>4
<1>12. \A x \in Ends : Owner(x) # p /\ ep[x].st # "none" => ep'[x].st = ep[x].st
  BY <1>1, <1>7
<1>13. net' \in Sockets
  BY <1>1, <1>6, ShutType
<1>14. "fault" \in DOMAIN h' /\ ~h'.fault
  <2>1. ep[e].st # "freed"
    BY <1>1 DEF Live
  <2> QED BY <1>2, <1>6, <2>1
<1> QED BY <1>1, <1>6, <1>7, <1>8, <1>9, <1>10, <1>11, <1>12, <1>13, <1>14, StepOf

LEMMA KindFacts ==
    /\ {"rx", "rxhup", "dereg", "sync", "closed", "hello", "login", "open", "close", "auth",
        "eval", "evala", "script"} = FrameKinds
    /\ 0 \in Ids /\ Slots \subseteq Ids
<1>1. {"rx", "rxhup", "dereg", "sync", "closed", "hello", "login", "open", "close", "auth",
        "eval", "evala", "script"} = FrameKinds
  BY DEF FrameKinds, User, Hooks, Evals
<1>2. 0 \in Ids /\ Slots \subseteq Ids
  BY IpcAssumption DEF Slots, Ids
<1> QED BY <1>1, <1>2

LEMMA DeregisterStep ==
    ASSUME IpcInv, NEW p \in Procs, NEW id, NEW k, Served(p, id, k), NEW q \in Sockets,
           Deregister(p, id, k, q),
           events' \in [Procs -> Seq(Events)], active' \in [Procs -> Ends \cup {None}], n' \in Counts
    PROVE  IpcInv'
<1> DEFINE e == sels[p][id]
<1>1. e \in Ends /\ id \in Slots /\ id \in Ids /\ k \in Seq(Frames) /\ e # None
  BY ServedFacts, EndFacts
<1>2. Quiet(k) /\ StackOK(p, k, sels[p], ep)
  BY DEF Served
<1>3. ctx \in [Procs -> Ids] /\ ctx[p] \in Ids /\ "fault" \in DOMAIN h /\ ~h.fault
  BY TypesKept, Parts
<1>4. CASE Announced(e)
  <2> DEFINE f == Frame("dereg", id, e, 0, 0)  g == Frame("close", id, e, 0, ctx[p])
  <2>0. "dereg" \in FrameKinds /\ "close" \in FrameKinds /\ 0 \in Ids /\ 0 \in Nat /\ e \in Ends \cup {None}
    BY <1>1, KindFacts
  <2>1. f \in Frames /\ f.k = "dereg" /\ f.id = id /\ f.e = e
    BY <1>1, <2>0 DEF Frame, Frames
  <2>2. g \in Frames /\ g.k = "close"
    BY <1>1, <1>3, <2>0 DEF Frame, Frames
  <2>3. /\ stack' = [stack EXCEPT ![p] = k \o <<f, g>>] /\ ctx' = [ctx EXCEPT ![p] = id]
        /\ h' = [h EXCEPT !.closed[e] = @ + 1] /\ net' = q /\ UNCHANGED <<ep, sels>>
    BY <1>4 DEF Deregister
  <2>4. ep[e].st \in {"header", "payload"}
    BY <1>4 DEF Announced
  <2> HIDE DEF e, f, g
  <2>5. k \o <<f, g>> = Append(Append(k, f), g)
    BY <1>1, <2>1, <2>2
  <2>6. FrameOK(p, f, sels[p], ep) /\ Fits(k, f)
    <3>1. Holds(f, sels[p])
      BY <1>1, <2>1 DEF Holds, e
    <3> QED BY <1>2, <2>1, <2>4, <3>1 DEF FrameOK, Fits, Quiet, SlotOK
  <2> DEFINE b == Append(k, f)
  <2>7. b \in Seq(Frames) /\ StackOK(p, b, sels[p], ep)
    BY <1>1, <1>2, <2>1, <2>6, PushFacts, StackPush
  <2>8. \A i \in DOMAIN b : b[i].k \notin {"hello", "login"}
    <3>1. /\ DOMAIN k = 1 .. Len(k) /\ DOMAIN b = 1 .. Len(k) + 1 /\ Len(k) \in Nat
          /\ \A i \in 1 .. Len(k) : b[i] = k[i]
          /\ b[Len(k) + 1] = f
      BY <1>1, <2>1, PushFacts
    <3> HIDE DEF b
    <3>2. \A i \in DOMAIN b : i \in DOMAIN k \/ i = Len(k) + 1
      BY <3>1
    <3> QED BY <1>2, <2>1, <3>1, <3>2 DEF Quiet
  <2> HIDE DEF b
  <2>9. FrameOK(p, g, sels[p], ep) /\ Fits(b, g)
    BY <2>2, <2>8 DEF FrameOK, Fits, SlotOK
  <2>10. Append(b, g) \in Seq(Frames) /\ StackOK(p, Append(b, g), sels[p], ep)
    BY <2>2, <2>7, <2>9, PushFacts, StackPush
  <2>11. stack' = [stack EXCEPT ![p] = Append(b, g)]
    BY <2>3, <2>5 DEF b
  <2>12. ctx' \in [Procs -> Ids]
    BY <1>1, <1>3, <2>3
  <2>13. "fault" \in DOMAIN h' /\ ~h'.fault
    BY <1>3, <2>3
  <2>14. Typed
    BY <2>3, <2>12 DEF Typed
  <2> DEFINE a == Append(b, g)
  <2> HIDE DEF a
  <2>15. a \in Seq(Frames) /\ StackOK(p, a, sels[p], ep) /\ stack' = [stack EXCEPT ![p] = a]
    BY <2>10, <2>11 DEF a
  <2> QED BY <2>3, <2>13, <2>14, <2>15, StackStep
<1>5. CASE ~Announced(e)
  <2>1. Free(p, id, sels[p][id], k, q) /\ ctx' = ctx
    BY <1>5 DEF Deregister
  <2> QED BY <1>3, <2>1, FreeStep
<1> QED BY <1>4, <1>5

\* The stack of a process in ray_poll_run_for, in sync_send, or in user code.
LEMMA RxServed ==
    ASSUME IpcInv, NEW p \in Procs, In(p, {"rx", "rxhup"}), sels[p][Top(p).id] # None
    PROVE  Served(p, Top(p).id, stack[p]) /\ Served(p, Top(p).id, Below(p)) /\ Below(p) = <<>>
<1> DEFINE k == stack[p]
<1>1. /\ k # <<>> /\ k \in Seq(Frames) /\ StackOK(p, k, sels[p], ep) /\ Last(k).k \in {"rx", "rxhup"}
  BY Parts DEF In, Top
<1>2. /\ Last(k) = k[Len(k)] /\ Len(k) \in Nat \ {0} /\ DOMAIN k = 1 .. Len(k) /\ Front(k) \in Seq(Frames)
      /\ Len(Front(k)) = Len(k) - 1
  BY <1>1, FrontFacts
<1>3. Len(k) \in DOMAIN k
  BY <1>2
<1>4. Len(k) = 1 /\ Last(k).id \in Slots
  BY <1>1, <1>2, <1>3 DEF StackOK, LoopOK
<1>5. Quiet(k)
  BY <1>1, QuietTop
<1>6. AuthElsewhere(k, Last(k).id)
  <2>1. \A i \in DOMAIN k : k[i] = Last(k)
    BY <1>2, <1>4
  <2> QED BY <1>1, <2>1 DEF AuthElsewhere
<1>7. Front(k) = <<>>
  BY <1>2, <1>4, EmptySeq
<1>8. StackOK(p, <<>>, sels[p], ep) /\ Quiet(<<>>) /\ AuthElsewhere(<<>>, Last(k).id) /\ <<>> \in Seq(Frames)
  BY DEF StackOK, Quiet, AuthElsewhere
<1> QED BY <1>1, <1>4, <1>5, <1>6, <1>7, <1>8 DEF Served, Top, Below

LEMMA SyncServed ==
    ASSUME IpcInv, NEW p \in Procs, In(p, {"sync"}), sels[p][Top(p).id] # None
    PROVE  Served(p, Top(p).id, stack[p]) /\ Served(p, Top(p).id, Append(Below(p), [Top(p) EXCEPT !.k = "closed"]))
<1> DEFINE k == stack[p]  f == [Last(k) EXCEPT !.k = "closed"]
<1>1. /\ k # <<>> /\ k \in Seq(Frames) /\ StackOK(p, k, sels[p], ep) /\ Last(k).k = "sync"
  BY Parts DEF In, Top
<1>2. /\ Last(k) = k[Len(k)] /\ Len(k) \in Nat \ {0} /\ DOMAIN k = 1 .. Len(k) /\ Front(k) \in Seq(Frames)
      /\ DOMAIN Front(k) = 1 .. Len(k) - 1 /\ Last(k) \in Frames
      /\ \A i \in 1 .. Len(k) - 1 : Front(k)[i] = k[i]
  BY <1>1, FrontFacts
<1>3. Last(k).id \in Slots
  BY <1>1, <1>2 DEF StackOK, SlotOK
<1>4. Quiet(k) /\ Quiet(Front(k)) /\ AuthElsewhere(Front(k), Last(k).id)
  BY <1>1, QuietTop, QuietFront, TopElsewhere
<1>5. AuthElsewhere(k, Last(k).id)
  <2>1. \A i \in DOMAIN k : i \in DOMAIN Front(k) \/ k[i] = Last(k)
    BY <1>2
  <2> QED BY <1>1, <1>2, <1>4, <2>1 DEF AuthElsewhere
<1>6. f \in Frames /\ f.k = "closed"
  BY <1>2, KindFacts DEF Frames
<1>7. StackOK(p, Front(k), sels[p], ep)
  BY <1>1, StackFront
<1> HIDE DEF f, k
<1> DEFINE b == Front(k)
<1>8. FrameOK(p, f, sels[p], ep) /\ Fits(b, f)
  BY <1>4, <1>6 DEF FrameOK, Fits, Quiet, SlotOK
<1> HIDE DEF b
<1>9. Append(b, f) \in Seq(Frames) /\ StackOK(p, Append(b, f), sels[p], ep)
  BY <1>2, <1>6, <1>7, <1>8, PushFacts, StackPush DEF b
<1>10. Quiet(Append(b, f)) /\ AuthElsewhere(Append(b, f), Last(k).id)
  <2>1. /\ DOMAIN b = 1 .. Len(b) /\ DOMAIN Append(b, f) = 1 .. Len(b) + 1 /\ Len(b) \in Nat
        /\ \A i \in 1 .. Len(b) : Append(b, f)[i] = b[i]
        /\ Append(b, f)[Len(b) + 1] = f
    BY <1>2, <1>6, PushFacts, Zenon DEF b
  <2>2. \A i \in DOMAIN Append(b, f) : (i \in DOMAIN b /\ Append(b, f)[i] = b[i]) \/ Append(b, f)[i] = f
    BY <2>1
  <2> QED BY <1>4, <1>6, <2>2, SMTT(30) DEF Quiet, AuthElsewhere, b
<1> QED BY <1>1, <1>3, <1>4, <1>5, <1>9, <1>10 DEF Served, Top, Below, b, f, k

-----------------------------------------------------------------------------
(* Reading.                                                                *)

\* Data with another state.
LEMMA StateSet ==
    ASSUME NEW c \in Conns, NEW s \in States
    PROVE  [c EXCEPT !.st = s] \in Conns /\ [c EXCEPT !.st = s].st = s
BY DEF Conns

LEMMA LiveStates == Live \subseteq States /\ {"handshake", "creds", "header", "payload"} = Live
BY DEF Live, States

\* Only the stack and messages change: the hook or the message's body is called.
LEMMA Called ==
    ASSUME NEW p \in Procs, NEW id, NEW k, Served(p, id, k), NEW f \in Frames,
           f.k \in {"open", "eval", "evala"}, f.id = id, NEW c
    PROVE  /\ Append(k, f) \in Seq(Frames)
           /\ StackOK(p, k, sels[p], c) => StackOK(p, Append(k, f), sels[p], c)
<1>1. k \in Seq(Frames) /\ Quiet(k) /\ id \in Slots
  BY DEF Served
<1>2. FrameOK(p, f, sels[p], c) /\ Fits(k, f)
  BY <1>1 DEF FrameOK, SlotOK, Fits, Quiet
<1> QED BY <1>1, <1>2, PushFacts, StackPush

LEMMA ReadHandshakeStep ==
    ASSUME IpcInv, NEW p \in Procs, NEW id, NEW k, Served(p, id, k), net[sels[p][id]] # <<>>,
           ReadHandshake(p, id, k, sels[p][id]), UNCHANGED <<events, n>>
    PROVE  IpcInv'
<1> DEFINE e == sels[p][id]
<1>1. e \in Ends /\ ep[e] \in Conns /\ id \in Ids /\ k \in Seq(Frames)
  BY ServedFacts
<1>2. /\ events \in [Procs -> Seq(Events)] /\ active \in [Procs -> Ends \cup {None}]
      /\ ctx \in [Procs -> Ids] /\ n \in Counts /\ net \in Sockets
  BY TypesKept
<1>3. Consumed(e) \in Sockets
  BY <1>1, <1>2, ConsumedType
<1>4. active' = active /\ ctx[p] \in Ids /\ "fault" \in DOMAIN h /\ ~h.fault
  BY Parts DEF ReadHandshake
<1> DEFINE hello(s) == Write(Consumed(e), e, <<Unit("hello", s, 0)>>)
<1>5. hello("auth") \in Sockets /\ hello("ok") \in Sockets
  <2>1. <<Unit("hello", "auth", 0)>> \in Seq(Units) /\ <<Unit("hello", "ok", 0)>> \in Seq(Units)
    BY UnitSeqs DEF UnitNames, UnitTypes
  <2> QED BY <1>1, <1>3, <2>1, WriteType
<1> HIDE DEF hello
<1>6. CASE Deregister(p, id, k, Consumed(e))
  BY <1>2, <1>3, <1>4, <1>6, DeregisterStep
<1>7. CASE /\ net' = hello("auth") /\ ep' = [ep EXCEPT ![e].st = "creds"]
           /\ stack' = [stack EXCEPT ![p] = k] /\ UNCHANGED <<sels, oob, ctx, h>>
  <2> DEFINE c == [ep[e] EXCEPT !.st = "creds"]
  <2>1. c \in Conns /\ c.st \in Live
    BY <1>1, StateSet, LiveStates
  <2>2. ep' = [ep EXCEPT ![e] = c]
    BY <1>7
  <2>3. Typed
    BY <1>2, <1>4, <1>5, <1>7 DEF Typed
  <2> HIDE DEF c
  <2> QED BY <1>1, <1>4, <1>7, <2>1, <2>2, <2>3, ConnStep
<1>8. CASE /\ net' = hello("ok") /\ ep' = [ep EXCEPT ![e].st = "header"]
           /\ Call(p, k, Frame("open", id, e, 0, ctx[p]))
           /\ h' = [h EXCEPT !.opened[e] = @ + 1] /\ UNCHANGED <<sels, oob>>
  <2> DEFINE c == [ep[e] EXCEPT !.st = "header"]  f == Frame("open", id, e, 0, ctx[p])
  <2>1. c \in Conns /\ c.st \in Live
    BY <1>1, StateSet, LiveStates
  <2>2. ep' = [ep EXCEPT ![e] = c]
    BY <1>8
  <2>3. "open" \in FrameKinds /\ 0 \in Nat /\ e \in Ends \cup {None}
    BY <1>1, KindFacts
  <2>4. f \in Frames /\ f.k = "open" /\ f.id = id
    BY <1>1, <1>4, <2>3 DEF Frame, Frames
  <2>5. stack' = [stack EXCEPT ![p] = Append(k, f)] /\ ctx' = [ctx EXCEPT ![p] = id]
    BY <1>8, <2>4 DEF Call
  <2> HIDE DEF f, c
  <2>6. Append(k, f) \in Seq(Frames) /\ (StackOK(p, k, sels[p], ep') => StackOK(p, Append(k, f), sels[p], ep'))
    BY <2>4, Called
  <2>7. Typed
    BY <1>1, <1>2, <1>4, <1>5, <1>8, <2>5 DEF Typed
  <2>8. "fault" \in DOMAIN h' /\ ~h'.fault
    BY <1>4, <1>8
  <2> DEFINE a == Append(k, f)
  <2>9. /\ a \in Seq(Frames) /\ stack' = [stack EXCEPT ![p] = a]
        /\ StackOK(p, k, sels[p], ep') => StackOK(p, a, sels[p], ep')
    BY <2>5, <2>6
  <2> HIDE DEF a
  <2> QED BY <1>8, <2>1, <2>2, <2>7, <2>8, <2>9, ConnStep
<1> QED BY <1>6, <1>7, <1>8 DEF ReadHandshake, hello

LEMMA ReadCredsStep ==
    ASSUME IpcInv, NEW p \in Procs, NEW id, NEW k, Served(p, id, k), net[sels[p][id]] # <<>>,
           ReadCreds(p, id, k, sels[p][id]), UNCHANGED <<events, n>>
    PROVE  IpcInv'
<1> DEFINE e == sels[p][id]
<1>1. e \in Ends /\ e # None /\ ep[e] \in Conns /\ id \in Ids /\ id \in Slots /\ k \in Seq(Frames)
  BY ServedFacts, EndFacts
<1>2. /\ events \in [Procs -> Seq(Events)] /\ active \in [Procs -> Ends \cup {None}]
      /\ ctx \in [Procs -> Ids] /\ n \in Counts /\ net \in Sockets
  BY TypesKept
<1>3. Consumed(e) \in Sockets
  BY <1>1, <1>2, ConsumedType
<1>4. active' = active /\ ctx[p] \in Ids /\ "fault" \in DOMAIN h /\ ~h.fault /\ ep[e].st = "creds"
  BY Parts DEF ReadCreds
<1>5. CASE Head(net[e]).t = "good"
  <2> DEFINE f == Frame("auth", id, e, 0, ctx[p])  a == Append(k, f)
  <2>1. "auth" \in FrameKinds /\ 0 \in Nat /\ e \in Ends \cup {None}
    BY <1>1, KindFacts
  <2>2. f \in Frames /\ f.k = "auth" /\ f.id = id /\ f.e = e
    BY <1>1, <1>4, <2>1 DEF Frame, Frames
  <2>3. /\ stack' = [stack EXCEPT ![p] = a] /\ ctx' = [ctx EXCEPT ![p] = id]
        /\ net' = Consumed(e) /\ UNCHANGED <<ep, sels, h>>
    BY <1>5, <2>2 DEF ReadCreds, Call
  <2> HIDE DEF f
  <2>4. Quiet(k) /\ AuthElsewhere(k, id) /\ StackOK(p, k, sels[p], ep)
    BY DEF Served
  <2>5. FrameOK(p, f, sels[p], ep)
    BY <1>1, <1>4, <2>2 DEF FrameOK, Holds, SlotOK
  <2>6. Fits(k, f)
    BY <2>2, <2>4 DEF Fits, Quiet
  <2>7. a \in Seq(Frames) /\ StackOK(p, a, sels[p], ep)
    BY <1>1, <2>2, <2>4, <2>5, <2>6, PushFacts, StackPush
  <2>8. Typed
    BY <1>1, <1>2, <1>3, <1>4, <2>3 DEF Typed
  <2> HIDE DEF a
  <2> QED BY <1>4, <2>3, <2>7, <2>8, StackStep
<1>6. CASE Head(net[e]).t # "good"
  <2> DEFINE q == Write(Consumed(e), e, <<Unit("auth", "no", 0)>>)
  <2>1. Deregister(p, id, k, q)
    BY <1>6 DEF ReadCreds
  <2>2. <<Unit("auth", "no", 0)>> \in Seq(Units)
    BY UnitSeqs DEF UnitNames, UnitTypes
  <2>3. q \in Sockets
    BY <1>1, <1>3, <2>2, WriteType
  <2> HIDE DEF q
  <2> QED BY <1>2, <1>4, <2>1, <2>3, DeregisterStep
<1> QED BY <1>5, <1>6

LEMMA BufTypes == (\A b \in Bufs : b \in BOOLEAN) /\ (\A b \in Lost : b \in BOOLEAN)
BY DEF Bufs, Lost

LEMMA RearmedFacts ==
    ASSUME NEW e, ep[e] \in Conns, NEW b \in BOOLEAN
    PROVE  Rearmed(e, b) \in Conns /\ Rearmed(e, b).st \in Live
BY DEF Rearmed, Conns, States, Live

LEMMA HdrTypes ==
    ASSUME NEW e, ep[e] \in Conns
    PROVE  ep[e].hdr.m \in Nat /\ ep[e].hdr \in Units
<1>1. ep[e].hdr \in Units
  BY DEF Conns
<1> QED BY <1>1 DEF Units

LEMMA ReadHeaderStep ==
    ASSUME IpcInv, NEW p \in Procs, NEW id, NEW k, Served(p, id, k), net[sels[p][id]] # <<>>,
           ReadHeader(p, id, k, sels[p][id]), UNCHANGED <<events, n>>
    PROVE  IpcInv'
<1> DEFINE e == sels[p][id]  u == Head(net[e])
<1>1. e \in Ends /\ ep[e] \in Conns /\ k \in Seq(Frames)
  BY ServedFacts
<1>2. /\ events \in [Procs -> Seq(Events)] /\ active \in [Procs -> Ends \cup {None}]
      /\ ctx \in [Procs -> Ids] /\ n \in Counts /\ net \in Sockets
  BY TypesKept
<1>3. Consumed(e) \in Sockets /\ u \in Units
  BY <1>1, <1>2, ConsumedType
<1>4. active' = active /\ "fault" \in DOMAIN h /\ ~h.fault
  BY Parts DEF ReadHeader
<1>5. CASE u.u = "header" /\ u.t # "big"
  <2>1. PICK b \in Bufs : ep' = [ep EXCEPT ![e].st = "payload", ![e].hdr = u, ![e].buf = b]
    BY <1>5 DEF ReadHeader
  <2>2. net' = Consumed(e) /\ stack' = [stack EXCEPT ![p] = k] /\ UNCHANGED <<sels, ctx, h>>
    BY <1>5 DEF ReadHeader
  <2> HIDE DEF u
  <2> DEFINE c == [ep[e] EXCEPT !.st = "payload", !.hdr = u, !.buf = b]
  <2>3. c \in Conns /\ c.st \in Live
    BY <1>1, <1>3, <2>1, BufTypes DEF Conns, Live, States
  <2>4. ep' = [ep EXCEPT ![e] = c]
    <3>1. ep \in [Ends -> Conns]
      BY Parts
    <3> HIDE DEF e
    <3> QED BY <1>1, <2>1, <3>1
  <2>5. Typed
    BY <1>2, <1>3, <1>4, <2>2 DEF Typed
  <2> HIDE DEF c
  <2> QED BY <1>1, <1>4, <2>2, <2>3, <2>4, <2>5, ConnStep
<1>6. CASE ~(u.u = "header" /\ u.t # "big")
  <2>1. Deregister(p, id, k, Consumed(e))
    BY <1>6 DEF ReadHeader
  <2> QED BY <1>2, <1>3, <1>4, <2>1, DeregisterStep
<1> QED BY <1>5, <1>6

LEMMA ReadResponseStep ==
    ASSUME IpcInv, NEW p \in Procs, NEW id, NEW k, Served(p, id, k), net[sels[p][id]] # <<>>,
           ReadResponse(p, k, sels[p][id]), UNCHANGED <<events, n>>
    PROVE  IpcInv'
<1> DEFINE e == sels[p][id]
<1>1. e \in Ends /\ ep[e] \in Conns /\ k \in Seq(Frames)
  BY ServedFacts
<1>2. /\ events \in [Procs -> Seq(Events)] /\ active \in [Procs -> Ends \cup {None}]
      /\ ctx \in [Procs -> Ids] /\ n \in Counts /\ net \in Sockets
  BY TypesKept
<1>3. Consumed(e) \in Sockets
  BY <1>1, <1>2, ConsumedType
<1>4. /\ active' = active /\ "fault" \in DOMAIN h /\ ~h.fault /\ net' = Consumed(e)
      /\ stack' = [stack EXCEPT ![p] = k] /\ UNCHANGED <<sels, ctx, h>>
  BY Parts DEF ReadResponse
<1>5. PICK b \in Bufs : ep' = [ep EXCEPT ![e] =
             IF ep[e].waiting /\ ~ep[e].ready
             THEN [Rearmed(e, b) EXCEPT !.ready = TRUE, !.resp = ep[e].hdr.m]
             ELSE Rearmed(e, b)]
  BY DEF ReadResponse
<1> DEFINE r == Rearmed(e, b)  a == [r EXCEPT !.ready = TRUE, !.resp = ep[e].hdr.m]
           c == IF ep[e].waiting /\ ~ep[e].ready THEN a ELSE r
<1>6. b \in BOOLEAN
  BY BufTypes
<1>7. r \in Conns /\ r.st \in Live
  BY <1>1, <1>6, RearmedFacts
<1>8. ep[e].hdr.m \in Nat
  BY <1>1, HdrTypes
<1>9. ep' = [ep EXCEPT ![e] = c]
  BY <1>5
<1> HIDE DEF r
<1>10. a \in Conns /\ a.st \in Live
  BY <1>7, <1>8 DEF Conns
<1> HIDE DEF a
<1>11. c \in Conns /\ c.st \in Live
  BY <1>7, <1>10
<1>12. Typed
  BY <1>2, <1>3, <1>4 DEF Typed
<1> HIDE DEF c
<1> QED BY <1>1, <1>4, <1>9, <1>11, <1>12, ConnStep

LEMMA ReadCancelledStep ==
    ASSUME IpcInv, NEW p \in Procs, NEW id, NEW k, Served(p, id, k), net[sels[p][id]] # <<>>,
           ReadCancelled(p, id, k, sels[p][id]), UNCHANGED <<events, n>>
    PROVE  IpcInv'
<1> DEFINE e == sels[p][id]  m == ep[e].hdr.m
<1>1. e \in Ends /\ ep[e] \in Conns /\ k \in Seq(Frames) /\ m \in Nat
  BY ServedFacts, HdrTypes
<1>2. /\ events \in [Procs -> Seq(Events)] /\ active \in [Procs -> Ends \cup {None}]
      /\ ctx \in [Procs -> Ids] /\ n \in Counts /\ net \in Sockets
  BY TypesKept
<1>3. Consumed(e) \in Sockets /\ Write(Consumed(e), e, Message("resp", m)) \in Sockets
  <2>1. Consumed(e) \in Sockets /\ "resp" \in UnitTypes
    BY <1>1, <1>2, ConsumedType DEF UnitTypes
  <2>2. Message("resp", m) \in Seq(Units)
    BY <1>1, <2>1, UnitSeqs
  <2> QED BY <1>1, <2>1, <2>2, WriteType
<1>4. /\ active' = active /\ "fault" \in DOMAIN h /\ ~h.fault
      /\ stack' = [stack EXCEPT ![p] = k] /\ UNCHANGED <<sels, ctx>>
  BY Parts DEF ReadCancelled
<1>5. net' \in Sockets
  BY <1>3, SMTT(30) DEF ReadCancelled
<1>6. "fault" \in DOMAIN h' /\ ~h'.fault
  BY <1>4, SMTT(30) DEF ReadCancelled
<1>7. PICK b \in Bufs : ep' = [ep EXCEPT ![e] = Rearmed(e, b)]
  BY DEF ReadCancelled
<1> DEFINE c == Rearmed(e, b)
<1>8. c \in Conns /\ c.st \in Live /\ ep' = [ep EXCEPT ![e] = c]
  BY <1>1, <1>7, RearmedFacts, BufTypes
<1>9. Typed
  BY <1>2, <1>4, <1>5 DEF Typed
<1> HIDE DEF c
<1> QED BY <1>1, <1>4, <1>6, <1>8, <1>9, ConnStep

LEMMA ReadRequestStep ==
    ASSUME IpcInv, NEW p \in Procs, NEW id, NEW k, Served(p, id, k), net[sels[p][id]] # <<>>,
           ReadRequest(p, id, k, sels[p][id]), UNCHANGED <<events, n>>
    PROVE  IpcInv'
<1> DEFINE e == sels[p][id]  m == ep[e].hdr.m  kind == IF ep[e].hdr.t = "sync" THEN "eval" ELSE "evala"
           f == Frame(kind, id, e, m, ctx[p])  a == Append(k, f)
<1>1. e \in Ends /\ ep[e] \in Conns /\ id \in Ids /\ k \in Seq(Frames) /\ m \in Nat
  BY ServedFacts, HdrTypes
<1>2. /\ events \in [Procs -> Seq(Events)] /\ active \in [Procs -> Ends \cup {None}]
      /\ ctx \in [Procs -> Ids] /\ n \in Counts /\ net \in Sockets
  BY TypesKept
<1>3. Consumed(e) \in Sockets
  BY <1>1, <1>2, ConsumedType
<1>4. ctx[p] \in Ids /\ "fault" \in DOMAIN h /\ ~h.fault
  BY Parts
<1>5. kind \in {"eval", "evala"} /\ kind \in FrameKinds /\ e \in Ends \cup {None}
  BY <1>1, KindFacts
<1> HIDE DEF kind, m
<1>6. f \in Frames /\ f.k = kind /\ f.id = id
  BY <1>1, <1>4, <1>5, SMTT(30) DEF Frame, Frames
<1>7. /\ stack' = [stack EXCEPT ![p] = a] /\ ctx' = [ctx EXCEPT ![p] = id]
  BY <1>6 DEF ReadRequest, Call, kind, m
<1>8. net' = Consumed(e) /\ active' = [active EXCEPT ![p] = e] /\ UNCHANGED sels
  BY DEF ReadRequest
<1>9. "fault" \in DOMAIN h' /\ ~h'.fault
  BY <1>4, SMTT(30) DEF ReadRequest
<1>10. PICK b \in Bufs : ep' = [ep EXCEPT ![e] = Rearmed(e, b)]
  BY DEF ReadRequest
<1> DEFINE c == Rearmed(e, b)
<1>11. c \in Conns /\ c.st \in Live /\ ep' = [ep EXCEPT ![e] = c]
  BY <1>1, <1>10, RearmedFacts, BufTypes
<1>12. active' \in [Procs -> Ends \cup {None}] /\ ctx' \in [Procs -> Ids]
  BY <1>1, <1>2, <1>7, <1>8
<1>13. Typed
  BY <1>2, <1>3, <1>8, <1>12 DEF Typed
<1> HIDE DEF f, c
<1>14. a \in Seq(Frames) /\ (StackOK(p, k, sels[p], ep') => StackOK(p, a, sels[p], ep'))
  BY <1>5, <1>6, Called
<1> HIDE DEF a
<1> QED BY <1>7, <1>8, <1>9, <1>11, <1>13, <1>14, ConnStep

LEMMA ReadStep ==
    ASSUME IpcInv, NEW p \in Procs, NEW id, NEW k, Served(p, id, k), HasUnit(sels[p][id]),
           ReadFn(p, id, k), UNCHANGED <<events, n>>
    PROVE  IpcInv'
<1>1. net[sels[p][id]] # <<>>
  BY DEF HasUnit
<1> QED BY <1>1, ReadHandshakeStep, ReadCredsStep, ReadHeaderStep, ReadResponseStep, ReadCancelledStep,
           ReadRequestStep DEF ReadFn

LEMMA ReadsStep ==
    ASSUME IpcInv, NEW p \in Procs, Read(p)
    PROVE  IpcInv'
<1>1. CASE RxRead(p)
  <2>1. /\ In(p, {"rx", "rxhup"}) /\ sels[p][Top(p).id] # None /\ HasUnit(sels[p][Top(p).id])
        /\ ReadFn(p, Top(p).id, stack[p]) /\ UNCHANGED <<events, n>>
    BY <1>1 DEF RxRead
  <2>2. Served(p, Top(p).id, stack[p])
    BY <2>1, RxServed
  <2> QED BY <2>1, <2>2, ReadStep
<1>2. CASE SyncPump(p)
  <2>1. /\ In(p, {"sync"}) /\ sels[p][Top(p).id] # None /\ HasUnit(sels[p][Top(p).id])
        /\ ReadFn(p, Top(p).id, stack[p]) /\ UNCHANGED <<events, n>>
    BY <1>2 DEF SyncPump, Syncing
  <2>2. Served(p, Top(p).id, stack[p])
    BY <2>1, SyncServed
  <2> QED BY <2>1, <2>2, ReadStep
<1> QED BY <1>1, <1>2 DEF Read

-----------------------------------------------------------------------------
(* The loop.                                                               *)

\* What is known of the frame on top.
LEMMA TopFacts ==
    ASSUME IpcInv, NEW p \in Procs, stack[p] # <<>>
    PROVE  /\ Top(p) \in Frames /\ Top(p).id \in Ids /\ Top(p).prev \in Ids /\ Top(p).m \in Nat
           /\ Top(p).e \in Ends \cup {None} /\ Below(p) \in Seq(Frames) /\ StackOK(p, Below(p), sels[p], ep)
           /\ \A i \in DOMAIN Below(p) : Below(p)[i].k \notin {"hello", "login"}
           /\ Top(p) = stack[p][Len(stack[p])] /\ Len(stack[p]) \in DOMAIN stack[p]
<1>1. stack[p] \in Seq(Frames) /\ StackOK(p, stack[p], sels[p], ep)
  BY Parts
<1>2. /\ Front(stack[p]) \in Seq(Frames) /\ Last(stack[p]) \in Frames
      /\ Last(stack[p]) = stack[p][Len(stack[p])] /\ Len(stack[p]) \in DOMAIN stack[p]
  BY <1>1, FrontFacts
<1>3. StackOK(p, Front(stack[p]), sels[p], ep) /\ \A i \in DOMAIN Front(stack[p]) : Front(stack[p])[i].k \notin {"hello", "login"}
  BY <1>1, StackFront
<1>4. Top(p) \in Frames
  BY <1>2 DEF Top
<1>5. Top(p).id \in Ids /\ Top(p).prev \in Ids /\ Top(p).m \in Nat /\ Top(p).e \in Ends \cup {None}
  BY <1>4 DEF Frames
<1> QED BY <1>2, <1>3, <1>4, <1>5 DEF Top, Below

LEMMA PopStep ==
    ASSUME IpcInv, NEW p \in Procs, stack[p] # <<>>, UNCHANGED <<ep, sels>>,
           stack' = [stack EXCEPT ![p] = Below(p)], Typed, "fault" \in DOMAIN h', ~h'.fault
    PROVE  IpcInv'
BY TopFacts, StackStep

\* Nothing but messages and flags.
LEMMA QuietStep ==
    ASSUME IpcInv, NEW p \in Procs, UNCHANGED <<ep, sels, stack>>, Typed, "fault" \in DOMAIN h', ~h'.fault
    PROVE  IpcInv'
BY Parts, StackStep

LEMMA EpollWaitStep ==
    ASSUME IpcInv, NEW p \in Procs, EpollWait(p)
    PROVE  IpcInv'
<1> DEFINE ready == Readable(p) \cup IF Backlog(p) = {} THEN {} ELSE {0}
<1>1. PICK order \in SetToSeqs(ready), hup \in SUBSET {s \in Readable(p) : ~Alive(Peer(sels[p][s]))} :
         events' = [events EXCEPT ![p] = [i \in DOMAIN order |->
                [id |-> order[i], hup |-> order[i] \in hup,
                 e |-> IF order[i] = 0 THEN None ELSE sels[p][order[i]]]]]
  BY DEF EpollWait
<1>2. UNCHANGED <<ep, sels, net, stack, active, ctx, n, h>>
  BY DEF EpollWait
<1>3. /\ events \in [Procs -> Seq(Events)] /\ active \in [Procs -> Ends \cup {None}]
      /\ ctx \in [Procs -> Ids] /\ n \in Counts /\ net \in Sockets
      /\ "fault" \in DOMAIN h /\ ~h.fault /\ sels[p] \in Tables
  BY TypesKept, Parts
<1>4. ready \subseteq Ids /\ \A s \in ready : s = 0 \/ s \in Slots
  BY KindFacts DEF Readable
<1>5. Cardinality(ready) \in Nat
  <2>1. IsFiniteSet(Ids)
    <3>1. 0 \in Int /\ NSlots \in Int
      BY IpcAssumption
    <3> QED BY <3>1, FS_Interval DEF Ids
  <2> QED BY <1>4, <2>1, FS_Subset, FS_CardinalityType
<1>6. order \in [1 .. Cardinality(ready) -> ready]
  BY DEF SetToSeqs
<1> HIDE DEF ready
<1> DEFINE v == [i \in DOMAIN order |-> [id |-> order[i], hup |-> order[i] \in hup,
                                         e |-> IF order[i] = 0 THEN None ELSE sels[p][order[i]]]]
           m == Cardinality(ready)
<1>7. DOMAIN order = 1 .. m
  BY <1>6
<1>8. ASSUME NEW i \in 1 .. m PROVE v[i] \in Events
  <2>1. order[i] \in ready
    BY <1>6, <1>8
  <2>2. order[i] \in Ids /\ (order[i] = 0 \/ order[i] \in Slots)
    BY <1>4, <2>1
  <2>3. (IF order[i] = 0 THEN None ELSE sels[p][order[i]]) \in Ends \cup {None}
    BY <1>3, <2>2 DEF Tables
  <2> QED BY <1>7, <2>2, <2>3 DEF Events
<1>9. v \in Seq(Events)
  <2>1. v \in [1 .. m -> Events]
    BY <1>7, <1>8
  <2> HIDE DEF v
  <2> QED BY <1>5, <2>1
<1> HIDE DEF v
<1>10. events' \in [Procs -> Seq(Events)]
  BY <1>1, <1>3, <1>9 DEF v
<1>11. Typed
  BY <1>2, <1>3, <1>10 DEF Typed
<1> QED BY <1>2, <1>3, <1>11, QuietStep

LEMMA EventsTail ==
    ASSUME IpcInv, NEW p \in Procs, events[p] # <<>>
    PROVE  [events EXCEPT ![p] = Tail(@)] \in [Procs -> Seq(Events)] /\ Head(events[p]) \in Events
<1>1. events \in [Procs -> Seq(Events)]
  BY TypesKept
<1>2. events[p] \in Seq(Events)
  BY <1>1
<1>3. Tail(events[p]) \in Seq(Events) /\ Head(events[p]) \in Events
  BY <1>2
<1> QED BY <1>1, <1>3

LEMMA TakeEventStep ==
    ASSUME IpcInv, NEW p \in Procs, TakeEvent(p)
    PROVE  IpcInv'
<1> DEFINE v == Head(events[p])  kind == IF v.hup THEN "rxhup" ELSE "rx"  f == Frame(kind, v.id, v.e, 0, 0)
<1>1. UNCHANGED <<ep, sels, net, active, ctx, n, h>>
  BY DEF TakeEvent
<1>2. /\ active \in [Procs -> Ends \cup {None}]
      /\ ctx \in [Procs -> Ids] /\ n \in Counts /\ net \in Sockets /\ "fault" \in DOMAIN h /\ ~h.fault
  BY TypesKept, Parts
<1>3. events' \in [Procs -> Seq(Events)] /\ v \in Events /\ v.id # 0
  BY EventsTail DEF TakeEvent
<1>4. Typed
  BY <1>1, <1>2, <1>3 DEF Typed
<1>5. CASE sels[p][v.id] = None
  <2>1. stack' = stack
    BY <1>5 DEF TakeEvent
  <2> QED BY <1>1, <1>2, <1>4, <2>1, QuietStep
<1>6. CASE sels[p][v.id] # None
  <2>1. stack' = [stack EXCEPT ![p] = <<f>>]
    BY <1>6 DEF TakeEvent
  <2>2. v.id \in Ids /\ v.e \in Ends \cup {None}
    BY <1>3 DEF Events
  <2>3. v.id \in Slots
    BY <1>3, <2>2, IpcAssumption DEF Ids, Slots
  <2>4. kind \in {"rx", "rxhup"} /\ kind \in FrameKinds /\ 0 \in Ids /\ 0 \in Nat
    BY KindFacts
  <2> HIDE DEF v, kind
  <2>5. f \in Frames /\ f.k = kind /\ f.id = v.id
    BY <2>2, <2>4 DEF Frame, Frames
  <2> HIDE DEF f
  <2>6. <<f>> \in Seq(Frames) /\ DOMAIN <<f>> = {1} /\ <<f>>[1] = f
    BY <2>5
  <2> DEFINE k == <<f>>
  <2>7. k \in Seq(Frames) /\ DOMAIN k = {1} /\ k[1] = f /\ stack' = [stack EXCEPT ![p] = k]
    BY <2>1, <2>6
  <2> HIDE DEF k
  <2>8. StackOK(p, k, sels[p], ep)
    <3> SUFFICES ASSUME NEW i \in DOMAIN k
                 PROVE  /\ LoopOK(k, i) /\ ConnectOK(p, k, i, ep) /\ DeregOK(k, i, sels[p], ep)
                        /\ AuthOK(k, i, sels[p], ep) /\ SlotOK(k[i])
      BY DEF StackOK
    <3>1. i = 1 /\ k[i].k \in {"rx", "rxhup"} /\ k[i].id \in Slots
      BY <2>3, <2>4, <2>5, <2>7
    <3> QED BY <3>1 DEF LoopOK, ConnectOK, DeregOK, AuthOK, SlotOK
  <2> QED BY <1>1, <1>2, <1>4, <2>7, <2>8, StackStep
<1> QED BY <1>5, <1>6

LEMMA RxGoneStep ==
    ASSUME IpcInv, NEW p \in Procs, RxGone(p)
    PROVE  IpcInv'
<1>1. /\ stack[p] # <<>> /\ stack' = [stack EXCEPT ![p] = Below(p)]
      /\ UNCHANGED <<ep, sels, net, events, active, ctx, n, h>>
  BY DEF RxGone, In
<1>2. Typed /\ "fault" \in DOMAIN h' /\ ~h'.fault
  BY <1>1, TypesKept, Parts DEF Typed
<1> QED BY <1>1, <1>2, PopStep

LEMMA RxEndStep ==
    ASSUME IpcInv, NEW p \in Procs, RxDry(p) \/ RxEof(p)
    PROVE  IpcInv'
<1>1. /\ In(p, {"rx", "rxhup"}) /\ stack[p] # <<>> /\ sels[p][Top(p).id] # None
      /\ UNCHANGED <<events, active, n>>
  BY DEF RxDry, RxEof, In
<1>2. Served(p, Top(p).id, Below(p)) /\ net \in Sockets
  BY <1>1, RxServed, Parts
<1>3. events' \in [Procs -> Seq(Events)] /\ active' \in [Procs -> Ends \cup {None}] /\ n' \in Counts
  BY <1>1, TypesKept
<1>4. CASE Deregister(p, Top(p).id, Below(p), net)
  BY <1>2, <1>3, <1>4, DeregisterStep
<1>5. CASE stack' = [stack EXCEPT ![p] = Below(p)] /\ UNCHANGED <<ep, sels, net, oob, ctx, h>>
  <2>1. Typed /\ "fault" \in DOMAIN h' /\ ~h'.fault
    BY <1>3, <1>5, TypesKept, Parts DEF Typed
  <2> QED BY <1>1, <1>5, <2>1, PopStep
<1> QED BY <1>4, <1>5 DEF RxDry, RxEof

LEMMA DeregServed ==
    ASSUME IpcInv, NEW p \in Procs, In(p, {"dereg"})
    PROVE  Served(p, Top(p).id, Below(p)) /\ Top(p).e = sels[p][Top(p).id]
<1> DEFINE f == Top(p)
<1>1. stack[p] # <<>> /\ f.k = "dereg"
  BY DEF In
<1>2. /\ stack[p] \in Seq(Frames) /\ StackOK(p, stack[p], sels[p], ep)
      /\ f = stack[p][Len(stack[p])] /\ Len(stack[p]) \in DOMAIN stack[p] /\ Last(stack[p]) = f
      /\ Below(p) \in Seq(Frames) /\ StackOK(p, Below(p), sels[p], ep)
  BY <1>1, Parts, TopFacts DEF Top
<1>3. Holds(f, sels[p]) /\ ep[f.e].st \in {"header", "payload"}
  BY <1>1, <1>2 DEF StackOK, DeregOK
<1>4. Quiet(Below(p))
  BY <1>1, <1>2, QuietFront DEF Below
<1>5. AuthElsewhere(Below(p), f.id)
  BY <1>2, <1>3 DEF StackOK, AuthOK, Holds, AuthElsewhere
<1> QED BY <1>2, <1>3, <1>4, <1>5 DEF Served, Holds

LEMMA DeregisterEndStep ==
    ASSUME IpcInv, NEW p \in Procs, DeregisterEnd(p)
    PROVE  IpcInv'
<1> DEFINE f == Top(p)
<1>1. /\ In(p, {"dereg"}) /\ Free(p, f.id, f.e, Below(p), net) /\ UNCHANGED <<events, active, ctx, n>>
  BY DEF DeregisterEnd
<1>2. Served(p, f.id, Below(p)) /\ f.e = sels[p][f.id]
  BY <1>1, DeregServed
<1>3. /\ events' \in [Procs -> Seq(Events)] /\ active' \in [Procs -> Ends \cup {None}]
      /\ ctx' \in [Procs -> Ids] /\ n' \in Counts /\ net \in Sockets
  BY <1>1, TypesKept
<1> QED BY <1>1, <1>2, <1>3, FreeStep

-----------------------------------------------------------------------------
(* Connections begin.                                                      *)

LEMMA NatMin ==
    ASSUME NEW T, T \subseteq Nat, T # {}
    PROVE  \E x \in T : \A y \in T : x <= y
<1>1. PICK x \in T : \A y \in T : ~ (<<y, x>> \in OpToRel(<, Nat))
  BY NatLessThanWellFounded, WFMin
<1>2. ASSUME NEW y \in T PROVE x <= y
  <2>1. x \in Nat /\ y \in Nat
    OBVIOUS
  <2>2. ~(y < x)
    BY <1>1, <2>1 DEF OpToRel
  <2> QED BY <2>1, <2>2
<1> QED BY <1>2

LEMMA FirstFreeFacts ==
    ASSUME NEW p, FreeSlots(p) # {}
    PROVE  FirstFree(p) \in Slots /\ sels[p][FirstFree(p)] = None
<1>1. FreeSlots(p) \subseteq Nat
  BY IpcAssumption DEF FreeSlots, Slots
<1>2. \E s \in FreeSlots(p) : \A r \in FreeSlots(p) : s <= r
  BY <1>1, NatMin
<1>3. FirstFree(p) \in FreeSlots(p)
  BY <1>2 DEF FirstFree
<1> QED BY <1>3 DEF FreeSlots

\* An end of p that is in no slot yet.
Waiting(p, e) == e \in Ends /\ Owner(e) = p /\ ep[e].st \in {"backlog", "connecting"}

LEMMA WaitingFacts ==
    ASSUME IpcInv, NEW p \in Procs, NEW e, Waiting(p, e), NEW k \in Seq(Frames), StackOK(p, k, sels[p], ep),
           \A i \in DOMAIN k : k[i].k \notin {"hello", "login"}, NEW id, id \in Slots => sels[p][id] = None
    PROVE  /\ e \in Ends /\ e # None /\ Owner(e) = p /\ ep[e] \in Conns /\ \A s \in Slots : sels[p][s] # e
           /\ Apart(k, e, id)
<1>1. e \in Ends /\ e # None /\ Owner(e) = p /\ ep[e].st \in {"backlog", "connecting"}
  BY EndFacts DEF Waiting
<1>2. TableOK(p, sels[p], ep) /\ ep \in [Ends -> Conns]
  BY Parts
<1>3. \A s \in Slots : sels[p][s] # e
  BY <1>1, <1>2 DEF TableOK, Live
<1>4. ASSUME NEW i \in DOMAIN k, k[i].k \in {"dereg", "auth"} PROVE k[i].id # id /\ k[i].e # e
  <2>1. Holds(k[i], sels[p])
    BY <1>4 DEF StackOK, DeregOK, AuthOK
  <2> QED BY <1>3, <2>1 DEF Holds
<1> QED BY <1>1, <1>2, <1>3, <1>4 DEF Apart

\* Links begin at their client, and stay begun.
LEMMA LinksKept ==
    ASSUME LinksOK(ep), NEW e \in Ends, NEW d, \A x \in Ends \ {e} : d[x].st = ep[x].st,
           ep[e].st # "none", d[e].st # "none"
    PROVE  LinksOK(d)
<1> SUFFICES ASSUME NEW l \in Links, d[<<l, "c">>].st = "none" PROVE d[<<l, "s">>].st = "none"
  BY DEF LinksOK
<1>1. <<l, "c">> \in Ends /\ <<l, "s">> \in Ends
  BY DEF Ends
<1>2. <<l, "c">> # e
  OBVIOUS
<1>3. ep[<<l, "s">>].st = "none"
  BY <1>1, <1>2 DEF LinksOK
<1>4. <<l, "s">> # e
  BY <1>3
<1> QED BY <1>1, <1>3, <1>4

\* It gets a slot.
LEMMA RegisterStep ==
    ASSUME IpcInv, NEW p \in Procs, NEW e, Waiting(p, e), NEW st \in {"handshake", "header"},
           FreeSlots(p) # {}, Register(p, e, st),
           NEW k \in Seq(Frames), stack' = [stack EXCEPT ![p] = k], StackOK(p, k, sels[p], ep),
           \A i \in DOMAIN k : k[i].k \notin {"hello", "login"}, Typed, "fault" \in DOMAIN h', ~h'.fault
    PROVE  IpcInv'
<1> DEFINE id == FirstFree(p)  t == [sels[p] EXCEPT ![id] = e]
<1>1. id \in Slots /\ sels[p][id] = None
  BY FirstFreeFacts
<1> HIDE DEF id
<1>2. /\ e \in Ends /\ e # None /\ Owner(e) = p /\ ep[e] \in Conns /\ \A s \in Slots : sels[p][s] # e
      /\ Apart(k, e, id)
  BY <1>1, WaitingFacts
<1>3. ep[e].st # "none"
  BY DEF Waiting
<1>4. /\ sels \in [Procs -> Tables] /\ sels[p] \in Tables /\ TableOK(p, sels[p], ep) /\ ep \in [Ends -> Conns]
      /\ LinksOK(ep)
  BY Parts DEF IpcInv, Values
<1>5. PICK a \in FreeAddrs(p, e) \ {None}, b \in Bufs :
        /\ sels' = [sels EXCEPT ![p][id] = e]
        /\ ep' = [ep EXCEPT ![e].st = st, ![e].addr = a, ![e].buf = b]
  BY DEF Register, id
<1>6. a \in Ends \cup {None} /\ b \in BOOLEAN
  <2>1. \A x \in Ends : ep[x].addr \in Ends \cup {None}
    BY <1>4 DEF Conns
  <2> QED BY <1>2, <2>1, BufTypes DEF FreeAddrs
<1> DEFINE c == [ep[e] EXCEPT !.st = st, !.addr = a, !.buf = b]
<1>7. c \in Conns /\ c.st = st /\ st \in Live /\ c.st # "none"
  BY <1>2, <1>6 DEF Conns, States, Live
<1>8. ep' = [ep EXCEPT ![e] = c]
  BY <1>2, <1>4, <1>5
<1>9. sels' = [sels EXCEPT ![p] = t]
  BY <1>5
<1> HIDE DEF c
<1>10. ep' \in [Ends -> Conns] /\ ep'[e] = c /\ \A x \in Ends \ {e} : ep'[x] = ep[x]
  BY <1>2, <1>4, <1>7, <1>8
<1>11. t \in Tables /\ t[id] = e /\ \A s \in Slots \ {id} : t[s] = sels[p][s]
  BY <1>1, <1>2, <1>4 DEF Tables
<1> HIDE DEF t
<1>12. EndsBut(ep, ep', e) /\ SlotsBut(sels[p], t, id)
  BY <1>10, <1>11 DEF EndsBut, SlotsBut
<1>13. StackOK(p, k, t, ep')
  BY <1>2, <1>12, StackMoved
<1>14. TableOK(p, t, ep')
  <2>1. ASSUME NEW s \in Slots, t[s] # None PROVE Owner(t[s]) = p /\ ep'[t[s]].st \in Live
    <3>1. CASE s = id
      BY <1>2, <1>7, <1>10, <1>11, <3>1
    <3>2. CASE s # id
      <4>1. t[s] = sels[p][s] /\ t[s] # e /\ t[s] \in Ends
        BY <1>2, <1>4, <1>11, <2>1, <3>2 DEF Tables
      <4> QED BY <1>4, <1>10, <2>1, <4>1 DEF TableOK
    <3> QED BY <3>1, <3>2
  <2>2. ASSUME NEW r \in Slots, NEW s \in Slots, t[r] # None, t[r] = t[s] PROVE r = s
    BY <1>2, <1>4, <1>11, <2>2 DEF TableOK
  <2> QED BY <2>1, <2>2 DEF TableOK
<1>15. LinksOK(ep')
  <2>1. \A x \in Ends \ {e} : ep'[x].st = ep[x].st
    BY <1>10
  <2>2. ep'[e].st # "none"
    BY <1>7, <1>10
  <2> QED BY <1>2, <1>3, <1>4, <2>1, <2>2, LinksKept
<1>16. \A x \in Ends : Owner(x) # p /\ ep[x].st # "none" => ep'[x].st = ep[x].st
  BY <1>2, <1>10
<1>17. /\ net' \in Sockets /\ events' \in [Procs -> Seq(Events)] /\ active' \in [Procs -> Ends \cup {None}]
       /\ ctx' \in [Procs -> Ids] /\ n' \in Counts
  BY DEF Typed
<1> QED BY <1>9, <1>10, <1>11, <1>13, <1>14, <1>15, <1>16, <1>17, StepOf

\* It is given up.
LEMMA GiveUpStep ==
    ASSUME IpcInv, NEW p \in Procs, NEW e, Waiting(p, e), ep' = [ep EXCEPT ![e].st = "freed"], UNCHANGED sels,
           NEW k \in Seq(Frames), stack' = [stack EXCEPT ![p] = k], StackOK(p, k, sels[p], ep),
           \A i \in DOMAIN k : k[i].k \notin {"hello", "login"}, Typed, "fault" \in DOMAIN h', ~h'.fault
    PROVE  IpcInv'
<1>1. 0 \notin Slots
  BY IpcAssumption DEF Slots
<1>2. /\ e \in Ends /\ Owner(e) = p /\ ep[e] \in Conns /\ \A s \in Slots : sels[p][s] # e
      /\ Apart(k, e, 0)
  BY <1>1, WaitingFacts
<1>3. ep[e].st # "none"
  BY DEF Waiting
<1>4. /\ sels[p] \in Tables /\ TableOK(p, sels[p], ep) /\ ep \in [Ends -> Conns]
      /\ LinksOK(ep) /\ sels' = [sels EXCEPT ![p] = sels[p]]
  BY Parts
<1> DEFINE c == [ep[e] EXCEPT !.st = "freed"]
<1>5. c \in Conns /\ c.st = "freed" /\ ep' = [ep EXCEPT ![e] = c]
  BY <1>2, StateSet DEF States
<1> HIDE DEF c
<1>6. ep' \in [Ends -> Conns] /\ ep'[e].st = "freed" /\ \A x \in Ends \ {e} : ep'[x] = ep[x]
  BY <1>2, <1>4, <1>5
<1>7. EndsBut(ep, ep', e) /\ SlotsBut(sels[p], sels[p], 0)
  BY <1>6 DEF EndsBut, SlotsBut
<1>8. StackOK(p, k, sels[p], ep')
  BY <1>2, <1>7, StackMoved
<1>9. TableOK(p, sels[p], ep')
  BY <1>2, <1>4, <1>6 DEF TableOK, Tables
<1>10. LinksOK(ep')
  <2>1. (\A x \in Ends \ {e} : ep'[x].st = ep[x].st) /\ ep'[e].st # "none"
    BY <1>6
  <2> QED BY <1>2, <1>3, <1>4, <2>1, LinksKept
<1>11. \A x \in Ends : Owner(x) # p /\ ep[x].st # "none" => ep'[x].st = ep[x].st
  BY <1>2, <1>6
<1>12. /\ net' \in Sockets /\ events' \in [Procs -> Seq(Events)] /\ active' \in [Procs -> Ends \cup {None}]
       /\ ctx' \in [Procs -> Ids] /\ n' \in Counts
  BY DEF Typed
<1> QED BY <1>4, <1>6, <1>8, <1>9, <1>10, <1>11, <1>12, StepOf

LEMMA AcceptStep ==
    ASSUME IpcInv, NEW p \in Procs, Accept(p)
    PROVE  IpcInv'
<1>1. /\ stack[p] = <<>> /\ events[p] # <<>> /\ events' = [events EXCEPT ![p] = Tail(@)]
      /\ UNCHANGED <<stack, active, ctx, n, h>>
  BY DEF Accept
<1>2. PICK e \in Backlog(p) :
         IF FreeSlots(p) = {}
         THEN ep' = [ep EXCEPT ![e].st = "freed"] /\ net' = Shut(net, e) /\ UNCHANGED sels
         ELSE Register(p, e, "handshake") /\ UNCHANGED net
  BY DEF Accept
<1>3. Waiting(p, e) /\ e \in Ends
  BY DEF Waiting, Backlog
<1>4. /\ active \in [Procs -> Ends \cup {None}] /\ ctx \in [Procs -> Ids] /\ n \in Counts /\ net \in Sockets
      /\ "fault" \in DOMAIN h /\ ~h.fault /\ stack[p] \in Seq(Frames) /\ StackOK(p, stack[p], sels[p], ep)
      /\ stack' = [stack EXCEPT ![p] = stack[p]]
  BY <1>1, TypesKept, Parts
<1>5. events' \in [Procs -> Seq(Events)] /\ Shut(net, e) \in Sockets
  BY <1>1, <1>3, <1>4, EventsTail, ShutType
<1>6. Typed /\ "fault" \in DOMAIN h' /\ ~h'.fault
  BY <1>1, <1>2, <1>4, <1>5 DEF Typed
<1>7. \A i \in DOMAIN stack[p] : stack[p][i].k \notin {"hello", "login"}
  BY <1>1
<1>8. CASE FreeSlots(p) = {}
  BY <1>2, <1>3, <1>4, <1>6, <1>7, <1>8, GiveUpStep
<1>9. CASE FreeSlots(p) # {}
  BY <1>2, <1>3, <1>4, <1>6, <1>7, <1>9, RegisterStep
<1> QED BY <1>8, <1>9

-----------------------------------------------------------------------------
(* Handlers return.                                                        *)

LEMMA AuthServed ==
    ASSUME IpcInv, NEW p \in Procs, In(p, {"auth"})
    PROVE  Served(p, Top(p).id, Below(p)) /\ Top(p).e = sels[p][Top(p).id] /\ ep[Top(p).e].st = "creds"
<1> DEFINE f == Top(p)  k == Below(p)
<1>1. stack[p] # <<>> /\ f.k = "auth"
  BY DEF In
<1>2. /\ stack[p] \in Seq(Frames) /\ StackOK(p, stack[p], sels[p], ep)
      /\ f = stack[p][Len(stack[p])] /\ Len(stack[p]) \in DOMAIN stack[p] /\ Last(stack[p]) = f
      /\ k \in Seq(Frames) /\ StackOK(p, k, sels[p], ep)
  BY <1>1, Parts, TopFacts DEF Top
<1>3. Holds(f, sels[p]) /\ ep[f.e].st = "creds"
  BY <1>1, <1>2 DEF StackOK, AuthOK
<1>4. Quiet(k) /\ AuthElsewhere(k, f.id)
  BY <1>1, <1>2, QuietFront, TopElsewhere DEF Below
<1> QED BY <1>2, <1>3, <1>4 DEF Served, Holds

LEMMA AuthEndStep ==
    ASSUME IpcInv, NEW p \in Procs, AuthEnd(p)
    PROVE  IpcInv'
<1> DEFINE f == Top(p)  k == Below(p)
<1>1. In(p, {"auth"}) /\ stack[p] # <<>> /\ UNCHANGED <<events, active, n>>
  BY DEF AuthEnd, In
<1>2. /\ net \in Sockets /\ f.prev \in Ids /\ f.id \in Ids /\ "fault" \in DOMAIN h /\ ~h.fault
  BY <1>1, Parts, TopFacts
<1>3. ep[f.e].st = "creds"
  BY <1>1, AuthServed
<1>5. Served(p, f.id, k) /\ f.e = sels[p][f.id]
  BY <1>1, AuthServed
<1>6. f.e \in Ends /\ ep[f.e] \in Conns
  BY <1>5, ServedFacts
<1>7. /\ events' \in [Procs -> Seq(Events)] /\ active' \in [Procs -> Ends \cup {None}] /\ n' \in Counts
      /\ ctx \in [Procs -> Ids]
  BY <1>1, TypesKept
<1> DEFINE ok == Write(net, f.e, <<Unit("auth", "ok", 0)>>)  no == Write(net, f.e, <<Unit("auth", "no", 0)>>)
<1>8. ok \in Sockets /\ no \in Sockets
  <2>1. <<Unit("auth", "ok", 0)>> \in Seq(Units) /\ <<Unit("auth", "no", 0)>> \in Seq(Units)
    BY UnitSeqs DEF UnitNames, UnitTypes
  <2> QED BY <1>2, <1>6, <2>1, WriteType
<1> HIDE DEF ok, no, f, k
<1>9. CASE /\ ep' = [ep EXCEPT ![f.e].st = "header"] /\ net' = ok
           /\ stack' = [stack EXCEPT ![p] = Append(k, Frame("open", f.id, f.e, 0, f.prev))]
           /\ h' = [h EXCEPT !.fault = @ \/ ep[f.e].st = "freed", !.opened[f.e] = @ + 1]
           /\ UNCHANGED <<sels, oob, ctx>>
  <2> DEFINE c == [ep[f.e] EXCEPT !.st = "header"]  g == Frame("open", f.id, f.e, 0, f.prev)  a == Append(k, g)
  <2>1. c \in Conns /\ c.st \in Live
    BY <1>6, StateSet, LiveStates
  <2>2. ep' = [ep EXCEPT ![sels[p][f.id]] = c]
    BY <1>5, <1>9
  <2>3. /\ "open" \in FrameKinds /\ 0 \in Nat /\ f.e \in Ends \cup {None} /\ f.id \in Ids /\ f.prev \in Ids
    BY <1>2, <1>6, KindFacts
  <2>4. g \in Frames /\ g.k = "open" /\ g.id = f.id
    BY <2>3 DEF Frame, Frames
  <2>5. stack' = [stack EXCEPT ![p] = a] /\ UNCHANGED sels
    BY <1>9
  <2> HIDE DEF g, c
  <2>6. a \in Seq(Frames) /\ (StackOK(p, k, sels[p], ep') => StackOK(p, a, sels[p], ep'))
    BY <1>5, <2>4, Called
  <2>7. Typed
    BY <1>7, <1>8, <1>9 DEF Typed
  <2>8. "fault" \in DOMAIN h' /\ ~h'.fault
    BY <1>2, <1>3, <1>9
  <2> HIDE DEF a
  <2> QED BY <1>5, <2>1, <2>2, <2>5, <2>6, <2>7, <2>8, ConnStep
<1>10. CASE Free(p, f.id, f.e, k, no) /\ ctx' = [ctx EXCEPT ![p] = f.prev]
  <2>1. ctx' \in [Procs -> Ids]
    BY <1>2, <1>7, <1>10
  <2>2. Free(p, f.id, sels[p][f.id], k, no)
    BY <1>5, <1>10
  <2> QED BY <1>5, <1>7, <1>8, <2>1, <2>2, FreeStep
<1> QED BY <1>9, <1>10 DEF AuthEnd, ok, no, f, k

LEMMA SizesType ==
    ASSUME NEW t \in {"sync", "async", "resp"}, NEW s \in Sizes(t)
    PROVE  s \in UnitTypes
BY DEF Sizes, UnitTypes

LEMMA EvalEndStep ==
    ASSUME IpcInv, NEW p \in Procs, EvalEnd(p)
    PROVE  IpcInv'
<1> DEFINE f == Top(p)  to == ReplyTo(p, f)
<1>1. /\ stack[p] # <<>> /\ active' = [active EXCEPT ![p] = None] /\ ctx' = [ctx EXCEPT ![p] = f.prev]
      /\ stack' = [stack EXCEPT ![p] = Below(p)] /\ UNCHANGED <<ep, sels, events, n>>
  BY DEF EvalEnd, In
<1>2. f \in Frames /\ f.id \in Ids /\ f.prev \in Ids /\ f.m \in Nat
  BY <1>1, TopFacts
<1>3. /\ events \in [Procs -> Seq(Events)] /\ active \in [Procs -> Ends \cup {None}] /\ ctx \in [Procs -> Ids]
      /\ n \in Counts /\ net \in Sockets /\ sels[p] \in Tables /\ "fault" \in DOMAIN h /\ ~h.fault
  BY TypesKept, Parts
<1>4. In(p, Evals)
  BY DEF EvalEnd
<1>5. PICK cut \in {FALSE, intr[p]}, t \in Sizes("resp"), lost \in Lost :
            /\ net' = IF to = None \/ lost THEN net ELSE Write(net, to, Message(t, f.m))
            /\ h' = [h EXCEPT !.cancel = IF cut THEN @ \cup {f.m} ELSE @,
                              !.replies[f.m] = IF to = None THEN @
                                               ELSE IF to = f.e THEN @ + 1 ELSE 2]
  BY DEF EvalEnd
<1>6. "fault" \in DOMAIN h' /\ ~h'.fault
  BY <1>3, <1>5
<1>7. Message(t, f.m) \in Seq(Units)
  <2>1. t \in UnitTypes
    BY SizesType
  <2> QED BY <1>2, <2>1, UnitSeqs
<1>8. to = None \/ to \in Ends
  <2>1. f.id \in Slots
    BY <1>1, <1>4, Parts, TopFacts DEF In, Evals, StackOK, SlotOK
  <2> QED BY <1>3, <2>1 DEF ReplyTo, Tables
<1>9. net' \in Sockets
  BY <1>3, <1>5, <1>7, <1>8, WriteType
<1>10. active' \in [Procs -> Ends \cup {None}] /\ ctx' \in [Procs -> Ids]
  BY <1>1, <1>2, <1>3
<1>11. Typed
  BY <1>1, <1>3, <1>9, <1>10 DEF Typed
<1> QED BY <1>1, <1>6, <1>11, PopStep

LEMMA HookEndStep ==
    ASSUME IpcInv, NEW p \in Procs, HookEnd(p)
    PROVE  IpcInv'
<1>1. /\ stack[p] # <<>> /\ ctx' = [ctx EXCEPT ![p] = Top(p).prev]
      /\ stack' = [stack EXCEPT ![p] = Below(p)] /\ UNCHANGED <<ep, sels, net, events, active, n, h>>
  BY DEF HookEnd, In
<1>2. Top(p).prev \in Ids
  BY <1>1, TopFacts
<1>3. Typed /\ "fault" \in DOMAIN h' /\ ~h'.fault
  BY <1>1, <1>2, TypesKept, Parts DEF Typed
<1> QED BY <1>1, <1>3, PopStep

LEMMA SyncEofStep ==
    ASSUME IpcInv, NEW p \in Procs, SyncEof(p)
    PROVE  IpcInv'
<1> DEFINE id == Top(p).id  k == Append(Below(p), [Top(p) EXCEPT !.k = "closed"])
<1>1. In(p, {"sync"}) /\ sels[p][id] # None /\ Deregister(p, id, k, net) /\ UNCHANGED <<events, active, n>>
  BY DEF SyncEof, Syncing
<1>2. Served(p, id, k) /\ net \in Sockets
  BY <1>1, SyncServed, Parts
<1>3. events' \in [Procs -> Seq(Events)] /\ active' \in [Procs -> Ends \cup {None}] /\ n' \in Counts
  BY <1>1, TypesKept
<1> HIDE DEF id, k
<1> QED BY <1>1, <1>2, <1>3, DeregisterStep

LEMMA SyncClosedStep ==
    ASSUME IpcInv, NEW p \in Procs, SyncClosed(p)
    PROVE  IpcInv'
<1>1. stack[p] # <<>>
  BY DEF SyncClosed, Syncing, In
<1>2. /\ stack' = [stack EXCEPT ![p] = Below(p)] /\ UNCHANGED <<ep, sels, net, events, active, ctx, n>>
      /\ h' = [h EXCEPT !.result[Top(p).m] = "error"]
  BY DEF SyncClosed, SyncReturn
<1>3. Typed
  BY <1>2, TypesKept DEF Typed
<1>4. "fault" \in DOMAIN h' /\ ~h'.fault
  BY <1>2, Parts
<1> QED BY <1>1, <1>2, <1>3, <1>4, PopStep

\* The wait ends: the connection is no longer waiting and the frame is gone.
LEMMA SyncDone ==
    ASSUME IpcInv, NEW p \in Procs, Pumped(p), NEW c \in Conns, c.st = ep[sels[p][Top(p).id]].st,
           ep' = [ep EXCEPT ![sels[p][Top(p).id]] = c],
           NEW r, SyncReturn(p, r), UNCHANGED <<sels, net, events, active, ctx, n>>
    PROVE  IpcInv'
<1> DEFINE id == Top(p).id
<1>1. In(p, {"sync"}) /\ stack[p] # <<>> /\ sels[p][id] # None
  BY DEF Pumped, Syncing, In
<1>2. Served(p, id, stack[p])
  BY <1>1, SyncServed
<1>3. c.st \in Live
  BY <1>2, ServedFacts
<1>4. stack' = [stack EXCEPT ![p] = Below(p)] /\ h' = [h EXCEPT !.result[Top(p).m] = r]
  BY DEF SyncReturn
<1>5. Typed
  BY TypesKept DEF Typed
<1>6. "fault" \in DOMAIN h' /\ ~h'.fault
  BY <1>4, Parts
<1>7. stack[p] \in Seq(Frames) /\ Below(p) \in Seq(Frames)
  BY <1>1, Parts, TopFacts
<1>8. StackOK(p, stack[p], sels[p], ep') => StackOK(p, Below(p), sels[p], ep')
  <2> DEFINE d == ep'
  <2> HIDE DEF d
  <2>1. StackOK(p, stack[p], sels[p], d) => StackOK(p, Below(p), sels[p], d)
    BY <1>1, <1>7, StackFront DEF Below
  <2> QED BY <2>1 DEF d
<1> HIDE DEF id
<1>9. ep' = [ep EXCEPT ![sels[p][id]] = c]
  BY DEF id
<1> QED BY <1>2, <1>3, <1>4, <1>5, <1>6, <1>7, <1>8, <1>9, ConnStep

LEMMA PumpedConn ==
    ASSUME IpcInv, NEW p \in Procs, Pumped(p)
    PROVE  sels[p][Top(p).id] \in Ends /\ ep[sels[p][Top(p).id]] \in Conns
<1>1. In(p, {"sync"}) /\ sels[p][Top(p).id] # None
  BY DEF Pumped, Syncing
<1>2. Served(p, Top(p).id, stack[p])
  BY <1>1, SyncServed
<1> QED BY <1>2, ServedFacts

LEMMA SyncTakeStep ==
    ASSUME IpcInv, NEW p \in Procs, SyncTake(p)
    PROVE  IpcInv'
<1> DEFINE e == sels[p][Top(p).id]  c == [ep[e] EXCEPT !.waiting = FALSE, !.ready = FALSE, !.resp = 0]
           r == IF ep[e].resp = Top(p).m THEN "reply" ELSE "other"
<1>1. /\ Pumped(p) /\ ep' = [ep EXCEPT ![e].waiting = FALSE, ![e].ready = FALSE, ![e].resp = 0]
      /\ SyncReturn(p, r) /\ UNCHANGED <<sels, net, events, active, ctx, n>>
  BY Zenon DEF SyncTake
<1>2. e \in Ends /\ ep[e] \in Conns /\ ep \in [Ends -> Conns]
  BY <1>1, PumpedConn, Parts
<1> HIDE DEF e, r
<1>3. c \in Conns /\ c.st = ep[e].st
  BY <1>2 DEF Conns
<1>4. ep' = [ep EXCEPT ![e] = c]
  BY <1>1, <1>2
<1> HIDE DEF c
<1> QED BY <1>1, <1>3, <1>4, SyncDone, Zenon DEF e

LEMMA SyncPollFailsStep ==
    ASSUME IpcInv, NEW p \in Procs, SyncPollFails(p)
    PROVE  IpcInv'
<1> DEFINE e == sels[p][Top(p).id]  c == [ep[e] EXCEPT !.waiting = FALSE]
<1>1. /\ Pumped(p) /\ ep' = [ep EXCEPT ![e].waiting = FALSE]
      /\ SyncReturn(p, "error") /\ UNCHANGED <<sels, net, events, active, ctx, n>>
  BY DEF SyncPollFails
<1>2. e \in Ends /\ ep[e] \in Conns
  BY <1>1, PumpedConn
<1> HIDE DEF e
<1>3. c \in Conns /\ c.st = ep[e].st
  BY <1>2 DEF Conns
<1>4. ep' = [ep EXCEPT ![e] = c]
  BY <1>1
<1> HIDE DEF c
<1> QED BY <1>1, <1>3, <1>4, SyncDone DEF e

LEMMA SyncEintrStep ==
    ASSUME IpcInv, NEW p \in Procs, SyncEintr(p)
    PROVE  IpcInv'
<1>1. UNCHANGED <<ep, sels, net, stack, events, active, ctx, n>>
  BY DEF SyncEintr
<1>2. Typed
  BY <1>1, TypesKept DEF Typed
<1>3. h' = h \/ h' = [h EXCEPT !.asked = @ \cup {Top(p).m}]
  BY DEF SyncEintr
<1>4. "fault" \in DOMAIN h' /\ ~h'.fault
  BY <1>3, Parts
<1> QED BY <1>1, <1>2, <1>4, QuietStep

LEMMA CtrlCStep ==
    ASSUME IpcInv, NEW p \in Procs, CtrlC(p)
    PROVE  IpcInv'
<1>1. /\ UNCHANGED <<ep, sels, net, stack, events, active, ctx>> /\ n' = [n EXCEPT !.cancels = @ + 1]
      /\ h' = [h EXCEPT !.asked = @ \cup {Top(p).m}]
  BY DEF CtrlC
<1>2. n' \in Counts
  BY <1>1, TypesKept DEF Counts
<1>3. Typed
  BY <1>1, <1>2, TypesKept DEF Typed
<1>4. "fault" \in DOMAIN h' /\ ~h'.fault
  BY <1>1, Parts
<1> QED BY <1>1, <1>3, <1>4, QuietStep

-----------------------------------------------------------------------------
(* User code.                                                              *)

LEMMA CountedType ==
    ASSUME n \in Counts, NEW k \in {0, 1}
    PROVE  Counted(k) \in Counts
<1>1. n.calls \in Nat /\ n.msgs \in Nat
  BY DEF Counts
<1>2. n.calls + 1 \in Nat /\ n.msgs + k \in Nat
  BY <1>1
<1>3. Counted(k) = [n EXCEPT !.calls = n.calls + 1, !.msgs = n.msgs + k]
  BY DEF Counted, Counts
<1> QED BY <1>2, <1>3 DEF Counts

LEMMA ScriptStep ==
    ASSUME IpcInv, NEW p \in Procs, Script(p)
    PROVE  IpcInv'
<1> DEFINE f == Frame("script", 0, None, 0, ctx[p])  k == <<f>>
<1>1. /\ stack' = [stack EXCEPT ![p] = k] /\ n' = Counted(0)
      /\ UNCHANGED <<ep, sels, net, events, active, ctx, h>>
  BY DEF Script
<1>2. "script" \in FrameKinds /\ 0 \in Ids /\ 0 \in Nat /\ None \in Ends \cup {None} /\ ctx[p] \in Ids
  BY KindFacts, Parts
<1>3. f \in Frames /\ f.k = "script"
  BY <1>2 DEF Frame, Frames
<1> HIDE DEF f
<1>4. k \in Seq(Frames) /\ DOMAIN k = {1} /\ k[1] = f
  BY <1>3
<1> HIDE DEF k
<1>5. StackOK(p, k, sels[p], ep)
  BY <1>3, <1>4 DEF StackOK, LoopOK, ConnectOK, DeregOK, AuthOK, SlotOK
<1>6. Typed /\ "fault" \in DOMAIN h' /\ ~h'.fault
  BY <1>1, TypesKept, Parts, CountedType DEF Typed
<1> QED BY <1>1, <1>4, <1>5, <1>6, StackStep

\* The on.close hook neither closes a connection nor waits for an answer.
Tame == CloseCalls \subseteq {"open", "post"}

LEMMA CallServed ==
    ASSUME IpcInv, Tame, NEW p \in Procs, NEW id \in Slots, Resolves(p, id),
           NEW what \in {"close", "send"}, MayCall(p, what)
    PROVE  Served(p, id, stack[p])
<1> DEFINE k == stack[p]
<1>1. k # <<>> /\ k \in Seq(Frames) /\ StackOK(p, k, sels[p], ep)
  BY Parts DEF MayCall, In
<1>2. Last(k).k \in User /\ Last(k).k # "close"
  BY DEF MayCall, In, Tame, Top
<1>3. Quiet(k)
  <2>1. Last(k).k \notin {"dereg", "close", "hello", "login"}
    BY <1>2 DEF User, Hooks, Evals
  <2> QED BY <1>1, <2>1, QuietTop
<1>4. sels[p][id] # None /\ ep[sels[p][id]].st \in {"header", "payload"}
  BY DEF Resolves
<1>5. AuthElsewhere(k, id)
  BY <1>1, <1>4 DEF AuthElsewhere, StackOK, AuthOK, Holds
<1> QED BY <1>1, <1>3, <1>4, <1>5 DEF Served

LEMMA CloseStep ==
    ASSUME IpcInv, Tame, NEW p \in Procs, NEW id \in Slots, Close(p, id)
    PROVE  IpcInv'
<1>1. /\ MayCall(p, "close") /\ Resolves(p, id) /\ Deregister(p, id, stack[p], net)
      /\ n' = Counted(0) /\ UNCHANGED <<events, active>>
  BY DEF Close
<1>2. Served(p, id, stack[p])
  BY <1>1, CallServed
<1>3. /\ events' \in [Procs -> Seq(Events)] /\ active' \in [Procs -> Ends \cup {None}] /\ n' \in Counts
      /\ net \in Sockets
  BY <1>1, TypesKept, CountedType
<1> QED BY <1>1, <1>2, <1>3, DeregisterStep

LEMMA ResolvedEnd ==
    ASSUME IpcInv, NEW p \in Procs, NEW id \in Slots, Resolves(p, id)
    PROVE  sels[p][id] \in Ends /\ ep[sels[p][id]] \in Conns
BY Parts DEF Resolves, Tables

LEMMA PostStep ==
    ASSUME IpcInv, NEW p \in Procs, NEW id \in Slots, Post(p, id)
    PROVE  IpcInv'
<1> DEFINE e == sels[p][id]  m == n.msgs + 1
<1>1. Resolves(p, id) /\ n' = Counted(1) /\ UNCHANGED <<ep, sels, stack, events, active, ctx>>
  BY DEF Post
<1>2. PICK t \in Sizes("async") : net' = Write(net, e, Message(t, m))
  BY DEF Post
<1>3. h' = [h EXCEPT !.from[m] = e]
  BY DEF Post
<1>4. e \in Ends /\ n \in Counts /\ net \in Sockets /\ n' \in Counts
  BY <1>1, ResolvedEnd, TypesKept, CountedType
<1>5. m \in Nat
  BY <1>4 DEF Counts
<1>6. t \in UnitTypes
  BY SizesType
<1> HIDE DEF m, e
<1>7. net' \in Sockets
  BY <1>2, <1>4, <1>5, <1>6, UnitSeqs, WriteType
<1>8. Typed
  BY <1>1, <1>4, <1>7, TypesKept DEF Typed
<1>9. "fault" \in DOMAIN h' /\ ~h'.fault
  BY <1>3, Parts
<1> QED BY <1>1, <1>8, <1>9, QuietStep

LEMMA SendStep ==
    ASSUME IpcInv, Tame, NEW p \in Procs, NEW id \in Slots, Send(p, id)
    PROVE  IpcInv'
<1> DEFINE e == sels[p][id]  m == n.msgs + 1  f == Frame("sync", id, e, m, 0)  k == stack[p]  a == Append(k, f)
<1>1. /\ MayCall(p, "send") /\ Resolves(p, id) /\ n' = Counted(1)
      /\ UNCHANGED <<sels, events, active, ctx>>
  BY DEF Send
<1>2. /\ e \in Ends /\ ep[e] \in Conns /\ ep \in [Ends -> Conns] /\ n \in Counts /\ net \in Sockets
      /\ n' \in Counts /\ "fault" \in DOMAIN h /\ ~h.fault
  BY <1>1, ResolvedEnd, TypesKept, CountedType, Parts
<1>3. m \in Nat
  BY <1>2 DEF Counts
<1>4. ASSUME net' \in Sockets PROVE Typed
  BY <1>1, <1>2, <1>4, TypesKept DEF Typed
<1>5. ASSUME NEW r, h' = [h EXCEPT !.result[m] = r], UNCHANGED <<ep, net, stack>> PROVE IpcInv'
  <2>1. "fault" \in DOMAIN h' /\ ~h'.fault
    BY <1>2, <1>5
  <2> QED BY <1>1, <1>2, <1>4, <1>5, <2>1, QuietStep
<1>6. CASE /\ \E t \in Sizes("sync") : net' = Write(net, e, Message(t, m))
           /\ ep' = [ep EXCEPT ![e].waiting = TRUE, ![e].ready = FALSE, ![e].resp = 0]
           /\ stack' = [stack EXCEPT ![p] = a]
           /\ h' = [h EXCEPT !.from[m] = e, !.result[m] = "waits"]
  <2> DEFINE c == [ep[e] EXCEPT !.waiting = TRUE, !.ready = FALSE, !.resp = 0]
  <2>1. Served(p, id, k)
    BY <1>1, CallServed
  <2>2. c \in Conns /\ c.st \in Live
    BY <1>2, <2>1, ServedFacts DEF Conns
  <2>3. ep' = [ep EXCEPT ![e] = c]
    <3>1. ep' = [ep EXCEPT ![e].waiting = TRUE, ![e].ready = FALSE, ![e].resp = 0]
      BY <1>6
    <3> HIDE DEF e
    <3> QED BY <1>2, <3>1
  <2>4. PICK t \in Sizes("sync") : net' = Write(net, e, Message(t, m))
    BY <1>6
  <2>5. t \in UnitTypes
    BY SizesType
  <2>6. "sync" \in FrameKinds /\ 0 \in Ids /\ e \in Ends \cup {None} /\ id \in Ids
    BY <1>2, KindFacts
  <2>7. stack' = [stack EXCEPT ![p] = a]
    BY <1>6
  <2>8. "fault" \in DOMAIN h' /\ ~h'.fault
    BY <1>2, <1>6
  <2>9. k \in Seq(Frames) /\ Quiet(k) /\ AuthElsewhere(k, id)
    BY <2>1 DEF Served
  <2> HIDE DEF m, c, k
  <2>10. f \in Frames /\ f.k = "sync" /\ f.id = id
    BY <1>3, <2>6 DEF Frame, Frames
  <2>11. Typed
    <3>1. Message(t, m) \in Seq(Units)
      BY <1>3, <2>5, UnitSeqs
    <3> HIDE DEF e
    <3>2. net' \in Sockets
      BY <1>2, <2>4, <3>1, WriteType
    <3> QED BY <1>4, <3>2
  <2> HIDE DEF f
  <2>12. Fits(k, f)
    BY <2>9, <2>10 DEF Fits, Quiet
  <2>13. FrameOK(p, f, sels[p], ep')
    BY <2>10 DEF FrameOK, SlotOK
  <2>14. a \in Seq(Frames) /\ (StackOK(p, k, sels[p], ep') => StackOK(p, a, sels[p], ep'))
    BY <2>9, <2>10, <2>12, <2>13, PushFacts, StackPush
  <2> HIDE DEF a
  <2> QED BY <1>1, <2>1, <2>2, <2>3, <2>7, <2>8, <2>11, <2>14, ConnStep
<1> QED BY <1>5, <1>6 DEF Send

-----------------------------------------------------------------------------
(* ray_ipc_connect.                                                        *)

LEMMA OpenStep ==
    ASSUME IpcInv, NEW p \in Procs, NEW l \in Links, Open(p, l)
    PROVE  IpcInv'
<1> DEFINE c == <<l, "c">>  s == <<l, "s">>  f == Frame("hello", 0, c, 0, 0)  k == stack[p]  a == Append(k, f)
<1>1. c \in Ends /\ s \in Ends /\ c # s /\ Peer(c) = s /\ c # None
  BY DEF Ends, Peer, None
<1>2. /\ MayCall(p, "open") /\ l[1] = p /\ ep[c].st = "none" /\ n' = Counted(0)
      /\ ep' = [ep EXCEPT ![c].st = "connecting", ![s].st = "backlog"]
      /\ stack' = [stack EXCEPT ![p] = a] /\ UNCHANGED <<sels, events, active, ctx, h>>
  BY <1>1 DEF Open
<1>3. PICK v \in {"ok", "old"} : net' = [net EXCEPT ![s] = <<Unit("hello", v, 0)>>]
  BY <1>1 DEF Open
<1>4. /\ ep \in [Ends -> Conns] /\ LinksOK(ep) /\ k \in Seq(Frames) /\ sels[p] \in Tables
      /\ TableOK(p, sels[p], ep) /\ StackOK(p, k, sels[p], ep) /\ "fault" \in DOMAIN h /\ ~h.fault
      /\ sels' = [sels EXCEPT ![p] = sels[p]]
  BY <1>2, Parts
<1>5. k # <<>> /\ Last(k).k \in User
  BY <1>2 DEF MayCall, In, Top
<1>6. ep[s].st = "none"
  BY <1>2, <1>4 DEF LinksOK
<1>7. Owner(c) = p
  BY <1>2 DEF Owner
<1>8. net' \in Sockets
  <2>1. <<Unit("hello", v, 0)>> \in Seq(Units)
    BY UnitSeqs DEF UnitNames, UnitTypes
  <2>2. net \in Sockets
    BY TypesKept
  <2> QED BY <1>3, <2>1, <2>2 DEF Sockets
<1>9. /\ net' \in Sockets /\ events' \in [Procs -> Seq(Events)] /\ active' \in [Procs -> Ends \cup {None}]
      /\ ctx' \in [Procs -> Ids] /\ n' \in Counts
  BY <1>2, <1>8, TypesKept, CountedType
<1>10. \A i \in DOMAIN k : k[i].k \notin {"hello", "login"}
  <2>1. Last(k) = k[Len(k)]
    BY <1>4, <1>5, FrontFacts
  <2> QED BY <1>4, <1>5, <2>1 DEF StackOK, ConnectOK, User, Hooks, Evals
<1>11. "hello" \in FrameKinds /\ 0 \in Ids /\ 0 \in Nat /\ c \in Ends \cup {None}
  BY <1>1, KindFacts
<1> HIDE DEF c, s
<1>12. f \in Frames /\ f.k = "hello" /\ f.e = c
  BY <1>11 DEF Frame, Frames
<1> HIDE DEF f
<1>13. ep' \in [Ends -> Conns]
  <2>1. [ep[c] EXCEPT !.st = "connecting"] \in Conns /\ [ep[s] EXCEPT !.st = "backlog"] \in Conns
    <3>1. ep[c] \in Conns /\ ep[s] \in Conns /\ "connecting" \in States /\ "backlog" \in States
      BY <1>1, <1>4 DEF States
    <3> QED BY <3>1, StateSet
  <2>2. ep' = [[ep EXCEPT ![c] = [ep[c] EXCEPT !.st = "connecting"]] EXCEPT ![s] = [ep[s] EXCEPT !.st = "backlog"]]
    BY <1>1, <1>2, <1>4
  <2> QED BY <1>1, <1>4, <2>1, <2>2
<1>14. ep'[c].st = "connecting" /\ ep'[s].st = "backlog" /\ \A x \in Ends \ {c, s} : ep'[x] = ep[x]
  BY <1>1, <1>2, <1>4 DEF Conns
<1>15. \A x \in Ends : ep[x].st # "none" => ep'[x].st = ep[x].st
  BY <1>2, <1>6, <1>14
<1>16. TableOK(p, sels[p], ep') /\ StackOK(p, k, sels[p], ep')
  <2>1. Kept(p, ep, ep')
    BY <1>15 DEF Kept
  <2> QED BY <1>4, <2>1, KeptFacts
<1>17. FrameOK(p, f, sels[p], ep') /\ Fits(k, f)
  BY <1>1, <1>7, <1>10, <1>12, <1>14 DEF FrameOK, SlotOK, Fits
<1>18. a \in Seq(Frames) /\ StackOK(p, a, sels[p], ep')
  <2> DEFINE d == ep'
  <2>1. StackOK(p, k, sels[p], d) /\ FrameOK(p, f, sels[p], d)
    BY <1>16, <1>17
  <2> HIDE DEF d
  <2>2. a \in Seq(Frames) /\ StackOK(p, a, sels[p], d)
    BY <1>4, <1>12, <1>17, <2>1, PushFacts, StackPush
  <2> QED BY <2>2 DEF d
<1>19. LinksOK(ep')
  <2> SUFFICES ASSUME NEW m \in Links, ep'[<<m, "c">>].st = "none" PROVE ep'[<<m, "s">>].st = "none"
    BY DEF LinksOK
  <2>1. <<m, "c">> \in Ends /\ <<m, "s">> \in Ends
    BY DEF Ends
  <2>2. ep[<<m, "c">>].st = "none"
    BY <1>15, <2>1
  <2>3. <<m, "c">> # c
    BY <1>14
  <2>4. <<m, "s">> # s /\ <<m, "s">> # c
    BY <2>3 DEF c, s
  <2> QED BY <1>4, <1>14, <2>1, <2>2, <2>4 DEF LinksOK
<1> HIDE DEF a
<1>20. stack' = [stack EXCEPT ![p] = a] /\ "fault" \in DOMAIN h' /\ ~h'.fault
  BY <1>2, <1>4
<1>21. \A x \in Ends : Owner(x) # p /\ ep[x].st # "none" => ep'[x].st = ep[x].st
  BY <1>15
<1> QED BY <1>4, <1>9, <1>13, <1>16, <1>18, <1>19, <1>20, <1>21, StepOf

\* The frame of ray_ipc_connect is about a connection of its process.
LEMMA Connecting ==
    ASSUME IpcInv, NEW p \in Procs, In(p, {"hello", "login"})
    PROVE  /\ Waiting(p, Top(p).e) /\ Top(p).e \in Ends /\ stack[p] # <<>> /\ Below(p) \in Seq(Frames)
           /\ StackOK(p, Below(p), sels[p], ep) /\ Top(p) \in Frames
           /\ \A i \in DOMAIN Below(p) : Below(p)[i].k \notin {"hello", "login"}
<1>1. stack[p] # <<>> /\ Top(p).k \in {"hello", "login"}
  BY DEF In
<1>2. /\ Top(p).e \in Ends \cup {None} /\ Below(p) \in Seq(Frames) /\ StackOK(p, Below(p), sels[p], ep)
      /\ \A i \in DOMAIN Below(p) : Below(p)[i].k \notin {"hello", "login"}
      /\ Top(p) = stack[p][Len(stack[p])] /\ Len(stack[p]) \in DOMAIN stack[p] /\ Top(p) \in Frames
  BY <1>1, TopFacts
<1>3. StackOK(p, stack[p], sels[p], ep)
  BY Parts
<1>4. Top(p).e # None /\ Owner(Top(p).e) = p /\ ep[Top(p).e].st = "connecting"
  BY <1>1, <1>2, <1>3 DEF StackOK, ConnectOK
<1> QED BY <1>1, <1>2, <1>4 DEF Waiting

LEMMA ConnectedStep ==
    ASSUME IpcInv, NEW p \in Procs, Connected(p)
    PROVE  IpcInv'
<1> DEFINE e == Top(p).e  k == Below(p)
<1>1. /\ In(p, {"hello", "login"}) /\ net[e] # <<>> /\ FreeSlots(p) # {} /\ Register(p, e, "header")
      /\ net' = Consumed(e) /\ stack' = [stack EXCEPT ![p] = k] /\ UNCHANGED <<events, active, ctx, n, h>>
  BY DEF Connected, In, Ready
<1>2. /\ Waiting(p, e) /\ e \in Ends /\ k \in Seq(Frames) /\ StackOK(p, k, sels[p], ep)
      /\ \A i \in DOMAIN k : k[i].k \notin {"hello", "login"}
  BY <1>1, Connecting
<1>3. Consumed(e) \in Sockets
  BY <1>1, <1>2, TypesKept, ConsumedType
<1>4. Typed /\ "fault" \in DOMAIN h' /\ ~h'.fault
  BY <1>1, <1>3, TypesKept, Parts DEF Typed
<1> HIDE DEF e, k
<1> QED BY <1>1, <1>2, <1>4, RegisterStep

LEMMA ConnectFailsStep ==
    ASSUME IpcInv, NEW p \in Procs, ConnectFails(p)
    PROVE  IpcInv'
<1> DEFINE e == Top(p).e  k == Below(p)
<1>1. /\ In(p, {"hello", "login"}) /\ ep' = [ep EXCEPT ![e].st = "freed"] /\ net' = Shut(net, e)
      /\ stack' = [stack EXCEPT ![p] = k] /\ UNCHANGED <<sels, events, active, ctx, n, h>>
  BY DEF ConnectFails
<1>2. /\ Waiting(p, e) /\ e \in Ends /\ k \in Seq(Frames) /\ StackOK(p, k, sels[p], ep)
      /\ \A i \in DOMAIN k : k[i].k \notin {"hello", "login"}
  BY <1>1, Connecting
<1>3. Shut(net, e) \in Sockets
  BY <1>2, TypesKept, ShutType
<1>4. Typed /\ "fault" \in DOMAIN h' /\ ~h'.fault
  BY <1>1, <1>3, TypesKept, Parts DEF Typed
<1> HIDE DEF e, k
<1> QED BY <1>1, <1>2, <1>4, GiveUpStep

LEMMA LoginStep ==
    ASSUME IpcInv, NEW p \in Procs, Login(p)
    PROVE  IpcInv'
<1> DEFINE e == Top(p).e  k == Below(p)  f == [Top(p) EXCEPT !.k = "login"]  a == Append(k, f)
<1>1. /\ In(p, {"hello", "login"}) /\ net[e] # <<>> /\ stack' = [stack EXCEPT ![p] = a]
      /\ UNCHANGED <<ep, sels, events, active, ctx, n, h>>
  BY DEF Login, In, Ready
<1>2. PICK c \in {"good", "bad"} : net' = Write(Consumed(e), e, <<Unit("creds", c, 0)>>)
  BY DEF Login
<1>3. /\ Waiting(p, e) /\ e \in Ends /\ k \in Seq(Frames) /\ StackOK(p, k, sels[p], ep) /\ Top(p) \in Frames
      /\ \A i \in DOMAIN k : k[i].k \notin {"hello", "login"}
  BY <1>1, Connecting
<1>4. net' \in Sockets
  <2>1. <<Unit("creds", c, 0)>> \in Seq(Units)
    BY UnitSeqs DEF UnitNames, UnitTypes
  <2>2. Consumed(e) \in Sockets
    BY <1>1, <1>3, TypesKept, ConsumedType
  <2> QED BY <1>2, <1>3, <2>1, <2>2, WriteType
<1>5. Typed /\ "fault" \in DOMAIN h' /\ ~h'.fault
  BY <1>1, <1>4, TypesKept, Parts DEF Typed
<1>6. f \in Frames /\ f.k = "login" /\ f.e = e
  BY <1>3, KindFacts DEF Frames
<1> HIDE DEF f
<1>7. ep[e].st = "connecting"
  <2>1. /\ Top(p) = stack[p][Len(stack[p])] /\ Len(stack[p]) \in DOMAIN stack[p]
        /\ StackOK(p, stack[p], sels[p], ep) /\ Top(p).k \in {"hello", "login"}
    BY <1>1, TopFacts, Parts DEF In
  <2> QED BY <2>1 DEF StackOK, ConnectOK
<1>8. e # None /\ Owner(e) = p
  BY <1>3, EndFacts DEF Waiting
<1> HIDE DEF e, k
<1>9. FrameOK(p, f, sels[p], ep) /\ Fits(k, f)
  BY <1>3, <1>6, <1>7, <1>8 DEF FrameOK, SlotOK, Fits
<1>10. a \in Seq(Frames) /\ StackOK(p, a, sels[p], ep)
  BY <1>3, <1>6, <1>9, PushFacts, StackPush
<1> HIDE DEF a
<1> QED BY <1>1, <1>5, <1>10, StackStep

-----------------------------------------------------------------------------
(* The invariant.                                                          *)

LEMMA HeldFacts ==
    ASSUME NEW p \in Procs
    PROVE  /\ Len(Held(p)) \in Nat
           /\ \A s \in 1 .. Len(Held(p)) : /\ Held(p)[s] \in Ends /\ Owner(Held(p)[s]) = p
                                           /\ Held(p)[s][1] \in Opened
           /\ \A r, s \in 1 .. Len(Held(p)) : Held(p)[r] = Held(p)[s] => r = s
<1> DEFINE S == {e \in Opened \X {"c", "s"} : Owner(e) = p}  m == Cardinality(S)  q == SetToSeq(S)
<1>1. IsFiniteSet(S)
  <2>1. IsFiniteSet({"c", "s"})
    <3>1. IsFiniteSet({"c"}) /\ {"c", "s"} = {"c"} \cup {"s"}
      BY FS_Singleton
    <3> QED BY <3>1, FS_AddElement
  <2>2. IsFiniteSet(Opened \X {"c", "s"})
    BY <2>1, FS_Product, IpcAssumption
  <2> QED BY <2>2, FS_Subset, S \subseteq Opened \X {"c", "s"}
<1>2. m \in Nat /\ ExistsBijection(1 .. m, S)
  BY <1>1, FS_CardinalityType
<1>3. \E f \in [1 .. m -> S] : IsInjective(f)
  BY <1>2 DEF ExistsBijection, Bijection, Injection, Surjection, IsInjective
<1>4. q \in [1 .. m -> S] /\ IsInjective(q)
  BY <1>3 DEF SetToSeq
<1>5. \A e \in S : e \in Ends /\ Owner(e) = p /\ e[1] \in Opened
  BY IpcAssumption DEF Ends
<1>6. Held(p) = q
  BY DEF Held
<1> HIDE DEF m, S, q
<1>7. Len(q) = m
  BY <1>2, <1>4
<1>8. \A r, s \in 1 .. m : q[r] = q[s] => r = s
  BY <1>4 DEF IsInjective
<1> QED BY <1>2, <1>4, <1>5, <1>6, <1>7, <1>8

LEMMA BlankFacts ==
    /\ Blank \in Conns /\ Blank.st = "none"
    /\ \A e \in Ends : /\ [Blank EXCEPT !.st = "header", !.addr = e] \in Conns
                       /\ [Blank EXCEPT !.st = "header", !.addr = e].st = "header"
<1>1. Unit("", "", 0) \in Units
  BY UnitFacts DEF UnitNames, UnitTypes
<1> QED BY <1>1 DEF Blank, Conns, States, Live

LEMMA InitInv == Init => IpcInv
<1> SUFFICES ASSUME Init PROVE IpcInv
  OBVIOUS
<1>1. /\ ep = [e \in Ends |-> IF e[1] \in Opened THEN [Blank EXCEPT !.st = "header", !.addr = e] ELSE Blank]
      /\ sels = [p \in Procs |-> [s \in Slots |-> IF s <= Len(Held(p)) THEN Held(p)[s] ELSE None]]
      /\ stack = [p \in Procs |-> <<>>]
  BY DEF Init
<1>2. /\ ep \in [Ends -> Conns]
      /\ \A e \in Ends : ep[e].st = IF e[1] \in Opened THEN "header" ELSE "none"
  BY <1>1, BlankFacts
<1>3. ASSUME NEW p \in Procs PROVE sels[p] \in Tables /\ TableOK(p, sels[p], ep)
  <2> DEFINE q == Held(p)  t == sels[p]
  <2>1. /\ Len(q) \in Nat /\ \A s \in 1 .. Len(q) : q[s] \in Ends /\ Owner(q[s]) = p /\ q[s][1] \in Opened
        /\ \A r, s \in 1 .. Len(q) : q[r] = q[s] => r = s
    BY HeldFacts
  <2>2. \A s \in Slots : s <= Len(q) => s \in 1 .. Len(q)
    BY <2>1, IpcAssumption DEF Slots
  <2>3. t = [s \in Slots |-> IF s <= Len(q) THEN q[s] ELSE None]
    BY <1>1
  <2> HIDE DEF q, t
  <2>4. \A s \in Slots : t[s] # None => s \in 1 .. Len(q) /\ t[s] = q[s]
    BY <2>2, <2>3
  <2>5. t \in Tables
    BY <2>1, <2>2, <2>3 DEF Tables
  <2>6. ASSUME NEW s \in Slots, t[s] # None PROVE Owner(t[s]) = p /\ ep[t[s]].st \in Live
    BY <1>2, <2>1, <2>4, <2>6 DEF Live
  <2>7. ASSUME NEW r \in Slots, NEW s \in Slots, t[r] # None, t[r] = t[s] PROVE r = s
    BY <2>1, <2>4, <2>7
  <2> QED BY <2>5, <2>6, <2>7 DEF TableOK, t
<1>4. LinksOK(ep)
  <2> SUFFICES ASSUME NEW l \in Links, ep[<<l, "c">>].st = "none" PROVE ep[<<l, "s">>].st = "none"
    BY DEF LinksOK
  <2>1. <<l, "c">> \in Ends /\ <<l, "s">> \in Ends /\ <<l, "c">>[1] = l /\ <<l, "s">>[1] = l
    BY DEF Ends
  <2> QED BY <1>2, <2>1
<1>5. ASSUME NEW p \in Procs PROVE StackOK(p, stack[p], sels[p], ep)
  <2>1. stack[p] = <<>>
    BY <1>1
  <2>2. StackOK(p, <<>>, sels[p], ep)
    BY DEF StackOK
  <2> QED BY <2>1, <2>2
<1>6. /\ net \in Sockets /\ stack \in [Procs -> Seq(Frames)] /\ events \in [Procs -> Seq(Events)]
      /\ active \in [Procs -> Ends \cup {None}] /\ ctx \in [Procs -> Ids]
  <2>1. /\ net = [e \in Ends |-> <<>>] /\ events = [p \in Procs |-> <<>>]
        /\ active = [p \in Procs |-> None] /\ ctx = [p \in Procs |-> 0]
    BY DEF Init
  <2>2. <<>> \in Seq(Units) /\ <<>> \in Seq(Frames) /\ <<>> \in Seq(Events) /\ 0 \in Ids
    BY KindFacts
  <2> QED BY <1>1, <2>1, <2>2 DEF Sockets
<1>7. n \in Counts
  BY DEF Init, Counts
<1>8. "fault" \in DOMAIN h /\ ~h.fault
  BY DEF Init
<1>9. sels \in [Procs -> Tables]
  BY <1>1, <1>3
<1>10. Values
  BY <1>2, <1>6, <1>7, <1>8, <1>9 DEF Values
<1> QED BY <1>3, <1>4, <1>5, <1>8, <1>10 DEF IpcInv

LEMMA StutterInv ==
    ASSUME IpcInv, UNCHANGED vars
    PROVE  IpcInv'
BY DEF IpcInv, Values, LinksOK, TableOK, StackOK, LoopOK, ConnectOK, DeregOK, AuthOK, Holds, vars

LEMMA NextInv ==
    ASSUME IpcInv, Tame, Next
    PROVE  IpcInv'
<1>1. PICK p \in Procs : UserCall(p) \/ Read(p) \/ Step(p) \/ SyncPollFails(p)
  BY DEF Next
<1>2. CASE UserCall(p)
  <2>1. CASE Script(p) \/ CtrlC(p)
    BY <2>1, ScriptStep, CtrlCStep
  <2>2. CASE \E id \in Slots : Close(p, id) \/ Post(p, id) \/ Send(p, id)
    BY <2>2, CloseStep, PostStep, SendStep
  <2>3. CASE \E l \in Links : Open(p, l)
    BY <2>3, OpenStep
  <2> QED BY <1>2, <2>1, <2>2, <2>3 DEF UserCall
<1>3. CASE Read(p)
  BY <1>3, ReadsStep
<1>4. CASE Step(p)
  <2>1. CASE EpollWait(p) \/ Accept(p) \/ TakeEvent(p) \/ RxGone(p) \/ RxDry(p) \/ RxEof(p)
    BY <2>1, EpollWaitStep, AcceptStep, TakeEventStep, RxGoneStep, RxEndStep
  <2>2. CASE DeregisterEnd(p) \/ EvalEnd(p) \/ HookEnd(p) \/ AuthEnd(p)
    BY <2>2, DeregisterEndStep, EvalEndStep, HookEndStep, AuthEndStep
  <2>3. CASE SyncEof(p) \/ SyncClosed(p) \/ SyncTake(p) \/ SyncEintr(p)
    BY <2>3, SyncEofStep, SyncClosedStep, SyncTakeStep, SyncEintrStep
  <2>4. CASE Connected(p) \/ Login(p) \/ ConnectFails(p)
    BY <2>4, ConnectedStep, LoginStep, ConnectFailsStep
  <2> QED BY <1>4, <2>1, <2>2, <2>3, <2>4 DEF Step
<1>5. CASE SyncPollFails(p)
  BY <1>5, SyncPollFailsStep
<1> QED BY <1>1, <1>2, <1>3, <1>4, <1>5

\* What the invariant says in the words of the properties.
LEMMA InvShown == IpcInv => NoUseAfterFree /\ TypeOK
<1> SUFFICES ASSUME IpcInv PROVE NoUseAfterFree /\ TypeOK
  OBVIOUS
<1>1. NoUseAfterFree
  BY DEF IpcInv, NoUseAfterFree
<1>2. ASSUME NEW e \in Ends
      PROVE  ep[e].st \in {"none", "backlog", "connecting", "handshake", "creds", "header", "payload", "freed"}
  BY DEF IpcInv, Values, Conns, States, Live
<1>3. ASSUME NEW p \in Procs, NEW s \in Slots, sels[p][s] # None
      PROVE  /\ sels[p][s] \in Ends /\ Owner(sels[p][s]) = p
             /\ ep[sels[p][s]].st \in {"handshake", "creds", "header", "payload"}
  BY <1>3, Parts DEF Tables, TableOK, Live
<1>4. \A p \in Procs : active[p] \in Ends \cup {None}
  BY TypesKept
<1>5. ASSUME NEW p \in Procs, NEW i \in DOMAIN stack[p] PROVE stack[p][i].id \in {0} \cup Slots
  <2>1. stack[p][i].id \in 0 .. NSlots
    BY <1>5, Parts, FrameTypes DEF Ids
  <2> QED BY <2>1, IpcAssumption DEF Slots
<1>6. DOMAIN ep = Ends /\ \A p \in Procs : DOMAIN sels[p] = Slots
  BY DEF IpcInv, Values, Tables
<1> QED BY <1>1, <1>2, <1>3, <1>4, <1>5, <1>6 DEF TypeOK

\* Frames name slots and ends, and a selector is a live connection of the process
\* whose table holds it (epoll.c, ray_poll_register and ray_poll_deregister).
THEOREM IpcTypes ==
    ASSUME CloseCalls \subseteq {"open", "post"}
    PROVE  Spec => []TypeOK
<1>1. Tame
  BY DEF Tame
<1>2. IpcInv /\ [Next]_vars => IpcInv'
  BY <1>1, NextInv, StutterInv
<1> QED BY <1>2, InitInv, InvShown, PTL DEF Spec

\* No callback touches a selector or the data of a connection after they were
\* freed, however handlers nest: ray_poll_deregister runs the on.close hook while
\* the slot is still taken, ipc_read_creds uses the selector after the on.auth
\* hook, and sync_send pumps its connection below other handlers.
THEOREM IpcNoUseAfterFree ==
    ASSUME CloseCalls \subseteq {"open", "post"}
    PROVE  Spec => []NoUseAfterFree
<1>1. Tame
  BY DEF Tame
<1>2. IpcInv /\ [Next]_vars => IpcInv'
  BY <1>1, NextInv, StutterInv
<1> QED BY <1>2, InitInv, InvShown, PTL DEF Spec

-----------------------------------------------------------------------------
(* Messages.                                                               *)

Results == {"none", "waits", "busy", "error", "reply", "other"}
Histories ==
    [from : [Msgs -> Ends \cup {None}], runs : [Msgs -> Nat], replies : [Msgs -> Nat],
     result : [Msgs -> Results], cancel : SUBSET Nat, asked : SUBSET Nat,
     opened : [Ends -> Nat], closed : [Ends -> Nat], fault : BOOLEAN]

\* Payloads that can still be read: requests and responses.
Req(u) == u.u = "payload" /\ u.t \in {"sync", "async"}
Rsp(u) == u.u = "payload" /\ u.t = "resp"
Token(u) == Req(u) \/ Rsp(u)
Body(u) == [u EXCEPT !.u = "payload"]

\* Whoever waits for m still does, or a request on its connection was given up.
Spoilt(H, e) == \E k \in Msgs : H.from[k] = e /\ H.result[k] = "error"
Good(H, m) == H.result[m] = "waits" \/ Spoilt(H, H.from[m])

\* Units w on their way: headers are followed by their payload, and no message is
\* there twice.
StreamOK(w) ==
    /\ \A i \in DOMAIN w : w[i].u = "header" => i + 1 \in DOMAIN w /\ w[i + 1] = Body(w[i])
    /\ \A i, j \in DOMAIN w : Token(w[i]) /\ Token(w[j]) /\ w[i].m = w[j].m => i = j

\* A request travels away from its sender and was not evaluated; a response
\* travels back, and is the only one.
UnitOK(e, u, H, N) ==
    /\ u.u = "header" => u.t \in {"sync", "async", "resp", "big"}
    /\ Req(u) => /\ u.m \in 1 .. N /\ H.from[u.m] = Peer(e) /\ H.runs[u.m] = 0 /\ H.replies[u.m] = 0
                 /\ u.t = "sync" => Good(H, u.m)
    /\ Rsp(u) => u.m \in 1 .. N /\ H.from[u.m] = e /\ H.replies[u.m] = 1 /\ Good(H, u.m)
WordOK(e, w, H, N) == StreamOK(w) /\ \A i \in DOMAIN w : UnitOK(e, w[i], H, N)
NetOK(q, H, N) == \A e \in Ends : WordOK(e, q[e], H, N)

\* The data c of end e with the units w before it.
AddrOK(e, c) == c.addr \in {e, None} /\ (c.st \in Live => c.addr = e)
ParseOK(c, w) ==
    c.st = "payload" => w # <<>> /\ Head(w) = Body(c.hdr) /\ c.hdr.t \in {"sync", "async", "resp"}
ReadyOK(e, c, w, H, N) ==
    c.ready => /\ c.resp \in 1 .. N /\ H.from[c.resp] = e /\ H.replies[c.resp] = 1 /\ Good(H, c.resp)
               /\ \A i \in DOMAIN w : Rsp(w[i]) => w[i].m # c.resp
WaitOK(e, c, H, N) ==
    c.st # "freed" => \A m \in 1 .. N : H.from[m] = e /\ H.result[m] = "waits" =>
                        /\ c.waiting
                        /\ \A l \in 1 .. N : H.from[l] = e /\ H.result[l] = "waits" => l = m
ConnOK(e, c, w, H, N) == AddrOK(e, c) /\ ParseOK(c, w) /\ ReadyOK(e, c, w, H, N) /\ WaitOK(e, c, H, N)
ConnsOK(c, q, H, N) == \A e \in Ends : ConnOK(e, c[e], q[e], H, N)

\* The stack k of p: who evaluates and who waits for which message.
Waits == {"sync", "closed"}
FrameMsg(p, f, H, N) ==
    /\ f.k \in Evals => /\ f.m \in 1 .. N /\ f.e # None /\ Owner(f.e) = p /\ H.from[f.m] = Peer(f.e)
                        /\ H.runs[f.m] = 1 /\ H.replies[f.m] = 0
                        /\ f.k = "eval" => Good(H, f.m)
    /\ f.k \in Waits => /\ f.m \in 1 .. N /\ f.e # None /\ Owner(f.e) = p /\ H.from[f.m] = f.e
                        /\ H.result[f.m] = "waits"
Alike(f, g) == (f.k \in Evals /\ g.k \in Evals) \/ (f.k \in Waits /\ g.k \in Waits)
FramesOK(p, k, H, N) ==
    /\ \A i \in DOMAIN k : FrameMsg(p, k[i], H, N)
    /\ \A i, j \in DOMAIN k : Alike(k[i], k[j]) /\ k[i].m = k[j].m => i = j
StacksOK(s, H, N) == \A p \in Procs : FramesOK(p, s[p], H, N)

HistOK(H, N) ==
    /\ H \in Histories /\ N \in 0 .. MaxMsgs
    /\ \A m \in Msgs : H.runs[m] <= 1 /\ H.replies[m] <= 1
    /\ \A m \in Msgs : H.result[m] = "other" => Spoilt(H, H.from[m])
    /\ \A m \in Msgs : m > N => H.from[m] = None /\ H.runs[m] = 0 /\ H.replies[m] = 0 /\ H.result[m] = "none"

MsgInv ==
    /\ NetOK(net, h, n.msgs) /\ ConnsOK(ep, net, h, n.msgs) /\ StacksOK(stack, h, n.msgs)
    /\ HistOK(h, n.msgs)

-----------------------------------------------------------------------------
(* Words.                                                                  *)

\* A plain unit is neither a header nor a payload.
Plain(u) == u.u \notin {"header", "payload"}

LEMMA WordPlain ==
    ASSUME NEW e, NEW w \in Seq(Units), NEW H, NEW N, WordOK(e, w, H, N), NEW u \in Units, Plain(u)
    PROVE  /\ WordOK(e, w \o <<u>>, H, N)
           /\ w # <<>> => w \o <<u>> # <<>> /\ Head(w \o <<u>>) = Head(w)
           /\ \A i \in DOMAIN (w \o <<u>>) : Rsp((w \o <<u>>)[i]) => \E j \in DOMAIN w : w[j] = (w \o <<u>>)[i]
<1> DEFINE x == w \o <<u>>
<1>1. /\ x \in Seq(Units) /\ Len(x) = Len(w) + 1 /\ DOMAIN x = 1 .. Len(w) + 1 /\ Len(w) \in Nat /\ DOMAIN w = 1 .. Len(w)
      /\ \A i \in 1 .. Len(w) : x[i] = w[i]
      /\ x[Len(w) + 1] = u
  OBVIOUS
<1> HIDE DEF x
<1>2. \A i \in DOMAIN x : (i \in DOMAIN w /\ x[i] = w[i]) \/ (i = Len(w) + 1 /\ x[i] = u)
  BY <1>1
<1>3. \A i \in DOMAIN w : i \in DOMAIN x /\ x[i] = w[i]
  BY <1>1
<1>4. ~Req(u) /\ ~Rsp(u) /\ u.u # "header"
  BY DEF Plain, Req, Rsp
<1>5. StreamOK(x)
  <2>1. \A i \in DOMAIN x : x[i].u = "header" => i + 1 \in DOMAIN x /\ x[i + 1] = Body(x[i])
    BY <1>2, <1>3, <1>4 DEF WordOK, StreamOK
  <2>2. \A i, j \in DOMAIN x : Token(x[i]) /\ Token(x[j]) /\ x[i].m = x[j].m => i = j
    BY <1>2, <1>4 DEF WordOK, StreamOK, Token
  <2> QED BY <2>1, <2>2 DEF StreamOK
<1>6. \A i \in DOMAIN x : UnitOK(e, x[i], H, N)
  BY <1>2, <1>4 DEF WordOK, UnitOK
<1>7. \A i \in DOMAIN x : Rsp(x[i]) => \E j \in DOMAIN w : w[j] = x[i]
  BY <1>2, <1>4
<1>8. w # <<>> => x # <<>> /\ Head(x) = Head(w)
  <2> SUFFICES ASSUME w # <<>> PROVE x # <<>> /\ Head(x) = Head(w)
    OBVIOUS
  <2>1. 1 \in 1 .. Len(w) /\ Len(w) # 0
    BY <1>1, EmptySeq
  <2>2. Head(w) = w[1] /\ Head(x) = x[1] /\ x # <<>>
    BY <1>1, <2>1
  <2> QED BY <1>1, <2>1, <2>2
<1> QED BY <1>5, <1>6, <1>7, <1>8 DEF WordOK, x

LEMMA WordEmpty == ASSUME NEW e, NEW H, NEW N PROVE WordOK(e, <<>>, H, N)
BY DEF WordOK, StreamOK

LEMMA WordTail ==
    ASSUME NEW e, NEW w \in Seq(Units), w # <<>>, NEW H, NEW N, WordOK(e, w, H, N)
    PROVE  /\ WordOK(e, Tail(w), H, N) /\ UnitOK(e, Head(w), H, N)
           /\ Head(w).u = "header" => Tail(w) # <<>> /\ Head(Tail(w)) = Body(Head(w))
           /\ \A i \in DOMAIN Tail(w) : \E j \in DOMAIN w : w[j] = Tail(w)[i]
           /\ \A i \in DOMAIN Tail(w) : Token(Tail(w)[i]) /\ Token(Head(w)) => Tail(w)[i].m # Head(w).m
<1> DEFINE x == Tail(w)
<1>1. /\ Len(w) \in Nat \ {0} /\ DOMAIN w = 1 .. Len(w) /\ x \in Seq(Units) /\ Len(x) = Len(w) - 1
      /\ DOMAIN x = 1 .. Len(w) - 1 /\ Head(w) = w[1]
      /\ \A i \in 1 .. Len(w) - 1 : x[i] = w[i + 1]
  BY EmptySeq
<1> HIDE DEF x
<1>2. \A i \in DOMAIN x : i + 1 \in DOMAIN w /\ x[i] = w[i + 1] /\ i \in Int /\ i + 1 # 1
  BY <1>1
<1>3. 1 \in DOMAIN w
  BY <1>1
<1>4. \A i \in DOMAIN x : i + 1 + 1 \in DOMAIN w => i + 1 \in DOMAIN x
  BY <1>1
<1>5. StreamOK(x)
  <2>1. ASSUME NEW i \in DOMAIN x, x[i].u = "header" PROVE i + 1 \in DOMAIN x /\ x[i + 1] = Body(x[i])
    <3>1. i + 1 \in DOMAIN w /\ w[i + 1] = x[i]
      BY <1>2
    <3>2. i + 1 + 1 \in DOMAIN w /\ w[i + 1 + 1] = Body(x[i])
      BY <2>1, <3>1 DEF WordOK, StreamOK
    <3>3. i + 1 \in DOMAIN x
      BY <1>4, <3>2
    <3> QED BY <1>2, <3>2, <3>3
  <2>2. ASSUME NEW i \in DOMAIN x, NEW j \in DOMAIN x, Token(x[i]), Token(x[j]), x[i].m = x[j].m PROVE i = j
    <3>1. i + 1 = j + 1
      BY <1>2, <2>2 DEF WordOK, StreamOK
    <3> QED BY <1>2, <3>1
  <2> QED BY <2>1, <2>2 DEF StreamOK
<1>6. \A i \in DOMAIN x : UnitOK(e, x[i], H, N)
  BY <1>2 DEF WordOK
<1>7. UnitOK(e, Head(w), H, N)
  BY <1>1, <1>3 DEF WordOK
<1>8. Head(w).u = "header" => x # <<>> /\ Head(x) = Body(Head(w))
  <2> SUFFICES ASSUME w[1].u = "header" PROVE x # <<>> /\ Head(x) = Body(w[1])
    BY <1>1
  <2>1. 1 + 1 \in DOMAIN w /\ w[1 + 1] = Body(w[1])
    BY <1>3 DEF WordOK, StreamOK
  <2>2. 1 \in DOMAIN x /\ x[1] = w[1 + 1]
    BY <1>1, <2>1
  <2>3. x # <<>> /\ Head(x) = x[1]
    BY <1>1, <2>2
  <2> QED BY <2>1, <2>2, <2>3
<1>9. \A i \in DOMAIN x : Token(x[i]) /\ Token(w[1]) => x[i].m # w[1].m
  BY <1>2, <1>3 DEF WordOK, StreamOK
<1>10. \A i \in DOMAIN x : \E j \in DOMAIN w : w[j] = x[i]
  BY <1>2
<1> QED BY <1>1, <1>5, <1>6, <1>7, <1>8, <1>9, <1>10 DEF WordOK, x

LEMMA MessageFacts ==
    ASSUME NEW t \in UnitTypes, NEW m \in Nat
    PROVE  /\ Unit("header", t, m) \in Units /\ Unit("payload", t, m) \in Units
           /\ Body(Unit("header", t, m)) = Unit("payload", t, m)
           /\ Unit("header", t, m).u = "header" /\ Unit("header", t, m).t = t
           /\ Unit("payload", t, m).u = "payload" /\ Unit("payload", t, m).t = t /\ Unit("payload", t, m).m = m
<1>1. "header" \in UnitNames /\ "payload" \in UnitNames
  BY DEF UnitNames
<1>2. Unit("header", t, m) \in Units /\ Unit("payload", t, m) \in Units
  BY <1>1, UnitFacts
<1>3. Body(Unit("header", t, m)) = Unit("payload", t, m)
  BY DEF Unit, Body
<1>4. Unit("header", t, m).u = "header" /\ Unit("header", t, m).t = t
  BY DEF Unit
<1>5. Unit("payload", t, m).u = "payload" /\ Unit("payload", t, m).t = t /\ Unit("payload", t, m).m = m
  BY DEF Unit
<1> QED BY <1>2, <1>3, <1>4, <1>5

\* A message is written behind w.
LEMMA WordMessage ==
    ASSUME NEW e, NEW w \in Seq(Units), NEW H, NEW N, WordOK(e, w, H, N),
           NEW t \in {"sync", "async", "resp", "big"}, NEW m \in Nat,
           UnitOK(e, Unit("payload", t, m), H, N),
           \A i \in DOMAIN w : Token(w[i]) => w[i].m # m
    PROVE  /\ WordOK(e, w \o Message(t, m), H, N)
           /\ w # <<>> => w \o Message(t, m) # <<>> /\ Head(w \o Message(t, m)) = Head(w)
           /\ \A i \in DOMAIN (w \o Message(t, m)) :
                \/ \E j \in DOMAIN w : w[j] = (w \o Message(t, m))[i]
                \/ (w \o Message(t, m))[i] = Unit("payload", t, m)
                \/ (w \o Message(t, m))[i] = Unit("header", t, m)
<1> DEFINE a == Unit("header", t, m)  b == Unit("payload", t, m)  x == w \o <<a, b>>
<1>0. t \in UnitTypes
  BY DEF UnitTypes
<1>1. /\ a \in Units /\ b \in Units /\ Body(a) = b /\ a.u = "header" /\ a.t = t /\ b.u = "payload" /\ b.m = m
  BY <1>0, MessageFacts
<1>2. Message(t, m) = <<a, b>>
  BY DEF Message
<1> HIDE DEF a, b
<1>3. /\ x \in Seq(Units) /\ Len(x) = Len(w) + 2 /\ DOMAIN x = 1 .. Len(w) + 2 /\ Len(w) \in Nat /\ DOMAIN w = 1 .. Len(w)
      /\ \A i \in 1 .. Len(w) : x[i] = w[i]
      /\ x[Len(w) + 1] = a /\ x[Len(w) + 2] = b
  BY <1>1
<1> HIDE DEF x
<1>4. \A i \in DOMAIN x : \/ i \in DOMAIN w /\ x[i] = w[i] /\ i # Len(w) + 2
                          \/ i = Len(w) + 1 /\ x[i] = a
                          \/ i = Len(w) + 2 /\ x[i] = b
  BY <1>3
<1>5. \A i \in DOMAIN w : i \in DOMAIN x /\ x[i] = w[i]
  BY <1>3
<1>6. Len(w) + 1 + 1 = Len(w) + 2 /\ Len(w) + 2 \in DOMAIN x /\ x[Len(w) + 2] = b
  BY <1>3
<1>7. ~Token(a)
  BY <1>1 DEF Token, Req, Rsp
<1>8. StreamOK(x)
  <2>1. ASSUME NEW i \in DOMAIN x, x[i].u = "header" PROVE i + 1 \in DOMAIN x /\ x[i + 1] = Body(x[i])
    <3>1. CASE i \in DOMAIN w /\ x[i] = w[i]
      BY <1>5, <2>1, <3>1 DEF WordOK, StreamOK
    <3>2. CASE i = Len(w) + 1 /\ x[i] = a
      BY <1>1, <1>6, <3>2
    <3>3. CASE i = Len(w) + 2 /\ x[i] = b
      BY <1>1, <2>1, <3>3
    <3> QED BY <1>4, <3>1, <3>2, <3>3
  <2>2. \A i, j \in DOMAIN x : Token(x[i]) /\ Token(x[j]) /\ x[i].m = x[j].m => i = j
    BY <1>1, <1>4, <1>7 DEF WordOK, StreamOK
  <2> QED BY <2>1, <2>2 DEF StreamOK
<1>9. UnitOK(e, a, H, N)
  BY <1>1 DEF UnitOK, Req, Rsp
<1>10. \A i \in DOMAIN x : UnitOK(e, x[i], H, N)
  BY <1>4, <1>9 DEF WordOK, b
<1>11. w # <<>> => x # <<>> /\ Head(x) = Head(w)
  <2> SUFFICES ASSUME w # <<>> PROVE x # <<>> /\ Head(x) = Head(w)
    OBVIOUS
  <2>1. 1 \in 1 .. Len(w) /\ Len(w) # 0
    BY <1>3, EmptySeq
  <2>2. Head(w) = w[1] /\ Head(x) = x[1] /\ x # <<>>
    BY <1>3, <2>1
  <2> QED BY <1>3, <2>1, <2>2
<1>12. \A i \in DOMAIN x : (\E j \in DOMAIN w : w[j] = x[i]) \/ x[i] = b \/ x[i] = a
  BY <1>4
<1>13. w \o Message(t, m) = x
  BY <1>2 DEF x
<1> QED BY <1>8, <1>10, <1>11, <1>12, <1>13 DEF WordOK, a, b

-----------------------------------------------------------------------------
(* Histories.                                                              *)

\* From H to H2 what is known of messages other than m stays; what is known of
\* those that wait, other than m; and no message waits that did not.
Carries(H, H2, m) ==
    \A l \in Msgs \ {m} : /\ H2.from[l] = H.from[l] /\ H2.runs[l] = H.runs[l] /\ H2.replies[l] = H.replies[l]
                          /\ Good(H, l) => Good(H2, l)
WaitersKept(H, H2, m) == \A l \in Msgs \ {m} : H2.from[l] = H.from[l] /\ H2.result[l] = H.result[l]
FewerAt(e, H, H2) ==
    \A l \in Msgs : H2.from[l] = e /\ H2.result[l] = "waits" => H.result[l] = "waits" /\ H2.from[l] = H.from[l]
Fewer(H, H2) == \A l \in Msgs : H2.result[l] = "waits" => H.result[l] = "waits" /\ H2.from[l] = H.from[l]

\* Message m is nowhere on the way, in no hands, on no stack.
Absent(q, m) == \A e \in Ends : \A i \in DOMAIN q[e] : Token(q[e][i]) => q[e][i].m # m
Unready(c, m) == \A e \in Ends : c[e].ready => c[e].resp # m
NoFrame(k, kinds, m) == \A i \in DOMAIN k : k[i].k \in kinds => k[i].m # m

\* Units on their way and the data of the connections.
Pair(c, q, H, N) == NetOK(q, H, N) /\ ConnsOK(c, q, H, N)

LEMMA RangeFacts ==
    ASSUME NEW N \in 0 .. MaxMsgs, NEW N2 \in {N, N + 1}
    PROVE  /\ N \in Nat /\ N2 \in Nat /\ 1 .. N \subseteq Msgs /\ 1 .. N \subseteq 1 .. N2 /\ MaxMsgs \in Nat
           /\ 0 \notin Msgs
<1>1. MaxMsgs \in Nat
  BY IpcAssumption
<1> QED BY <1>1 DEF Msgs

LEMMA WordCarried ==
    ASSUME NEW e, NEW w, NEW H, NEW H2, NEW N \in 0 .. MaxMsgs, NEW N2 \in {N, N + 1}, NEW m,
           WordOK(e, w, H, N), Carries(H, H2, m), \A i \in DOMAIN w : Token(w[i]) => w[i].m # m
    PROVE  WordOK(e, w, H2, N2)
<1>1. 1 .. N \subseteq Msgs /\ 1 .. N \subseteq 1 .. N2
  BY RangeFacts
<1>2. ASSUME NEW i \in DOMAIN w PROVE UnitOK(e, w[i], H2, N2)
  <2> DEFINE u == w[i]
  <2>1. UnitOK(e, u, H, N) /\ (Token(u) => u.m # m)
    BY DEF WordOK
  <2> HIDE DEF u
  <2>2. Req(u) => /\ u.m \in 1 .. N2 /\ H2.from[u.m] = Peer(e) /\ H2.runs[u.m] = 0 /\ H2.replies[u.m] = 0
                  /\ u.t = "sync" => Good(H2, u.m)
    BY <1>1, <2>1 DEF UnitOK, Carries, Token
  <2>3. Rsp(u) => u.m \in 1 .. N2 /\ H2.from[u.m] = e /\ H2.replies[u.m] = 1 /\ Good(H2, u.m)
    BY <1>1, <2>1 DEF UnitOK, Carries, Token
  <2>4. UnitOK(e, u, H2, N2)
    BY <2>1, <2>2, <2>3 DEF UnitOK
  <2> QED BY <2>4 DEF u
<1> QED BY <1>2 DEF WordOK

LEMMA ConnCarried ==
    ASSUME NEW e, NEW c, NEW w, NEW H, NEW H2, NEW N, NEW N2 \in {N, N + 1}, NEW m, HistOK(H, N),
           ConnOK(e, c, w, H, N), Carries(H, H2, m), FewerAt(e, H, H2), c.ready => c.resp # m, N2 <= MaxMsgs
    PROVE  ConnOK(e, c, w, H2, N2)
<1>1. N \in 0 .. MaxMsgs
  BY DEF HistOK
<1>2. 1 .. N \subseteq Msgs /\ 1 .. N \subseteq 1 .. N2 /\ N \in Nat /\ N2 \in Nat /\ MaxMsgs \in Nat
  BY <1>1, RangeFacts
<1>3. AddrOK(e, c) /\ ParseOK(c, w) /\ ReadyOK(e, c, w, H, N) /\ WaitOK(e, c, H, N)
  BY DEF ConnOK
<1>4. ReadyOK(e, c, w, H2, N2)
  BY <1>2, <1>3 DEF ReadyOK, Carries
<1>5. ASSUME NEW l \in 1 .. N2, H2.from[l] = e, H2.result[l] = "waits" PROVE l \in 1 .. N /\ H.result[l] = "waits" /\ H2.from[l] = H.from[l]
  <2>1. l \in Msgs
    BY <1>2 DEF Msgs
  <2>2. H.result[l] = "waits" /\ H2.from[l] = H.from[l]
    BY <1>5, <2>1 DEF FewerAt
  <2>3. ~(l > N)
    BY <2>1, <2>2 DEF HistOK
  <2> QED BY <1>2, <2>2, <2>3
<1>6. WaitOK(e, c, H2, N2)
  <2> SUFFICES ASSUME c.st # "freed", NEW l \in 1 .. N2, H2.from[l] = e, H2.result[l] = "waits"
               PROVE  c.waiting /\ \A j \in 1 .. N2 : H2.from[j] = e /\ H2.result[j] = "waits" => j = l
    BY DEF WaitOK
  <2>1. l \in 1 .. N /\ H.result[l] = "waits" /\ H.from[l] = e
    BY <1>5
  <2>2. c.waiting
    BY <1>3, <2>1 DEF WaitOK
  <2>3. ASSUME NEW j \in 1 .. N2, H2.from[j] = e, H2.result[j] = "waits" PROVE j = l
    <3>1. j \in 1 .. N /\ H.result[j] = "waits" /\ H.from[j] = e
      BY <1>5, <2>3
    <3> QED BY <1>3, <2>1, <3>1 DEF WaitOK
  <2> QED BY <2>2, <2>3
<1> QED BY <1>3, <1>4, <1>6 DEF ConnOK

LEMMA PairCarried ==
    ASSUME NEW c, NEW q, NEW H, NEW H2, NEW N, NEW N2 \in {N, N + 1}, NEW m, HistOK(H, N), N2 <= MaxMsgs,
           Pair(c, q, H, N), Carries(H, H2, m), Fewer(H, H2), Absent(q, m), Unready(c, m)
    PROVE  Pair(c, q, H2, N2)
<1>1. N \in 0 .. MaxMsgs
  BY DEF HistOK
<1>2. ASSUME NEW e \in Ends PROVE WordOK(e, q[e], H2, N2)
  <2>1. WordOK(e, q[e], H, N) /\ \A i \in DOMAIN q[e] : Token(q[e][i]) => q[e][i].m # m
    BY DEF Pair, NetOK, Absent
  <2> DEFINE w == q[e]
  <2> HIDE DEF w
  <2>2. WordOK(e, w, H, N) /\ \A i \in DOMAIN w : Token(w[i]) => w[i].m # m
    BY <2>1 DEF w
  <2>3. WordOK(e, w, H2, N2)
    BY <1>1, <2>2, WordCarried
  <2> QED BY <2>3 DEF w
<1>3. ASSUME NEW e \in Ends PROVE ConnOK(e, c[e], q[e], H2, N2)
  <2> DEFINE w == q[e]  d == c[e]
  <2>1. ConnOK(e, d, w, H, N) /\ (d.ready => d.resp # m)
    BY DEF Pair, ConnsOK, Unready
  <2> HIDE DEF w, d
  <2>a. FewerAt(e, H, H2)
    BY DEF Fewer, FewerAt
  <2>2. ConnOK(e, d, w, H2, N2)
    BY <2>1, <2>a, ConnCarried
  <2> QED BY <2>2 DEF w, d
<1> QED BY <1>2, <1>3 DEF Pair, NetOK, ConnsOK

LEMMA FramesCarried ==
    ASSUME NEW p, NEW k, NEW H, NEW H2, NEW N \in 0 .. MaxMsgs, NEW N2 \in {N, N + 1}, NEW m, NEW l,
           FramesOK(p, k, H, N), Carries(H, H2, m), WaitersKept(H, H2, l),
           NoFrame(k, Evals, m), NoFrame(k, Waits, l)
    PROVE  FramesOK(p, k, H2, N2)
<1>1. 1 .. N \subseteq Msgs /\ 1 .. N \subseteq 1 .. N2
  BY RangeFacts
<1>2. ASSUME NEW i \in DOMAIN k PROVE FrameMsg(p, k[i], H2, N2)
  <2> DEFINE f == k[i]
  <2>1. FrameMsg(p, f, H, N) /\ (f.k \in Evals => f.m # m) /\ (f.k \in Waits => f.m # l)
    BY DEF FramesOK, NoFrame
  <2> HIDE DEF f
  <2>2. f.k \in Evals => /\ f.m \in 1 .. N2 /\ f.e # None /\ Owner(f.e) = p /\ H2.from[f.m] = Peer(f.e)
                         /\ H2.runs[f.m] = 1 /\ H2.replies[f.m] = 0
                         /\ f.k = "eval" => Good(H2, f.m)
    BY <1>1, <2>1 DEF FrameMsg, Carries
  <2>3. f.k \in Waits => /\ f.m \in 1 .. N2 /\ f.e # None /\ Owner(f.e) = p /\ H2.from[f.m] = f.e
                         /\ H2.result[f.m] = "waits"
    BY <1>1, <2>1 DEF FrameMsg, WaitersKept
  <2>4. FrameMsg(p, f, H2, N2)
    BY <2>2, <2>3 DEF FrameMsg
  <2> QED BY <2>4 DEF f
<1> QED BY <1>2 DEF FramesOK

\* A history that differs only in what is not about messages.
Alien(H, H2) ==
    /\ H2.from = H.from /\ H2.runs = H.runs /\ H2.replies = H.replies /\ H2.result = H.result

LEMMA AlienFacts ==
    ASSUME NEW H, NEW H2, Alien(H, H2)
    PROVE  Carries(H, H2, 0) /\ WaitersKept(H, H2, 0) /\ Fewer(H, H2)
<1>1. H2.from = H.from /\ H2.runs = H.runs /\ H2.replies = H.replies /\ H2.result = H.result
  BY DEF Alien
<1>2. \A l : Good(H, l) => Good(H2, l)
  BY <1>1 DEF Good, Spoilt
<1> QED BY <1>1, <1>2 DEF Carries, WaitersKept, Fewer

LEMMA Positive ==
    ASSUME NEW c, NEW q, NEW H, NEW N \in Nat, Pair(c, q, H, N)
    PROVE  Absent(q, 0) /\ Unready(c, 0)
<1>1. ASSUME NEW e \in Ends, NEW i \in DOMAIN q[e], Token(q[e][i]) PROVE q[e][i].m # 0
  <2>1. UnitOK(e, q[e][i], H, N)
    BY DEF Pair, NetOK, WordOK
  <2>2. q[e][i].m \in 1 .. N
    BY <1>1, <2>1 DEF UnitOK, Token
  <2> QED BY <2>2
<1>2. ASSUME NEW e \in Ends, c[e].ready PROVE c[e].resp # 0
  <2>1. c[e].resp \in 1 .. N
    BY <1>2 DEF Pair, ConnsOK, ConnOK, ReadyOK
  <2> QED BY <2>1
<1> QED BY <1>1, <1>2 DEF Absent, Unready

LEMMA FramesPositive ==
    ASSUME NEW p, NEW k, NEW H, NEW N \in Nat, FramesOK(p, k, H, N), NEW m, m = 0 \/ m = N + 1
    PROVE  NoFrame(k, Evals, m) /\ NoFrame(k, Waits, m)
<1>1. \A i \in DOMAIN k : FrameMsg(p, k[i], H, N)
  BY DEF FramesOK
<1>2. m \notin 1 .. N
  OBVIOUS
<1> QED BY <1>1, <1>2 DEF FrameMsg, NoFrame

-----------------------------------------------------------------------------
(* Connections and what is on its way to them.                             *)

LEMMA PairConn ==
    ASSUME NEW c \in [Ends -> Conns], NEW q, NEW H, NEW N, Pair(c, q, H, N), NEW e \in Ends, NEW d,
           ConnOK(e, d, q[e], H, N)
    PROVE  Pair([c EXCEPT ![e] = d], q, H, N)
<1> DEFINE b == [c EXCEPT ![e] = d]
<1>1. b[e] = d /\ \A x \in Ends \ {e} : b[x] = c[x]
  OBVIOUS
<1> HIDE DEF b
<1>2. \A x \in Ends : ConnOK(x, b[x], q[x], H, N)
  <2> TAKE x \in Ends
  <2>1. CASE x = e
    BY <1>1, <2>1
  <2>2. CASE x # e
    <3>1. b[x] = c[x] /\ ConnOK(x, c[x], q[x], H, N)
      BY <1>1, <2>2 DEF Pair, ConnsOK
    <3> QED BY <3>1
  <2> QED BY <2>1, <2>2
<1> QED BY <1>2 DEF Pair, ConnsOK, b

LEMMA PairWord ==
    ASSUME NEW c, NEW q \in Sockets, NEW H, NEW N, Pair(c, q, H, N), NEW e \in Ends, NEW w,
           WordOK(e, w, H, N), ConnOK(e, c[e], w, H, N)
    PROVE  Pair(c, [q EXCEPT ![e] = w], H, N)
<1> DEFINE b == [q EXCEPT ![e] = w]
<1>1. b[e] = w /\ \A x \in Ends \ {e} : b[x] = q[x]
  BY DEF Sockets
<1> HIDE DEF b
<1>2. \A x \in Ends : WordOK(x, b[x], H, N) /\ ConnOK(x, c[x], b[x], H, N)
  <2> TAKE x \in Ends
  <2>1. CASE x = e
    BY <1>1, <2>1
  <2>2. CASE x # e
    <3>1. b[x] = q[x] /\ ConnOK(x, c[x], q[x], H, N) /\ WordOK(x, q[x], H, N)
      BY <1>1, <2>2 DEF Pair, ConnsOK, NetOK
    <3> QED BY <3>1
  <2> QED BY <2>1, <2>2
<1> QED BY <1>2 DEF Pair, ConnsOK, NetOK, b

\* More units behind w.
LEMMA ConnGrown ==
    ASSUME NEW e, NEW c, NEW w, NEW x, NEW H, NEW N, ConnOK(e, c, w, H, N),
           w # <<>> => x # <<>> /\ Head(x) = Head(w),
           \A i \in DOMAIN x : Rsp(x[i]) => (\E j \in DOMAIN w : w[j] = x[i]) \/ (c.ready => x[i].m # c.resp)
    PROVE  ConnOK(e, c, x, H, N)
<1>1. AddrOK(e, c) /\ ParseOK(c, w) /\ ReadyOK(e, c, w, H, N) /\ WaitOK(e, c, H, N)
  BY DEF ConnOK
<1>2. ParseOK(c, x)
  BY <1>1 DEF ParseOK
<1>3. c.ready => \A i \in DOMAIN x : Rsp(x[i]) => x[i].m # c.resp
  BY <1>1 DEF ReadyOK
<1>4. ReadyOK(e, c, x, H, N)
  BY <1>1, <1>3 DEF ReadyOK
<1> QED BY <1>1, <1>2, <1>4 DEF ConnOK

LEMMA PairPlain ==
    ASSUME NEW c, NEW q \in Sockets, NEW H, NEW N, Pair(c, q, H, N), NEW e \in Ends, NEW u \in Units, Plain(u)
    PROVE  Pair(c, Write(q, e, <<u>>), H, N)
<1> DEFINE x == Peer(e)  w == q[x]  v == w \o <<u>>
<1>1. x \in Ends
  BY EndFacts
<1>2. w \in Seq(Units)
  BY <1>1 DEF Sockets
<1>3. WordOK(x, w, H, N) /\ ConnOK(x, c[x], w, H, N)
  BY <1>1 DEF Pair, NetOK, ConnsOK
<1>4. Write(q, e, <<u>>) = q \/ Write(q, e, <<u>>) = [q EXCEPT ![x] = v]
  BY <1>1 DEF Write, Sockets
<1> HIDE DEF x, w
<1>5. /\ WordOK(x, v, H, N) /\ (w # <<>> => v # <<>> /\ Head(v) = Head(w))
      /\ \A i \in DOMAIN v : Rsp(v[i]) => \E j \in DOMAIN w : w[j] = v[i]
  BY <1>2, <1>3, WordPlain
<1> HIDE DEF v
<1> DEFINE d == c[x]
<1>6. ConnOK(x, d, w, H, N)
  BY <1>3
<1> HIDE DEF d
<1>7. ConnOK(x, d, v, H, N)
  BY <1>5, <1>6, ConnGrown
<1>8. Pair(c, [q EXCEPT ![x] = v], H, N)
  BY <1>1, <1>5, <1>7, PairWord DEF d
<1> QED BY <1>4, <1>8

LEMMA PairMessage ==
    ASSUME NEW c, NEW q \in Sockets, NEW H, NEW N, Pair(c, q, H, N), NEW e \in Ends,
           NEW t \in {"sync", "async", "resp", "big"}, NEW m \in Nat,
           UnitOK(Peer(e), Unit("payload", t, m), H, N),
           \A i \in DOMAIN q[Peer(e)] : Token(q[Peer(e)][i]) => q[Peer(e)][i].m # m,
           t = "resp" /\ c[Peer(e)].ready => c[Peer(e)].resp # m
    PROVE  Pair(c, Write(q, e, Message(t, m)), H, N)
<1> DEFINE x == Peer(e)  w == q[x]  v == w \o Message(t, m)  d == c[x]
<1>1. x \in Ends
  BY EndFacts
<1>2. w \in Seq(Units)
  BY <1>1 DEF Sockets
<1>3. WordOK(x, w, H, N) /\ ConnOK(x, d, w, H, N)
  BY <1>1 DEF Pair, NetOK, ConnsOK
<1>4. Write(q, e, Message(t, m)) = q \/ Write(q, e, Message(t, m)) = [q EXCEPT ![x] = v]
  BY <1>1 DEF Write, Sockets
<1>5. /\ UnitOK(x, Unit("payload", t, m), H, N) /\ (\A i \in DOMAIN w : Token(w[i]) => w[i].m # m)
      /\ t = "resp" /\ d.ready => d.resp # m
  OBVIOUS
<1> HIDE DEF x, w, d
<1>6. /\ WordOK(x, v, H, N) /\ (w # <<>> => v # <<>> /\ Head(v) = Head(w))
      /\ \A i \in DOMAIN v : (\E j \in DOMAIN w : w[j] = v[i]) \/ v[i] = Unit("payload", t, m) \/ v[i] = Unit("header", t, m)
  <2>1. t \in {"sync", "async", "resp", "big"} /\ m \in Nat
    OBVIOUS
  <2>2. /\ WordOK(x, w \o Message(t, m), H, N)
        /\ w # <<>> => w \o Message(t, m) # <<>> /\ Head(w \o Message(t, m)) = Head(w)
        /\ \A i \in DOMAIN (w \o Message(t, m)) :
             \/ \E j \in DOMAIN w : w[j] = (w \o Message(t, m))[i]
             \/ (w \o Message(t, m))[i] = Unit("payload", t, m)
             \/ (w \o Message(t, m))[i] = Unit("header", t, m)
    BY <1>2, <1>3, <1>5, <2>1, WordMessage, Zenon
  <2> QED BY <2>2, Zenon
<1>7. t \in UnitTypes
  BY DEF UnitTypes
<1>8. /\ Rsp(Unit("payload", t, m)) => t = "resp"
      /\ Unit("payload", t, m).m = m /\ ~Rsp(Unit("header", t, m))
  BY <1>7, MessageFacts DEF Rsp
<1> HIDE DEF v
<1>9. \A i \in DOMAIN v : Rsp(v[i]) => (\E j \in DOMAIN w : w[j] = v[i]) \/ (d.ready => v[i].m # d.resp)
  BY <1>5, <1>6, <1>8
<1>10. ConnOK(x, d, v, H, N)
  BY <1>3, <1>6, <1>9, ConnGrown
<1>11. Pair(c, [q EXCEPT ![x] = v], H, N)
  BY <1>1, <1>6, <1>10, PairWord DEF d
<1> QED BY <1>4, <1>11

\* A unit is read.
LEMMA PairTake ==
    ASSUME ep \in [Ends -> Conns], net \in Sockets, NEW H, NEW N, Pair(ep, net, H, N), NEW e \in Ends, net[e] # <<>>,
           NEW d, ConnOK(e, d, Tail(net[e]), H, N)
    PROVE  Pair([ep EXCEPT ![e] = d], Consumed(e), H, N)
<1> DEFINE w == Tail(net[e])  q == [net EXCEPT ![e] = w]
<1>1. net[e] \in Seq(Units) /\ WordOK(e, net[e], H, N)
  BY DEF Sockets, Pair, NetOK
<1>2. WordOK(e, w, H, N)
  <2> DEFINE v == net[e]
  <2>1. v \in Seq(Units) /\ WordOK(e, v, H, N) /\ v # <<>>
    BY <1>1
  <2> HIDE DEF v
  <2>2. WordOK(e, Tail(v), H, N)
    BY <2>1, WordTail
  <2> QED BY <2>2 DEF v
<1>3. Consumed(e) = q
  BY DEF Consumed
<1> DEFINE b == [ep EXCEPT ![e] = d]
<1>4. b[e] = d /\ \A x \in Ends \ {e} : b[x] = ep[x]
  OBVIOUS
<1>5. q[e] = w /\ \A x \in Ends \ {e} : q[x] = net[x]
  BY DEF Sockets
<1>6. ConnOK(e, d, w, H, N)
  OBVIOUS
<1> HIDE DEF w, b, q
<1>7. ASSUME NEW x \in Ends PROVE WordOK(x, q[x], H, N) /\ ConnOK(x, b[x], q[x], H, N)
  <2>1. CASE x = e
    BY <1>2, <1>4, <1>5, <1>6, <2>1
  <2>2. CASE x # e
    <3>1. q[x] = net[x] /\ b[x] = ep[x] /\ WordOK(x, net[x], H, N) /\ ConnOK(x, ep[x], net[x], H, N)
      BY <1>4, <1>5, <2>2 DEF Pair, NetOK, ConnsOK
    <3> QED BY <3>1
  <2> QED BY <2>1, <2>2
<1>8. Pair(b, q, H, N)
  BY <1>7 DEF Pair, NetOK, ConnsOK
<1> QED BY <1>3, <1>8 DEF b

\* What the first of the units on their way says of the rest.
LEMMA NextUnit ==
    ASSUME ep \in [Ends -> Conns], net \in Sockets, NEW H, NEW N, Pair(ep, net, H, N), NEW e \in Ends, net[e] # <<>>
    PROVE  /\ UnitOK(e, Head(net[e]), H, N) /\ Head(net[e]) \in Units /\ ConnOK(e, ep[e], net[e], H, N)
           /\ Head(net[e]).u = "header" => Tail(net[e]) # <<>> /\ Head(Tail(net[e])) = Body(Head(net[e]))
           /\ ReadyOK(e, ep[e], Tail(net[e]), H, N)
           /\ \A i \in DOMAIN Tail(net[e]) : Token(Tail(net[e])[i]) /\ Token(Head(net[e])) => Tail(net[e])[i].m # Head(net[e]).m
<1> DEFINE w == net[e]
<1>1. w \in Seq(Units) /\ WordOK(e, w, H, N) /\ ConnOK(e, ep[e], w, H, N) /\ w # <<>>
  BY DEF Sockets, Pair, NetOK, ConnsOK
<1> HIDE DEF w
<1>2. /\ UnitOK(e, Head(w), H, N)
      /\ Head(w).u = "header" => Tail(w) # <<>> /\ Head(Tail(w)) = Body(Head(w))
      /\ \A i \in DOMAIN Tail(w) : \E j \in DOMAIN w : w[j] = Tail(w)[i]
      /\ \A i \in DOMAIN Tail(w) : Token(Tail(w)[i]) /\ Token(Head(w)) => Tail(w)[i].m # Head(w).m
  BY <1>1, WordTail
<1>3. Head(w) \in Units
  BY <1>1
<1> DEFINE d == ep[e]  v == Tail(w)
<1>4. ConnOK(e, d, w, H, N) /\ \A i \in DOMAIN v : \E j \in DOMAIN w : w[j] = v[i]
  BY <1>1, <1>2
<1> HIDE DEF d, v
<1>5. ReadyOK(e, d, v, H, N)
  <2>1. ReadyOK(e, d, w, H, N)
    BY <1>4 DEF ConnOK
  <2>2. d.ready => \A i \in DOMAIN v : Rsp(v[i]) => v[i].m # d.resp
    BY <1>4, <2>1 DEF ReadyOK
  <2> QED BY <2>1, <2>2 DEF ReadyOK
<1> QED BY <1>1, <1>2, <1>3, <1>5 DEF w, v, d

LEMMA PairRead ==
    ASSUME ep \in [Ends -> Conns], net \in Sockets, NEW H, NEW N, Pair(ep, net, H, N), NEW e \in Ends, net[e] # <<>>,
           ep[e].st # "payload"
    PROVE  Pair(ep, Consumed(e), H, N)
<1>1. ReadyOK(e, ep[e], Tail(net[e]), H, N) /\ ConnOK(e, ep[e], net[e], H, N)
  BY NextUnit
<1>2. ParseOK(ep[e], Tail(net[e]))
  BY DEF ParseOK
<1>3. ConnOK(e, ep[e], Tail(net[e]), H, N)
  BY <1>1, <1>2 DEF ConnOK
<1>4. Pair([ep EXCEPT ![e] = ep[e]], Consumed(e), H, N)
  BY <1>3, PairTake
<1>5. [ep EXCEPT ![e] = ep[e]] = ep
  OBVIOUS
<1> QED BY <1>4, <1>5

LEMMA EofPlain == Eof \in Units /\ Plain(Eof)
<1>1. "eof" \in UnitNames /\ "" \in UnitTypes /\ 0 \in Nat
  BY DEF UnitNames, UnitTypes
<1>2. Eof \in Units
  BY <1>1, UnitFacts DEF Eof
<1> QED BY <1>2 DEF Eof, Unit, Plain

\* An end is closed.
LEMMA PairShut ==
    ASSUME NEW c \in [Ends -> Conns], NEW q \in Sockets, NEW H, NEW N, Pair(c, q, H, N), NEW e \in Ends,
           NEW d, d.st = "freed", AddrOK(e, d), d.ready => c[e].ready /\ d.resp = c[e].resp
    PROVE  Pair([c EXCEPT ![e] = d], Shut(q, e), H, N)
<1> DEFINE w == Write(q, e, <<Eof>>)
<1>1. Pair(c, w, H, N)
  BY EofPlain, PairPlain
<1>2. w \in Sockets
  BY WriteType, UnitSeqs
<1>3. Shut(q, e) = [w EXCEPT ![e] = <<>>]
  BY DEF Shut
<1> HIDE DEF w
<1> DEFINE v == [w EXCEPT ![e] = <<>>]  b == [c EXCEPT ![e] = d]
<1>4. v[e] = <<>> /\ \A x \in Ends \ {e} : v[x] = w[x]
  BY <1>2 DEF Sockets
<1>5. b[e] = d /\ \A x \in Ends \ {e} : b[x] = c[x]
  OBVIOUS
<1>6. WordOK(e, <<>>, H, N)
  BY WordEmpty
<1>7. ConnOK(e, d, <<>>, H, N)
  <2>1. ReadyOK(e, c[e], w[e], H, N)
    BY <1>1 DEF Pair, ConnsOK, ConnOK
  <2>2. ReadyOK(e, d, <<>>, H, N)
    BY <2>1 DEF ReadyOK
  <2>3. ParseOK(d, <<>>) /\ WaitOK(e, d, H, N)
    BY DEF ParseOK, WaitOK
  <2> QED BY <2>2, <2>3 DEF ConnOK
<1> HIDE DEF v, b
<1>8. ASSUME NEW x \in Ends PROVE WordOK(x, v[x], H, N) /\ ConnOK(x, b[x], v[x], H, N)
  <2>1. CASE x = e
    BY <1>4, <1>5, <1>6, <1>7, <2>1
  <2>2. CASE x # e
    <3>1. v[x] = w[x] /\ b[x] = c[x] /\ WordOK(x, w[x], H, N) /\ ConnOK(x, c[x], w[x], H, N)
      BY <1>1, <1>4, <1>5, <2>2 DEF Pair, NetOK, ConnsOK
    <3> QED BY <3>1
  <2> QED BY <2>1, <2>2
<1>9. Pair(b, v, H, N)
  BY <1>8 DEF Pair, NetOK, ConnsOK
<1> QED BY <1>3, <1>9 DEF b, v

-----------------------------------------------------------------------------
(* Frames.                                                                 *)

LEMMA FramesFront ==
    ASSUME NEW p, NEW k \in Seq(Frames), k # <<>>, NEW H, NEW N, FramesOK(p, k, H, N)
    PROVE  /\ FramesOK(p, Front(k), H, N) /\ FrameMsg(p, Last(k), H, N)
           /\ Last(k).k \in Evals => NoFrame(Front(k), Evals, Last(k).m)
           /\ Last(k).k \in Waits => NoFrame(Front(k), Waits, Last(k).m)
<1> DEFINE b == Front(k)  f == Last(k)
<1>1. /\ Len(k) \in Nat \ {0} /\ DOMAIN k = 1 .. Len(k) /\ f = k[Len(k)]
      /\ DOMAIN b = 1 .. Len(k) - 1 /\ \A i \in 1 .. Len(k) - 1 : b[i] = k[i]
  BY FrontFacts
<1> HIDE DEF b, f
<1>2. \A i \in DOMAIN b : i \in DOMAIN k /\ b[i] = k[i] /\ i # Len(k)
  BY <1>1
<1>3. Len(k) \in DOMAIN k
  BY <1>1
<1>4. FramesOK(p, b, H, N)
  BY <1>2 DEF FramesOK
<1>5. FrameMsg(p, f, H, N)
  BY <1>1, <1>3 DEF FramesOK
<1>6. \A i \in DOMAIN b : Alike(b[i], f) => b[i].m # f.m
  BY <1>1, <1>2, <1>3 DEF FramesOK
<1>7. f.k \in Evals => NoFrame(b, Evals, f.m)
  BY <1>6 DEF NoFrame, Alike
<1>8. f.k \in Waits => NoFrame(b, Waits, f.m)
  BY <1>6 DEF NoFrame, Alike
<1> QED BY <1>4, <1>5, <1>7, <1>8 DEF b, f

LEMMA FramesPush ==
    ASSUME NEW p, NEW k \in Seq(Frames), NEW f \in Frames, NEW H, NEW N, FramesOK(p, k, H, N), FrameMsg(p, f, H, N),
           f.k \in Evals => NoFrame(k, Evals, f.m), f.k \in Waits => NoFrame(k, Waits, f.m)
    PROVE  FramesOK(p, Append(k, f), H, N)
<1> DEFINE b == Append(k, f)  l == Len(k) + 1
<1>1. /\ Len(k) \in Nat /\ l \in Nat /\ DOMAIN k = 1 .. Len(k) /\ DOMAIN b = 1 .. l
      /\ \A i \in 1 .. Len(k) : b[i] = k[i]
      /\ b[l] = f
  BY PushFacts
<1>2. \A i \in DOMAIN b : (i \in DOMAIN k /\ b[i] = k[i]) \/ (i = l /\ b[i] = f)
  BY <1>1
<1> HIDE DEF b, l
<1>3. \A i \in DOMAIN b : FrameMsg(p, b[i], H, N)
  BY <1>2 DEF FramesOK
<1>4. \A i \in DOMAIN k : Alike(k[i], f) \/ Alike(f, k[i]) => k[i].m # f.m
  BY DEF NoFrame, Alike
<1>5. \A i, j \in DOMAIN b : Alike(b[i], b[j]) /\ b[i].m = b[j].m => i = j
  BY <1>2, <1>4 DEF FramesOK
<1> QED BY <1>3, <1>5 DEF FramesOK, b

LEMMA FramesPlain ==
    ASSUME NEW p, NEW k \in Seq(Frames), NEW f \in Frames, NEW H, NEW N, FramesOK(p, k, H, N),
           f.k \notin Evals, f.k \notin Waits
    PROVE  FramesOK(p, Append(k, f), H, N)
<1>1. FrameMsg(p, f, H, N)
  BY DEF FrameMsg
<1> QED BY <1>1, FramesPush

LEMMA FramesNone == ASSUME NEW p, NEW H, NEW N PROVE FramesOK(p, <<>>, H, N)
BY DEF FramesOK

-----------------------------------------------------------------------------
(* Steps.                                                                  *)

LEMMA PeerOne ==
    ASSUME NEW e \in Ends, NEW x \in Ends, Peer(e) = Peer(x)
    PROVE  e = x
<1>1. e = <<e[1], e[2]>> /\ e[2] \in {"c", "s"} /\ x = <<x[1], x[2]>> /\ x[2] \in {"c", "s"}
  BY EndFacts
<1>2. Peer(e)[1] = e[1] /\ Peer(x)[1] = x[1] /\ Peer(e)[2] = (IF e[2] = "c" THEN "s" ELSE "c") /\ Peer(x)[2] = (IF x[2] = "c" THEN "s" ELSE "c")
  BY DEF Peer
<1> QED BY <1>1, <1>2

LEMMA PeerPeer == ASSUME NEW e \in Ends PROVE Peer(Peer(e)) = e
<1>1. e = <<e[1], e[2]>> /\ e[2] \in {"c", "s"}
  BY EndFacts
<1>2. Peer(e)[1] = e[1] /\ Peer(e)[2] = (IF e[2] = "c" THEN "s" ELSE "c")
  BY DEF Peer
<1>3. Peer(Peer(e)) = <<e[1], IF Peer(e)[2] = "c" THEN "s" ELSE "c">>
  BY <1>2 DEF Peer
<1> QED BY <1>1, <1>2, <1>3

\* What is known of process p.
LEMMA MsgParts ==
    ASSUME IpcInv, MsgInv, NEW p \in Procs
    PROVE  /\ Pair(ep, net, h, n.msgs) /\ HistOK(h, n.msgs) /\ h \in Histories /\ n.msgs \in Nat /\ n.msgs \in 0 .. MaxMsgs
           /\ FramesOK(p, stack[p], h, n.msgs) /\ stack[p] \in Seq(Frames)
           /\ ep \in [Ends -> Conns] /\ net \in Sockets
           /\ MaxMsgs \in Nat /\ n \in Counts
<1>1. HistOK(h, n.msgs) /\ Pair(ep, net, h, n.msgs) /\ FramesOK(p, stack[p], h, n.msgs)
  BY DEF MsgInv, StacksOK, Pair
<1>2. stack[p] \in Seq(Frames) /\ ep \in [Ends -> Conns] /\ net \in Sockets /\ n \in Counts
  BY Parts, TypesKept
<1>3. n.msgs \in Nat
  BY <1>2 DEF Counts
<1>4. h \in Histories /\ n.msgs \in 0 .. MaxMsgs
  BY <1>1 DEF HistOK
<1> QED BY <1>1, <1>2, <1>3, <1>4, IpcAssumption

\* A message's frames are in the process of one of its ends.
LEMMA Elsewhere ==
    ASSUME IpcInv, MsgInv, NEW p \in Procs, NEW q \in Procs, q # p, NEW e \in Ends, Owner(e) = p, NEW m
    PROVE  /\ h.from[m] = Peer(e) => NoFrame(stack[q], Evals, m)
           /\ h.from[m] = e => NoFrame(stack[q], Waits, m)
<1>1. FramesOK(q, stack[q], h, n.msgs) /\ stack[q] \in Seq(Frames)
  BY MsgParts
<1>2. ASSUME NEW i \in DOMAIN stack[q]
      PROVE  /\ h.from[m] = Peer(e) /\ stack[q][i].k \in Evals => stack[q][i].m # m
             /\ h.from[m] = e /\ stack[q][i].k \in Waits => stack[q][i].m # m
  <2> DEFINE f == stack[q][i]
  <2>1. FrameMsg(q, f, h, n.msgs) /\ f.e \in Ends \cup {None}
    BY <1>1, FrameTypes DEF FramesOK
  <2> HIDE DEF f
  <2>2. ASSUME h.from[m] = Peer(e), f.k \in Evals, f.m = m PROVE FALSE
    <3>1. f.e \in Ends /\ Owner(f.e) = q /\ Peer(f.e) = Peer(e)
      BY <2>1, <2>2 DEF FrameMsg
    <3>2. f.e = e
      BY <3>1, PeerOne
    <3> QED BY <3>1, <3>2
  <2>3. ASSUME h.from[m] = e, f.k \in Waits, f.m = m PROVE FALSE
    BY <2>1, <2>3 DEF FrameMsg
  <2> QED BY <2>2, <2>3 DEF f
<1> QED BY <1>2 DEF NoFrame

\* A step of p that changes the history of m and the result of l.
LEMMA MsgStep ==
    ASSUME IpcInv, MsgInv, NEW p \in Procs, Pair(ep', net', h', n'.msgs), HistOK(h', n'.msgs),
           n'.msgs \in {n.msgs, n.msgs + 1}, NEW m, NEW l, Carries(h, h', m), WaitersKept(h, h', l),
           NEW k, stack' = [stack EXCEPT ![p] = k], FramesOK(p, k, h', n'.msgs),
           \A q \in Procs \ {p} : NoFrame(stack[q], Evals, m) /\ NoFrame(stack[q], Waits, l)
    PROVE  MsgInv'
<1>1. stack \in [Procs -> Seq(Frames)]
  BY DEF IpcInv, Values
<1>2. n.msgs \in 0 .. MaxMsgs
  BY MsgParts
<1> DEFINE H == h  H2 == h'  N == n.msgs  N2 == n'.msgs
<1>3. ASSUME NEW q \in Procs PROVE FramesOK(q, stack'[q], H2, N2)
  <2>1. CASE q = p
    <3>1. stack'[q] = k
      BY <1>1, <2>1
    <3> QED BY <2>1, <3>1
  <2>2. CASE q # p
    <3>1. stack'[q] = stack[q]
      BY <1>1, <2>2
    <3> DEFINE s == stack[q]
    <3>2. FramesOK(q, s, H, N) /\ NoFrame(s, Evals, m) /\ NoFrame(s, Waits, l) /\ Carries(H, H2, m) /\ WaitersKept(H, H2, l)
          /\ N \in 0 .. MaxMsgs /\ N2 \in {N, N + 1}
      BY <1>2, <2>2, MsgParts
    <3> HIDE DEF s, H, H2, N, N2
    <3>3. FramesOK(q, s, H2, N2)
      BY <3>2, FramesCarried
    <3> QED BY <3>1, <3>3 DEF s
  <2> QED BY <2>1, <2>2
<1>4. StacksOK(stack', H2, N2)
  BY <1>3 DEF StacksOK
<1>5. NetOK(net', H2, N2) /\ ConnsOK(ep', net', H2, N2) /\ HistOK(H2, N2)
  BY DEF Pair
<1> QED BY <1>4, <1>5 DEF MsgInv

LEMMA HistAlien ==
    ASSUME NEW H, NEW H2, NEW N, HistOK(H, N), Alien(H, H2), H2 \in Histories
    PROVE  HistOK(H2, N)
<1>1. H2.from = H.from /\ H2.runs = H.runs /\ H2.replies = H.replies /\ H2.result = H.result
  BY DEF Alien
<1>2. \A e : Spoilt(H, e) => Spoilt(H2, e)
  BY <1>1 DEF Spoilt
<1> QED BY <1>1, <1>2 DEF HistOK

\* A step that does not change the history of any message.
LEMMA AlienStep ==
    ASSUME IpcInv, MsgInv, NEW p \in Procs, Pair(ep', net', h, n.msgs), h' \in Histories, Alien(h, h'),
           n'.msgs = n.msgs, NEW k, stack' = [stack EXCEPT ![p] = k], FramesOK(p, k, h, n.msgs)
    PROVE  MsgInv'
<1>1. /\ HistOK(h, n.msgs) /\ n.msgs \in Nat /\ n.msgs \in 0 .. MaxMsgs /\ n.msgs <= MaxMsgs
  BY MsgParts
<1> DEFINE H == h  H2 == h'  N == n.msgs  c == ep'  q == net'
<1>2. Carries(H, H2, 0) /\ WaitersKept(H, H2, 0) /\ Fewer(H, H2)
  BY AlienFacts
<1>3. Pair(c, q, H, N) /\ HistOK(H, N) /\ N \in Nat /\ N \in 0 .. MaxMsgs /\ N \in {N, N + 1} /\ N <= MaxMsgs
  BY <1>1
<1>4. \A x \in Procs : FramesOK(x, stack[x], H, N)
  BY MsgParts
<1>5. FramesOK(p, k, H, N) /\ Alien(H, H2) /\ H2 \in Histories
  OBVIOUS
<1> HIDE DEF H, H2, N, c, q
<1>6. Absent(q, 0) /\ Unready(c, 0)
  BY <1>3, Positive
<1>7. Pair(c, q, H2, N)
  BY <1>2, <1>3, <1>6, PairCarried
<1>8. \A x \in Procs : NoFrame(stack[x], Evals, 0) /\ NoFrame(stack[x], Waits, 0)
  BY <1>3, <1>4, FramesPositive
<1>9. NoFrame(k, Evals, 0) /\ NoFrame(k, Waits, 0)
  BY <1>3, <1>5, FramesPositive
<1>10. FramesOK(p, k, H2, N)
  BY <1>2, <1>3, <1>5, <1>9, FramesCarried
<1>11. HistOK(H2, N)
  BY <1>3, <1>5, HistAlien
<1> QED BY <1>1, <1>2, <1>7, <1>8, <1>10, <1>11, MsgStep DEF H, H2, N, c, q

-----------------------------------------------------------------------------
(* What steps do to the history.                                           *)

\* The fields of a history.
LEMMA HistFields ==
    ASSUME NEW H \in Histories
    PROVE  /\ H.from \in [Msgs -> Ends \cup {None}] /\ H.runs \in [Msgs -> Nat] /\ H.replies \in [Msgs -> Nat]
           /\ H.result \in [Msgs -> Results] /\ H.cancel \in SUBSET Nat /\ H.asked \in SUBSET Nat
           /\ H.opened \in [Ends -> Nat] /\ H.closed \in [Ends -> Nat] /\ H.fault \in BOOLEAN
BY DEF Histories

\* A request is evaluated or answered.
Served1(H, H2, m, r, v) ==
    /\ H2.from = H.from /\ H2.result = H.result /\ H2.runs = [H.runs EXCEPT ![m] = r]
    /\ H2.replies = [H.replies EXCEPT ![m] = v]

LEMMA HistServed ==
    ASSUME NEW H, NEW N, HistOK(H, N), NEW m \in 1 .. N, NEW H2 \in Histories, NEW r \in {0, 1}, NEW v \in {0, 1},
           Served1(H, H2, m, r, v)
    PROVE  /\ HistOK(H2, N) /\ Carries(H, H2, m) /\ WaitersKept(H, H2, 0) /\ Fewer(H, H2)
           /\ H2.from[m] = H.from[m] /\ H2.runs[m] = r /\ H2.replies[m] = v
           /\ Good(H, m) => Good(H2, m)
<1>1. /\ H2.from = H.from /\ H2.result = H.result /\ H2.runs = [H.runs EXCEPT ![m] = r]
      /\ H2.replies = [H.replies EXCEPT ![m] = v]
  BY DEF Served1
<1>2. /\ H \in Histories /\ N \in 0 .. MaxMsgs
      /\ \A l \in Msgs : H.runs[l] <= 1 /\ H.replies[l] <= 1
      /\ \A l \in Msgs : H.result[l] = "other" => Spoilt(H, H.from[l])
      /\ \A l \in Msgs : l > N => H.from[l] = None /\ H.runs[l] = 0 /\ H.replies[l] = 0 /\ H.result[l] = "none"
  BY DEF HistOK
<1>3. m \in Msgs /\ ~(m > N)
  BY <1>2, RangeFacts
<1>4. H.runs \in [Msgs -> Nat] /\ H.replies \in [Msgs -> Nat]
  BY <1>2, HistFields
<1>5. /\ H2.runs[m] = r /\ H2.replies[m] = v
      /\ \A l \in Msgs \ {m} : H2.runs[l] = H.runs[l] /\ H2.replies[l] = H.replies[l]
  BY <1>1, <1>3, <1>4
<1>6. \A e : Spoilt(H, e) => Spoilt(H2, e)
  BY <1>1 DEF Spoilt
<1>7. \A l : Good(H, l) => Good(H2, l)
  BY <1>1, <1>6 DEF Good
<1>8. \A l \in Msgs : H2.runs[l] <= 1 /\ H2.replies[l] <= 1
  BY <1>2, <1>5
<1>9. \A l \in Msgs : H2.result[l] = "other" => Spoilt(H2, H2.from[l])
  BY <1>1, <1>2, <1>6
<1>10. \A l \in Msgs : l > N => H2.from[l] = None /\ H2.runs[l] = 0 /\ H2.replies[l] = 0 /\ H2.result[l] = "none"
  BY <1>1, <1>2, <1>3, <1>5
<1>11. HistOK(H2, N)
  BY <1>2, <1>8, <1>9, <1>10 DEF HistOK
<1>12. Carries(H, H2, m) /\ WaitersKept(H, H2, 0) /\ Fewer(H, H2)
  BY <1>1, <1>5, <1>7 DEF Carries, WaitersKept, Fewer
<1> QED BY <1>1, <1>5, <1>7, <1>11, <1>12

LEMMA RunForm ==
    ASSUME NEW H \in Histories, NEW m \in Msgs, H.runs[m] = 0
    PROVE  /\ [H EXCEPT !.runs[m] = @ + 1] \in Histories
           /\ Served1(H, [H EXCEPT !.runs[m] = @ + 1], m, 1, H.replies[m])
<1> DEFINE r == [H.runs EXCEPT ![m] = 1]
<1>1. r \in [Msgs -> Nat] /\ H.replies = [H.replies EXCEPT ![m] = H.replies[m]]
  BY HistFields
<1>2. [H EXCEPT !.runs[m] = @ + 1] = [H EXCEPT !.runs = r]
  BY DEF Histories
<1> HIDE DEF r
<1>3. [H EXCEPT !.runs = r] \in Histories
  BY <1>1 DEF Histories
<1>4. /\ [H EXCEPT !.runs = r].from = H.from /\ [H EXCEPT !.runs = r].result = H.result
      /\ [H EXCEPT !.runs = r].replies = H.replies /\ [H EXCEPT !.runs = r].runs = r
  BY DEF Histories
<1>5. Served1(H, [H EXCEPT !.runs = r], m, 1, H.replies[m])
  BY <1>1, <1>4 DEF Served1, r
<1> QED BY <1>2, <1>3, <1>5

LEMMA ReplyForm ==
    ASSUME NEW H \in Histories, NEW m \in Msgs, NEW v \in {0, 1}, NEW C \in SUBSET Nat
    PROVE  /\ [H EXCEPT !.cancel = C, !.replies[m] = v] \in Histories
           /\ Served1(H, [H EXCEPT !.cancel = C, !.replies[m] = v], m, H.runs[m], v)
<1> DEFINE r == [H.replies EXCEPT ![m] = v]
<1>1. r \in [Msgs -> Nat] /\ H.runs = [H.runs EXCEPT ![m] = H.runs[m]]
  BY HistFields
<1>2. [H EXCEPT !.cancel = C, !.replies[m] = v] = [H EXCEPT !.cancel = C, !.replies = r]
  BY DEF Histories
<1> HIDE DEF r
<1> DEFINE H2 == [H EXCEPT !.cancel = C, !.replies = r]
<1>3. H2 \in Histories
  BY <1>1 DEF Histories
<1>4. /\ H2.from = H.from /\ H2.result = H.result /\ H2.replies = r /\ H2.runs = H.runs
  BY DEF Histories
<1> HIDE DEF H2
<1>5. Served1(H, H2, m, H.runs[m], v)
  BY <1>1, <1>4 DEF Served1, r
<1> QED BY <1>2, <1>3, <1>5 DEF H2

\* A request that waits gets its result.
LEMMA HistReturned ==
    ASSUME NEW H, NEW N, HistOK(H, N), NEW m \in 1 .. N, H.result[m] = "waits", NEW r \in {"error", "reply", "other"},
           r = "other" => Spoilt(H, H.from[m]), NEW H2, H2 = [H EXCEPT !.result[m] = r]
    PROVE  /\ HistOK(H2, N) /\ WaitersKept(H, H2, m) /\ Fewer(H, H2) /\ H2.from = H.from /\ H2.result[m] = r
           /\ Carries(H, H2, m) /\ (r # "reply" => Carries(H, H2, 0))
<1>1. /\ H \in Histories /\ N \in 0 .. MaxMsgs
      /\ \A l \in Msgs : H.runs[l] <= 1 /\ H.replies[l] <= 1
      /\ \A l \in Msgs : H.result[l] = "other" => Spoilt(H, H.from[l])
      /\ \A l \in Msgs : l > N => H.from[l] = None /\ H.runs[l] = 0 /\ H.replies[l] = 0 /\ H.result[l] = "none"
  BY DEF HistOK
<1>2. m \in Msgs /\ ~(m > N)
  BY <1>1, RangeFacts
<1> DEFINE s == [H.result EXCEPT ![m] = r]
<1>3. H.result \in [Msgs -> Results] /\ s \in [Msgs -> Results]
  <2>1. H.result \in [Msgs -> Results] /\ r \in Results
    BY <1>1, HistFields DEF Results
  <2> QED BY <2>1
<1>4. s[m] = r /\ \A l \in Msgs \ {m} : s[l] = H.result[l]
  BY <1>2, <1>3
<1>5. H2 = [H EXCEPT !.result = s]
  BY <1>1 DEF Histories
<1> HIDE DEF s
<1>6. H2 \in Histories /\ H2.from = H.from /\ H2.runs = H.runs /\ H2.replies = H.replies /\ H2.result = s
  BY <1>1, <1>3, <1>5 DEF Histories
<1>7. \A e : Spoilt(H, e) => Spoilt(H2, e)
  <2> SUFFICES ASSUME NEW e, NEW k \in Msgs, H.from[k] = e, H.result[k] = "error" PROVE Spoilt(H2, e)
    BY DEF Spoilt
  <2>1. H2.result[k] = "error" /\ H2.from[k] = e
    BY <1>4, <1>6
  <2> QED BY <2>1 DEF Spoilt
<1>8. ASSUME NEW l \in Msgs \ {m}, Good(H, l) PROVE Good(H2, l)
  BY <1>4, <1>6, <1>7, <1>8 DEF Good
<1>9. Carries(H, H2, m)
  BY <1>6, <1>8 DEF Carries
<1>10. WaitersKept(H, H2, m)
  BY <1>4, <1>6 DEF WaitersKept
<1>11. Fewer(H, H2)
  <2> SUFFICES ASSUME NEW l \in Msgs, H2.result[l] = "waits" PROVE H.result[l] = "waits" /\ H2.from[l] = H.from[l]
    BY DEF Fewer
  <2> QED BY <1>4, <1>6
<1>12. ASSUME r # "reply" PROVE Carries(H, H2, 0)
  <2>1. Spoilt(H2, H2.from[m])
    <3>1. CASE r = "error"
      BY <1>2, <1>4, <1>6, <3>1 DEF Spoilt
    <3>2. CASE r = "other"
      BY <1>6, <1>7, <3>2
    <3> QED BY <1>12, <3>1, <3>2
  <2>2. Good(H2, m)
    BY <2>1 DEF Good
  <2> QED BY <1>6, <1>8, <2>2 DEF Carries
<1>13. \A l \in Msgs : H2.result[l] = "other" => Spoilt(H2, H2.from[l])
  <2> SUFFICES ASSUME NEW l \in Msgs, H2.result[l] = "other" PROVE Spoilt(H2, H2.from[l])
    OBVIOUS
  <2>1. CASE l = m
    BY <1>4, <1>6, <1>7, <2>1
  <2>2. CASE l # m
    BY <1>1, <1>4, <1>6, <1>7, <2>2
  <2> QED BY <2>1, <2>2
<1>14. \A l \in Msgs : l > N => H2.from[l] = None /\ H2.runs[l] = 0 /\ H2.replies[l] = 0 /\ H2.result[l] = "none"
  BY <1>1, <1>2, <1>4, <1>6
<1>15. HistOK(H2, N)
  BY <1>1, <1>6, <1>13, <1>14 DEF HistOK
<1>16. H2.result[m] = r /\ H2.from = H.from
  BY <1>4, <1>6
<1> QED BY <1>9, <1>10, <1>11, <1>12, <1>15, <1>16

\* Message m begins, sent by end a (or by none) with result r.
Begun(H, H2, m, a, r) ==
    /\ H2 \in Histories /\ H2.from = [H.from EXCEPT ![m] = a] /\ H2.result = [H.result EXCEPT ![m] = r]
    /\ H2.runs = H.runs /\ H2.replies = H.replies

LEMMA HistBegun ==
    ASSUME NEW H, NEW N, HistOK(H, N), N < MaxMsgs, NEW m, m = N + 1, NEW H2, NEW a \in Ends \cup {None},
           NEW r \in {"none", "busy", "error", "waits"}, Begun(H, H2, m, a, r)
    PROVE  /\ HistOK(H2, m) /\ WaitersKept(H, H2, m) /\ Carries(H, H2, m) /\ (r # "waits" => Fewer(H, H2))
           /\ m \in Msgs /\ H2.from[m] = a /\ H2.result[m] = r /\ H2.runs[m] = 0 /\ H2.replies[m] = 0
<1>b. /\ H2 \in Histories /\ H2.from = [H.from EXCEPT ![m] = a] /\ H2.result = [H.result EXCEPT ![m] = r]
      /\ H2.runs = H.runs /\ H2.replies = H.replies
  BY DEF Begun
<1>1. /\ H \in Histories /\ N \in 0 .. MaxMsgs
      /\ \A l \in Msgs : H.runs[l] <= 1 /\ H.replies[l] <= 1
      /\ \A l \in Msgs : H.result[l] = "other" => Spoilt(H, H.from[l])
      /\ \A l \in Msgs : l > N => H.from[l] = None /\ H.runs[l] = 0 /\ H.replies[l] = 0 /\ H.result[l] = "none"
  BY DEF HistOK
<1>2. m \in Msgs /\ m > N /\ N \in Nat /\ MaxMsgs \in Nat /\ m \in 0 .. MaxMsgs
  BY <1>1, IpcAssumption DEF Msgs
<1>3. H.result \in [Msgs -> Results] /\ H.from \in [Msgs -> Ends \cup {None}]
  BY <1>1, HistFields
<1>4. /\ H2.from[m] = a /\ H2.result[m] = r
      /\ \A l \in Msgs \ {m} : H2.from[l] = H.from[l] /\ H2.result[l] = H.result[l]
  BY <1>2, <1>3, <1>b
<1>5. H.from[m] = None /\ H.runs[m] = 0 /\ H.replies[m] = 0 /\ H.result[m] = "none"
  BY <1>1, <1>2
<1>a. \A l \in Msgs : l > m => l > N /\ l # m
  BY <1>2 DEF Msgs
<1>6. \A e : Spoilt(H, e) => Spoilt(H2, e)
  <2> SUFFICES ASSUME NEW e, NEW k \in Msgs, H.from[k] = e, H.result[k] = "error" PROVE Spoilt(H2, e)
    BY DEF Spoilt
  <2>1. H2.result[k] = "error" /\ H2.from[k] = e
    BY <1>4, <1>5
  <2> QED BY <2>1 DEF Spoilt
<1>7. ASSUME NEW l \in Msgs \ {m}, Good(H, l) PROVE Good(H2, l)
  BY <1>4, <1>6, <1>7 DEF Good
<1>8. Carries(H, H2, m) /\ WaitersKept(H, H2, m)
  BY <1>4, <1>7, <1>b DEF Carries, WaitersKept
<1>9. r # "waits" => Fewer(H, H2)
  BY <1>4 DEF Fewer
<1>10. \A l \in Msgs : H2.result[l] = "other" => Spoilt(H2, H2.from[l])
  <2> SUFFICES ASSUME NEW l \in Msgs, H2.result[l] = "other" PROVE Spoilt(H2, H2.from[l])
    OBVIOUS
  <2>1. l # m
    BY <1>4
  <2> QED BY <1>1, <1>4, <1>6, <2>1
<1>11. \A l \in Msgs : l > m => H2.from[l] = None /\ H2.runs[l] = 0 /\ H2.replies[l] = 0 /\ H2.result[l] = "none"
  BY <1>1, <1>4, <1>a, <1>b
<1>12. HistOK(H2, m)
  BY <1>1, <1>2, <1>10, <1>11, <1>b DEF HistOK
<1>13. H2.runs[m] = 0 /\ H2.replies[m] = 0
  BY <1>5, <1>b
<1> QED BY <1>2, <1>4, <1>8, <1>9, <1>12, <1>13

LEMMA BegunForm ==
    ASSUME NEW H \in Histories, NEW m \in Msgs, NEW a \in Ends \cup {None}, NEW r \in Results, NEW H2,
           H2 = [H EXCEPT !.from = [H.from EXCEPT ![m] = a], !.result = [H.result EXCEPT ![m] = r]]
    PROVE  Begun(H, H2, m, a, r)
<1> DEFINE F == [H.from EXCEPT ![m] = a]  R == [H.result EXCEPT ![m] = r]
<1>1. /\ H.from \in [Msgs -> Ends \cup {None}] /\ H.result \in [Msgs -> Results]
      /\ F \in [Msgs -> Ends \cup {None}] /\ R \in [Msgs -> Results]
  BY HistFields
<1>2. H2 = [H EXCEPT !.from = F, !.result = R]
  OBVIOUS
<1> HIDE DEF F, R
<1>3. H2 \in Histories /\ H2.from = F /\ H2.result = R /\ H2.runs = H.runs /\ H2.replies = H.replies
  BY <1>1, <1>2 DEF Histories
<1> QED BY <1>3 DEF Begun, F, R

\* The three forms in which Send and Post write it.
LEMMA BegunBoth ==
    ASSUME NEW H \in Histories, NEW m \in Msgs, NEW a \in Ends \cup {None}, NEW r \in Results, NEW H2,
           H2 = [H EXCEPT !.from[m] = a, !.result[m] = r]
    PROVE  Begun(H, H2, m, a, r)
<1>1. H2 = [H EXCEPT !.from = [H.from EXCEPT ![m] = a], !.result = [H.result EXCEPT ![m] = r]]
  BY DEF Histories
<1> QED BY <1>1, BegunForm

LEMMA BegunFrom ==
    ASSUME NEW H \in Histories, NEW m \in Msgs, NEW a \in Ends \cup {None}, NEW H2,
           H2 = [H EXCEPT !.from[m] = a], H.result[m] = "none"
    PROVE  Begun(H, H2, m, a, "none")
<1>1. "none" \in Results /\ H.result = [H.result EXCEPT ![m] = "none"]
  BY HistFields DEF Results
<1>2. H2 = [H EXCEPT !.from = [H.from EXCEPT ![m] = a]]
  BY DEF Histories
<1> DEFINE F == [H.from EXCEPT ![m] = a]
<1>3. [H EXCEPT !.from = F] = [H EXCEPT !.from = F, !.result = H.result]
  <2> HIDE DEF F
  <2> QED BY DEF Histories
<1>4. H2 = [H EXCEPT !.from = [H.from EXCEPT ![m] = a], !.result = [H.result EXCEPT ![m] = "none"]]
  BY <1>1, <1>2, <1>3, Zenon
<1> QED BY <1>1, <1>4, BegunForm

LEMMA BegunResult ==
    ASSUME NEW H \in Histories, NEW m \in Msgs, NEW r \in Results, NEW H2,
           H2 = [H EXCEPT !.result[m] = r], H.from[m] = None
    PROVE  Begun(H, H2, m, None, r)
<1>1. None \in Ends \cup {None} /\ H.from = [H.from EXCEPT ![m] = None]
  BY HistFields
<1>2. H2 = [H EXCEPT !.result = [H.result EXCEPT ![m] = r]]
  BY DEF Histories
<1> DEFINE R == [H.result EXCEPT ![m] = r]
<1>3. [H EXCEPT !.result = R] = [H EXCEPT !.from = H.from, !.result = R]
  <2> HIDE DEF R
  <2> QED BY DEF Histories
<1>4. H2 = [H EXCEPT !.from = [H.from EXCEPT ![m] = None], !.result = [H.result EXCEPT ![m] = r]]
  BY <1>1, <1>2, <1>3, Zenon
<1> QED BY <1>1, <1>4, BegunForm

-----------------------------------------------------------------------------
(* Steps that leave the messages' history alone.                           *)

LEMMA TopMsg ==
    ASSUME IpcInv, MsgInv, NEW p \in Procs, stack[p] # <<>>
    PROVE  /\ FramesOK(p, Below(p), h, n.msgs) /\ FrameMsg(p, Top(p), h, n.msgs) /\ Below(p) \in Seq(Frames)
           /\ Top(p).k \in Evals => NoFrame(Below(p), Evals, Top(p).m)
           /\ Top(p).k \in Waits => NoFrame(Below(p), Waits, Top(p).m)
<1>1. FramesOK(p, stack[p], h, n.msgs) /\ stack[p] \in Seq(Frames)
  BY MsgParts
<1> DEFINE H == h  N == n.msgs  k == stack[p]
<1>2. FramesOK(p, k, H, N) /\ k \in Seq(Frames) /\ k # <<>>
  BY <1>1
<1>3. Below(p) \in Seq(Frames)
  BY TopFacts
<1> HIDE DEF H, N, k
<1>4. /\ FramesOK(p, Front(k), H, N) /\ FrameMsg(p, Last(k), H, N)
      /\ Last(k).k \in Evals => NoFrame(Front(k), Evals, Last(k).m)
      /\ Last(k).k \in Waits => NoFrame(Front(k), Waits, Last(k).m)
  BY <1>2, FramesFront
<1> QED BY <1>3, <1>4 DEF H, N, k, Top, Below

\* The history is what it was.
LEMMA SameStep ==
    ASSUME IpcInv, MsgInv, NEW p \in Procs, Pair(ep', net', h, n.msgs), UNCHANGED h, n'.msgs = n.msgs,
           NEW k, stack' = [stack EXCEPT ![p] = k], FramesOK(p, k, h, n.msgs)
    PROVE  MsgInv'
<1>1. h \in Histories
  BY MsgParts
<1>2. h' \in Histories /\ Alien(h, h')
  BY <1>1 DEF Alien
<1> QED BY <1>2, AlienStep

LEMMA StillStep ==
    ASSUME IpcInv, MsgInv, NEW p \in Procs, UNCHANGED <<ep, net, h>>, n'.msgs = n.msgs,
           NEW k, stack' = [stack EXCEPT ![p] = k], FramesOK(p, k, h, n.msgs)
    PROVE  MsgInv'
<1>1. Pair(ep, net, h, n.msgs)
  BY MsgParts
<1>2. Pair(ep', net', h, n.msgs)
  BY <1>1
<1> QED BY <1>2, SameStep

LEMMA StackSame ==
    ASSUME IpcInv, NEW p \in Procs
    PROVE  stack = [stack EXCEPT ![p] = stack[p]]
BY Parts

LEMMA EpollWaitMsg ==
    ASSUME IpcInv, MsgInv, NEW p \in Procs, EpollWait(p)
    PROVE  MsgInv'
<1>1. UNCHANGED <<ep, net, h, n, stack>>
  BY DEF EpollWait
<1>2. stack' = [stack EXCEPT ![p] = stack[p]] /\ FramesOK(p, stack[p], h, n.msgs)
  BY <1>1, StackSame, MsgParts
<1> QED BY <1>1, <1>2, StillStep

LEMMA TakeEventMsg ==
    ASSUME IpcInv, MsgInv, NEW p \in Procs, TakeEvent(p)
    PROVE  MsgInv'
<1> DEFINE v == Head(events[p])  kind == IF v.hup THEN "rxhup" ELSE "rx"  f == Frame(kind, v.id, v.e, 0, 0)
<1>1. UNCHANGED <<ep, net, h, n>>
  BY DEF TakeEvent
<1>2. CASE stack' = stack
  <2>1. stack' = [stack EXCEPT ![p] = stack[p]] /\ FramesOK(p, stack[p], h, n.msgs)
    BY <1>2, StackSame, MsgParts
  <2> QED BY <1>1, <2>1, StillStep
<1>3. CASE stack' = [stack EXCEPT ![p] = <<f>>]
  <2>1. f.k \in {"rx", "rxhup"}
    BY DEF Frame
  <2> HIDE DEF f
  <2> DEFINE k == <<f>>
  <2>2. DOMAIN k = {1} /\ k[1] = f
    OBVIOUS
  <2> HIDE DEF k
  <2>3. FramesOK(p, k, h, n.msgs)
    BY <2>1, <2>2 DEF FramesOK, FrameMsg, Alike, Evals, Waits
  <2> QED BY <1>1, <1>3, <2>3, StillStep DEF k
<1> QED BY <1>2, <1>3 DEF TakeEvent

LEMMA PopMsg ==
    ASSUME IpcInv, MsgInv, NEW p \in Procs, RxGone(p) \/ HookEnd(p)
    PROVE  MsgInv'
<1>1. /\ stack[p] # <<>> /\ stack' = [stack EXCEPT ![p] = Below(p)] /\ UNCHANGED <<ep, net, h, n>>
  BY DEF RxGone, HookEnd, In
<1>2. FramesOK(p, Below(p), h, n.msgs)
  BY <1>1, TopMsg
<1> QED BY <1>1, <1>2, StillStep

LEMMA AskedMsg ==
    ASSUME IpcInv, MsgInv, NEW p \in Procs, stack[p] # <<>>, UNCHANGED <<ep, net, stack>>, n'.msgs = n.msgs,
           h' = h \/ h' = [h EXCEPT !.asked = @ \cup {Top(p).m}]
    PROVE  MsgInv'
<1>1. /\ Pair(ep, net, h, n.msgs) /\ FramesOK(p, stack[p], h, n.msgs) /\ h \in Histories
      /\ stack' = [stack EXCEPT ![p] = stack[p]] /\ Top(p).m \in Nat
  BY StackSame, MsgParts, TopFacts
<1> DEFINE m == Top(p).m
<1>2. m \in Nat /\ (h' = h \/ h' = [h EXCEPT !.asked = @ \cup {m}])
  BY <1>1
<1> HIDE DEF m
<1>3. h' \in Histories /\ Alien(h, h')
  <2>1. CASE h' = h
    BY <1>1, <2>1 DEF Alien
  <2>2. CASE h' = [h EXCEPT !.asked = @ \cup {m}]
    <3> DEFINE a == h.asked \cup {m}
    <3>1. a \in SUBSET Nat /\ h' = [h EXCEPT !.asked = a]
      BY <1>1, <1>2, <2>2, HistFields DEF Histories
    <3> HIDE DEF a
    <3> QED BY <1>1, <3>1 DEF Histories, Alien
  <2> QED BY <1>2, <2>1, <2>2
<1>4. Pair(ep', net', h, n.msgs)
  BY <1>1
<1> QED BY <1>1, <1>3, <1>4, AlienStep

LEMMA SyncEintrMsg ==
    ASSUME IpcInv, MsgInv, NEW p \in Procs, SyncEintr(p)
    PROVE  MsgInv'
<1>1. stack[p] # <<>> /\ UNCHANGED <<ep, net, stack, n>>
  BY DEF SyncEintr, In
<1>2. h' = h \/ h' = [h EXCEPT !.asked = @ \cup {Top(p).m}]
  BY DEF SyncEintr
<1> QED BY <1>1, <1>2, AskedMsg

LEMMA CtrlCMsg ==
    ASSUME IpcInv, MsgInv, NEW p \in Procs, CtrlC(p)
    PROVE  MsgInv'
<1>1. /\ stack[p] # <<>> /\ UNCHANGED <<ep, net, stack>> /\ n' = [n EXCEPT !.cancels = @ + 1]
      /\ h' = [h EXCEPT !.asked = @ \cup {Top(p).m}]
  BY DEF CtrlC, Blocked, Pumped, Syncing, In
<1>2. n'.msgs = n.msgs
  BY <1>1, TypesKept DEF Counts
<1> QED BY <1>1, <1>2, AskedMsg

LEMMA CountedMsgs ==
    ASSUME IpcInv, NEW k \in {0, 1}
    PROVE  Counted(k).msgs = n.msgs + k /\ n.msgs + 0 = n.msgs
<1>1. n \in Counts
  BY TypesKept
<1> QED BY <1>1 DEF Counted, Counts

LEMMA ScriptMsg ==
    ASSUME IpcInv, MsgInv, NEW p \in Procs, Script(p)
    PROVE  MsgInv'
<1> DEFINE f == Frame("script", 0, None, 0, ctx[p])  k == <<f>>
<1>1. stack' = [stack EXCEPT ![p] = k] /\ n' = Counted(0) /\ UNCHANGED <<ep, net, h>>
  BY DEF Script
<1>2. f.k = "script"
  BY DEF Frame
<1>3. n'.msgs = n.msgs
  BY <1>1, CountedMsgs
<1> HIDE DEF f
<1>4. DOMAIN k = {1} /\ k[1] = f
  OBVIOUS
<1> HIDE DEF k
<1>5. FramesOK(p, k, h, n.msgs)
  BY <1>2, <1>4 DEF FramesOK, FrameMsg, Alike, Evals, Waits
<1> QED BY <1>1, <1>3, <1>5, StillStep

-----------------------------------------------------------------------------
(* Connections end.                                                        *)

LEMMA FreeMsg ==
    ASSUME IpcInv, MsgInv, NEW p \in Procs, NEW id, NEW k, Served(p, id, k), NEW q \in Sockets,
           Pair(ep, q, h, n.msgs), FramesOK(p, k, h, n.msgs), Free(p, id, sels[p][id], k, q), n'.msgs = n.msgs
    PROVE  MsgInv'
<1> DEFINE e == sels[p][id]  c == [Blank EXCEPT !.st = "freed", !.addr = ep[e].addr]
<1>1. e \in Ends /\ ep[e].st \in Live /\ ep[e].st # "freed"
  BY ServedFacts DEF Live
<1>2. /\ ep' = [ep EXCEPT ![e] = c] /\ stack' = [stack EXCEPT ![p] = k]
      /\ h' = [h EXCEPT !.fault = @ \/ ep[e].st = "freed"] /\ net' = Shut(q, e)
  BY <1>1 DEF Free
<1>3. ep \in [Ends -> Conns] /\ h \in Histories
  BY MsgParts
<1>4. ep[e].addr = e
  <2>1. AddrOK(e, ep[e])
    BY <1>1 DEF Pair, ConnsOK, ConnOK
  <2> QED BY <1>1, <2>1 DEF AddrOK
<1>5. c.st = "freed" /\ c.addr = e /\ c.ready = FALSE
  BY <1>4 DEF Blank
<1> HIDE DEF e, c
<1>6. AddrOK(e, c)
  BY <1>5 DEF AddrOK, Live
<1>7. Pair([ep EXCEPT ![e] = c], Shut(q, e), h, n.msgs)
  <2> DEFINE H == h  N == n.msgs
  <2>1. Pair(ep, q, H, N)
    OBVIOUS
  <2> HIDE DEF H, N
  <2>2. Pair([ep EXCEPT ![e] = c], Shut(q, e), H, N)
    BY <1>1, <1>3, <1>5, <1>6, <2>1, PairShut
  <2> QED BY <2>2 DEF H, N
<1>8. h' \in Histories /\ Alien(h, h')
  <2> DEFINE b == h.fault \/ ep[e].st = "freed"
  <2>1. h' = [h EXCEPT !.fault = b] /\ b \in BOOLEAN
    BY <1>2
  <2> HIDE DEF b
  <2> QED BY <1>3, <2>1 DEF Histories, Alien
<1>9. Pair(ep', net', h, n.msgs)
  BY <1>2, <1>7
<1> QED BY <1>2, <1>8, <1>9, AlienStep

LEMMA DeregisterMsg ==
    ASSUME IpcInv, MsgInv, NEW p \in Procs, NEW id, NEW k, Served(p, id, k), NEW q \in Sockets,
           Pair(ep, q, h, n.msgs), FramesOK(p, k, h, n.msgs), Deregister(p, id, k, q), n'.msgs = n.msgs
    PROVE  MsgInv'
<1> DEFINE e == sels[p][id]
<1>1. e \in Ends /\ id \in Ids /\ k \in Seq(Frames) /\ ctx[p] \in Ids /\ h \in Histories
  BY ServedFacts, Parts, MsgParts
<1>2. CASE Announced(e)
  <2> DEFINE f == Frame("dereg", id, e, 0, 0)  g == Frame("close", id, e, 0, ctx[p])
  <2>1. "dereg" \in FrameKinds /\ "close" \in FrameKinds /\ 0 \in Ids /\ 0 \in Nat /\ e \in Ends \cup {None}
    BY <1>1, KindFacts
  <2>2. f \in Frames /\ f.k = "dereg"
    BY <1>1, <2>1 DEF Frame, Frames
  <2>3. g \in Frames /\ g.k = "close"
    BY <1>1, <2>1 DEF Frame, Frames
  <2>4. /\ stack' = [stack EXCEPT ![p] = k \o <<f, g>>] /\ h' = [h EXCEPT !.closed[e] = @ + 1]
        /\ net' = q /\ UNCHANGED ep
    BY <1>2 DEF Deregister
  <2> HIDE DEF e, f, g
  <2>5. k \o <<f, g>> = Append(Append(k, f), g)
    BY <1>1, <2>2, <2>3
  <2>6. f.k \notin Evals /\ f.k \notin Waits /\ g.k \notin Evals /\ g.k \notin Waits
    BY <2>2, <2>3 DEF Evals, Waits
  <2> DEFINE b == Append(k, f)  a == Append(b, g)
  <2>7. b \in Seq(Frames) /\ FramesOK(p, b, h, n.msgs)
    <3> DEFINE H == h  N == n.msgs
    <3>1. FramesOK(p, k, H, N)
      OBVIOUS
    <3> HIDE DEF H, N
    <3>2. b \in Seq(Frames) /\ FramesOK(p, b, H, N)
      BY <1>1, <2>2, <2>6, <3>1, PushFacts, FramesPlain
    <3> QED BY <3>2 DEF H, N
  <2> HIDE DEF b
  <2>8. FramesOK(p, a, h, n.msgs)
    <3> DEFINE H == h  N == n.msgs
    <3>1. FramesOK(p, b, H, N)
      BY <2>7
    <3> HIDE DEF H, N
    <3>2. FramesOK(p, a, H, N)
      BY <2>3, <2>6, <2>7, <3>1, FramesPlain
    <3> QED BY <3>2 DEF H, N
  <2>9. stack' = [stack EXCEPT ![p] = a]
    BY <2>4, <2>5 DEF b
  <2>10. h' \in Histories /\ Alien(h, h')
    <3> DEFINE x == [h.closed EXCEPT ![e] = h.closed[e] + 1]
    <3>1. x \in [Ends -> Nat]
      BY <1>1, HistFields
    <3>2. h' = [h EXCEPT !.closed = x]
      BY <1>1, <2>4 DEF Histories
    <3> HIDE DEF x
    <3> QED BY <1>1, <3>1, <3>2 DEF Histories, Alien
  <2> HIDE DEF a
  <2>11. Pair(ep', net', h, n.msgs)
    BY <2>4
  <2> QED BY <2>8, <2>9, <2>10, <2>11, AlienStep
<1>3. CASE ~Announced(e)
  <2>1. Free(p, id, sels[p][id], k, q)
    BY <1>3 DEF Deregister
  <2> QED BY <2>1, FreeMsg
<1> QED BY <1>2, <1>3

LEMMA RxEndMsg ==
    ASSUME IpcInv, MsgInv, NEW p \in Procs, RxDry(p) \/ RxEof(p)
    PROVE  MsgInv'
<1>1. /\ In(p, {"rx", "rxhup"}) /\ stack[p] # <<>> /\ sels[p][Top(p).id] # None /\ UNCHANGED n
  BY DEF RxDry, RxEof, In
<1>2. Served(p, Top(p).id, Below(p)) /\ net \in Sockets /\ Pair(ep, net, h, n.msgs) /\ FramesOK(p, Below(p), h, n.msgs)
  BY <1>1, RxServed, MsgParts, TopMsg
<1>3. n'.msgs = n.msgs
  BY <1>1
<1>4. CASE Deregister(p, Top(p).id, Below(p), net)
  BY <1>2, <1>3, <1>4, DeregisterMsg
<1>5. CASE stack' = [stack EXCEPT ![p] = Below(p)] /\ UNCHANGED <<ep, sels, net, oob, ctx, h>>
  BY <1>2, <1>3, <1>5, StillStep
<1> QED BY <1>4, <1>5 DEF RxDry, RxEof

LEMMA DeregisterEndMsg ==
    ASSUME IpcInv, MsgInv, NEW p \in Procs, DeregisterEnd(p)
    PROVE  MsgInv'
<1>1. /\ In(p, {"dereg"}) /\ stack[p] # <<>> /\ Free(p, Top(p).id, Top(p).e, Below(p), net) /\ UNCHANGED n
  BY DEF DeregisterEnd, In
<1>2. Served(p, Top(p).id, Below(p)) /\ Top(p).e = sels[p][Top(p).id]
  BY <1>1, DeregServed
<1>3. net \in Sockets /\ Pair(ep, net, h, n.msgs) /\ FramesOK(p, Below(p), h, n.msgs) /\ n'.msgs = n.msgs
  BY <1>1, MsgParts, TopMsg
<1>4. Free(p, Top(p).id, sels[p][Top(p).id], Below(p), net)
  BY <1>1, <1>2
<1> QED BY <1>2, <1>3, <1>4, FreeMsg

LEMMA CloseMsg ==
    ASSUME IpcInv, MsgInv, Tame, NEW p \in Procs, NEW id \in Slots, Close(p, id)
    PROVE  MsgInv'
<1>1. MayCall(p, "close") /\ Resolves(p, id) /\ Deregister(p, id, stack[p], net) /\ n' = Counted(0)
  BY DEF Close
<1>2. Served(p, id, stack[p])
  BY <1>1, CallServed
<1>3. net \in Sockets /\ Pair(ep, net, h, n.msgs) /\ FramesOK(p, stack[p], h, n.msgs) /\ n'.msgs = n.msgs
  BY <1>1, MsgParts, CountedMsgs
<1> QED BY <1>1, <1>2, <1>3, DeregisterMsg

LEMMA SyncEofMsg ==
    ASSUME IpcInv, MsgInv, NEW p \in Procs, SyncEof(p)
    PROVE  MsgInv'
<1> DEFINE id == Top(p).id  f == [Top(p) EXCEPT !.k = "closed"]  k == Append(Below(p), f)
<1>1. /\ In(p, {"sync"}) /\ stack[p] # <<>> /\ Top(p).k = "sync" /\ sels[p][id] # None /\ Deregister(p, id, k, net) /\ UNCHANGED n
  BY DEF SyncEof, Syncing, In
<1>2. Served(p, id, k)
  BY <1>1, SyncServed
<1>3. net \in Sockets /\ Pair(ep, net, h, n.msgs) /\ n'.msgs = n.msgs
  BY <1>1, MsgParts
<1>4. /\ FramesOK(p, Below(p), h, n.msgs) /\ FrameMsg(p, Top(p), h, n.msgs) /\ Below(p) \in Seq(Frames)
      /\ NoFrame(Below(p), Waits, Top(p).m) /\ Top(p) \in Frames
  BY <1>1, TopMsg, TopFacts DEF Waits
<1>5. f \in Frames /\ f.k = "closed" /\ f.m = Top(p).m /\ f.e = Top(p).e
  BY <1>4, KindFacts DEF Frames
<1> HIDE DEF f
<1>6. FramesOK(p, k, h, n.msgs)
  <2> DEFINE H == h  N == n.msgs  b == Below(p)
  <2>1. FrameMsg(p, f, H, N)
    BY <1>1, <1>4, <1>5 DEF FrameMsg, Evals, Waits
  <2>2. FramesOK(p, b, H, N) /\ b \in Seq(Frames) /\ NoFrame(b, Waits, f.m) /\ f.k \notin Evals
    BY <1>4, <1>5 DEF Evals
  <2> HIDE DEF H, N, b
  <2>3. FramesOK(p, Append(b, f), H, N)
    BY <1>5, <2>1, <2>2, FramesPush
  <2> QED BY <2>3 DEF H, N, b
<1> HIDE DEF id, k
<1> QED BY <1>1, <1>2, <1>3, <1>6, DeregisterMsg

-----------------------------------------------------------------------------
(* Connections begin.                                                      *)

\* No allocation gets an address that was freed.
Fresh == "reuse" \notin Faults

\* Other data of the same connection.
LEMMA ConnSame ==
    ASSUME NEW e, NEW c, NEW d, NEW w, NEW x, NEW H, NEW N, ConnOK(e, c, w, H, N), AddrOK(e, d), ParseOK(d, x),
           d.ready => c.ready /\ d.resp = c.resp, c.waiting => d.waiting, d.st # "freed" => c.st # "freed",
           ReadyOK(e, c, x, H, N)
    PROVE  ConnOK(e, d, x, H, N)
<1>1. ReadyOK(e, c, w, H, N) /\ WaitOK(e, c, H, N)
  BY DEF ConnOK
<1>2. ReadyOK(e, d, x, H, N)
  BY DEF ReadyOK
<1>3. WaitOK(e, d, H, N)
  BY <1>1 DEF WaitOK
<1> QED BY <1>2, <1>3 DEF ConnOK

LEMMA RegisterMsg ==
    ASSUME IpcInv, MsgInv, Fresh, NEW p \in Procs, NEW e, Waiting(p, e), NEW st \in {"handshake", "header"},
           Register(p, e, st), NEW q \in Sockets, Pair(ep, q, h, n.msgs), net' = q, UNCHANGED <<h, n>>,
           NEW k, stack' = [stack EXCEPT ![p] = k], FramesOK(p, k, h, n.msgs)
    PROVE  MsgInv'
<1>1. e \in Ends /\ ep[e].st # "freed" /\ ep \in [Ends -> Conns] /\ ep[e] \in Conns
  BY MsgParts DEF Waiting
<1>2. PICK b \in Bufs : ep' = [ep EXCEPT ![e].st = st, ![e].addr = e, ![e].buf = b]
  BY DEF Register, FreeAddrs, Fresh
<1> DEFINE c == [ep[e] EXCEPT !.st = st, !.addr = e, !.buf = b]
<1>3. ep' = [ep EXCEPT ![e] = c]
  BY <1>1, <1>2
<1>4. c.st = st /\ c.addr = e /\ c.ready = ep[e].ready /\ c.resp = ep[e].resp /\ c.waiting = ep[e].waiting
  BY <1>1 DEF Conns
<1> HIDE DEF c
<1>5. AddrOK(e, c) /\ ParseOK(c, q[e])
  BY <1>4 DEF AddrOK, ParseOK
<1> DEFINE H == h  N == n.msgs  d == ep[e]  w == q[e]
<1>6. ConnOK(e, d, w, H, N) /\ ReadyOK(e, d, w, H, N)
  BY <1>1 DEF Pair, ConnsOK, ConnOK
<1>7. ConnOK(e, c, w, H, N)
  <2>1. /\ AddrOK(e, c) /\ ParseOK(c, w) /\ (c.ready => d.ready /\ c.resp = d.resp) /\ (d.waiting => c.waiting)
        /\ c.st # "freed" => d.st # "freed"
    BY <1>1, <1>4, <1>5
  <2> HIDE DEF H, N, d, w
  <2> QED BY <1>6, <2>1, ConnSame
<1>8. Pair([ep EXCEPT ![e] = c], q, H, N)
  <2>1. Pair(ep, q, H, N)
    OBVIOUS
  <2> HIDE DEF H, N
  <2> QED BY <1>1, <1>7, <2>1, PairConn
<1>9. Pair(ep', net', h, n.msgs) /\ n'.msgs = n.msgs
  BY <1>3, <1>8
<1> QED BY <1>9, SameStep

LEMMA GiveUpMsg ==
    ASSUME IpcInv, MsgInv, NEW p \in Procs, NEW e, Waiting(p, e), ep' = [ep EXCEPT ![e].st = "freed"],
           net' = Shut(net, e), UNCHANGED <<h, n>>,
           NEW k, stack' = [stack EXCEPT ![p] = k], FramesOK(p, k, h, n.msgs)
    PROVE  MsgInv'
<1>1. e \in Ends /\ ep \in [Ends -> Conns] /\ ep[e] \in Conns /\ net \in Sockets /\ Pair(ep, net, h, n.msgs)
  BY MsgParts DEF Waiting
<1> DEFINE c == [ep[e] EXCEPT !.st = "freed"]
<1>2. ep' = [ep EXCEPT ![e] = c] /\ c.st = "freed" /\ c.addr = ep[e].addr /\ c.ready = ep[e].ready /\ c.resp = ep[e].resp
  BY <1>1 DEF Conns
<1> HIDE DEF c
<1>3. AddrOK(e, c)
  <2>1. AddrOK(e, ep[e])
    BY <1>1 DEF Pair, ConnsOK, ConnOK
  <2> QED BY <1>2, <2>1 DEF AddrOK, Live
<1> DEFINE H == h  N == n.msgs
<1>4. Pair([ep EXCEPT ![e] = c], Shut(net, e), H, N)
  <2>1. Pair(ep, net, H, N) /\ (c.ready => ep[e].ready /\ c.resp = ep[e].resp)
    BY <1>1, <1>2
  <2> HIDE DEF H, N
  <2> QED BY <1>1, <1>2, <1>3, <2>1, PairShut
<1>5. Pair(ep', net', h, n.msgs) /\ n'.msgs = n.msgs
  BY <1>2, <1>4
<1> QED BY <1>5, SameStep

LEMMA AcceptMsg ==
    ASSUME IpcInv, MsgInv, Fresh, NEW p \in Procs, Accept(p)
    PROVE  MsgInv'
<1>1. UNCHANGED <<stack, n, h>>
  BY DEF Accept
<1>2. PICK e \in Backlog(p) :
         IF FreeSlots(p) = {}
         THEN ep' = [ep EXCEPT ![e].st = "freed"] /\ net' = Shut(net, e) /\ UNCHANGED sels
         ELSE Register(p, e, "handshake") /\ UNCHANGED net
  BY DEF Accept
<1>3. Waiting(p, e)
  BY DEF Waiting, Backlog
<1>4. /\ stack' = [stack EXCEPT ![p] = stack[p]] /\ FramesOK(p, stack[p], h, n.msgs)
      /\ net \in Sockets /\ Pair(ep, net, h, n.msgs)
  BY <1>1, StackSame, MsgParts
<1>5. CASE FreeSlots(p) = {}
  BY <1>1, <1>2, <1>3, <1>4, <1>5, GiveUpMsg
<1>6. CASE FreeSlots(p) # {}
  <2>1. Register(p, e, "handshake") /\ net' = net
    BY <1>2, <1>6
  <2> QED BY <1>1, <1>3, <1>4, <2>1, RegisterMsg
<1> QED BY <1>5, <1>6

LEMMA ConnectFailsMsg ==
    ASSUME IpcInv, MsgInv, NEW p \in Procs, ConnectFails(p)
    PROVE  MsgInv'
<1>1. /\ In(p, {"hello", "login"}) /\ ep' = [ep EXCEPT ![Top(p).e].st = "freed"] /\ net' = Shut(net, Top(p).e)
      /\ stack' = [stack EXCEPT ![p] = Below(p)] /\ UNCHANGED <<n, h>>
  BY DEF ConnectFails
<1>2. Waiting(p, Top(p).e) /\ FramesOK(p, Below(p), h, n.msgs)
  BY <1>1, Connecting, TopMsg
<1> DEFINE e == Top(p).e  k == Below(p)
<1> HIDE DEF e, k
<1>3. /\ Waiting(p, e) /\ FramesOK(p, k, h, n.msgs) /\ ep' = [ep EXCEPT ![e].st = "freed"] /\ net' = Shut(net, e)
      /\ stack' = [stack EXCEPT ![p] = k]
  BY <1>1, <1>2 DEF e, k
<1> QED BY <1>1, <1>3, GiveUpMsg

LEMMA ConnectedMsg ==
    ASSUME IpcInv, MsgInv, Fresh, NEW p \in Procs, Connected(p)
    PROVE  MsgInv'
<1> DEFINE e == Top(p).e  k == Below(p)
<1>1. /\ In(p, {"hello", "login"}) /\ net[e] # <<>> /\ Register(p, e, "header")
      /\ net' = Consumed(e) /\ stack' = [stack EXCEPT ![p] = k] /\ UNCHANGED <<n, h>>
  BY DEF Connected, In, Ready
<1>2. Waiting(p, e) /\ e \in Ends /\ FramesOK(p, k, h, n.msgs)
  BY <1>1, Connecting, TopMsg
<1>3. net \in Sockets /\ ep \in [Ends -> Conns] /\ Pair(ep, net, h, n.msgs) /\ ep[e].st # "payload"
  BY <1>2, MsgParts DEF Waiting
<1> HIDE DEF e, k
<1>4. Consumed(e) \in Sockets
  BY <1>1, <1>2, <1>3, ConsumedType
<1>5. Pair(ep, Consumed(e), h, n.msgs)
  BY <1>1, <1>2, <1>3, PairRead
<1> QED BY <1>1, <1>2, <1>4, <1>5, RegisterMsg

LEMMA PlainUnits ==
    \A u \in {"hello", "auth", "creds"}, t \in UnitTypes : Unit(u, t, 0) \in Units /\ Plain(Unit(u, t, 0))
<1> TAKE u \in {"hello", "auth", "creds"}, t \in UnitTypes
<1>1. u \in UnitNames /\ 0 \in Nat
  BY DEF UnitNames
<1>2. Unit(u, t, 0) \in Units
  BY <1>1, UnitFacts
<1>3. Plain(Unit(u, t, 0))
  BY DEF Unit, Plain
<1> QED BY <1>2, <1>3

LEMMA LoginMsg ==
    ASSUME IpcInv, MsgInv, NEW p \in Procs, Login(p)
    PROVE  MsgInv'
<1> DEFINE e == Top(p).e  k == Below(p)  f == [Top(p) EXCEPT !.k = "login"]
<1>1. /\ In(p, {"hello", "login"}) /\ net[e] # <<>> /\ stack' = [stack EXCEPT ![p] = Append(k, f)]
      /\ UNCHANGED <<ep, n, h>>
  BY DEF Login, In, Ready
<1>2. PICK c \in {"good", "bad"} : net' = Write(Consumed(e), e, <<Unit("creds", c, 0)>>)
  BY DEF Login
<1>3. Waiting(p, e) /\ e \in Ends /\ k \in Seq(Frames) /\ Top(p) \in Frames /\ FramesOK(p, k, h, n.msgs)
  BY <1>1, Connecting, TopMsg
<1>4. net \in Sockets /\ ep \in [Ends -> Conns] /\ Pair(ep, net, h, n.msgs) /\ ep[e].st # "payload"
  BY <1>3, MsgParts DEF Waiting
<1>5. f \in Frames /\ f.k \notin Evals /\ f.k \notin Waits
  BY <1>3, KindFacts DEF Frames, Evals, Waits
<1> HIDE DEF e, k, f
<1>6. Consumed(e) \in Sockets
  BY <1>1, <1>3, <1>4, ConsumedType
<1>7. Pair(ep, Consumed(e), h, n.msgs)
  BY <1>1, <1>3, <1>4, PairRead
<1> DEFINE u == Unit("creds", c, 0)  q == Consumed(e)
<1>8. u \in Units /\ Plain(u)
  BY PlainUnits DEF UnitTypes
<1> HIDE DEF u, q
<1>9. Pair(ep, Write(q, e, <<u>>), h, n.msgs)
  BY <1>3, <1>6, <1>7, <1>8, PairPlain DEF q
<1>10. Pair(ep', net', h, n.msgs)
  BY <1>1, <1>2, <1>9 DEF u, q
<1>11. FramesOK(p, Append(k, f), h, n.msgs)
  BY <1>3, <1>5, FramesPlain
<1> QED BY <1>1, <1>10, <1>11, SameStep

LEMMA OpenMsg ==
    ASSUME IpcInv, MsgInv, NEW p \in Procs, NEW l \in Links, Open(p, l)
    PROVE  MsgInv'
<1> DEFINE c == <<l, "c">>  s == <<l, "s">>  f == Frame("hello", 0, c, 0, 0)  k == stack[p]
<1>1. c \in Ends /\ s \in Ends /\ c # s /\ Peer(c) = s
  BY DEF Ends, Peer
<1>2. /\ ep[c].st = "none" /\ n' = Counted(0) /\ ep' = [ep EXCEPT ![c].st = "connecting", ![s].st = "backlog"]
      /\ stack' = [stack EXCEPT ![p] = Append(k, f)] /\ UNCHANGED h
  BY <1>1 DEF Open
<1>3. PICK v \in {"ok", "old"} : net' = [net EXCEPT ![s] = <<Unit("hello", v, 0)>>]
  BY <1>1 DEF Open
<1>4. /\ ep \in [Ends -> Conns] /\ LinksOK(ep) /\ net \in Sockets /\ k \in Seq(Frames)
      /\ Pair(ep, net, h, n.msgs) /\ FramesOK(p, k, h, n.msgs)
  BY Parts, MsgParts
<1>5. ep[s].st = "none"
  BY <1>2, <1>4 DEF LinksOK
<1>6. "hello" \in FrameKinds /\ 0 \in Ids /\ 0 \in Nat /\ c \in Ends \cup {None}
  BY <1>1, KindFacts
<1> HIDE DEF c, s
<1>7. f \in Frames /\ f.k \notin Evals /\ f.k \notin Waits
  BY <1>6 DEF Frame, Frames, Evals, Waits
<1> HIDE DEF f
<1> DEFINE x == [ep[c] EXCEPT !.st = "connecting"]  y == [ep[s] EXCEPT !.st = "backlog"]  u == Unit("hello", v, 0)  w == <<u>>
           H == h  N == n.msgs
<1>8. ep' = [[ep EXCEPT ![c] = x] EXCEPT ![s] = y]
  BY <1>1, <1>2, <1>4
<1>9. /\ x.st = "connecting" /\ x.addr = ep[c].addr /\ x.ready = ep[c].ready /\ x.resp = ep[c].resp /\ x.waiting = ep[c].waiting
      /\ y.st = "backlog" /\ y.addr = ep[s].addr /\ y.ready = ep[s].ready /\ y.resp = ep[s].resp /\ y.waiting = ep[s].waiting
  <2>1. ep[c] \in Conns /\ ep[s] \in Conns
    BY <1>1, <1>4
  <2> QED BY <2>1 DEF Conns
<1>10. u \in Units /\ Plain(u)
  BY PlainUnits DEF UnitTypes
<1>11. Pair(ep, net, H, N)
  BY <1>4
<1>12. /\ ConnOK(c, ep[c], net[c], H, N) /\ ReadyOK(c, ep[c], net[c], H, N) /\ AddrOK(c, ep[c])
       /\ ConnOK(s, ep[s], net[s], H, N) /\ ReadyOK(s, ep[s], net[s], H, N) /\ AddrOK(s, ep[s])
  BY <1>1, <1>11 DEF Pair, ConnsOK, ConnOK
<1> HIDE DEF x, y, u, H, N
<1>13. ConnOK(c, x, net[c], H, N)
  <2>1. AddrOK(c, x) /\ ParseOK(x, net[c])
    BY <1>9, <1>12 DEF AddrOK, ParseOK, Live
  <2> QED BY <1>2, <1>9, <1>12, <2>1, ConnSame
<1>14. Pair([ep EXCEPT ![c] = x], net, H, N)
  BY <1>1, <1>4, <1>11, <1>13, PairConn
<1>15. DOMAIN w = {1} /\ w[1] = u
  OBVIOUS
<1> HIDE DEF w
<1>16. WordOK(s, w, H, N)
  BY <1>10, <1>15 DEF WordOK, StreamOK, UnitOK, Plain, Token, Req, Rsp
<1>17. ASSUME NEW d, ReadyOK(s, d, net[s], H, N) PROVE ReadyOK(s, d, w, H, N)
  BY <1>10, <1>15, <1>17 DEF ReadyOK, Plain, Rsp
<1>18. ConnOK(s, y, w, H, N) /\ ConnOK(s, y, net[s], H, N)
  <2>1. AddrOK(s, y) /\ ParseOK(y, w) /\ ParseOK(y, net[s])
    BY <1>9, <1>12 DEF AddrOK, ParseOK, Live
  <2>2. ReadyOK(s, ep[s], w, H, N)
    BY <1>12, <1>17
  <2> QED BY <1>5, <1>9, <1>12, <2>1, <2>2, ConnSame
<1> DEFINE b == [ep EXCEPT ![c] = x]  a == [b EXCEPT ![s] = y]  q == [net EXCEPT ![s] = w]
<1>19. a[s] = y /\ \A e \in Ends \ {s} : a[e] = b[e]
  BY <1>1, <1>4
<1>20. q[s] = w /\ \A e \in Ends \ {s} : q[e] = net[e]
  BY <1>1, <1>4 DEF Sockets
<1>21. ep' = a /\ net' = q /\ Pair(b, net, H, N)
  BY <1>3, <1>8, <1>14 DEF u, w
<1> HIDE DEF a, b, q
<1>22. Pair(a, q, H, N)
  <2> SUFFICES ASSUME NEW e \in Ends PROVE WordOK(e, q[e], H, N) /\ ConnOK(e, a[e], q[e], H, N)
    BY DEF Pair, NetOK, ConnsOK
  <2>1. CASE e = s
    BY <1>16, <1>18, <1>19, <1>20, <2>1
  <2>2. CASE e # s
    <3>1. a[e] = b[e] /\ q[e] = net[e] /\ WordOK(e, net[e], H, N) /\ ConnOK(e, b[e], net[e], H, N)
      BY <1>19, <1>20, <1>21, <2>2 DEF Pair, NetOK, ConnsOK
    <3> QED BY <3>1
  <2> QED BY <2>1, <2>2
<1>23. Pair(ep', net', h, n.msgs)
  BY <1>21, <1>22 DEF H, N
<1>24. n'.msgs = n.msgs
  BY <1>2, CountedMsgs
<1> HIDE DEF k
<1>25. FramesOK(p, Append(k, f), h, n.msgs)
  BY <1>4, <1>7, FramesPlain
<1> QED BY <1>2, <1>23, <1>24, <1>25, SameStep

-----------------------------------------------------------------------------
(* Reading.                                                                *)

\* The state of a live connection changes, not to a payload.
LEMMA StateMsg ==
    ASSUME NEW c \in [Ends -> Conns], NEW q, NEW H, NEW N, Pair(c, q, H, N), NEW e \in Ends, c[e].st \in Live,
           NEW st \in {"creds", "header"}
    PROVE  Pair([c EXCEPT ![e].st = st], q, H, N)
<1> DEFINE d == [c[e] EXCEPT !.st = st]
<1>1. c[e] \in Conns
  OBVIOUS
<1>2. /\ d.st = st /\ d.addr = c[e].addr /\ d.ready = c[e].ready /\ d.resp = c[e].resp /\ d.waiting = c[e].waiting
  BY <1>1 DEF Conns
<1>3. [c EXCEPT ![e].st = st] = [c EXCEPT ![e] = d]
  OBVIOUS
<1> HIDE DEF d
<1>4. ConnOK(e, c[e], q[e], H, N) /\ ReadyOK(e, c[e], q[e], H, N) /\ AddrOK(e, c[e])
  BY DEF Pair, ConnsOK, ConnOK
<1>5. AddrOK(e, d) /\ ParseOK(d, q[e]) /\ c[e].st # "freed"
  BY <1>2, <1>4 DEF AddrOK, ParseOK, Live
<1>6. ConnOK(e, d, q[e], H, N)
  BY <1>2, <1>4, <1>5, ConnSame
<1> QED BY <1>3, <1>6, PairConn

LEMMA Bumped ==
    ASSUME NEW f \in [Ends -> Nat], NEW e \in Ends
    PROVE  [f EXCEPT ![e] = f[e] + 1] \in [Ends -> Nat]
OBVIOUS

LEMMA OpenedForm ==
    ASSUME NEW H \in Histories, NEW e \in Ends, NEW H2,
           \/ H2 = [H EXCEPT !.opened[e] = @ + 1]
           \/ \E b \in BOOLEAN : H2 = [H EXCEPT !.fault = b, !.opened[e] = @ + 1]
    PROVE  H2 \in Histories /\ Alien(H, H2)
<1> DEFINE o == [H.opened EXCEPT ![e] = H.opened[e] + 1]
<1>a. H.opened \in [Ends -> Nat] /\ H.fault \in BOOLEAN
  BY HistFields
<1>1. o \in [Ends -> Nat] /\ H.fault \in BOOLEAN
  BY <1>a, Bumped, Zenon
<1>2. \E b \in BOOLEAN : H2 = [H EXCEPT !.fault = b, !.opened = o]
  <2>1. CASE H2 = [H EXCEPT !.opened[e] = @ + 1]
    <3>1. H2 = [H EXCEPT !.fault = H.fault, !.opened = o]
      BY <2>1 DEF Histories
    <3> QED BY <1>1, <3>1
  <2>2. CASE \E b \in BOOLEAN : H2 = [H EXCEPT !.fault = b, !.opened[e] = @ + 1]
    <3>1. PICK b \in BOOLEAN : H2 = [H EXCEPT !.fault = b, !.opened[e] = @ + 1]
      BY <2>2
    <3>2. H2 = [H EXCEPT !.fault = b, !.opened = o]
      BY <3>1 DEF Histories
    <3> QED BY <3>2
  <2> QED BY <2>1, <2>2
<1> HIDE DEF o
<1> QED BY <1>1, <1>2 DEF Histories, Alien

LEMMA ReadHandshakeMsg ==
    ASSUME IpcInv, MsgInv, NEW p \in Procs, NEW id, NEW k, Served(p, id, k), FramesOK(p, k, h, n.msgs),
           net[sels[p][id]] # <<>>, ReadHandshake(p, id, k, sels[p][id]), UNCHANGED n
    PROVE  MsgInv'
<1> DEFINE e == sels[p][id]
<1>1. e \in Ends /\ ep[e].st \in Live /\ id \in Ids /\ k \in Seq(Frames) /\ ctx[p] \in Ids
  BY ServedFacts, Parts
<1>2. net \in Sockets /\ ep \in [Ends -> Conns] /\ Pair(ep, net, h, n.msgs) /\ h \in Histories /\ n'.msgs = n.msgs
  BY MsgParts
<1>3. ep[e].st # "payload"
  BY DEF ReadHandshake
<1>4. Consumed(e) \in Sockets
  BY <1>1, <1>2, ConsumedType
<1>5. Pair(ep, Consumed(e), h, n.msgs)
  BY <1>1, <1>2, <1>3, PairRead
<1> DEFINE hello(t) == Write(Consumed(e), e, <<Unit("hello", t, 0)>>)
<1>6. ASSUME NEW t \in {"auth", "ok"} PROVE Pair(ep, hello(t), h, n.msgs)
  <2> DEFINE u == Unit("hello", t, 0)  q == Consumed(e)
  <2>1. u \in Units /\ Plain(u) /\ q \in Sockets /\ Pair(ep, q, h, n.msgs)
    BY <1>4, <1>5, PlainUnits DEF UnitTypes
  <2> HIDE DEF u, q, e
  <2>2. Pair(ep, Write(q, e, <<u>>), h, n.msgs)
    BY <1>1, <2>1, PairPlain
  <2> QED BY <2>2 DEF u, q
<1> HIDE DEF hello
<1>7. CASE Deregister(p, id, k, Consumed(e))
  BY <1>2, <1>4, <1>5, <1>7, DeregisterMsg
<1>8. CASE /\ net' = hello("auth") /\ ep' = [ep EXCEPT ![e].st = "creds"]
           /\ stack' = [stack EXCEPT ![p] = k] /\ UNCHANGED <<sels, oob, ctx, h>>
  <2> DEFINE q == hello("auth")
  <2>1. Pair(ep, q, h, n.msgs)
    BY <1>6
  <2> HIDE DEF q, e
  <2>2. Pair([ep EXCEPT ![e].st = "creds"], q, h, n.msgs)
    BY <1>1, <1>2, <2>1, StateMsg
  <2>3. Pair(ep', net', h, n.msgs)
    BY <1>8, <2>2 DEF q
  <2> QED BY <1>2, <1>8, <2>3, SameStep
<1>9. CASE /\ net' = hello("ok") /\ ep' = [ep EXCEPT ![e].st = "header"]
           /\ Call(p, k, Frame("open", id, e, 0, ctx[p]))
           /\ h' = [h EXCEPT !.opened[e] = @ + 1] /\ UNCHANGED <<sels, oob>>
  <2> DEFINE q == hello("ok")  f == Frame("open", id, e, 0, ctx[p])
  <2>1. Pair(ep, q, h, n.msgs)
    BY <1>6
  <2>2. "open" \in FrameKinds /\ 0 \in Nat /\ e \in Ends \cup {None}
    BY <1>1, KindFacts
  <2>3. f \in Frames /\ f.k \notin Evals /\ f.k \notin Waits
    BY <1>1, <2>2 DEF Frame, Frames, Evals, Waits
  <2>4. stack' = [stack EXCEPT ![p] = Append(k, f)]
    BY <1>9 DEF Call
  <2> HIDE DEF q, e, f
  <2>5. Pair([ep EXCEPT ![e].st = "header"], q, h, n.msgs)
    BY <1>1, <1>2, <2>1, StateMsg
  <2>6. Pair(ep', net', h, n.msgs)
    BY <1>9, <2>5 DEF q
  <2>7. FramesOK(p, Append(k, f), h, n.msgs)
    BY <1>1, <2>3, FramesPlain
  <2>8. h' \in Histories /\ Alien(h, h')
    BY <1>1, <1>2, <1>9, OpenedForm
  <2> QED BY <1>2, <2>4, <2>6, <2>7, <2>8, AlienStep
<1> QED BY <1>7, <1>8, <1>9 DEF ReadHandshake, hello

LEMMA ReadCredsMsg ==
    ASSUME IpcInv, MsgInv, NEW p \in Procs, NEW id, NEW k, Served(p, id, k), FramesOK(p, k, h, n.msgs),
           net[sels[p][id]] # <<>>, ReadCreds(p, id, k, sels[p][id]), UNCHANGED n
    PROVE  MsgInv'
<1> DEFINE e == sels[p][id]
<1>1. e \in Ends /\ ep[e].st \in Live /\ id \in Ids /\ k \in Seq(Frames) /\ ctx[p] \in Ids
  BY ServedFacts, Parts
<1>2. net \in Sockets /\ ep \in [Ends -> Conns] /\ Pair(ep, net, h, n.msgs) /\ h \in Histories /\ n'.msgs = n.msgs
  BY MsgParts
<1>3. ep[e].st # "payload"
  BY DEF ReadCreds
<1> DEFINE q == Consumed(e)  u == Unit("auth", "no", 0)
<1>4. q \in Sockets
  BY <1>1, <1>2, ConsumedType
<1>5. Pair(ep, q, h, n.msgs)
  BY <1>1, <1>2, <1>3, PairRead
<1>6. CASE Head(net[e]).t = "good"
  <2> DEFINE f == Frame("auth", id, e, 0, ctx[p])
  <2>1. "auth" \in FrameKinds /\ 0 \in Nat /\ e \in Ends \cup {None}
    BY <1>1, KindFacts
  <2>2. f \in Frames /\ f.k \notin Evals /\ f.k \notin Waits
    BY <1>1, <2>1 DEF Frame, Frames, Evals, Waits
  <2>3. stack' = [stack EXCEPT ![p] = Append(k, f)] /\ net' = q /\ UNCHANGED <<ep, h>>
    BY <1>6 DEF ReadCreds, Call
  <2> HIDE DEF f, q
  <2>4. FramesOK(p, Append(k, f), h, n.msgs)
    BY <1>1, <2>2, FramesPlain
  <2>5. Pair(ep', net', h, n.msgs)
    BY <1>5, <2>3
  <2> QED BY <1>2, <2>3, <2>4, <2>5, SameStep
<1>7. CASE Head(net[e]).t # "good"
  <2>1. Deregister(p, id, k, Write(q, e, <<u>>))
    BY <1>7 DEF ReadCreds
  <2>2. u \in Units /\ Plain(u) /\ <<u>> \in Seq(Units)
    <3>1. u \in Units /\ Plain(u)
      BY PlainUnits DEF UnitTypes
    <3> HIDE DEF u
    <3> QED BY <3>1
  <2> HIDE DEF q, u
  <2> DEFINE w == Write(q, e, <<u>>)
  <2>3. w \in Sockets /\ Pair(ep, w, h, n.msgs)
    <3> HIDE DEF e
    <3> QED BY <1>1, <1>4, <1>5, <2>2, PairPlain, WriteType
  <2>4. Deregister(p, id, k, w)
    BY <2>1
  <2> HIDE DEF w, e
  <2> QED BY <1>2, <2>3, <2>4, DeregisterMsg
<1> QED BY <1>6, <1>7

LEMMA BodyFacts ==
    ASSUME NEW u \in Units
    PROVE  Body(u).u = "payload" /\ Body(u).t = u.t /\ Body(u).m = u.m
BY DEF Units, Body

LEMMA ReadHeaderMsg ==
    ASSUME IpcInv, MsgInv, NEW p \in Procs, NEW id, NEW k, Served(p, id, k), FramesOK(p, k, h, n.msgs),
           net[sels[p][id]] # <<>>, ReadHeader(p, id, k, sels[p][id]), UNCHANGED n
    PROVE  MsgInv'
<1> DEFINE e == sels[p][id]  u == Head(net[e])  w == Tail(net[e])
<1>1. e \in Ends /\ ep[e].st \in Live /\ ep[e] \in Conns
  BY ServedFacts
<1>2. net \in Sockets /\ ep \in [Ends -> Conns] /\ Pair(ep, net, h, n.msgs) /\ n'.msgs = n.msgs
  BY MsgParts
<1>3. ep[e].st = "header"
  BY DEF ReadHeader
<1>4. CASE u.u = "header" /\ u.t # "big"
  <2>1. PICK b \in Bufs : ep' = [ep EXCEPT ![e].st = "payload", ![e].hdr = u, ![e].buf = b]
    BY <1>4 DEF ReadHeader
  <2>2. net' = Consumed(e) /\ stack' = [stack EXCEPT ![p] = k] /\ UNCHANGED h
    BY <1>4 DEF ReadHeader
  <2>3. /\ UnitOK(e, u, h, n.msgs) /\ ConnOK(e, ep[e], net[e], h, n.msgs) /\ w # <<>> /\ Head(w) = Body(u)
        /\ ReadyOK(e, ep[e], w, h, n.msgs)
    BY <1>1, <1>2, <1>4, NextUnit, SMTT(30)
  <2>4. u.t \in {"sync", "async", "resp"}
    BY <1>4, <2>3 DEF UnitOK
  <2> HIDE DEF u, w
  <2> DEFINE c == [ep[e] EXCEPT !.st = "payload", !.hdr = u, !.buf = b]  d == ep[e]
  <2>5. /\ c.st = "payload" /\ c.hdr = u /\ c.addr = d.addr /\ c.ready = d.ready /\ c.resp = d.resp /\ c.waiting = d.waiting
    BY <1>1 DEF Conns
  <2>6. ep' = [ep EXCEPT ![e] = c]
    <3> HIDE DEF e
    <3> QED BY <1>1, <1>2, <2>1
  <2> HIDE DEF c
  <2>7. AddrOK(e, c) /\ ParseOK(c, w)
    <3>1. AddrOK(e, d)
      BY <2>3 DEF ConnOK
    <3>2. AddrOK(e, c)
      BY <1>1, <2>5, <3>1 DEF AddrOK
    <3>3. ParseOK(c, w)
      BY <2>3, <2>4, <2>5 DEF ParseOK
    <3> QED BY <3>2, <3>3
  <2>8. d.st # "freed"
    BY <1>3
  <2> DEFINE x == net[e]
  <2>9. ConnOK(e, d, x, h, n.msgs) /\ ReadyOK(e, d, w, h, n.msgs)
    BY <2>3
  <2> HIDE DEF d, e, x
  <2>10. ConnOK(e, c, w, h, n.msgs)
    BY <2>5, <2>7, <2>8, <2>9, ConnSame
  <2>11. Pair([ep EXCEPT ![e] = c], Consumed(e), h, n.msgs)
    BY <1>1, <1>2, <2>10, PairTake DEF w, e
  <2>12. Pair(ep', net', h, n.msgs)
    BY <2>2, <2>6, <2>11
  <2> QED BY <1>2, <2>2, <2>12, SameStep
<1>5. CASE ~(u.u = "header" /\ u.t # "big")
  <2>1. Deregister(p, id, k, Consumed(e))
    BY <1>5 DEF ReadHeader
  <2>2. Consumed(e) \in Sockets
    BY <1>1, <1>2, ConsumedType
  <2>3. Pair(ep, Consumed(e), h, n.msgs)
    BY <1>1, <1>2, <1>3, PairRead
  <2> QED BY <1>2, <2>1, <2>2, <2>3, DeregisterMsg
<1> QED BY <1>4, <1>5

\* A payload is about to be read.
LEMMA PayloadFacts ==
    ASSUME IpcInv, MsgInv, NEW p \in Procs, NEW id, NEW k, Served(p, id, k), net[sels[p][id]] # <<>>,
           ep[sels[p][id]].st = "payload"
    PROVE  LET e == sels[p][id]  u == Head(net[e]) IN
           /\ u \in Units /\ u.u = "payload" /\ u.t = ep[e].hdr.t /\ u.m = ep[e].hdr.m
           /\ u.t \in {"sync", "async", "resp"} /\ UnitOK(e, u, h, n.msgs)
<1> DEFINE e == sels[p][id]  u == Head(net[e])
<1>1. e \in Ends /\ ep[e] \in Conns
  BY ServedFacts
<1>2. net \in Sockets /\ ep \in [Ends -> Conns] /\ Pair(ep, net, h, n.msgs)
  BY MsgParts
<1>3. u \in Units /\ UnitOK(e, u, h, n.msgs) /\ ConnOK(e, ep[e], net[e], h, n.msgs)
  BY <1>1, <1>2, NextUnit
<1>4. u = Body(ep[e].hdr) /\ ep[e].hdr.t \in {"sync", "async", "resp"}
  BY <1>3 DEF ConnOK, ParseOK
<1>5. ep[e].hdr \in Units
  BY <1>1, HdrTypes
<1>6. u.u = "payload" /\ u.t = ep[e].hdr.t /\ u.m = ep[e].hdr.m
  BY <1>4, <1>5, BodyFacts
<1> QED BY <1>3, <1>4, <1>6

\* Read, the connection waits for the next header.
LEMMA RearmedMsg ==
    ASSUME IpcInv, MsgInv, NEW p \in Procs, NEW id, NEW k, Served(p, id, k), net[sels[p][id]] # <<>>,
           ep[sels[p][id]].st = "payload", NEW b \in BOOLEAN
    PROVE  LET e == sels[p][id]  r == Rearmed(e, b) IN
           /\ r \in Conns /\ r.st = "header" /\ r.addr = e /\ r.ready = ep[e].ready /\ r.resp = ep[e].resp
           /\ r.waiting = ep[e].waiting /\ ConnOK(e, r, Tail(net[e]), h, n.msgs)
<1> DEFINE e == sels[p][id]  r == Rearmed(e, b)  d == ep[e]  w == Tail(net[e])  x == net[e]
<1>1. e \in Ends /\ ep[e] \in Conns /\ ep[e].st \in Live
  BY ServedFacts
<1>2. net \in Sockets /\ ep \in [Ends -> Conns] /\ Pair(ep, net, h, n.msgs)
  BY MsgParts
<1>3. ConnOK(e, d, x, h, n.msgs) /\ ReadyOK(e, d, w, h, n.msgs)
  BY <1>1, <1>2, NextUnit
<1>4. d.addr = e /\ d.st # "freed"
  BY <1>1, <1>3 DEF ConnOK, AddrOK
<1>5. r \in Conns /\ r.st = "header" /\ r.addr = e /\ r.ready = d.ready /\ r.resp = d.resp /\ r.waiting = d.waiting
  BY <1>1, <1>4 DEF Rearmed, Conns, States, Live
<1> HIDE DEF r, d, e, w, x
<1>6. AddrOK(e, r) /\ ParseOK(r, w)
  BY <1>5 DEF AddrOK, ParseOK
<1>7. ConnOK(e, r, w, h, n.msgs)
  BY <1>3, <1>4, <1>5, <1>6, ConnSame
<1> QED BY <1>5, <1>7 DEF r, d, e, w

LEMMA ReadResponseMsg ==
    ASSUME IpcInv, MsgInv, NEW p \in Procs, NEW id, NEW k, Served(p, id, k), FramesOK(p, k, h, n.msgs),
           net[sels[p][id]] # <<>>, ReadResponse(p, k, sels[p][id]), UNCHANGED n
    PROVE  MsgInv'
<1> DEFINE e == sels[p][id]  u == Head(net[e])  w == Tail(net[e])  H == h  N == n.msgs
<1>1. e \in Ends /\ ep[e] \in Conns
  BY ServedFacts
<1>2. net \in Sockets /\ ep \in [Ends -> Conns] /\ Pair(ep, net, H, N) /\ n'.msgs = n.msgs
  BY MsgParts
<1>3. ep[e].st = "payload" /\ ep[e].hdr.t = "resp" /\ net' = Consumed(e) /\ stack' = [stack EXCEPT ![p] = k] /\ UNCHANGED h
  BY DEF ReadResponse
<1>4. u \in Units /\ u.u = "payload" /\ u.t = "resp" /\ u.m = ep[e].hdr.m /\ UnitOK(e, u, H, N)
  BY <1>3, PayloadFacts
<1>5. \A i \in DOMAIN w : Token(w[i]) /\ Token(u) => w[i].m # u.m
  BY <1>1, <1>2, NextUnit
<1>6. PICK b \in Bufs : ep' = [ep EXCEPT ![e] =
             IF ep[e].waiting /\ ~ep[e].ready
             THEN [Rearmed(e, b) EXCEPT !.ready = TRUE, !.resp = ep[e].hdr.m]
             ELSE Rearmed(e, b)]
  BY DEF ReadResponse
<1> DEFINE r == Rearmed(e, b)  a == [r EXCEPT !.ready = TRUE, !.resp = u.m]
           c == IF ep[e].waiting /\ ~ep[e].ready THEN a ELSE r
<1>7. b \in BOOLEAN
  BY BufTypes
<1>8. r \in Conns /\ r.st = "header" /\ r.addr = e /\ ConnOK(e, r, w, H, N)
  BY <1>3, <1>7, RearmedMsg
<1>9. ep' = [ep EXCEPT ![e] = c]
  BY <1>4, <1>6
<1> HIDE DEF r, u, w, H, N
<1>10. a.st = "header" /\ a.addr = e /\ a.ready = TRUE /\ a.resp = u.m /\ a.waiting = r.waiting
  BY <1>8 DEF Conns
<1> HIDE DEF a, e
<1>11. Rsp(u) /\ Token(u)
  BY <1>4 DEF Rsp, Token
<1>12. ConnOK(e, a, w, H, N)
  <2>1. AddrOK(e, a) /\ ParseOK(a, w)
    BY <1>10 DEF AddrOK, ParseOK
  <2>2. \A i \in DOMAIN w : Rsp(w[i]) => w[i].m # u.m
    BY <1>5, <1>11 DEF Token
  <2>3. u.m \in 1 .. N /\ H.from[u.m] = e /\ H.replies[u.m] = 1 /\ Good(H, u.m)
    BY <1>4, <1>11 DEF UnitOK
  <2>4. ReadyOK(e, a, w, H, N)
    BY <1>10, <2>2, <2>3 DEF ReadyOK
  <2>5. WaitOK(e, a, H, N)
    BY <1>8, <1>10 DEF ConnOK, WaitOK
  <2> QED BY <2>1, <2>4, <2>5 DEF ConnOK
<1>13. ConnOK(e, c, w, H, N)
  BY <1>8, <1>12
<1> HIDE DEF c
<1>14. Pair([ep EXCEPT ![e] = c], Consumed(e), H, N)
  BY <1>1, <1>2, <1>13, PairTake DEF w, e
<1>15. Pair(ep', net', h, n.msgs)
  BY <1>3, <1>9, <1>14 DEF H, N
<1> QED BY <1>2, <1>3, <1>15, SameStep

LEMMA AuthEndMsg ==
    ASSUME IpcInv, MsgInv, NEW p \in Procs, AuthEnd(p)
    PROVE  MsgInv'
<1> DEFINE f == Top(p)  k == Below(p)
<1>1. In(p, {"auth"}) /\ stack[p] # <<>> /\ UNCHANGED n
  BY DEF AuthEnd, In
<1>2. Served(p, f.id, k) /\ f.e = sels[p][f.id]
  BY <1>1, AuthServed
<1>3. f.e \in Ends /\ ep[f.e].st \in Live /\ f.id \in Ids /\ f.prev \in Ids /\ k \in Seq(Frames)
  BY <1>1, <1>2, ServedFacts, TopFacts
<1>4. /\ net \in Sockets /\ ep \in [Ends -> Conns] /\ Pair(ep, net, h, n.msgs) /\ h \in Histories /\ n'.msgs = n.msgs
      /\ FramesOK(p, k, h, n.msgs)
  BY <1>1, MsgParts, TopMsg
<1> DEFINE reply(t) == Write(net, f.e, <<Unit("auth", t, 0)>>)
<1>5. ASSUME NEW t \in {"ok", "no"} PROVE reply(t) \in Sockets /\ Pair(ep, reply(t), h, n.msgs)
  <2> DEFINE u == Unit("auth", t, 0)  e == f.e
  <2>1. u \in Units /\ Plain(u)
    BY PlainUnits DEF UnitTypes
  <2> HIDE DEF u, e
  <2>2. <<u>> \in Seq(Units) /\ e \in Ends
    BY <1>3, <2>1 DEF e
  <2>3. Write(net, e, <<u>>) \in Sockets /\ Pair(ep, Write(net, e, <<u>>), h, n.msgs)
    BY <1>4, <2>1, <2>2, PairPlain, WriteType
  <2> QED BY <2>3 DEF u, e
<1> HIDE DEF reply, f, k
<1>6. CASE /\ ep' = [ep EXCEPT ![f.e].st = "header"] /\ net' = reply("ok")
           /\ stack' = [stack EXCEPT ![p] = Append(k, Frame("open", f.id, f.e, 0, f.prev))]
           /\ h' = [h EXCEPT !.fault = @ \/ ep[f.e].st = "freed", !.opened[f.e] = @ + 1]
           /\ UNCHANGED <<sels, oob, ctx>>
  <2> DEFINE q == reply("ok")  e == f.e  g == Frame("open", f.id, f.e, 0, f.prev)  b == h.fault \/ ep[e].st = "freed"
  <2>1. Pair(ep, q, h, n.msgs) /\ e \in Ends /\ ep[e].st \in Live
    BY <1>3, <1>5
  <2>2. "open" \in FrameKinds /\ 0 \in Nat /\ f.e \in Ends \cup {None}
    BY <1>3, KindFacts
  <2>3. g \in Frames /\ g.k \notin Evals /\ g.k \notin Waits
    BY <1>3, <2>2 DEF Frame, Frames, Evals, Waits
  <2>4. h' = [h EXCEPT !.fault = b, !.opened[e] = @ + 1] /\ b \in BOOLEAN
    BY <1>6
  <2> HIDE DEF q, e, g, b
  <2>5. Pair([ep EXCEPT ![e].st = "header"], q, h, n.msgs)
    BY <1>4, <2>1, StateMsg
  <2>6. Pair(ep', net', h, n.msgs)
    BY <1>6, <2>5 DEF q, e
  <2>7. h' \in Histories /\ Alien(h, h')
    BY <1>4, <2>1, <2>4, OpenedForm
  <2>8. FramesOK(p, Append(k, g), h, n.msgs) /\ stack' = [stack EXCEPT ![p] = Append(k, g)]
    BY <1>3, <1>4, <1>6, <2>3, FramesPlain DEF g
  <2> QED BY <1>4, <2>6, <2>7, <2>8, AlienStep
<1>7. CASE Free(p, f.id, f.e, k, reply("no"))
  <2> DEFINE q == reply("no")
  <2>1. q \in Sockets /\ Pair(ep, q, h, n.msgs) /\ Free(p, f.id, sels[p][f.id], k, q)
    BY <1>2, <1>5, <1>7, Zenon
  <2> HIDE DEF q
  <2> QED BY <1>2, <1>4, <2>1, FreeMsg
<1> QED BY <1>6, <1>7 DEF AuthEnd, reply, f, k

-----------------------------------------------------------------------------
(* Requests.                                                               *)

\* A request is read: its message is nowhere else.
LEMMA RequestTaken ==
    ASSUME IpcInv, MsgInv, NEW p \in Procs, NEW id, NEW k, Served(p, id, k), net[sels[p][id]] # <<>>,
           ep[sels[p][id]].st = "payload", ep[sels[p][id]].hdr.t # "resp", NEW b \in BOOLEAN
    PROVE  LET e == sels[p][id]  m == ep[e].hdr.m  c == [ep EXCEPT ![e] = Rearmed(e, b)] IN
           /\ m \in 1 .. n.msgs /\ h.from[m] = Peer(e) /\ h.runs[m] = 0 /\ h.replies[m] = 0
           /\ ep[e].hdr.t = "sync" => Good(h, m)
           /\ Pair(c, Consumed(e), h, n.msgs) /\ Consumed(e) \in Sockets
           /\ Absent(Consumed(e), m) /\ Unready(c, m)
<1> DEFINE e == sels[p][id]  m == ep[e].hdr.m  c == [ep EXCEPT ![e] = Rearmed(e, b)]  u == Head(net[e])
           w == Tail(net[e])  q == Consumed(e)
<1>1. e \in Ends
  BY ServedFacts
<1>2. net \in Sockets /\ ep \in [Ends -> Conns] /\ Pair(ep, net, h, n.msgs)
  BY MsgParts
<1>3. u.u = "payload" /\ u.t = ep[e].hdr.t /\ u.m = m /\ u.t \in {"sync", "async"} /\ UnitOK(e, u, h, n.msgs)
  BY PayloadFacts
<1>4. \A i \in DOMAIN w : Token(w[i]) /\ Token(u) => w[i].m # u.m
  BY <1>1, <1>2, NextUnit
<1>5. q \in Sockets
  BY <1>1, <1>2, ConsumedType
<1>6. Pair(c, q, h, n.msgs)
  <2>1. ConnOK(e, Rearmed(e, b), w, h, n.msgs)
    BY RearmedMsg
  <2> DEFINE d == Rearmed(e, b)
  <2> HIDE DEF d
  <2>2. ConnOK(e, d, Tail(net[e]), h, n.msgs)
    BY <2>1 DEF d
  <2>3. Pair([ep EXCEPT ![e] = d], Consumed(e), h, n.msgs)
    <3> HIDE DEF e
    <3> QED BY <1>1, <1>2, <2>2, PairTake DEF e
  <2> QED BY <2>3 DEF d
<1>7. q[e] = w
  BY <1>1, <1>2 DEF Consumed, Sockets
<1> HIDE DEF u, w, q, c, e, m
<1>8. Req(u) /\ Token(u)
  BY <1>3 DEF Req, Token
<1>9. m \in 1 .. n.msgs /\ h.from[m] = Peer(e) /\ h.runs[m] = 0 /\ h.replies[m] = 0 /\ (u.t = "sync" => Good(h, m))
  BY <1>3, <1>8 DEF UnitOK
<1>10. Absent(q, m)
  <2> SUFFICES ASSUME NEW x \in Ends, NEW i \in DOMAIN q[x], Token(q[x][i]), q[x][i].m = m PROVE FALSE
    BY DEF Absent
  <2> DEFINE v == q[x][i]
  <2>1. UnitOK(x, v, h, n.msgs) /\ Token(v) /\ v.m = m
    BY <1>6 DEF Pair, NetOK, WordOK
  <2>2. CASE x = e
    BY <1>3, <1>4, <1>7, <1>8, <2>1, <2>2
  <2>3. CASE x # e
    <3> HIDE DEF v
    <3>1. CASE Rsp(v)
      BY <1>9, <2>1, <3>1 DEF UnitOK
    <3>2. CASE Req(v)
      <4>1. Peer(e) = Peer(x)
        BY <1>9, <2>1, <3>2 DEF UnitOK
      <4> QED BY <1>1, <2>3, <4>1, PeerOne
    <3> QED BY <2>1, <3>1, <3>2 DEF Token
  <2> QED BY <2>2, <2>3
<1>11. Unready(c, m)
  <2> SUFFICES ASSUME NEW x \in Ends, c[x].ready, c[x].resp = m PROVE FALSE
    BY DEF Unready
  <2>1. ReadyOK(x, c[x], q[x], h, n.msgs)
    BY <1>6 DEF Pair, ConnsOK, ConnOK
  <2> QED BY <1>9, <2>1 DEF ReadyOK
<1> QED BY <1>3, <1>5, <1>6, <1>9, <1>10, <1>11, Zenon DEF q, c, e, m

\* A message that was not evaluated is on no stack.
LEMMA Unstarted ==
    ASSUME NEW p, NEW k, NEW H, NEW N, FramesOK(p, k, H, N), NEW m, H.runs[m] = 0
    PROVE  NoFrame(k, Evals, m)
BY DEF FramesOK, FrameMsg, NoFrame

\* A message is evaluated or answered by p.
LEMMA ServedStep ==
    ASSUME IpcInv, MsgInv, NEW p \in Procs, NEW m \in 1 .. n.msgs, NEW r \in {0, 1}, NEW v \in {0, 1},
           NEW H2 \in Histories, Served1(h, H2, m, r, v), NEW c, NEW q, Pair(c, q, h, n.msgs),
           Absent(q, m), Unready(c, m), NEW k, FramesOK(p, k, h, n.msgs), NoFrame(k, Evals, m)
    PROVE  /\ HistOK(H2, n.msgs) /\ Carries(h, H2, m) /\ WaitersKept(h, H2, 0)
           /\ H2.from[m] = h.from[m] /\ H2.runs[m] = r /\ H2.replies[m] = v /\ (Good(h, m) => Good(H2, m))
           /\ Pair(c, q, H2, n.msgs) /\ FramesOK(p, k, H2, n.msgs)
           /\ \A x \in Procs : NoFrame(stack[x], Waits, 0)
<1> DEFINE H == h  N == n.msgs
<1>1. HistOK(H, N) /\ N \in Nat /\ N \in 0 .. MaxMsgs /\ N <= MaxMsgs /\ N \in {N, N + 1}
  BY MsgParts
<1>2. m \in 1 .. N /\ Served1(H, H2, m, r, v) /\ Pair(c, q, H, N) /\ FramesOK(p, k, H, N)
  OBVIOUS
<1>3. \A x \in Procs : FramesOK(x, stack[x], H, N)
  BY MsgParts
<1> HIDE DEF H, N
<1>4. /\ HistOK(H2, N) /\ Carries(H, H2, m) /\ WaitersKept(H, H2, 0) /\ Fewer(H, H2)
      /\ H2.from[m] = H.from[m] /\ H2.runs[m] = r /\ H2.replies[m] = v
      /\ Good(H, m) => Good(H2, m)
  BY <1>1, <1>2, HistServed
<1>5. Pair(c, q, H2, N)
  BY <1>1, <1>2, <1>4, PairCarried
<1>6. NoFrame(k, Waits, 0)
  BY <1>1, <1>2, FramesPositive
<1>7. FramesOK(p, k, H2, N)
  BY <1>1, <1>2, <1>4, <1>6, FramesCarried
<1>8. \A x \in Procs : NoFrame(stack[x], Waits, 0)
  BY <1>1, <1>3, FramesPositive
<1> QED BY <1>4, <1>5, <1>7, <1>8 DEF H, N

LEMMA ReadRequestMsg ==
    ASSUME IpcInv, MsgInv, NEW p \in Procs, NEW id, NEW k, Served(p, id, k), FramesOK(p, k, h, n.msgs),
           net[sels[p][id]] # <<>>, ReadRequest(p, id, k, sels[p][id]), UNCHANGED n
    PROVE  MsgInv'
<1> DEFINE e == sels[p][id]  m == ep[e].hdr.m  t == ep[e].hdr.t  kind == IF t = "sync" THEN "eval" ELSE "evala"
           f == Frame(kind, id, e, m, ctx[p])  q == Consumed(e)  N == n.msgs  H == h  H2 == h'
<1>1. e \in Ends /\ Owner(e) = p /\ id \in Ids /\ k \in Seq(Frames) /\ ctx[p] \in Ids /\ e # None
  BY ServedFacts, Parts, EndFacts
<1>2. /\ ep[e].st = "payload" /\ t # "resp" /\ net' = q /\ stack' = [stack EXCEPT ![p] = Append(k, f)]
      /\ H2 = [H EXCEPT !.runs[m] = @ + 1]
  BY Zenon DEF ReadRequest, Call
<1>3. PICK b \in Bufs : ep' = [ep EXCEPT ![e] = Rearmed(e, b)]
  BY Zenon DEF ReadRequest
<1> DEFINE c == [ep EXCEPT ![e] = Rearmed(e, b)]
<1>4. b \in BOOLEAN /\ H \in Histories /\ N \in 0 .. MaxMsgs /\ n'.msgs = N
  BY BufTypes, MsgParts
<1>5. /\ m \in 1 .. N /\ H.from[m] = Peer(e) /\ H.runs[m] = 0 /\ H.replies[m] = 0
      /\ t = "sync" => Good(H, m)
      /\ Pair(c, q, H, N) /\ Absent(q, m) /\ Unready(c, m)
  BY <1>2, <1>4, RequestTaken, ZenonT(60)
<1>6. m \in Msgs /\ m \in Nat
  BY <1>4, <1>5, RangeFacts
<1>7. kind \in FrameKinds /\ kind \in Evals /\ (kind = "eval" => t = "sync") /\ e \in Ends \cup {None}
  BY <1>1, KindFacts DEF Evals
<1> HIDE DEF kind, m, t, q, c, N, H, H2
<1>8. f \in Frames /\ f.k = kind /\ f.e = e /\ f.m = m
  BY <1>1, <1>4, <1>6, <1>7 DEF Frame, Frames
<1>9. H2 \in Histories /\ Served1(H, H2, m, 1, 0)
  BY <1>2, <1>4, <1>5, <1>6, RunForm
<1>10. FramesOK(p, k, H, N) /\ NoFrame(k, Evals, m)
  BY <1>5, Unstarted DEF H, N
<1>11. \A x \in Procs \ {p} : NoFrame(stack[x], Evals, m)
  <2> SUFFICES ASSUME NEW x \in Procs PROVE NoFrame(stack[x], Evals, m)
    OBVIOUS
  <2>1. FramesOK(x, stack[x], H, N)
    BY MsgParts DEF H, N
  <2> QED BY <1>5, <2>1, Unstarted
<1>12. /\ HistOK(H2, N) /\ Carries(H, H2, m) /\ WaitersKept(H, H2, 0)
       /\ H2.from[m] = H.from[m] /\ H2.runs[m] = 1 /\ H2.replies[m] = 0 /\ (Good(H, m) => Good(H2, m))
       /\ Pair(c, q, H2, N) /\ FramesOK(p, k, H2, N)
       /\ \A x \in Procs : NoFrame(stack[x], Waits, 0)
  BY <1>5, <1>9, <1>10, ServedStep DEF H, N
<1> HIDE DEF f
<1>13. FrameMsg(p, f, H2, N)
  BY <1>1, <1>5, <1>7, <1>8, <1>12 DEF FrameMsg, Evals, Waits
<1>14. FramesOK(p, Append(k, f), H2, N)
  <2>1. f.k \notin Waits
    BY <1>7, <1>8 DEF Evals, Waits
  <2> QED BY <1>1, <1>8, <1>10, <1>12, <1>13, <2>1, FramesPush
<1>15. Pair(ep', net', h', n'.msgs) /\ HistOK(h', n'.msgs) /\ n'.msgs \in {n.msgs, n.msgs + 1}
  BY <1>2, <1>3, <1>4, <1>12 DEF c, H2, N
<1>16. Carries(h, h', m) /\ WaitersKept(h, h', 0) /\ FramesOK(p, Append(k, f), h', n'.msgs)
  BY <1>4, <1>12, <1>14 DEF H, H2
<1>17. stack' = [stack EXCEPT ![p] = Append(k, f)]
  BY <1>2
<1> DEFINE a == Append(k, f)
<1> HIDE DEF a
<1>18. stack' = [stack EXCEPT ![p] = a] /\ FramesOK(p, a, h', n'.msgs)
  BY <1>16, <1>17 DEF a
<1>19. \A x \in Procs \ {p} : NoFrame(stack[x], Evals, m) /\ NoFrame(stack[x], Waits, 0)
  BY <1>11, <1>12
<1> QED BY <1>15, <1>16, <1>18, <1>19, MsgStep

\* A response is sent.
LEMMA Responded ==
    ASSUME NEW c, NEW q \in Sockets, NEW H, NEW N \in Nat, Pair(c, q, H, N), NEW e \in Ends, NEW t \in {"resp", "big"},
           NEW m \in 1 .. N, H.from[m] = Peer(e), H.replies[m] = 1, Good(H, m), Absent(q, m), Unready(c, m)
    PROVE  Pair(c, Write(q, e, Message(t, m)), H, N)
<1>a. Peer(e) \in Ends
  BY EndFacts
<1>b. m \in Nat
  OBVIOUS
<1>c. t \in UnitTypes
  BY DEF UnitTypes
<1>1. Peer(e) \in Ends /\ m \in Nat /\ t \in UnitTypes
  BY <1>a, <1>b, <1>c
<1> DEFINE u == Unit("payload", t, m)
<1>2. u.u = "payload" /\ u.t = t /\ u.m = m
  BY <1>1, MessageFacts
<1> HIDE DEF u
<1>3. UnitOK(Peer(e), u, H, N)
  BY <1>2 DEF UnitOK, Req, Rsp
<1>4. \A i \in DOMAIN q[Peer(e)] : Token(q[Peer(e)][i]) => q[Peer(e)][i].m # m
  BY <1>1 DEF Absent
<1>5. c[Peer(e)].ready => c[Peer(e)].resp # m
  BY <1>1 DEF Unready
<1>6. t \in {"sync", "async", "resp", "big"}
  OBVIOUS
<1> QED BY <1>1, <1>3, <1>4, <1>5, <1>6, PairMessage DEF u

LEMMA ReadCancelledMsg ==
    ASSUME IpcInv, MsgInv, NEW p \in Procs, NEW id, NEW k, Served(p, id, k), FramesOK(p, k, h, n.msgs),
           net[sels[p][id]] # <<>>, ReadCancelled(p, id, k, sels[p][id]), UNCHANGED n
    PROVE  MsgInv'
<1> DEFINE e == sels[p][id]  m == ep[e].hdr.m  t == ep[e].hdr.t
           q == Consumed(e)  N == n.msgs  H == h  H2 == h'  v == IF t = "sync" THEN 1 ELSE 0  C == H.cancel \cup {m}
<1>1. e \in Ends
  BY ServedFacts
<1>2. ep[e].st = "payload" /\ t # "resp" /\ stack' = [stack EXCEPT ![p] = k]
  BY DEF ReadCancelled
<1>3. PICK b \in Bufs : ep' = [ep EXCEPT ![e] = Rearmed(e, b)]
  BY Zenon DEF ReadCancelled
<1>4. /\ net' = q \/ (t = "sync" /\ net' = Write(q, e, Message("resp", m)))
      /\ h' = [h EXCEPT !.cancel = @ \cup {m}, !.replies[m] = IF t = "sync" THEN @ + 1 ELSE @]
  BY Zenon DEF ReadCancelled
<1> DEFINE c == [ep EXCEPT ![e] = Rearmed(e, b)]
<1>5. b \in BOOLEAN /\ H \in Histories /\ N \in 0 .. MaxMsgs /\ n'.msgs = N /\ N \in Nat
  BY BufTypes, MsgParts, SMTT(30)
<1>6. /\ m \in 1 .. N /\ H.from[m] = Peer(e) /\ H.runs[m] = 0 /\ H.replies[m] = 0
      /\ t = "sync" => Good(H, m)
      /\ Pair(c, q, H, N) /\ q \in Sockets /\ Absent(q, m) /\ Unready(c, m)
  BY <1>2, <1>5, RequestTaken, ZenonT(60)
<1>7. m \in Msgs /\ m \in Nat
  BY <1>5, <1>6, RangeFacts
<1>8. C \in SUBSET Nat
  BY <1>5, <1>7, HistFields
<1>9. H2 = [H EXCEPT !.cancel = C, !.replies[m] = v]
  <2> DEFINE y == IF t = "sync" THEN H.replies[m] + 1 ELSE H.replies[m]
  <2>1. H2 = [H EXCEPT !.cancel = C, !.replies[m] = y]
    <3>1. H2 = [H EXCEPT !.cancel = @ \cup {m}, !.replies[m] = IF t = "sync" THEN @ + 1 ELSE @]
      BY <1>4, ZenonT(60)
    <3> HIDE DEF H, H2, m, t
    <3> QED BY <3>1, Zenon
  <2>2. y = v
    BY <1>6
  <2> HIDE DEF y, v, C, m, H, H2
  <2> QED BY <2>1, <2>2, Zenon
<1>10. v \in {0, 1} /\ (t = "sync" => v = 1)
  OBVIOUS
<1> HIDE DEF m, t, q, c, N, H, H2, v, C, e
<1>11. H2 \in Histories /\ Served1(H, H2, m, 0, v)
  BY <1>5, <1>6, <1>7, <1>8, <1>9, <1>10, ReplyForm
<1>12. FramesOK(p, k, H, N) /\ NoFrame(k, Evals, m)
  BY <1>6, Unstarted DEF H, N
<1>13. \A x \in Procs \ {p} : NoFrame(stack[x], Evals, m)
  <2> SUFFICES ASSUME NEW x \in Procs PROVE NoFrame(stack[x], Evals, m)
    OBVIOUS
  <2>1. FramesOK(x, stack[x], H, N)
    BY MsgParts DEF H, N
  <2> QED BY <1>6, <2>1, Unstarted
<1>14. /\ HistOK(H2, N) /\ Carries(H, H2, m) /\ WaitersKept(H, H2, 0)
       /\ H2.from[m] = H.from[m] /\ H2.replies[m] = v /\ (Good(H, m) => Good(H2, m))
       /\ Pair(c, q, H2, N) /\ FramesOK(p, k, H2, N)
       /\ \A x \in Procs : NoFrame(stack[x], Waits, 0)
  BY <1>6, <1>10, <1>11, <1>12, ServedStep DEF H, N
<1>15. t = "sync" => Pair(c, Write(q, e, Message("resp", m)), H2, N)
  BY <1>1, <1>5, <1>6, <1>10, <1>14, Responded
<1>16. Pair(ep', net', h', n'.msgs) /\ HistOK(h', n'.msgs) /\ n'.msgs \in {n.msgs, n.msgs + 1}
  BY <1>3, <1>4, <1>5, <1>14, <1>15 DEF c, H2, N
<1>17. Carries(h, h', m) /\ WaitersKept(h, h', 0) /\ FramesOK(p, k, h', n'.msgs)
  BY <1>5, <1>14 DEF H, H2
<1>18. \A x \in Procs \ {p} : NoFrame(stack[x], Evals, m) /\ NoFrame(stack[x], Waits, 0)
  BY <1>13, <1>14
<1> QED BY <1>2, <1>16, <1>17, <1>18, MsgStep

LEMMA ReadMsg ==
    ASSUME IpcInv, MsgInv, NEW p \in Procs, NEW id, NEW k, Served(p, id, k), FramesOK(p, k, h, n.msgs),
           HasUnit(sels[p][id]), ReadFn(p, id, k), UNCHANGED n
    PROVE  MsgInv'
<1>1. net[sels[p][id]] # <<>>
  BY DEF HasUnit
<1> QED BY <1>1, ReadHandshakeMsg, ReadCredsMsg, ReadHeaderMsg, ReadResponseMsg, ReadCancelledMsg,
           ReadRequestMsg DEF ReadFn

LEMMA ReadsMsg ==
    ASSUME IpcInv, MsgInv, NEW p \in Procs, Read(p)
    PROVE  MsgInv'
<1>1. FramesOK(p, stack[p], h, n.msgs)
  BY MsgParts
<1>2. /\ In(p, {"rx", "rxhup"}) \/ In(p, {"sync"})
      /\ sels[p][Top(p).id] # None /\ HasUnit(sels[p][Top(p).id]) /\ ReadFn(p, Top(p).id, stack[p]) /\ UNCHANGED n
  BY DEF Read, RxRead, SyncPump, Syncing
<1>3. Served(p, Top(p).id, stack[p])
  BY <1>2, RxServed, SyncServed
<1> QED BY <1>1, <1>2, <1>3, ReadMsg

-----------------------------------------------------------------------------
(* Replies.                                                                *)

\* A message that is being evaluated travels nowhere.
LEMMA InHand ==
    ASSUME NEW c, NEW q, NEW H, NEW N, Pair(c, q, H, N), NEW m, H.runs[m] = 1, H.replies[m] = 0
    PROVE  Absent(q, m) /\ Unready(c, m)
<1>1. ASSUME NEW e \in Ends, NEW i \in DOMAIN q[e], Token(q[e][i]), q[e][i].m = m PROVE FALSE
  <2> DEFINE u == q[e][i]
  <2>1. UnitOK(e, u, H, N) /\ Token(u) /\ u.m = m
    BY <1>1 DEF Pair, NetOK, WordOK
  <2> HIDE DEF u
  <2> QED BY <2>1 DEF UnitOK, Token
<1>2. ASSUME NEW e \in Ends, c[e].ready, c[e].resp = m PROVE FALSE
  <2>1. ReadyOK(e, c[e], q[e], H, N)
    BY DEF Pair, ConnsOK, ConnOK
  <2> QED BY <1>2, <2>1 DEF ReadyOK
<1> QED BY <1>1, <1>2 DEF Absent, Unready

\* A slot that holds the data of end e holds e.
LEMMA SlotIsOwn ==
    ASSUME IpcInv, MsgInv, NEW p \in Procs, NEW id \in Slots, NEW e \in Ends, sels[p][id] # None,
           ep[sels[p][id]].addr = ep[e].addr
    PROVE  sels[p][id] = e /\ ep[e].st \in Live
<1>1. sels[p] \in Tables /\ TableOK(p, sels[p], ep) /\ Pair(ep, net, h, n.msgs)
  BY Parts, MsgParts
<1> DEFINE x == sels[p][id]
<1>2. x \in Ends /\ ep[x].st \in Live /\ x # None
  BY <1>1 DEF TableOK, Tables
<1>3. AddrOK(x, ep[x]) /\ AddrOK(e, ep[e])
  BY <1>1, <1>2 DEF Pair, ConnsOK, ConnOK
<1>4. ep[x].addr = x /\ ep[e].addr \in {e, None}
  BY <1>2, <1>3 DEF AddrOK
<1>5. x = e
  BY <1>2, <1>4
<1> QED BY <1>2, <1>5

LEMMA EvalEndMsg ==
    ASSUME IpcInv, MsgInv, NEW p \in Procs, EvalEnd(p)
    PROVE  MsgInv'
<1> DEFINE f == Top(p)  e == f.e  m == f.m  to == ReplyTo(p, f)  N == n.msgs  H == h  H2 == h'  k == Below(p)
<1>1. In(p, Evals) /\ stack[p] # <<>> /\ f.k \in Evals /\ stack' = [stack EXCEPT ![p] = k] /\ UNCHANGED <<ep, n>>
  BY DEF EvalEnd, In
<1>2. f.e \in Ends \cup {None} /\ f.id \in Slots
  BY <1>1, Parts, TopFacts DEF In, Evals, StackOK, SlotOK
<1>3. /\ FramesOK(p, k, H, N) /\ FrameMsg(p, f, H, N) /\ NoFrame(k, Evals, m)
  BY <1>1, TopMsg
<1>4. /\ m \in 1 .. N /\ e \in Ends /\ Owner(e) = p /\ H.from[m] = Peer(e) /\ H.runs[m] = 1 /\ H.replies[m] = 0
      /\ f.k = "eval" => Good(H, m)
  BY <1>1, <1>2, <1>3 DEF FrameMsg
<1>5. /\ H \in Histories /\ N \in 0 .. MaxMsgs /\ N \in Nat /\ n'.msgs = N /\ net \in Sockets /\ Pair(ep, net, H, N)
  BY <1>1, MsgParts
<1>6. to = None \/ (to = e /\ f.k = "eval")
  BY <1>2, <1>4, SlotIsOwn DEF ReplyTo
<1>7. PICK cut \in {FALSE, intr[p]}, t \in Sizes("resp"), lost \in Lost :
            /\ net' = IF to = None \/ lost THEN net ELSE Write(net, to, Message(t, m))
            /\ h' = [h EXCEPT !.cancel = IF cut THEN @ \cup {m} ELSE @,
                              !.replies[m] = IF to = None THEN @ ELSE IF to = e THEN @ + 1 ELSE 2]
  BY DEF EvalEnd
<1> DEFINE v == IF to = None THEN 0 ELSE 1  C == IF cut THEN H.cancel \cup {m} ELSE H.cancel
<1>8. m \in Msgs /\ m \in Nat
  BY <1>4, <1>5, RangeFacts
<1>9. C \in SUBSET Nat
  BY <1>5, <1>8, HistFields
<1>10. H2 = [H EXCEPT !.cancel = C, !.replies[m] = v]
  <2>1. CASE to = None
    BY <1>4, <1>7, <2>1
  <2>2. CASE to = e /\ to # None
    BY <1>4, <1>7, <2>2
  <2> QED BY <1>6, <2>1, <2>2
<1>11. v \in {0, 1} /\ (to # None => v = 1)
  OBVIOUS
<1>12. t \in {"resp", "big"}
  BY DEF Sizes
<1>13. net' = net \/ (to # None /\ net' = Write(net, e, Message(t, m)))
  BY <1>6, <1>7
<1> HIDE DEF v, C, to, N, H, H2, k
<1>14. H2 \in Histories /\ Served1(H, H2, m, 1, v)
  <2> HIDE DEF m, f
  <2> QED BY <1>4, <1>5, <1>8, <1>9, <1>10, <1>11, ReplyForm
<1>15. Absent(net, m) /\ Unready(ep, m)
  BY <1>4, <1>5, InHand
<1>16. \A x \in Procs \ {p} : NoFrame(stack[x], Evals, m)
  BY <1>4, Elsewhere DEF H
<1> HIDE DEF m, e, f
<1>17. /\ HistOK(H2, N) /\ Carries(H, H2, m) /\ WaitersKept(H, H2, 0)
       /\ H2.from[m] = H.from[m] /\ H2.replies[m] = v /\ (Good(H, m) => Good(H2, m))
       /\ Pair(ep, net, H2, N) /\ FramesOK(p, k, H2, N)
       /\ \A x \in Procs : NoFrame(stack[x], Waits, 0)
  BY <1>3, <1>4, <1>5, <1>11, <1>14, <1>15, ServedStep DEF H, N
<1>18. to # None => Pair(ep, Write(net, e, Message(t, m)), H2, N)
  <2> SUFFICES ASSUME to # None PROVE Pair(ep, Write(net, e, Message(t, m)), H2, N)
    OBVIOUS
  <2>1. H2.from[m] = Peer(e) /\ H2.replies[m] = 1 /\ Good(H2, m)
    BY <1>4, <1>6, <1>11, <1>17
  <2> QED BY <1>4, <1>5, <1>12, <1>15, <1>17, <2>1, Responded
<1>19. Pair(ep', net', h', n'.msgs) /\ HistOK(h', n'.msgs) /\ n'.msgs \in {n.msgs, n.msgs + 1}
  BY <1>1, <1>5, <1>13, <1>17, <1>18 DEF H2, N
<1>20. Carries(h, h', m) /\ WaitersKept(h, h', 0) /\ FramesOK(p, k, h', n'.msgs)
  BY <1>5, <1>17 DEF H, H2
<1>21. \A x \in Procs \ {p} : NoFrame(stack[x], Evals, m) /\ NoFrame(stack[x], Waits, 0)
  BY <1>16, <1>17
<1> QED BY <1>1, <1>19, <1>20, <1>21, MsgStep

-----------------------------------------------------------------------------
(* sync_send.                                                              *)

\* What was answered is not being evaluated.
LEMMA Answered ==
    ASSUME NEW p, NEW k, NEW H, NEW N, FramesOK(p, k, H, N), NEW m, H.replies[m] = 1
    PROVE  NoFrame(k, Evals, m)
BY DEF FramesOK, FrameMsg, NoFrame

\* The request on top gets its result r; l is the message that may be forgotten.
LEMMA Returned ==
    ASSUME IpcInv, MsgInv, NEW p \in Procs, stack[p] # <<>>, Top(p).k \in Waits,
           NEW r \in {"error", "reply", "other"}, SyncReturn(p, r), UNCHANGED n,
           r = "other" => Spoilt(h, h.from[Top(p).m]), NEW l,
           (l = 0 /\ r # "reply") \/ (l = Top(p).m /\ h.replies[l] = 1),
           NEW c, Pair(c, net, h, n.msgs), Absent(net, l), Unready(c, l)
    PROVE  /\ Pair(c, net, h', n.msgs)
           /\ c[Top(p).e].st # "freed" => \A j \in 1 .. n.msgs : ~(h'.from[j] = Top(p).e /\ h'.result[j] = "waits")
           /\ Pair(ep', net', h', n.msgs) => MsgInv'
<1> DEFINE f == Top(p)  e == f.e  m == f.m  H == h  H2 == h'  N == n.msgs  k == Below(p)
<1>1. stack' = [stack EXCEPT ![p] = k] /\ H2 = [H EXCEPT !.result[m] = r] /\ n'.msgs = N
  BY DEF SyncReturn
<1>2. /\ FramesOK(p, k, H, N) /\ FrameMsg(p, f, H, N) /\ NoFrame(k, Waits, m) /\ f.e \in Ends \cup {None}
  BY TopMsg, TopFacts
<1>3. m \in 1 .. N /\ e \in Ends /\ Owner(e) = p /\ H.from[m] = e /\ H.result[m] = "waits"
  BY <1>2 DEF FrameMsg
<1>4. HistOK(H, N) /\ N \in 0 .. MaxMsgs /\ N \in Nat /\ N <= MaxMsgs /\ N \in {N, N + 1} /\ Pair(c, net, H, N)
  BY MsgParts
<1>5. \A x \in Procs \ {p} : NoFrame(stack[x], Waits, m)
  BY <1>3, Elsewhere
<1>6. \A x \in Procs : FramesOK(x, stack[x], H, N)
  BY MsgParts
<1>7. (l = 0 /\ r # "reply") \/ (l = m /\ H.replies[l] = 1)
  OBVIOUS
<1>8. r = "other" => Spoilt(H, H.from[m])
  OBVIOUS
<1> HIDE DEF f, e, m, H, H2, N, k
<1>9. /\ HistOK(H2, N) /\ WaitersKept(H, H2, m) /\ Fewer(H, H2) /\ H2.from = H.from /\ H2.result[m] = r
      /\ Carries(H, H2, m) /\ (r # "reply" => Carries(H, H2, 0))
  BY <1>1, <1>3, <1>4, <1>8, HistReturned
<1>10. Carries(H, H2, l)
  BY <1>7, <1>9
<1>11. Pair(c, net, H2, N)
  BY <1>4, <1>9, <1>10, PairCarried
<1>12. ASSUME NEW x, NEW s, FramesOK(x, s, H, N) PROVE NoFrame(s, Evals, l)
  <2>1. CASE l = 0
    BY <1>4, <1>12, <2>1, FramesPositive
  <2>2. CASE H.replies[l] = 1
    BY <1>12, <2>2, Answered
  <2> QED BY <1>7, <2>1, <2>2
<1>13. FramesOK(p, k, H2, N)
  <2>1. NoFrame(k, Evals, l)
    BY <1>2, <1>12
  <2> QED BY <1>2, <1>4, <1>9, <1>10, <2>1, FramesCarried
<1>14. \A x \in Procs \ {p} : NoFrame(stack[x], Evals, l) /\ NoFrame(stack[x], Waits, m)
  BY <1>5, <1>6, <1>12
<1>15. ASSUME c[e].st # "freed", NEW j \in 1 .. N, H2.from[j] = e, H2.result[j] = "waits" PROVE FALSE
  <2>1. j \in Msgs
    BY <1>4, <1>15, RangeFacts
  <2>2. H.result[j] = "waits" /\ H.from[j] = e
    BY <1>9, <1>15, <2>1 DEF Fewer
  <2>3. WaitOK(e, c[e], H, N)
    BY <1>3, <1>4 DEF Pair, ConnsOK, ConnOK
  <2>4. j = m
    BY <1>3, <1>15, <2>2, <2>3 DEF WaitOK
  <2> QED BY <1>9, <1>15, <2>4
<1>16. ASSUME Pair(ep', net', H2, N) PROVE MsgInv'
  <2>1. /\ Pair(ep', net', h', n'.msgs) /\ HistOK(h', n'.msgs) /\ n'.msgs \in {n.msgs, n.msgs + 1}
        /\ Carries(h, h', l) /\ WaitersKept(h, h', m) /\ FramesOK(p, k, h', n'.msgs)
    BY <1>1, <1>9, <1>10, <1>13, <1>16 DEF H, H2, N
  <2> QED BY <1>1, <1>14, <2>1, MsgStep
<1> QED BY <1>11, <1>15, <1>16 DEF f, e, H2, N

LEMMA SyncClosedMsg ==
    ASSUME IpcInv, MsgInv, NEW p \in Procs, SyncClosed(p)
    PROVE  MsgInv'
<1>1. stack[p] # <<>> /\ Top(p).k \in Waits /\ SyncReturn(p, "error") /\ UNCHANGED <<ep, net, n>>
  BY DEF SyncClosed, Syncing, In, Waits
<1>2. Pair(ep, net, h, n.msgs) /\ n.msgs \in Nat
  BY MsgParts
<1>3. Absent(net, 0) /\ Unready(ep, 0)
  BY <1>2, Positive
<1>4. Pair(ep, net, h', n.msgs) /\ (Pair(ep', net', h', n.msgs) => MsgInv')
  BY <1>1, <1>2, <1>3, Returned
<1> QED BY <1>1, <1>4

\* The connection of e waits no more.
LEMMA Unwaited ==
    ASSUME NEW c \in [Ends -> Conns], NEW q, NEW H, NEW N, Pair(c, q, H, N), NEW e \in Ends, NEW d,
           d.st = c[e].st, d.addr = c[e].addr, d.hdr = c[e].hdr, ~d.ready,
           \A j \in 1 .. N : ~(H.from[j] = e /\ H.result[j] = "waits")
    PROVE  Pair([c EXCEPT ![e] = d], q, H, N)
<1>1. AddrOK(e, c[e]) /\ ParseOK(c[e], q[e])
  BY DEF Pair, ConnsOK, ConnOK
<1>2. AddrOK(e, d) /\ ParseOK(d, q[e]) /\ ReadyOK(e, d, q[e], H, N) /\ WaitOK(e, d, H, N)
  BY <1>1 DEF AddrOK, ParseOK, ReadyOK, WaitOK
<1>3. ConnOK(e, d, q[e], H, N)
  BY <1>2 DEF ConnOK
<1> QED BY <1>3, PairConn

\* The request on top still has its connection.
LEMMA PumpedOwn ==
    ASSUME IpcInv, MsgInv, NEW p \in Procs, Pumped(p)
    PROVE  /\ stack[p] # <<>> /\ Top(p).k \in Waits /\ Top(p).e \in Ends /\ sels[p][Top(p).id] = Top(p).e
           /\ ep[Top(p).e].st # "freed" /\ ep[Top(p).e] \in Conns /\ ep \in [Ends -> Conns]
           /\ Top(p).m \in 1 .. n.msgs /\ h.from[Top(p).m] = Top(p).e /\ h.result[Top(p).m] = "waits"
<1>1. In(p, {"sync"}) /\ stack[p] # <<>> /\ sels[p][Top(p).id] # None /\ Top(p).k \in Waits /\ Top(p).k = "sync"
  BY DEF Pumped, Syncing, In, Waits
<1>2. FrameMsg(p, Top(p), h, n.msgs) /\ Top(p).e \in Ends \cup {None} /\ Top(p).id \in Slots
  BY <1>1, TopMsg, Parts, TopFacts DEF StackOK, SlotOK
<1>3. Top(p).e \in Ends /\ Top(p).m \in 1 .. n.msgs /\ h.from[Top(p).m] = Top(p).e /\ h.result[Top(p).m] = "waits"
  BY <1>1, <1>2 DEF FrameMsg
<1>4. sels[p][Top(p).id] = Top(p).e /\ ep[Top(p).e].st \in Live
  BY <1>1, <1>2, <1>3, SlotIsOwn DEF Pumped
<1>5. ep \in [Ends -> Conns]
  BY Parts
<1> QED BY <1>1, <1>3, <1>4, <1>5 DEF Live

LEMMA SyncPollFailsMsg ==
    ASSUME IpcInv, MsgInv, NEW p \in Procs, SyncPollFails(p)
    PROVE  MsgInv'
<1> DEFINE e == Top(p).e  d == [ep[e] EXCEPT !.waiting = FALSE]
<1>1. Pumped(p) /\ SyncReturn(p, "error") /\ UNCHANGED <<net, n>>
  BY DEF SyncPollFails
<1>2. /\ stack[p] # <<>> /\ Top(p).k \in Waits /\ e \in Ends /\ sels[p][Top(p).id] = e /\ ep[e].st # "freed"
      /\ ep[e] \in Conns /\ ep \in [Ends -> Conns]
  BY <1>1, PumpedOwn
<1>3. ~ep[e].ready /\ ep' = [ep EXCEPT ![e].waiting = FALSE]
  BY <1>2 DEF SyncPollFails
<1>4. Pair(ep, net, h, n.msgs) /\ n.msgs \in Nat
  BY MsgParts
<1>5. Absent(net, 0) /\ Unready(ep, 0)
  BY <1>4, Positive
<1>6. /\ Pair(ep, net, h', n.msgs) /\ (Pair(ep', net', h', n.msgs) => MsgInv')
      /\ \A j \in 1 .. n.msgs : ~(h'.from[j] = e /\ h'.result[j] = "waits")
  BY <1>1, <1>2, <1>4, <1>5, Returned
<1>7. ep' = [ep EXCEPT ![e] = d]
  <2> HIDE DEF e
  <2> QED BY <1>3
<1>8. d.st = ep[e].st /\ d.addr = ep[e].addr /\ d.hdr = ep[e].hdr /\ d.ready = ep[e].ready
  BY <1>2 DEF Conns
<1> DEFINE H2 == h'  N == n.msgs
<1> HIDE DEF d, e, H2, N
<1>9. Pair(ep, net, H2, N) /\ \A j \in 1 .. N : ~(H2.from[j] = e /\ H2.result[j] = "waits")
  BY <1>6 DEF H2, N
<1>10. Pair([ep EXCEPT ![e] = d], net, H2, N)
  BY <1>2, <1>3, <1>8, <1>9, Unwaited
<1> QED BY <1>1, <1>6, <1>7, <1>10 DEF H2, N

LEMMA SyncTakeMsg ==
    ASSUME IpcInv, MsgInv, NEW p \in Procs, SyncTake(p)
    PROVE  MsgInv'
<1> DEFINE e == Top(p).e  m == Top(p).m  a == [ep[e] EXCEPT !.ready = FALSE, !.resp = 0]  d == [a EXCEPT !.waiting = FALSE]
           r == IF ep[e].resp = m THEN "reply" ELSE "other"  c == [ep EXCEPT ![e] = a]  H == h  N == n.msgs
<1>1. Pumped(p) /\ UNCHANGED <<net, n>>
  BY DEF SyncTake
<1>2. /\ stack[p] # <<>> /\ Top(p).k \in Waits /\ e \in Ends /\ sels[p][Top(p).id] = e /\ ep[e].st # "freed"
      /\ ep[e] \in Conns /\ ep \in [Ends -> Conns] /\ m \in 1 .. N /\ H.from[m] = e /\ H.result[m] = "waits"
  BY <1>1, PumpedOwn
<1>3. /\ ep[e].ready /\ ep' = [ep EXCEPT ![e].waiting = FALSE, ![e].ready = FALSE, ![e].resp = 0]
      /\ SyncReturn(p, r)
  BY <1>2 DEF SyncTake
<1>4. Pair(ep, net, H, N) /\ N \in Nat
  BY MsgParts
<1> DEFINE g == ep[e]  w == net[e]
<1>5. ConnOK(e, g, w, H, N)
  BY <1>2, <1>4 DEF Pair, ConnsOK
<1>6. g \in Conns /\ g.ready
  BY <1>2, <1>3
<1>7. a = [g EXCEPT !.ready = FALSE, !.resp = 0]
  OBVIOUS
<1>8. ep' = [c EXCEPT ![e] = d]
  <2> HIDE DEF e
  <2> QED BY <1>2, <1>3
<1>9. c[e] = a /\ (\A x \in Ends \ {e} : c[x] = ep[x]) /\ r = (IF g.resp = m THEN "reply" ELSE "other")
  BY <1>2
<1>10. a \in Conns /\ a.ready = FALSE /\ a.resp = 0 /\ a.st = g.st /\ a.addr = g.addr /\ a.hdr = g.hdr /\ a.waiting = g.waiting
  <2> HIDE DEF a, g
  <2> QED BY <1>6, <1>7 DEF Conns
<1>11. c \in [Ends -> Conns]
  BY <1>2, <1>10
<1> HIDE DEF a, g, w, r, H, N, m, e
<1>12. d.ready = FALSE /\ d.st = a.st /\ d.addr = a.addr /\ d.hdr = a.hdr
  BY <1>10 DEF Conns
<1> HIDE DEF d
<1>13. AddrOK(e, g) /\ ParseOK(g, w) /\ ReadyOK(e, g, w, H, N) /\ WaitOK(e, g, H, N)
  BY <1>5 DEF ConnOK
<1>14. ConnOK(e, a, w, H, N)
  <2>1. AddrOK(e, a) /\ ParseOK(a, w) /\ ReadyOK(e, a, w, H, N) /\ WaitOK(e, a, H, N)
    BY <1>10, <1>13 DEF AddrOK, ParseOK, ReadyOK, WaitOK
  <2> QED BY <2>1 DEF ConnOK
<1>15. Pair(c, net, H, N)
  BY <1>2, <1>4, <1>14, PairConn DEF w
<1> HIDE DEF c
<1>16. /\ g.resp \in 1 .. N /\ H.from[g.resp] = e /\ H.replies[g.resp] = 1 /\ Good(H, g.resp)
       /\ \A i \in DOMAIN w : Rsp(w[i]) => w[i].m # g.resp
  BY <1>6, <1>13 DEF ReadyOK
<1>17. r = "other" => Spoilt(H, H.from[m])
  <2> SUFFICES ASSUME g.resp # m PROVE Spoilt(H, e)
    BY <1>2, <1>9
  <2>1. H.result[g.resp] # "waits"
    BY <1>2, <1>13, <1>16 DEF WaitOK, g
  <2> QED BY <1>16, <2>1 DEF Good
<1> DEFINE l == IF r = "reply" THEN m ELSE 0
<1>18. (l = 0 /\ r # "reply") \/ (l = m /\ H.replies[l] = 1)
  BY <1>9, <1>16
<1>19. Absent(net, l) /\ Unready(c, l)
  <2>1. CASE r # "reply"
    BY <1>4, <1>15, <2>1, Positive
  <2>2. CASE r = "reply"
    <3>1. g.resp = m /\ l = m
      BY <1>9, <2>2
    <3>2. ASSUME NEW x \in Ends, NEW i \in DOMAIN net[x], Token(net[x][i]), net[x][i].m = m PROVE FALSE
      <4> DEFINE u == net[x][i]
      <4>1. UnitOK(x, u, H, N) /\ Token(u) /\ u.m = m
        BY <1>4, <3>2 DEF Pair, NetOK, WordOK
      <4>2. x = e => ~Rsp(u)
        BY <1>16, <3>1, <3>2 DEF w
      <4> HIDE DEF u
      <4> QED BY <1>2, <1>16, <3>1, <4>1, <4>2 DEF UnitOK, Token
    <3>3. ASSUME NEW x \in Ends, c[x].ready, c[x].resp = m PROVE FALSE
      <4>1. ReadyOK(x, c[x], net[x], H, N)
        BY <1>15 DEF Pair, ConnsOK, ConnOK
      <4>2. x = e
        BY <1>2, <3>3, <4>1 DEF ReadyOK
      <4> QED BY <1>9, <1>10, <3>3, <4>2
    <3> QED BY <3>1, <3>2, <3>3 DEF Absent, Unready
  <2> QED BY <2>1, <2>2
<1>20. r \in {"error", "reply", "other"} /\ SyncReturn(p, r)
  BY <1>3, <1>9
<1> HIDE DEF l
<1>21. /\ Pair(c, net, h', N) /\ (Pair(ep', net', h', N) => MsgInv')
       /\ c[e].st # "freed" => \A j \in 1 .. N : ~(h'.from[j] = e /\ h'.result[j] = "waits")
  <2>1. /\ r = "other" => Spoilt(h, h.from[Top(p).m])
        /\ (l = 0 /\ r # "reply") \/ (l = Top(p).m /\ h.replies[l] = 1)
        /\ Pair(c, net, h, n.msgs)
    BY <1>15, <1>17, <1>18 DEF H, N, m
  <2>2. /\ Pair(c, net, h', n.msgs)
        /\ c[Top(p).e].st # "freed" => \A j \in 1 .. n.msgs : ~(h'.from[j] = Top(p).e /\ h'.result[j] = "waits")
        /\ Pair(ep', net', h', n.msgs) => MsgInv'
    BY <1>1, <1>2, <1>19, <1>20, <2>1, Returned
  <2> QED BY <2>2 DEF N, e
<1> DEFINE H2 == h'
<1>22. Pair(c, net, H2, N) /\ \A j \in 1 .. N : ~(H2.from[j] = e /\ H2.result[j] = "waits")
  BY <1>2, <1>9, <1>10, <1>21 DEF g
<1> HIDE DEF H2
<1>23. Pair([c EXCEPT ![e] = d], net, H2, N)
  BY <1>2, <1>9, <1>11, <1>12, <1>22, Unwaited
<1> QED BY <1>1, <1>8, <1>21, <1>23 DEF H2

-----------------------------------------------------------------------------
(* Messages begin.                                                         *)

\* The next message is nowhere yet.
LEMMA Later ==
    ASSUME NEW c, NEW q, NEW H, NEW N \in Nat, Pair(c, q, H, N)
    PROVE  Absent(q, N + 1) /\ Unready(c, N + 1)
<1>1. ASSUME NEW e \in Ends, NEW i \in DOMAIN q[e], Token(q[e][i]) PROVE q[e][i].m # N + 1
  <2>1. UnitOK(e, q[e][i], H, N)
    BY DEF Pair, NetOK, WordOK
  <2>2. q[e][i].m \in 1 .. N
    BY <1>1, <2>1 DEF UnitOK, Token
  <2> QED BY <2>2
<1>2. ASSUME NEW e \in Ends, c[e].ready PROVE c[e].resp # N + 1
  <2>1. c[e].resp \in 1 .. N
    BY <1>2 DEF Pair, ConnsOK, ConnOK, ReadyOK
  <2> QED BY <2>1
<1> QED BY <1>1, <1>2 DEF Absent, Unready

\* The message m that end e begins, in the history H of N messages.
LEMMA Sent ==
    ASSUME NEW c, NEW q \in Sockets, NEW H, NEW N, Pair(c, q, H, N), NEW e \in Ends,
           NEW t \in {"sync", "async", "big"}, NEW m \in Nat, m \in 1 .. N, H.from[m] = e, H.runs[m] = 0,
           H.replies[m] = 0, t = "sync" => Good(H, m), Absent(q, m)
    PROVE  Pair(c, Write(q, e, Message(t, m)), H, N)
<1>a. Peer(e) \in Ends /\ Peer(Peer(e)) = e
  BY EndFacts, PeerPeer
<1>b. t \in UnitTypes
  BY DEF UnitTypes
<1> DEFINE u == Unit("payload", t, m)
<1>2. u.u = "payload" /\ u.t = t /\ u.m = m
  BY <1>b, MessageFacts
<1> HIDE DEF u
<1>3. UnitOK(Peer(e), u, H, N)
  BY <1>a, <1>2 DEF UnitOK, Req, Rsp
<1>4. \A i \in DOMAIN q[Peer(e)] : Token(q[Peer(e)][i]) => q[Peer(e)][i].m # m
  BY <1>a DEF Absent
<1>6. t \in {"sync", "async", "resp", "big"} /\ t # "resp"
  OBVIOUS
<1> QED BY <1>3, <1>4, <1>6, PairMessage DEF u

\* A step of p that begins message N + 1.
LEMMA BegunStep ==
    ASSUME IpcInv, MsgInv, NEW p \in Procs, n.msgs < MaxMsgs, n'.msgs = n.msgs + 1,
           NEW a \in Ends \cup {None}, NEW r \in {"none", "busy", "error", "waits"}, Begun(h, h', n.msgs + 1, a, r)
    PROVE  LET m == n.msgs + 1 IN
           /\ HistOK(h', m) /\ Carries(h, h', m) /\ WaitersKept(h, h', m) /\ (r # "waits" => Fewer(h, h'))
           /\ m \in Nat /\ m \in 1 .. m /\ m \in Msgs /\ m <= MaxMsgs
           /\ h'.from[m] = a /\ h'.result[m] = r /\ h'.runs[m] = 0 /\ h'.replies[m] = 0
           /\ FramesOK(p, stack[p], h', m) /\ NoFrame(stack[p], Waits, m)
           /\ \A k : Pair(ep', net', h', m) /\ stack' = [stack EXCEPT ![p] = k] /\ FramesOK(p, k, h', m) => MsgInv'
<1> DEFINE H == h  H2 == h'  N == n.msgs  m == N + 1
<1>1. HistOK(H, N) /\ N \in Nat /\ N \in 0 .. MaxMsgs /\ N < MaxMsgs /\ MaxMsgs \in Nat
  BY MsgParts
<1>2. Begun(H, H2, m, a, r) /\ m = N + 1
  OBVIOUS
<1>3. \A x \in Procs : FramesOK(x, stack[x], H, N)
  BY MsgParts
<1>4. m \in Nat /\ m \in 1 .. m /\ m <= MaxMsgs /\ N + 1 \in {N, N + 1}
  BY <1>1
<1> HIDE DEF H, H2, N
<1>5. /\ HistOK(H2, m) /\ WaitersKept(H, H2, m) /\ Carries(H, H2, m) /\ (r # "waits" => Fewer(H, H2))
      /\ m \in Msgs /\ H2.from[m] = a /\ H2.result[m] = r /\ H2.runs[m] = 0 /\ H2.replies[m] = 0
  <2> HIDE DEF m
  <2> QED BY <1>1, <1>2, HistBegun
<1>6. \A x \in Procs : NoFrame(stack[x], Evals, m) /\ NoFrame(stack[x], Waits, m)
  BY <1>1, <1>3, FramesPositive
<1>7. FramesOK(p, stack[p], H2, m)
  <2> HIDE DEF m
  <2>1. m \in {N, N + 1} /\ Carries(H, H2, m) /\ WaitersKept(H, H2, m)
    BY <1>5 DEF m
  <2> DEFINE k == stack[p]
  <2>2. FramesOK(p, k, H, N) /\ NoFrame(k, Evals, m) /\ NoFrame(k, Waits, m)
    BY <1>3, <1>6
  <2> HIDE DEF k
  <2>3. FramesOK(p, k, H2, m)
    BY <1>1, <2>1, <2>2, FramesCarried
  <2> QED BY <2>3 DEF k
<1>8. ASSUME NEW k, Pair(ep', net', H2, m), stack' = [stack EXCEPT ![p] = k], FramesOK(p, k, H2, m) PROVE MsgInv'
  <2>1. /\ Pair(ep', net', h', n'.msgs) /\ HistOK(h', n'.msgs) /\ FramesOK(p, k, h', n'.msgs)
        /\ n'.msgs \in {n.msgs, n.msgs + 1} /\ Carries(h, h', m) /\ WaitersKept(h, h', m)
    BY <1>5, <1>8 DEF H, H2, N
  <2>2. \A x \in Procs \ {p} : NoFrame(stack[x], Evals, m) /\ NoFrame(stack[x], Waits, m)
    BY <1>6
  <2> HIDE DEF m
  <2> QED BY <1>8, <2>1, <2>2, MsgStep
<1> QED BY <1>4, <1>5, <1>6, <1>7, <1>8 DEF H, H2, N

LEMMA PostMsg ==
    ASSUME IpcInv, MsgInv, NEW p \in Procs, NEW id \in Slots, Post(p, id)
    PROVE  MsgInv'
<1> DEFINE e == sels[p][id]  N == n.msgs  m == N + 1  H == h  H2 == h'
<1>1. Resolves(p, id) /\ n' = Counted(1) /\ n.msgs < MaxMsgs /\ UNCHANGED <<ep, stack>> /\ H2 = [H EXCEPT !.from[m] = e]
  BY DEF Post
<1>2. PICK t \in Sizes("async") : net' = Write(net, e, Message(t, m))
  BY DEF Post
<1>3. e \in Ends /\ n'.msgs = m /\ H \in Histories /\ HistOK(H, N) /\ N \in Nat /\ N \in 0 .. MaxMsgs /\ MaxMsgs \in Nat
      /\ Pair(ep, net, H, N) /\ net \in Sockets
  BY <1>1, ResolvedEnd, MsgParts, CountedMsgs
<1>4. t \in {"sync", "async", "big"} /\ t # "sync"
  BY DEF Sizes
<1>5. m \in Msgs /\ m > N
  BY <1>1, <1>3 DEF Msgs
<1>6. H.result[m] = "none" /\ "none" \in Results
  BY <1>3, <1>5 DEF HistOK, Results
<1> HIDE DEF e, H, H2, m
<1>7. Begun(H, H2, m, e, "none")
  <2>1. e \in Ends \cup {None}
    BY <1>3
  <2> QED BY <1>1, <1>3, <1>5, <1>6, <2>1, BegunFrom
<1>8. /\ HistOK(H2, m) /\ Carries(H, H2, m) /\ Fewer(H, H2) /\ m \in Nat /\ m \in 1 .. m /\ m <= MaxMsgs
      /\ H2.from[m] = e /\ H2.runs[m] = 0 /\ H2.replies[m] = 0 /\ FramesOK(p, stack[p], H2, m)
      /\ \A k : Pair(ep', net', H2, m) /\ stack' = [stack EXCEPT ![p] = k] /\ FramesOK(p, k, H2, m) => MsgInv'
  <2>1. e \in Ends \cup {None} /\ "none" \in {"none", "busy", "error", "waits"} /\ "none" # "waits"
    BY <1>3
  <2> QED BY <1>1, <1>3, <1>7, <2>1, BegunStep DEF H, H2, m
<1>9. Absent(net, m) /\ Unready(ep, m)
  BY <1>3, Later DEF m
<1>10. m \in {N, N + 1}
  BY DEF m
<1> HIDE DEF N
<1>11. Pair(ep, net, H2, m)
  BY <1>3, <1>8, <1>9, <1>10, PairCarried
<1>12. Pair(ep, Write(net, e, Message(t, m)), H2, m)
  BY <1>3, <1>4, <1>8, <1>9, <1>11, Sent
<1>13. Pair(ep', net', H2, m) /\ stack' = [stack EXCEPT ![p] = stack[p]]
  BY <1>1, <1>2, <1>12, StackSame
<1> QED BY <1>8, <1>13

LEMMA SendMsg ==
    ASSUME IpcInv, MsgInv, NEW p \in Procs, NEW id \in Slots, Send(p, id)
    PROVE  MsgInv'
<1> DEFINE e == sels[p][id]  N == n.msgs  m == N + 1  H == h  H2 == h'  f == Frame("sync", id, e, m, 0)
<1>1. Resolves(p, id) /\ n' = Counted(1) /\ n.msgs < MaxMsgs
  BY DEF Send
<1>2. e \in Ends /\ n'.msgs = m /\ H \in Histories /\ HistOK(H, N) /\ N \in Nat /\ N \in 0 .. MaxMsgs /\ MaxMsgs \in Nat
      /\ Pair(ep, net, H, N) /\ net \in Sockets /\ ep[e] \in Conns /\ ep \in [Ends -> Conns] /\ Owner(e) = p /\ e # None
  BY <1>1, ResolvedEnd, MsgParts, CountedMsgs, Parts DEF Resolves, TableOK
<1>3. m \in Msgs /\ m > N /\ m \in {N, N + 1}
  BY <1>1, <1>2 DEF Msgs
<1>4. H.from[m] = None
  BY <1>2, <1>3 DEF HistOK
<1>5. Absent(net, m) /\ Unready(ep, m)
  BY <1>2, Later
<1>6. ASSUME NEW a \in Ends \cup {None}, NEW r \in {"busy", "error", "waits"}, Begun(H, H2, m, a, r)
      PROVE  /\ HistOK(H2, m) /\ Carries(H, H2, m) /\ WaitersKept(H, H2, m) /\ (r # "waits" => Fewer(H, H2))
             /\ m \in Nat /\ m \in 1 .. m /\ m <= MaxMsgs
             /\ H2.from[m] = a /\ H2.result[m] = r /\ H2.runs[m] = 0 /\ H2.replies[m] = 0
             /\ FramesOK(p, stack[p], H2, m) /\ NoFrame(stack[p], Waits, m)
             /\ \A k : Pair(ep', net', H2, m) /\ stack' = [stack EXCEPT ![p] = k] /\ FramesOK(p, k, H2, m) => MsgInv'
  <2>1. r \in {"none", "busy", "error", "waits"}
    OBVIOUS
  <2> QED BY <1>1, <1>2, <1>6, <2>1, BegunStep DEF H, H2, m
<1> HIDE DEF N, m, H, H2, f
\* It fails at once.
<1>7. ASSUME NEW r \in {"busy", "error"}, H2 = [H EXCEPT !.result[m] = r], UNCHANGED <<ep, net, stack>> PROVE MsgInv'
  <2> HIDE DEF e
  <2>1. Begun(H, H2, m, None, r)
    <3>1. r \in Results
      BY DEF Results
    <3> QED BY <1>2, <1>3, <1>4, <1>7, <3>1, BegunResult
  <2>2. r \in {"busy", "error", "waits"} /\ None \in Ends \cup {None} /\ r # "waits"
    OBVIOUS
  <2>3. /\ Carries(H, H2, m) /\ Fewer(H, H2) /\ m <= MaxMsgs /\ FramesOK(p, stack[p], H2, m)
        /\ \A k : Pair(ep', net', H2, m) /\ stack' = [stack EXCEPT ![p] = k] /\ FramesOK(p, k, H2, m) => MsgInv'
    BY <1>6, <2>1, <2>2
  <2>4. Pair(ep, net, H2, m)
    BY <1>2, <1>3, <1>5, <2>3, PairCarried
  <2>5. Pair(ep', net', H2, m) /\ stack' = [stack EXCEPT ![p] = stack[p]]
    BY <1>7, <2>4, StackSame
  <2> QED BY <2>3, <2>5
\* It is sent and waits.
<1>8. CASE /\ ~ep[e].waiting
           /\ \E t \in Sizes("sync") : net' = Write(net, e, Message(t, m))
           /\ ep' = [ep EXCEPT ![e].waiting = TRUE, ![e].ready = FALSE, ![e].resp = 0]
           /\ stack' = [stack EXCEPT ![p] = Append(@, f)]
           /\ H2 = [H EXCEPT !.from[m] = e, !.result[m] = "waits"]
  <2> DEFINE g == ep[e]  w == net[e]  d == [g EXCEPT !.waiting = TRUE, !.ready = FALSE, !.resp = 0]  c == [ep EXCEPT ![e] = d]
             k == stack[p]
  <2>1. PICK t \in Sizes("sync") : net' = Write(net, e, Message(t, m))
    BY <1>8
  <2>2. t \in {"sync", "async", "big"}
    BY DEF Sizes
  <2>3. ep' = c
    <3>1. ep' = [ep EXCEPT ![e].waiting = TRUE, ![e].ready = FALSE, ![e].resp = 0]
      BY <1>8
    <3> HIDE DEF e
    <3> QED BY <1>2, <3>1
  <2>4. g \in Conns /\ ~g.waiting /\ ConnOK(e, g, w, H, N)
    BY <1>2, <1>8 DEF Pair, ConnsOK
  <2>5. "sync" \in FrameKinds /\ 0 \in Ids /\ e \in Ends \cup {None} /\ id \in Ids
    BY <1>2, KindFacts
  <2>6. stack' = [stack EXCEPT ![p] = Append(k, f)] /\ k \in Seq(Frames) /\ H2 = [H EXCEPT !.from[m] = e, !.result[m] = "waits"]
    BY <1>8, Parts
  <2>7. c[e] = d /\ \A x \in Ends \ {e} : c[x] = ep[x]
    BY <1>2
  <2> HIDE DEF e, g, w, k
  <2>8. /\ HistOK(H2, m) /\ Carries(H, H2, m) /\ WaitersKept(H, H2, m) /\ m \in Nat /\ m \in 1 .. m /\ m <= MaxMsgs
        /\ H2.from[m] = e /\ H2.result[m] = "waits" /\ H2.runs[m] = 0 /\ H2.replies[m] = 0
        /\ FramesOK(p, k, H2, m) /\ NoFrame(k, Waits, m)
        /\ \A b : Pair(ep', net', H2, m) /\ stack' = [stack EXCEPT ![p] = b] /\ FramesOK(p, b, H2, m) => MsgInv'
    <3>1. "waits" \in {"busy", "error", "waits"} /\ "waits" \in Results
      BY DEF Results
    <3>2. Begun(H, H2, m, e, "waits")
      BY <1>2, <1>3, <2>5, <2>6, <3>1, BegunBoth
    <3> QED BY <1>6, <2>5, <3>1, <3>2 DEF k
  <2>9. f \in Frames /\ f.k = "sync" /\ f.e = e /\ f.m = m
    BY <2>5, <2>8 DEF Frame, Frames, f
  <2>10. d.waiting = TRUE /\ d.ready = FALSE /\ d.st = g.st /\ d.addr = g.addr /\ d.hdr = g.hdr
    BY <2>4 DEF Conns
  <2> HIDE DEF d
  <2>11. AddrOK(e, g) /\ ParseOK(g, w) /\ WaitOK(e, g, H, N)
    BY <2>4 DEF ConnOK
  <2>12. ASSUME d.st # "freed", NEW l \in 1 .. m, H2.from[l] = e, H2.result[l] = "waits" PROVE l = m
    <3> SUFFICES ASSUME l # m PROVE FALSE
      OBVIOUS
    <3>1. l \in 1 .. N
      BY <1>2, <2>12 DEF m
    <3>2. l \in Msgs
      BY <1>2, <1>3, <3>1, RangeFacts
    <3>3. H.from[l] = e /\ H.result[l] = "waits"
      BY <2>8, <2>12, <3>2 DEF WaitersKept
    <3> QED BY <2>4, <2>10, <2>11, <2>12, <3>1, <3>3 DEF WaitOK
  <2>13. ConnOK(e, d, w, H2, m)
    <3>1. AddrOK(e, d) /\ ParseOK(d, w) /\ ReadyOK(e, d, w, H2, m)
      BY <2>10, <2>11 DEF AddrOK, ParseOK, ReadyOK
    <3>2. WaitOK(e, d, H2, m)
      BY <2>10, <2>12 DEF WaitOK
    <3> QED BY <3>1, <3>2 DEF ConnOK
  <2>14. ASSUME NEW x \in Ends PROVE WordOK(x, net[x], H2, m)
    <3> DEFINE v == net[x]
    <3>1. WordOK(x, v, H, N) /\ \A i \in DOMAIN v : Token(v[i]) => v[i].m # m
      BY <1>2, <1>5 DEF Pair, NetOK, Absent
    <3> HIDE DEF v
    <3>2. WordOK(x, v, H2, m)
      BY <1>2, <1>3, <2>8, <3>1, WordCarried
    <3> QED BY <3>2 DEF v
  <2>15. ASSUME NEW x \in Ends \ {e} PROVE ConnOK(x, ep[x], net[x], H2, m)
    <3> DEFINE v == net[x]  b == ep[x]
    <3>1. ConnOK(x, b, v, H, N) /\ (b.ready => b.resp # m)
      BY <1>2, <1>5 DEF Pair, ConnsOK, Unready
    <3>2. FewerAt(x, H, H2)
      <4> SUFFICES ASSUME NEW l \in Msgs, H2.from[l] = x, H2.result[l] = "waits"
                   PROVE  H.result[l] = "waits" /\ H2.from[l] = H.from[l]
        BY DEF FewerAt
      <4>1. l # m
        BY <2>8
      <4> QED BY <2>8, <4>1 DEF WaitersKept
    <3> HIDE DEF v, b
    <3>3. ConnOK(x, b, v, H2, m)
      BY <1>2, <1>3, <2>8, <3>1, <3>2, ConnCarried
    <3> QED BY <3>3 DEF v, b
  <2>16. Pair(c, net, H2, m)
    <3> HIDE DEF c
    <3>1. ASSUME NEW x \in Ends PROVE ConnOK(x, c[x], net[x], H2, m)
      <4>1. CASE x = e
        BY <2>7, <2>13, <4>1 DEF w
      <4>2. CASE x # e
        BY <2>7, <2>15, <4>2
      <4> QED BY <4>1, <4>2
    <3> QED BY <2>14, <3>1 DEF Pair, NetOK, ConnsOK
  <2> HIDE DEF c
  <2>17. Pair(c, Write(net, e, Message(t, m)), H2, m)
    <3>1. Good(H2, m)
      BY <2>8 DEF Good
    <3> QED BY <1>2, <1>5, <2>2, <2>8, <2>16, <3>1, Sent
  <2> HIDE DEF f
  <2>18. FrameMsg(p, f, H2, m)
    BY <1>2, <2>8, <2>9 DEF FrameMsg, Evals, Waits, e
  <2>19. FramesOK(p, Append(k, f), H2, m)
    <3>1. f.k \notin Evals
      BY <2>9 DEF Evals
    <3> QED BY <2>6, <2>8, <2>9, <2>18, <3>1, FramesPush
  <2>20. Pair(ep', net', H2, m)
    BY <2>1, <2>3, <2>17
  <2> QED BY <2>6, <2>8, <2>19, <2>20
<1>9. \/ /\ H2 = [H EXCEPT !.result[m] = "busy"] /\ UNCHANGED <<ep, net, stack>>
      \/ /\ H2 = [H EXCEPT !.result[m] = "error"] /\ UNCHANGED <<ep, net, stack>>
      \/ /\ ~ep[e].waiting
         /\ \E t \in Sizes("sync") : net' = Write(net, e, Message(t, m))
         /\ ep' = [ep EXCEPT ![e].waiting = TRUE, ![e].ready = FALSE, ![e].resp = 0]
         /\ stack' = [stack EXCEPT ![p] = Append(@, f)]
         /\ H2 = [H EXCEPT !.from[m] = e, !.result[m] = "waits"]
  BY DEF Send, Busy, H, H2, m, N, f
<1>10. CASE H2 = [H EXCEPT !.result[m] = "busy"] /\ UNCHANGED <<ep, net, stack>>
  BY <1>7, <1>10
<1>11. CASE H2 = [H EXCEPT !.result[m] = "error"] /\ UNCHANGED <<ep, net, stack>>
  BY <1>7, <1>11
<1> QED BY <1>8, <1>9, <1>10, <1>11

-----------------------------------------------------------------------------
(* The messages of the whole system.                                       *)

LEMMA InitMsg == Init => MsgInv
<1> SUFFICES ASSUME Init PROVE MsgInv
  OBVIOUS
<1> DEFINE H == h
<1>1. n.msgs = 0 /\ MaxMsgs \in Nat
  BY IpcAssumption DEF Init
<1>2. /\ net = [e \in Ends |-> <<>>] /\ stack = [p \in Procs |-> <<>>]
      /\ ep = [e \in Ends |-> IF e[1] \in Opened THEN [Blank EXCEPT !.st = "header", !.addr = e] ELSE Blank]
  BY DEF Init
<1>3. /\ H.from = [m \in Msgs |-> None] /\ H.runs = [m \in Msgs |-> 0] /\ H.replies = [m \in Msgs |-> 0]
      /\ H.result = [m \in Msgs |-> "none"]
  BY DEF Init
<1>4. H \in Histories
  <2> DEFINE o == [e \in Ends |-> IF e \in Opened \X {"s"} THEN 1 ELSE 0]
  <2>1. H = [from |-> [m \in Msgs |-> None], runs |-> [m \in Msgs |-> 0], replies |-> [m \in Msgs |-> 0],
             result |-> [m \in Msgs |-> "none"], cancel |-> {}, asked |-> {}, opened |-> o,
             closed |-> [e \in Ends |-> 0], fault |-> FALSE]
    BY DEF Init
  <2>2. o \in [Ends -> Nat]
    OBVIOUS
  <2> HIDE DEF o, H
  <2>3. /\ [m \in Msgs |-> None] \in [Msgs -> Ends \cup {None}] /\ [m \in Msgs |-> 0] \in [Msgs -> Nat]
        /\ [m \in Msgs |-> "none"] \in [Msgs -> Results] /\ [e \in Ends |-> 0] \in [Ends -> Nat]
    BY DEF Results
  <2> QED BY <2>1, <2>2, <2>3 DEF Histories
<1> HIDE DEF H
<1>5. HistOK(H, 0)
  BY <1>1, <1>3, <1>4 DEF HistOK
<1>6. NetOK(net, H, 0)
  BY <1>2, WordEmpty DEF NetOK
<1>7. ASSUME NEW e \in Ends PROVE ConnOK(e, ep[e], net[e], H, 0)
  <2> DEFINE c == ep[e]
  <2>1. c = [Blank EXCEPT !.st = "header", !.addr = e] \/ c = Blank
    BY <1>2
  <2>2. (c.st = "header" /\ c.addr = e /\ c.ready = FALSE) \/ (c.st = "none" /\ c.addr = None /\ c.ready = FALSE)
    <3>1. /\ [Blank EXCEPT !.st = "header", !.addr = e].st = "header" /\ [Blank EXCEPT !.st = "header", !.addr = e].addr = e
          /\ [Blank EXCEPT !.st = "header", !.addr = e].ready = FALSE
      BY DEF Blank
    <3>2. Blank.st = "none" /\ Blank.addr = None /\ Blank.ready = FALSE
      BY DEF Blank
    <3> HIDE DEF c
    <3> QED BY <2>1, <3>1, <3>2, Zenon
  <2> HIDE DEF c
  <2>3. AddrOK(e, c) /\ ParseOK(c, net[e]) /\ ReadyOK(e, c, net[e], H, 0)
    BY <2>2 DEF AddrOK, ParseOK, ReadyOK, Live
  <2>4. WaitOK(e, c, H, 0)
    <3>1. \A m \in 1 .. 0 : FALSE
      OBVIOUS
    <3> QED BY <3>1 DEF WaitOK
  <2>5. ConnOK(e, c, net[e], H, 0)
    BY <2>3, <2>4 DEF ConnOK
  <2> QED BY <2>5 DEF c
<1>8. StacksOK(stack, H, 0)
  BY <1>2, FramesNone DEF StacksOK
<1> QED BY <1>1, <1>5, <1>6, <1>7, <1>8 DEF MsgInv, ConnsOK, H

LEMMA StutterMsg ==
    ASSUME MsgInv, UNCHANGED vars
    PROVE  MsgInv'
<1>1. UNCHANGED <<net, ep, stack, h, n>>
  BY DEF vars
<1> QED BY <1>1 DEF MsgInv

LEMMA NextMsg ==
    ASSUME IpcInv, MsgInv, Tame, Fresh, Next
    PROVE  MsgInv'
<1>1. PICK p \in Procs : UserCall(p) \/ Read(p) \/ Step(p) \/ SyncPollFails(p)
  BY DEF Next
<1>2. CASE UserCall(p)
  <2>1. CASE Script(p) \/ CtrlC(p)
    BY <2>1, ScriptMsg, CtrlCMsg
  <2>2. CASE \E id \in Slots : Close(p, id) \/ Post(p, id) \/ Send(p, id)
    BY <2>2, CloseMsg, PostMsg, SendMsg
  <2>3. CASE \E l \in Links : Open(p, l)
    BY <2>3, OpenMsg
  <2> QED BY <1>2, <2>1, <2>2, <2>3 DEF UserCall
<1>3. CASE Read(p)
  BY <1>3, ReadsMsg
<1>4. CASE Step(p)
  <2>1. CASE EpollWait(p) \/ Accept(p) \/ TakeEvent(p) \/ RxGone(p) \/ RxDry(p) \/ RxEof(p)
    BY <2>1, EpollWaitMsg, AcceptMsg, TakeEventMsg, PopMsg, RxEndMsg
  <2>2. CASE DeregisterEnd(p) \/ EvalEnd(p) \/ HookEnd(p) \/ AuthEnd(p)
    BY <2>2, DeregisterEndMsg, EvalEndMsg, PopMsg, AuthEndMsg
  <2>3. CASE SyncEof(p) \/ SyncClosed(p) \/ SyncTake(p) \/ SyncEintr(p)
    BY <2>3, SyncEofMsg, SyncClosedMsg, SyncTakeMsg, SyncEintrMsg
  <2>4. CASE Connected(p) \/ Login(p) \/ ConnectFails(p)
    BY <2>4, ConnectedMsg, LoginMsg, ConnectFailsMsg
  <2> QED BY <1>4, <2>1, <2>2, <2>3, <2>4 DEF Step
<1>5. CASE SyncPollFails(p)
  BY <1>5, SyncPollFailsMsg
<1> QED BY <1>1, <1>2, <1>3, <1>4, <1>5

LEMMA MsgShown == IpcInv /\ MsgInv => MessagesRight
<1> SUFFICES ASSUME IpcInv, MsgInv PROVE MessagesRight
  OBVIOUS
<1>1. TypeOK
  BY InvShown
<1>2. HistOK(h, n.msgs)
  BY DEF MsgInv
<1>3. h \in Histories
  BY <1>2 DEF HistOK
<1>4. DOMAIN h.runs = Msgs /\ DOMAIN h.result = Msgs
  BY <1>3, HistFields
<1>5. RunsOnce
  BY <1>2, <1>4 DEF RunsOnce, HistOK
<1>6. OwnReply
  BY <1>2, <1>4 DEF OwnReply, HistOK, Spoilt
<1> QED BY <1>1, <1>5, <1>6 DEF MessagesRight

\* Whatever hooks, nested pumps, cancels, lost replies, closed and reopened
\* connections do, a message is evaluated at most once and answered at most once,
\* and sync_send returns another request's reply only on a connection where a
\* request was given up while it waited (ipc_read_payload, send_response,
\* sync_send); for every number of processes, connections and
\* messages, as long as on.close hooks neither close nor send and no address of
\* freed connection data is allocated again.
THEOREM IpcMessages ==
    ASSUME CloseCalls \subseteq {"open", "post"}, "reuse" \notin Faults
    PROVE  Spec => []MessagesRight
<1>1. Tame /\ Fresh
  BY DEF Tame, Fresh
<1>2. IpcInv /\ MsgInv /\ [Next]_vars => IpcInv' /\ MsgInv'
  BY <1>1, NextInv, StutterInv, NextMsg, StutterMsg
<1>3. Init => IpcInv /\ MsgInv
  BY InitInv, InitMsg
<1> QED BY <1>2, <1>3, MsgShown, PTL DEF Spec
=============================================================================
