--------------------------------- MODULE Aof ---------------------------------
(***************************************************************************)
(* The append-only log of src/store/aof.c: one writer handle, concurrent   *)
(* scans, commit frames in the stream, segment rotation, crash recovery.   *)
(*                                                                         *)
(* A segment is the sequence of the items written to its file: records,    *)
(* commit frames, and the remains of a short write.  Three cursors tell    *)
(* how far an item got: Len(items) into the stdio buffer, `vis` into the   *)
(* page cache (what every process reads), `dur` onto the disk.  A process  *)
(* crash loses the buffer, a machine crash anything that is not durable.   *)
(*                                                                         *)
(* Data abstraction: a payload is the number of the append that wrote it,  *)
(* every item is one unit long (a header), and a CRC tells a whole item    *)
(* from a torn one: the walk never gets past the remains of a short write, *)
(* which shift every header behind them.                                   *)
(***************************************************************************)
EXTENDS Integers, Sequences, FiniteSets

CONSTANTS
    SegLimit,      \* seg_limit in items
    Worlds,        \* what may go wrong: a behaviour has one of these sets
    MaxAppends,    \* bound on the appends of a behaviour
    MaxCrashes,    \* bound on its process crashes
    MaxLosses,     \* bound on its machine crashes
    MaxScans,      \* bound on its scans
    MaxTorn        \* bound on the short writes in one segment

FaultKinds == {"write", "flush", "sync", "close", "open", "dir"}   \* calls that fail
CrashKinds == {"process", "machine"}

ASSUME AofAssumption ==
    /\ SegLimit \in Nat \ {0}
    /\ Worlds \subseteq SUBSET (FaultKinds \cup CrashKinds)
    /\ MaxAppends \in Nat /\ MaxCrashes \in Nat /\ MaxLosses \in Nat /\ MaxScans \in Nat
    /\ MaxTorn \in Nat

VARIABLES
    world,      \* the set of Worlds this behaviour has
    segs,       \* the segment files of the directory, in LSN order
    pc,         \* control point of the writer; "none": no handle
    fp,         \* log->fp # NULL
    next,       \* log->next_lsn
    bytes,      \* log->seg_bytes
    dirty,      \* log->dirty
    closing,    \* ray_aof_close in progress, and the result of its commit
    spc,        \* control point of the scanner
    scan,       \* locals of ray_aof_scan
    nappends, ncrashes, nscans,   \* how many so far (bounds)
    issued,     \* ghost: <<lsn, id>> returned by appends on this handle
    acked,      \* ghost: appends covered by a commit that returned RAY_OK
    observed,   \* ghost: <<lsn, id>> delivered by some scan
    missed      \* ghost: a complete scan missed an append acked before it

handle  == <<pc, fp, next, bytes, dirty, closing>>
scanner == <<spc, scan, nscans>>
ghosts  == <<issued, acked, observed, missed>>
vars    == <<world, segs, handle, scanner, nappends, ncrashes, ghosts>>

Rec(id) == [kind |-> "rec", id |-> id]
Frame   == [kind |-> "frame", id |-> 0]
Torn    == [kind |-> "torn", id |-> 0]

NoScan  == [n |-> 0, from |-> 0, i |-> 0, end |-> 0, got |-> {}, owed |-> {}]
NewSegment(base) == [base |-> base, items |-> <<>>, vis |-> 0, dur |-> 0,
                     entry |-> FALSE]

Active == segs[Len(segs)]
SetActive(s) == segs' = [segs EXCEPT ![Len(segs)] = s]

-----------------------------------------------------------------------------
(* aof_seg_survey: walk the items, stop at the first incomplete one.       *)

Readable(items) ==
    {k \in 1 .. Len(items) : \A j \in 1 .. k : items[j].kind # "torn"}

\* committed_end: the position of the last frame the walk reaches
CommittedEnd(items) ==
    LET frames == {k \in Readable(items) : items[k].kind = "frame"}
    IN  IF frames = {} THEN 0
        ELSE CHOOSE k \in frames : \A j \in frames : j <= k

\* committed_records: the records of items[1..k]
Records(items, k) == Cardinality({j \in 1 .. k : items[j].kind = "rec"})

\* aof_seg_deliver: the <<lsn, id>> pairs of the records of items[1..k]
Delivered(base, items, k) ==
    {<<base + Records(items, j) - 1, items[j].id>> :
        j \in {x \in 1 .. k : items[x].kind = "rec"}}

\* What a scan of the files cut at their durable (or visible) ends delivers.
ViewOf(files, End(_)) ==
    UNION {LET cut == SubSeq(s.items, 1, End(s))
           IN  Delivered(s.base, cut, CommittedEnd(cut)) : s \in files}

-----------------------------------------------------------------------------
Init ==
    /\ world \in Worlds
    /\ segs = <<>>
    /\ pc = "none" /\ fp = FALSE /\ next = 0 /\ bytes = 0 /\ dirty = FALSE
    /\ closing = "no"
    /\ spc = "idle" /\ scan = NoScan
    /\ nappends = 0 /\ ncrashes = 0 /\ nscans = 0
    /\ issued = {} /\ acked = {} /\ observed = {} /\ missed = FALSE

Go(where) == pc' = where

\* The call returns an error; ray_aof_close still closes the file.
Fail == IF closing = "no" THEN Go("idle") /\ UNCHANGED closing
                          ELSE Go("close") /\ closing' = "err"
Fault(kind) == kind \in world

\* An fwrite that comes up short leaves part of an item in the buffer.
ShortWrite ==
    /\ Fault("write")
    /\ Cardinality({k \in 1 .. Len(Active.items) : Active.items[k].kind = "torn"}) < MaxTorn
    /\ SetActive([Active EXCEPT !.items = Append(@, Torn)])

(* ray_aof_open *)

\* The items behind the first k are gone: truncated, or lost in a crash.
CutTo(s, k) == [s EXCEPT !.items = SubSeq(@, 1, k), !.vis = k,
                         !.dur = IF @ <= k THEN @ ELSE k]

\* An existing log: survey the tail segment, truncate it behind the last
\* frame, continue the LSN sequence from there.
OpenExisting ==
    /\ pc = "none"
    /\ segs # <<>>
    /\ LET end == CommittedEnd(Active.items)
       IN  /\ SetActive(CutTo(Active, end))
           /\ next' = Active.base + Records(Active.items, end)
           /\ bytes' = end
    /\ dirty' = FALSE
    /\ fp' = TRUE
    /\ issued' = {}
    /\ Go("idle")
    /\ UNCHANGED <<closing, scanner, nappends, ncrashes, acked, observed, missed>>

\* A new log: create the first segment, then sync the directory.
OpenNew ==
    /\ pc = "none"
    /\ segs = <<>>
    /\ segs' = <<NewSegment(0)>>
    /\ next' = 0 /\ bytes' = 0 /\ dirty' = FALSE
    /\ fp' = TRUE
    /\ issued' = {}
    /\ Go("o_dir")
    /\ UNCHANGED <<closing, scanner, nappends, ncrashes, acked, observed, missed>>

OpenSyncDir ==
    /\ pc = "o_dir"
    /\ \/ /\ SetActive([Active EXCEPT !.entry = TRUE])
          /\ Go("idle")
          /\ UNCHANGED fp
       \/ /\ Fault("dir")
          /\ Go("none")
          /\ fp' = FALSE
          /\ UNCHANGED segs
    /\ UNCHANGED <<next, bytes, dirty, closing, scanner, nappends, ncrashes, ghosts>>

-----------------------------------------------------------------------------
(* Steps on the active segment that several calls share.                   *)

\* aof_write_frame
WriteFrame(from, to) ==
    /\ pc = from
    /\ \/ /\ SetActive([Active EXCEPT !.items = Append(@, Frame)])
          /\ bytes' = bytes + 1
          /\ dirty' = FALSE
          /\ Go(to)
          /\ UNCHANGED closing
       \/ /\ ShortWrite
          /\ Fail
          /\ UNCHANGED <<bytes, dirty>>
    /\ UNCHANGED <<fp, next, scanner, nappends, ncrashes, ghosts>>

\* fflush of log->fp
Flush(from, to) ==
    /\ pc = from
    /\ \/ SetActive([Active EXCEPT !.vis = Len(Active.items)]) /\ Go(to) /\ UNCHANGED closing
       \/ Fault("flush") /\ Fail /\ UNCHANGED segs
    /\ UNCHANGED <<fp, next, bytes, dirty, scanner, nappends, ncrashes, ghosts>>

\* ray_file_sync of log->fp
Sync(from, to) ==
    /\ pc = from
    /\ \/ SetActive([Active EXCEPT !.dur = Active.vis]) /\ Go(to) /\ UNCHANGED closing
       \/ Fault("sync") /\ Fail /\ UNCHANGED segs
    /\ UNCHANGED <<fp, next, bytes, dirty, scanner, nappends, ncrashes, ghosts>>

\* The stdio buffer is written out early because it is full.
Spill ==
    /\ fp
    /\ Active.vis < Len(Active.items)
    /\ SetActive([Active EXCEPT !.vis = @ + 1])
    /\ UNCHANGED <<handle, scanner, nappends, ncrashes, ghosts>>

-----------------------------------------------------------------------------
(* ray_aof_append *)

AppendCall ==
    /\ pc = "idle"
    /\ fp
    /\ nappends < MaxAppends
    /\ nappends' = nappends + 1
    /\ Go(IF bytes > 0 /\ bytes + 1 > SegLimit
          THEN IF dirty THEN "r_frame" ELSE "r_flush"
          ELSE "write")
    /\ UNCHANGED <<segs, fp, next, bytes, dirty, closing, scanner, ncrashes, ghosts>>

AppendWrite ==
    /\ pc = "write"
    /\ \/ /\ SetActive([Active EXCEPT !.items = Append(@, Rec(nappends))])
          /\ bytes' = bytes + 1
          /\ dirty' = TRUE
          /\ next' = next + 1
          /\ issued' = issued \cup {<<next, nappends>>}
       \/ /\ ShortWrite
          /\ UNCHANGED <<bytes, dirty, next, issued>>
    /\ Go("idle")
    /\ UNCHANGED <<fp, closing, scanner, nappends, ncrashes, acked, observed, missed>>

(* aof_rotate: the old segment is framed, flushed and synced, the new one  *)
(* is named after the next LSN.                                            *)

RotateFrame == WriteFrame("r_frame", "r_flush")
RotateFlush == Flush("r_flush", "r_sync")

\* Mutation: the old segment is closed without an fsync.
RotateSyncSkip ==
    /\ pc = "r_sync"
    /\ Go("r_close")
    /\ UNCHANGED <<segs, fp, next, bytes, dirty, closing, scanner, nappends, ncrashes, ghosts>>

RotateSync == Sync("r_sync", "r_close")

RotateClose ==
    /\ pc = "r_close"
    /\ fp' = FALSE
    /\ Go("r_open") \/ (Fault("close") /\ Go("idle"))
    /\ UNCHANGED <<segs, next, bytes, dirty, closing, scanner, nappends, ncrashes, ghosts>>

\* Mutation: the new segment is named after the records of the old one only.
RotateOpenWrongName ==
    /\ pc = "r_open"
    /\ segs' = Append(segs, NewSegment(Records(Active.items, Len(Active.items))))
    /\ fp' = TRUE
    /\ bytes' = 0
    /\ Go("r_dir")
    /\ UNCHANGED <<next, dirty, closing, scanner, nappends, ncrashes, ghosts>>

RotateOpen ==
    /\ pc = "r_open"
    /\ \/ /\ segs' = Append(segs, NewSegment(next))
          /\ fp' = TRUE
          /\ bytes' = 0
          /\ Go("r_dir")
       \/ /\ Fault("open")
          /\ Go("idle")
          /\ UNCHANGED <<segs, fp, bytes>>
    /\ UNCHANGED <<next, dirty, closing, scanner, nappends, ncrashes, ghosts>>

RotateSyncDir ==
    /\ pc = "r_dir"
    /\ \/ SetActive([Active EXCEPT !.entry = TRUE]) /\ Go("write")
       \/ Fault("dir") /\ Go("idle") /\ UNCHANGED segs
    /\ UNCHANGED <<fp, next, bytes, dirty, closing, scanner, nappends, ncrashes, ghosts>>

-----------------------------------------------------------------------------
(* ray_aof_commit and ray_aof_close *)

\* Nothing appended since the last frame: RAY_OK at once.
CommitClean ==
    /\ pc = "idle"
    /\ fp
    /\ ~dirty
    /\ issued # {}
    /\ acked' = acked \cup issued
    /\ issued' = {}
    /\ UNCHANGED <<segs, handle, scanner, nappends, ncrashes, observed, missed>>

CommitCall ==
    /\ pc = "idle"
    /\ fp
    /\ dirty
    /\ Go("c_frame")
    /\ UNCHANGED <<segs, fp, next, bytes, dirty, closing, scanner, nappends, ncrashes, ghosts>>

CommitFrame == WriteFrame("c_frame", "c_flush")

\* Mutation: the commit returns after the flush.
CommitFlushOnly == Flush("c_flush", "c_ok")

CommitFlush == Flush("c_flush", "c_sync")
CommitSync == Sync("c_sync", "c_ok")

CommitReturn ==
    /\ pc = "c_ok"
    /\ IF closing = "no"
       THEN acked' = acked \cup issued /\ issued' = {} /\ Go("idle")
       ELSE Go("close") /\ UNCHANGED <<acked, issued>>
    /\ UNCHANGED <<segs, fp, next, bytes, dirty, closing, scanner, nappends,
                   ncrashes, observed, missed>>

\* ray_aof_close commits first; a failed rotation may have left no open file.
CloseCall ==
    /\ pc = "idle"
    /\ closing' = "ok"
    /\ Go(IF fp /\ dirty THEN "c_frame" ELSE "close")
    /\ UNCHANGED <<segs, fp, next, bytes, dirty, scanner, nappends, ncrashes, ghosts>>

\* fclose writes out the rest of the buffer; the handle is gone in any case.
CloseFile ==
    /\ pc = "close"
    /\ IF fp THEN SetActive([Active EXCEPT !.vis = Len(Active.items)])
             ELSE UNCHANGED segs
    /\ \/ closing = "ok" /\ acked' = acked \cup issued
       \/ closing = "err" /\ UNCHANGED acked
       \/ fp /\ Fault("close") /\ UNCHANGED acked
    /\ issued' = {}
    /\ pc' = "none" /\ fp' = FALSE /\ next' = 0 /\ bytes' = 0 /\ dirty' = FALSE
    /\ closing' = "no"
    /\ UNCHANGED <<scanner, nappends, ncrashes, observed, missed>>

-----------------------------------------------------------------------------
(* ray_aof_scan, from any process *)

ScanList(from) ==
    /\ spc = "idle"
    /\ nscans < MaxScans
    /\ segs # <<>>
    /\ nscans' = nscans + 1
    /\ scan' = [NoScan EXCEPT !.n = Len(segs), !.from = from, !.i = 1,
                              !.owed = {r \in acked : r[1] >= from}]
    /\ spc' = "survey"
    /\ UNCHANGED <<segs, handle, nappends, ncrashes, ghosts>>

Visible(s) == SubSeq(s.items, 1, s.vis)

\* Segments that end before from_lsn are skipped; a sealed segment must end
\* with a frame, or the scan reports RAY_ERR_CORRUPT.
ScanSurvey ==
    /\ spc = "survey"
    /\ LET s     == segs[scan.i]
           items == Visible(s)
           end   == CommittedEnd(items)
           sealed == scan.i < scan.n
       IN  IF sealed /\ segs[scan.i + 1].base <= scan.from
           THEN scan' = [scan EXCEPT !.i = @ + 1] /\ UNCHANGED spc
           ELSE /\ spc' = IF sealed /\ end # Len(items) THEN "corrupt"
                          ELSE "deliver"
                /\ scan' = [scan EXCEPT !.end = end]
    /\ UNCHANGED <<segs, handle, nscans, nappends, ncrashes, ghosts>>

\* The second walk delivers the records below the boundary of the first.
ScanDeliver ==
    /\ spc = "deliver"
    /\ LET s   == segs[scan.i]
           new == {r \in Delivered(s.base, Visible(s), scan.end) : r[1] >= scan.from}
       IN  /\ observed' = observed \cup new
           /\ scan' = [scan EXCEPT !.got = @ \cup new, !.i = @ + 1]
    /\ spc' = IF scan.i < scan.n THEN "survey" ELSE "done"
    /\ UNCHANGED <<segs, handle, nscans, nappends, ncrashes, issued, acked, missed>>

ScanReturn ==
    /\ spc \in {"done", "corrupt"}
    /\ missed' = (missed \/ ~(scan.owed \subseteq scan.got))
    /\ spc' = "idle"
    /\ scan' = NoScan
    /\ UNCHANGED <<segs, handle, nscans, nappends, ncrashes, issued, acked, observed>>

-----------------------------------------------------------------------------
(* Crashes *)

NoHandle == /\ pc' = "none" /\ fp' = FALSE /\ next' = 0 /\ bytes' = 0
            /\ dirty' = FALSE /\ closing' = "no" /\ issued' = {}

\* The writing process dies: its stdio buffer is lost.
ProcessCrash ==
    /\ "process" \in world
    /\ ncrashes < MaxCrashes
    /\ pc # "none"
    /\ ncrashes' = ncrashes + 1
    /\ NoHandle
    /\ segs' = [k \in 1 .. Len(segs) |-> CutTo(segs[k], segs[k].vis)]
    /\ UNCHANGED <<scanner, nappends, acked, observed, missed>>

\* The machine dies: of every file survives what is durable and possibly more
\* of what the page cache held; a file whose directory entry was never synced
\* may be gone.  Scanners die too.
MachineCrash ==
    /\ "machine" \in world
    /\ ncrashes < MaxLosses
    /\ ncrashes' = ncrashes + 1
    /\ NoHandle
    /\ spc' = "idle" /\ scan' = NoScan
    /\ \E keep \in 0 .. Len(segs) :
         /\ \A k \in keep + 1 .. Len(segs) : ~segs[k].entry
         /\ \E more \in [1 .. keep -> BOOLEAN] :
              segs' = [k \in 1 .. keep |->
                         CutTo([segs[k] EXCEPT !.entry = TRUE],
                               IF more[k] THEN segs[k].vis ELSE segs[k].dur)]
    /\ UNCHANGED <<nscans, nappends, acked, observed, missed>>

Stopped == nappends = MaxAppends /\ pc = "idle" /\ UNCHANGED vars

WriterStep ==
    \/ OpenExisting \/ OpenNew \/ OpenSyncDir
    \/ AppendCall \/ AppendWrite
    \/ RotateFrame \/ RotateFlush \/ RotateSync \/ RotateClose \/ RotateOpen
    \/ RotateSyncDir
    \/ CommitClean \/ CommitCall \/ CommitFrame \/ CommitFlush \/ CommitSync
    \/ CommitReturn
    \/ CloseCall \/ CloseFile \/ Spill

ScanStep ==
    \/ \E from \in 0 .. MaxAppends : ScanList(from)
    \/ ScanSurvey \/ ScanDeliver \/ ScanReturn

Next ==
    \/ (WriterStep \/ ScanStep \/ ProcessCrash \/ MachineCrash) /\ UNCHANGED world
    \/ Stopped

Spec == Init /\ [][Next]_vars

-----------------------------------------------------------------------------
(* Correctness                                                             *)

Items == [kind : {"rec", "frame", "torn"}, id : Nat]

\* Type invariant: the segments, the handle's counters (next_lsn, seg_records,
\* dirty) and the scan's locals range over what aof.c stores in them.
TypeOK ==
    /\ \A k \in 1 .. Len(segs) :
         /\ segs[k].base \in Nat
         /\ segs[k].items \in Seq(Items)
         /\ segs[k].dur <= segs[k].vis /\ segs[k].vis <= Len(segs[k].items)
         /\ segs[k].dur \in Nat /\ segs[k].vis \in Nat
         /\ segs[k].entry \in BOOLEAN
    /\ fp \in BOOLEAN /\ dirty \in BOOLEAN
    /\ next \in Nat
    /\ bytes \in 0 .. SegLimit + 1     \* the limit, and one commit frame
    /\ closing \in {"no", "ok", "err"}
    /\ issued \cup acked \cup observed \subseteq Nat \X Nat
    /\ missed \in BOOLEAN

Range1(q) == {q[k] : k \in 1 .. Len(q)}

\* What recovery would deliver if the machine died now and kept nothing but
\* what is durable.
DurableView ==
    LET DurEnd(s) == s.dur
    IN  ViewOf({s \in Range1(segs) : s.entry}, DurEnd)

\* Where nothing fails but open and close, and the writer dies only with its
\* machine (the README lists what each of the other failures breaks).
Calm == world \subseteq {"open", "close", "machine"}

\* The log as its users understand it (module DurableLog).
Log == INSTANCE DurableLog WITH stable <- IF Calm THEN DurableView ELSE {},
                                promised <- IF Calm THEN acked ELSE {}

\* aof.c implements the durable log: what is durable is a contiguous sequence
\* of LSNs that only ever grows at its end, through rotations, power losses and
\* recoveries, and a commit that returned RAY_OK promised nothing that is not
\* in it (rayforce.h: "every append issued before it is durable").
LogKept == Log!Spec

\* What a commit or close returned RAY_OK for is durable, whatever failed before
\* (rayforce.h; the README lists how it fails).
PromisesKept == acked \subseteq DurableView

\* A scan delivers every record committed before it began, whatever failed
\* before (rayforce.h; the README lists how it fails).
NothingMissed == ~missed

\* An LSN that a scan delivered never stands for different data in a later scan
\* (aof.c: "an LSN, once observable, is never reissued for different data").
LsnStable == \A r, q \in observed : r[1] = q[1] => r = q

\* A finished scan delivered consecutive LSNs, beginning at from_lsn.
ScanContiguous ==
    spc = "done" =>
        {r[1] : r \in scan.got} =
            scan.from .. scan.from + Cardinality(scan.got) - 1

\* Segments are named by their first LSN and follow each other without gap or
\* overlap; the handle continues where the last one ends.
SegmentChain ==
    /\ \A k \in 1 .. Len(segs) - 1 :
         segs[k + 1].base =
            segs[k].base + Records(segs[k].items, Len(segs[k].items))
    /\ fp => next = Active.base + Records(Active.items, Len(Active.items))

\* Where only open and close fail and the writer dies with its machine: a scan
\* that starts after a commit returned delivers every record it covered
\* (rayforce.h: "becomes observable once it returns RAY_OK"), and no scan
\* reports damage where there was none (ray_aof_scan).
ScansComplete == Calm => ~missed /\ spc # "corrupt"

\* Whatever call fails: what aof.c keeps has its types, segments follow each
\* other, a scan delivers consecutive LSNs, and short of a power loss an LSN
\* that was delivered never stands for other data (aof_seg_survey, aof_rotate,
\* ray_aof_open).
ReadersRight ==
    /\ TypeOK
    /\ SegmentChain
    /\ ScanContiguous
    /\ "machine" \notin world => LsnStable
=============================================================================
