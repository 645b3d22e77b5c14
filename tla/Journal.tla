------------------------------- MODULE Journal -------------------------------
(***************************************************************************)
(* The transaction journal of src/store/journal.c: messages are logged     *)
(* before they are evaluated (core/ipc.c), snapshots and rolls bound the   *)
(* log, a restart loads <base>.qdb and replays <base>.log.                 *)
(*                                                                         *)
(* Data abstraction: a message is its number; the environment is the       *)
(* sequence of the messages evaluated in it; a frame is the number of its  *)
(* message, or Torn when only its header was written.  The directory maps  *)
(* names to files.  `dirs` keeps every version of it since it was last     *)
(* synced: a machine crash may fall back to any of them.  <base>.qdb.tmp   *)
(* is never read and is left out; ray_obj_save fsyncs it before the        *)
(* rename, so a snapshot file is always whole.                             *)
(***************************************************************************)
EXTENDS Integers, Sequences, FiniteSets

CONSTANTS
    Modes,         \* the modes in use: subset of {"async", "sync"} (-l, -L)
    Verbs,         \* the .log.* verbs in use: subset of VerbNames
    FaultSets,     \* sets of FaultKinds: the calls that may fail in a behaviour are one of them
    Crashes,       \* subset of {"process", "machine"}
    FsyncEntry,    \* fsync of a new file also makes its directory entry durable
    DistinctStamps,\* no two rolls in the same second
    MaxMsgs,       \* bound on the messages of a behaviour
    MaxCrashes,    \* bound on its crashes
    MaxRolls,      \* bound on its rolls, snapshots and purges
    MaxClock       \* bound on its seconds

VerbNames  == {"snapshot", "roll", "sync", "close", "purge"}
FaultKinds == {"write", "sync", "close", "rename", "open", "dir"}

ASSUME JournalAssumption ==
    /\ Modes \subseteq {"async", "sync"} /\ Modes # {}
    /\ Verbs \subseteq VerbNames /\ FaultSets \subseteq SUBSET FaultKinds
    /\ Crashes \subseteq {"process", "machine"}
    /\ FsyncEntry \in BOOLEAN /\ DistinctStamps \in BOOLEAN
    /\ MaxMsgs \in Nat /\ MaxCrashes \in Nat /\ MaxRolls \in Nat /\ MaxClock \in Nat

VARIABLES
    dirs,      \* versions of the directory since it was last synced
    logs,      \* the log files ever created: frames, and how many are durable
    pc,        \* control point of the server; "down": not running
    fp,        \* g_journal.fp # NULL
    base,      \* g_journal.base is set
    mode,      \* g_journal.mode
    env,       \* the messages evaluated in the environment, in order
    clock,     \* time(NULL)
    faults,    \* the calls that may fail; never changes
    stamp,     \* the name ray_journal_roll chose
    nmsgs, ncrashes, nrolls,   \* how many so far (bounds)
    off,       \* ghost: the user closed or purged the journal
    rolled,    \* ghost: messages a .log.roll moved to an archive
    safe,      \* ghost: messages that must have survived the crashes so far
    durable,   \* ghost: the messages of `safe` that an fsync covered
    refused,   \* ghost: messages refused because they could not be logged
    unlogged   \* ghost: a message was evaluated unlogged although ~off

server == <<pc, fp, base, mode, env, stamp>>
counts == <<nmsgs, ncrashes, nrolls>>
ghosts == <<off, rolled, safe, durable, refused, unlogged>>
vars   == <<dirs, logs, server, clock, faults, counts, ghosts>>

Torn   == 0
None   == <<>>     \* no snapshot; one of an empty environment is no different
NoLog  == 0
Stamps == 0 .. MaxClock

dir == dirs[Len(dirs)]
SetDir(d) == dirs' = IF "machine" \in Crashes THEN Append(dirs, d) ELSE <<d>>
SyncDir == dirs' = <<dir>>

File   == logs[dir.log]
Elems(q) == {q[k] : k \in 1 .. Len(q)}

\* ray_journal_validate, and the frames ray_journal_replay gets through
Valid(frames) ==
    LET good == {n \in 0 .. Len(frames) : \A k \in 1 .. n : frames[k] # Torn}
    IN  SubSeq(frames, 1, CHOOSE n \in good : \A j \in good : j <= n)

Fault(kind) == kind \in faults
Go(where)   == pc' = where

Init ==
    /\ dirs = <<[qdb |-> None, log |-> NoLog, arch |-> [s \in Stamps |-> NoLog]]>>
    /\ logs = <<>>
    /\ pc = "down" /\ fp = FALSE /\ base = FALSE /\ mode = "off" /\ env = <<>> /\ stamp = 0
    /\ clock = 0 /\ faults \in FaultSets
    /\ nmsgs = 0 /\ ncrashes = 0 /\ nrolls = 0
    /\ off = FALSE /\ rolled = {} /\ safe = {} /\ durable = {} /\ refused = {} /\ unlogged = FALSE

-----------------------------------------------------------------------------
(* Startup: ray_journal_open = ray_journal_recover, ray_journal_open_append *)

\* Mutation: the log is replayed first, the snapshot bound over it.
RecoverLogFirst ==
    /\ pc = "down"
    /\ LET frames == IF dir.log = NoLog THEN <<>> ELSE File.frames
       IN  IF Valid(frames) = frames
           THEN Go("open") /\ env' = frames \o dir.qdb
           ELSE Go("badtail") /\ env' = <<>>
    /\ off' = FALSE
    /\ UNCHANGED <<dirs, logs, fp, base, mode, stamp, clock, counts, rolled, safe, durable, refused, unlogged>>

\* Load <base>.qdb, then replay <base>.log; a torn frame is fatal.
Recover ==
    /\ pc = "down"
    /\ LET frames == IF dir.log = NoLog THEN <<>> ELSE File.frames
       IN  IF Valid(frames) = frames
           THEN Go("open") /\ env' = dir.qdb \o frames
           ELSE Go("badtail") /\ env' = <<>>
    /\ off' = FALSE
    /\ UNCHANGED <<dirs, logs, fp, base, mode, stamp, clock, counts, rolled, safe, durable, refused, unlogged>>

\* The operator follows the hint: cut the log at the end of its valid prefix.
TruncateByHand ==
    /\ pc = "badtail"
    /\ logs' = [logs EXCEPT ![dir.log].frames = Valid(@),
                            ![dir.log].dur = Len(Valid(File.frames))]
    /\ Go("down")
    /\ UNCHANGED <<dirs, fp, base, mode, env, stamp, clock, counts, ghosts>>

\* ray_journal_open_append and open_log_for_append: fopen "ab" creates the file if there is none.
OpenLog(to, failed) ==
    \/ /\ IF dir.log = NoLog
          THEN /\ logs' = Append(logs, [frames |-> <<>>, dur |-> 0])
               /\ SetDir([dir EXCEPT !.log = Len(logs) + 1])
          ELSE UNCHANGED <<logs, dirs>>
       /\ fp' = TRUE
       /\ Go(to)
    \/ /\ Fault("open")
       /\ fp' = FALSE
       /\ Go(failed)
       /\ UNCHANGED <<logs, dirs>>

\* -l / -L: a failure ends the process.
OpenAppend ==
    /\ pc = "open"
    /\ OpenLog("idle", "down")
    /\ base' = TRUE
    /\ mode' \in Modes
    /\ UNCHANGED <<env, stamp, clock, counts, ghosts>>

\* .log.open: append only, nothing is replayed.
OpenVerb ==
    /\ pc = "idle"
    /\ ~fp
    /\ OpenLog("idle", "idle")
    /\ base' = TRUE
    /\ mode' \in Modes
    /\ off' = (off /\ ~fp')
    /\ UNCHANGED <<env, stamp, clock, counts, rolled, safe, durable, refused, unlogged>>

-----------------------------------------------------------------------------
(* A sync IPC message: ray_journal_write_bytes, then the evaluation         *)

Receive ==
    /\ pc = "idle"
    /\ nmsgs < MaxMsgs
    /\ nmsgs' = nmsgs + 1
    /\ Go(IF fp THEN "head" ELSE "eval")
    /\ unlogged' = (unlogged \/ (~fp /\ ~off))
    /\ UNCHANGED <<dirs, logs, fp, base, mode, env, stamp, clock, ncrashes, nrolls, off,
                   rolled, safe, durable, refused>>

Refuse == Go("idle") /\ refused' = refused \cup {nmsgs} /\ UNCHANGED <<safe, durable>>

\* The header; the stream is unbuffered, so this is a write of its own, and one
\* that fails may have written nothing.
WriteHeader ==
    /\ pc = "head"
    /\ LET part == [logs EXCEPT ![dir.log].frames = Append(@, Torn)]
       IN  \/ logs' = part /\ Go("payload") /\ UNCHANGED <<safe, durable, refused>>
           \/ Fault("write") /\ Refuse /\ logs' \in {logs, part}
    /\ UNCHANGED <<dirs, fp, base, mode, env, stamp, clock, counts, off, rolled, unlogged>>

\* The payload completes the frame.  In async mode the message is accepted:
\* the bytes are out of the process.
WritePayload ==
    /\ pc = "payload"
    /\ \/ /\ logs' = [logs EXCEPT ![dir.log].frames[Len(File.frames)] = nmsgs]
          /\ Go(IF mode = "sync" THEN "fsync" ELSE "eval")
          /\ safe' = IF mode = "sync" THEN safe ELSE safe \cup {nmsgs}
          /\ UNCHANGED <<durable, refused>>
       \/ Fault("write") /\ Refuse /\ UNCHANGED logs
    /\ UNCHANGED <<dirs, fp, base, mode, env, stamp, clock, counts, off, rolled, unlogged>>

\* Messages whose fsync returned: no crash may take them back.
Promise(ms) == safe' = safe \cup ms /\ durable' = durable \cup ms

\* fsync of the active log
SyncLog ==
    /\ logs' = [logs EXCEPT ![dir.log].dur = Len(File.frames)]
    /\ IF FsyncEntry THEN SyncDir ELSE UNCHANGED dirs

\* Mutation: sync mode flushes the stream, which is unbuffered, and no more.
WriteSyncFlushOnly ==
    /\ pc = "fsync"
    /\ Go("eval")
    /\ Promise({nmsgs})
    /\ UNCHANGED <<dirs, logs, fp, base, mode, env, stamp, clock, counts, off, rolled, refused, unlogged>>

WriteSync ==
    /\ pc = "fsync"
    /\ \/ SyncLog /\ Go("eval") /\ Promise({nmsgs}) /\ UNCHANGED refused
       \/ Fault("sync") /\ Refuse /\ UNCHANGED <<dirs, logs>>
    /\ UNCHANGED <<fp, base, mode, env, stamp, clock, counts, off, rolled, unlogged>>

Eval ==
    /\ pc = "eval"
    /\ env' = Append(env, nmsgs)
    /\ Go("idle")
    /\ UNCHANGED <<dirs, logs, fp, base, mode, stamp, clock, counts, ghosts>>

-----------------------------------------------------------------------------
(* ray_journal_sync, ray_journal_close *)

SyncVerb ==
    /\ pc = "idle"
    /\ "sync" \in Verbs
    /\ fp
    /\ mode = "async"
    /\ \/ SyncLog /\ Promise(Elems(File.frames) \cap Elems(env))
       \/ Fault("sync") /\ UNCHANGED <<dirs, logs, safe, durable>>
    /\ UNCHANGED <<server, clock, counts, off, rolled, refused, unlogged>>

CloseVerb ==
    /\ pc = "idle"
    /\ "close" \in Verbs
    /\ fp
    /\ fp' = FALSE
    /\ off' = TRUE
    /\ UNCHANGED <<dirs, logs, pc, base, mode, env, stamp, clock, counts, rolled, safe, durable, refused,
                   unlogged>>

-----------------------------------------------------------------------------
(* ray_journal_snapshot and ray_journal_roll *)

Roll ==
    /\ nrolls < MaxRolls
    /\ nrolls' = nrolls + 1
    /\ DistinctStamps => dir.arch[clock] = NoLog
    /\ stamp' = clock

RollVerb ==
    /\ pc = "idle"
    /\ "roll" \in Verbs
    /\ fp
    /\ Roll
    /\ Go("r_close")
    /\ rolled' = rolled \cup Elems(File.frames)
    /\ UNCHANGED <<dirs, logs, fp, base, mode, env, clock, nmsgs, ncrashes, off, safe, durable, refused,
                   unlogged>>

RollClose ==
    /\ pc = "r_close"
    /\ fp' = FALSE
    /\ Go("r_rename") \/ (Fault("close") /\ Go("r_open"))
    /\ UNCHANGED <<dirs, logs, base, mode, env, stamp, clock, counts, ghosts>>

\* rename replaces an archive of the same name.
RollRename ==
    /\ pc = "r_rename"
    /\ \/ SetDir([dir EXCEPT !.arch[stamp] = dir.log, !.log = NoLog]) /\ Go("r_dir")
       \/ Fault("rename") /\ Go("r_open") /\ UNCHANGED dirs
    /\ UNCHANGED <<logs, fp, base, mode, env, stamp, clock, counts, ghosts>>

\* Best effort: a failed directory sync is ignored.
RollSyncDir ==
    /\ pc = "r_dir"
    /\ SyncDir \/ (Fault("dir") /\ UNCHANGED dirs)
    /\ Go("r_open")
    /\ UNCHANGED <<logs, fp, base, mode, env, stamp, clock, counts, ghosts>>

RollOpen ==
    /\ pc = "r_open"
    /\ OpenLog("idle", "idle")
    /\ UNCHANGED <<base, mode, env, stamp, clock, counts, ghosts>>

\* The user globals go to <base>.qdb.tmp, which is fsynced and renamed.
Snapshot ==
    /\ pc = "idle"
    /\ "snapshot" \in Verbs
    /\ fp
    /\ Roll
    /\ \/ SetDir([dir EXCEPT !.qdb = env]) /\ Go("s_dir")
       \/ Fault("rename") /\ Go("idle") /\ UNCHANGED dirs
    /\ UNCHANGED <<logs, fp, base, mode, env, clock, nmsgs, ncrashes, ghosts>>

SnapshotSyncDir ==
    /\ pc = "s_dir"
    /\ SyncDir \/ (Fault("dir") /\ UNCHANGED dirs)
    /\ Go("r_close")
    /\ UNCHANGED <<logs, fp, base, mode, env, stamp, clock, counts, ghosts>>

-----------------------------------------------------------------------------
(* ray_journal_purge: close, then unlink log, snapshot, archives           *)

PurgeVerb ==
    /\ pc = "idle"
    /\ "purge" \in Verbs
    /\ base
    /\ nrolls < MaxRolls
    /\ nrolls' = nrolls + 1
    /\ fp' = FALSE
    /\ off' = TRUE
    /\ safe' = {} /\ durable' = {}
    /\ SetDir([dir EXCEPT !.log = NoLog])
    /\ Go("p_qdb")
    /\ UNCHANGED <<logs, base, mode, env, stamp, clock, nmsgs, ncrashes, rolled, refused, unlogged>>

PurgeSnapshot ==
    /\ pc = "p_qdb"
    /\ SetDir([dir EXCEPT !.qdb = None])
    /\ Go("p_arch")
    /\ UNCHANGED <<logs, fp, base, mode, env, stamp, clock, counts, ghosts>>

PurgeArchives ==
    /\ pc = "p_arch"
    /\ SetDir([dir EXCEPT !.arch = [s \in Stamps |-> NoLog]])
    /\ base' = FALSE /\ mode' = "off"
    /\ Go("idle")
    /\ UNCHANGED <<logs, fp, env, stamp, clock, counts, ghosts>>

-----------------------------------------------------------------------------
Tick ==
    /\ clock < MaxClock
    /\ clock' = clock + 1
    /\ UNCHANGED <<dirs, logs, server, counts, ghosts>>

Dead == pc' = "down" /\ fp' = FALSE /\ base' = FALSE /\ mode' = "off" /\ env' = <<>> /\ stamp' = 0

ProcessCrash ==
    /\ "process" \in Crashes
    /\ ncrashes < MaxCrashes
    /\ pc # "down"
    /\ ncrashes' = ncrashes + 1
    /\ Dead
    /\ UNCHANGED <<dirs, logs, clock, nmsgs, nrolls, ghosts>>

\* Any version of the directory since its last sync may be what survives, and
\* of every log what is durable, with some of what was written behind it.
MachineCrash ==
    /\ "machine" \in Crashes
    /\ ncrashes < MaxCrashes
    /\ ncrashes' = ncrashes + 1
    /\ Dead
    /\ \E k \in 1 .. Len(dirs) : dirs' = <<dirs[k]>>
    /\ \E more \in 0 .. MaxMsgs :
         LET Kept(f) == IF f.dur + more < Len(f.frames) THEN f.dur + more ELSE Len(f.frames)
         IN  logs' = [g \in 1 .. Len(logs) |->
                        [frames |-> SubSeq(logs[g].frames, 1, Kept(logs[g])),
                         dur    |-> Kept(logs[g])]]
    /\ safe' = durable
    /\ UNCHANGED <<clock, nmsgs, nrolls, off, rolled, durable, refused, unlogged>>

\* An idle server waits.
Stopped == pc = "idle" /\ UNCHANGED vars

Step ==
    \/ Recover \/ TruncateByHand \/ OpenAppend \/ OpenVerb
    \/ Receive \/ WriteHeader \/ WritePayload \/ WriteSync \/ Eval
    \/ SyncVerb \/ CloseVerb
    \/ RollVerb \/ RollClose \/ RollRename \/ RollSyncDir \/ RollOpen
    \/ Snapshot \/ SnapshotSyncDir
    \/ PurgeVerb \/ PurgeSnapshot \/ PurgeArchives
    \/ Tick \/ ProcessCrash \/ MachineCrash \/ Stopped

Next == Step /\ UNCHANGED faults

Spec == Init /\ [][Next]_vars

-----------------------------------------------------------------------------
(* Correctness                                                             *)

\* Type invariant: the files, the handle and the environment hold messages that
\* were received; without a file pointer nothing is being written.
TypeOK ==
    /\ \A k \in 1 .. Len(dirs) :
         /\ dirs[k].log \in 0 .. Len(logs)
         /\ dirs[k].arch \in [Stamps -> 0 .. Len(logs)]
         /\ dirs[k].qdb \in Seq(1 .. nmsgs)
    /\ \A g \in 1 .. Len(logs) :
         /\ logs[g].frames \in Seq(0 .. nmsgs)
         /\ logs[g].dur \in 0 .. Len(logs[g].frames)
    /\ env \in Seq(1 .. nmsgs)
    /\ fp \in BOOLEAN /\ base \in BOOLEAN /\ off \in BOOLEAN /\ unlogged \in BOOLEAN
    /\ fp => dir.log # NoLog
    /\ mode \in Modes \cup {"off"}
    /\ fp => mode # "off"
    /\ durable \subseteq safe /\ safe \cup refused \subseteq 1 .. nmsgs

\* What a roll without a snapshot moved out of the way of recovery.
Archived == UNION {Elems(logs[dir.arch[s]].frames) : s \in {t \in Stamps : dir.arch[t] # NoLog}}

\* Where no call fails, a running server's environment holds every message
\* that was promised to survive, however often it crashed.  Only .log.roll
\* takes messages out of the way of recovery, and then they are in an archive.
AckedKept ==
    pc = "idle" /\ faults = {} =>
        /\ safe \ rolled \subseteq Elems(env)
        /\ safe \subseteq Elems(env) \cup Archived

\* Recovery re-applies messages in the order in which they were accepted: the
\* snapshot first, then the log.
ReplayOrder ==
    LET First(m) == CHOOSE k \in 1 .. Len(env) :
                      env[k] = m /\ \A j \in 1 .. k - 1 : env[j] # m
    IN  \A m, n \in Elems(env) \ refused : m < n => First(m) < First(n)

\* No message takes effect twice (docs, .log.snapshot: replay will "only
\* re-apply entries written after").
NoReplayTwice == \A j, k \in 1 .. Len(env) : j # k => env[j] # env[k]

\* A message refused with "journal write failed; mutation refused" never takes
\* effect.
RefusedNotApplied == refused \cap Elems(env) = {}

\* While the user has not closed the journal, nothing is evaluated unlogged
\* (ipc.c: "the message has not been logged so we cannot accept it").
NeverUnlogged == ~unlogged
=============================================================================
