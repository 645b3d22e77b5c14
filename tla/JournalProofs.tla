---------------------------- MODULE JournalProofs ----------------------------
(***************************************************************************)
(* Recovery of the transaction journal re-applies messages in the order in *)
(* which they were accepted: whatever calls fail, however often the server *)
(* or the machine dies, and whatever version of the directory survives.    *)
(***************************************************************************)
EXTENDS Journal, SequenceTheorems, WellFoundedInduction, TLAPS

Dirs   == [qdb : Seq(Nat), log : Nat, arch : [Stamps -> Nat]]
Frames == [frames : Seq(Nat), dur : Nat]

\* m is a message of the sequence q.
In(m, q) == \E k \in 1 .. Len(q) : q[k] = m

\* A message of q that comes after a later one also comes before that one:
\* what counts as the order of q is the first occurrence of each message.
Ordered(q, ref) ==
    \A j, k \in 1 .. Len(q) :
        j < k /\ q[k] < q[j] /\ q[k] \notin ref => \E h \in 1 .. j - 1 : q[h] = q[k]

\* The frames of a log file are in the order in which they were written.
Rising(f) ==
    \A j, k \in 1 .. Len(f) : j < k /\ f[j] # Torn /\ f[k] # Torn => f[j] < f[k]

\* A log adds to a snapshot q only later messages, messages q has already, and
\* messages that were refused.
Follows(f, q, ref) ==
    \A j \in 1 .. Len(f), k \in 1 .. Len(q) :
        f[j] # Torn /\ f[j] \notin ref /\ f[j] < q[k] => In(f[j], q)

JTypes ==
    /\ dirs \in Seq(Dirs) /\ Len(dirs) >= 1
    /\ logs \in Seq(Frames)
    /\ nmsgs \in Nat /\ clock \in Stamps /\ stamp \in Stamps
    /\ env \in Seq(Nat)

\* Every log file: messages received so far, in order.
LogOK(f, n) == Rising(f) /\ \A j \in 1 .. Len(f) : f[j] <= n
LogsOK == \A g \in 1 .. Len(logs) : LogOK(logs[g].frames, nmsgs)

\* Every version of the directory that may survive can be recovered from.
MessagesOK(q, n, ref) == Ordered(q, ref) /\ \A j \in 1 .. Len(q) : q[j] \in 1 .. n
VersionOK(v, ls, n, ref) ==
    /\ v.log \in 0 .. Len(ls) /\ v.arch \in [Stamps -> 0 .. Len(ls)]
    /\ MessagesOK(v.qdb, n, ref)
    /\ v.log # NoLog => Follows(ls[v.log].frames, v.qdb, ref)
VersionsOK == \A k \in 1 .. Len(dirs) : VersionOK(dirs[k], logs, nmsgs, refused)

\* The message in flight is not in any log before its frame is written.
Flight ==
    /\ fp => dir.log # NoLog
    /\ pc \in {"head", "payload", "fsync"} => fp
    /\ pc = "badtail" => dir.log # NoLog
    /\ pc = "r_rename" => ~fp
    /\ pc \in {"head", "payload", "fsync", "eval"} => nmsgs >= 1
    /\ pc \in {"head", "payload"} =>
         \A g \in 1 .. Len(logs) : \A j \in 1 .. Len(logs[g].frames) : logs[g].frames[j] < nmsgs
    /\ pc = "payload" => Len(File.frames) >= 1 /\ File.frames[Len(File.frames)] = Torn

\* What may be in the active log: a message that was evaluated or refused, the
\* one in flight, a torn frame.
KnownTo(m, ref, q, n, p) ==
    \/ m = Torn \/ m \in ref \/ In(m, q)
    \/ m = n /\ p \in {"fsync", "eval"}
Known(m) == KnownTo(m, refused, env, nmsgs, pc)

\* What is in the active log was evaluated, refused, or is in flight.
Covered ==
    pc \notin {"down", "badtail"} /\ dir.log # NoLog =>
        \A j \in 1 .. Len(File.frames) : Known(File.frames[j])

\* The inductive invariant behind ReplayOrder.
JInv == JTypes /\ LogsOK /\ VersionsOK /\ MessagesOK(env, nmsgs, refused) /\ Flight /\ Covered
-----------------------------------------------------------------------------
(* Numbers and sequences.                                                  *)

LEMMA NatMin ==
    ASSUME NEW T, T \subseteq Nat, T # {}
    PROVE  \E x \in T : \A y \in T : x <= y
<1>1. PICK x \in T : \A y \in T : ~ (<<y, x>> \in OpToRel(<, Nat))
  BY NatLessThanWellFounded, WFMin
<1>2. ASSUME NEW y \in T PROVE x <= y
  <2>1. x \in Nat /\ y \in Nat
    OBVIOUS
  <2>2. ~(y < x)
    BY <1>1, <2>1 DEF OpToRel
  <2> QED BY <2>1, <2>2
<1> QED BY <1>2

LEMMA AppendFacts ==
    ASSUME NEW S, NEW q \in Seq(S), NEW e \in S
    PROVE  /\ Append(q, e) \in Seq(S) /\ Len(Append(q, e)) = Len(q) + 1
           /\ \A k \in 1 .. Len(q) : Append(q, e)[k] = q[k]
           /\ Append(q, e)[Len(q) + 1] = e
           /\ \A k \in 1 .. Len(Append(q, e)) : k \in 1 .. Len(q) \/ k = Len(q) + 1
OBVIOUS

LEMMA PrefixFacts ==
    ASSUME NEW S, NEW q \in Seq(S), NEW n \in 0 .. Len(q)
    PROVE  /\ SubSeq(q, 1, n) \in Seq(S) /\ Len(SubSeq(q, 1, n)) = n
           /\ \A k \in 1 .. n : k \in 1 .. Len(q) /\ SubSeq(q, 1, n)[k] = q[k]
<1>1. n \in Nat /\ Len(q) \in Nat /\ \A k \in 1 .. n : k \in 1 .. Len(q) /\ q[k] \in S
  OBVIOUS
<1>2. /\ SubSeq(q, 1, n) \in Seq(S)
      /\ Len(SubSeq(q, 1, n)) = IF 1 <= n THEN n - 1 + 1 ELSE 0
      /\ \A k \in 1 .. n - 1 + 1 : SubSeq(q, 1, n)[k] = q[1 + k - 1]
  BY <1>1, SubSeqProperties
<1>3. Len(SubSeq(q, 1, n)) = n
  BY <1>1, <1>2
<1>4. \A k \in 1 .. n : SubSeq(q, 1, n)[k] = q[k]
  <2> TAKE k \in 1 .. n
  <2>1. k \in 1 .. n - 1 + 1 /\ 1 + k - 1 = k
    BY <1>1
  <2> QED BY <1>2, <2>1
<1> QED BY <1>1, <1>2, <1>3, <1>4

\* ray_journal_validate stops at the first torn frame.
LEMMA ValidFacts ==
    ASSUME NEW f \in Seq(Nat)
    PROVE  \E n \in 0 .. Len(f) : /\ Valid(f) = SubSeq(f, 1, n)
                                  /\ \A k \in 1 .. n : f[k] # Torn
                                  /\ \A m \in 0 .. Len(f) : (\A k \in 1 .. m : f[k] # Torn) => m <= n
<1> DEFINE good == {n \in 0 .. Len(f) : \A k \in 1 .. n : f[k] # Torn}
           T == {Len(f) - n : n \in good}
<1>1. Len(f) \in Nat
  OBVIOUS
<1>2. 0 \in good
  BY <1>1
<1>3. T \subseteq Nat /\ T # {}
  BY <1>1, <1>2
<1>4. PICK x \in T : \A y \in T : x <= y
  BY <1>3, NatMin
<1>5. PICK n \in good : x = Len(f) - n
  BY <1>4
<1>6. ASSUME NEW j \in good PROVE j <= n
  <2>1. j \in Nat /\ n \in Nat /\ Len(f) - j \in T
    BY <1>1
  <2>2. x <= Len(f) - j
    BY <1>4, <2>1
  <2> QED BY <1>1, <1>5, <2>1, <2>2
<1> DEFINE m == CHOOSE k \in good : \A j \in good : j <= k
<1>7. m \in good /\ \A j \in good : j <= m
  BY <1>5, <1>6
<1>8. Valid(f) = SubSeq(f, 1, m)
  BY DEF Valid
<1> QED BY <1>7, <1>8

LEMMA ValidWhole ==
    ASSUME NEW f \in Seq(Nat), Valid(f) = f
    PROVE  \A k \in 1 .. Len(f) : f[k] # Torn
<1>1. PICK n \in 0 .. Len(f) : Valid(f) = SubSeq(f, 1, n) /\ \A k \in 1 .. n : f[k] # Torn
  BY ValidFacts
<1>2. Len(f) = n
  BY <1>1, PrefixFacts
<1> QED BY <1>1, <1>2

LEMMA ValidEmpty == Valid(<<>>) = <<>>
<1>1. <<>> \in Seq(Nat) /\ Len(<<>>) = 0
  OBVIOUS
<1>2. PICK n \in 0 .. 0 : Valid(<<>>) = SubSeq(<<>>, 1, n)
  BY <1>1, ValidFacts
<1>3. n = 0
  OBVIOUS
<1> QED BY <1>2, <1>3, SubSeqEmpty

LEMMA LogOKPrefix ==
    ASSUME NEW f \in Seq(Nat), NEW n \in 0 .. Len(f), NEW N \in Nat, LogOK(f, N)
    PROVE  LogOK(SubSeq(f, 1, n), N)
<1> DEFINE p == SubSeq(f, 1, n)
<1>1. p \in Seq(Nat) /\ Len(p) = n /\ \A k \in 1 .. n : k \in 1 .. Len(f) /\ p[k] = f[k]
  BY PrefixFacts
<1> HIDE DEF p
<1>2. LogOK(p, N)
  BY <1>1 DEF LogOK, Rising
<1> QED BY <1>2 DEF p

-----------------------------------------------------------------------------
(* How the files may change in a step: a log is cut, or gets the message   *)
(* that is in flight; the directory keeps some of its versions and gets at *)
(* most one more.                                                          *)

Grow(A, B, n) ==
    /\ B \in Seq(Frames) /\ Len(A) <= Len(B)
    /\ \A g \in 1 .. Len(A) : \A j \in 1 .. Len(B[g].frames) :
           B[g].frames[j] = Torn \/ B[g].frames[j] = n \/ In(B[g].frames[j], A[g].frames)

From(D, d, E) ==
    /\ E \in Seq(Dirs) /\ Len(E) >= 1
    /\ \A k \in 1 .. Len(E) : E[k] = d \/ \E j \in 1 .. Len(D) : E[k] = D[j]

LEMMA DirFacts ==
    ASSUME JTypes
    PROVE  /\ Len(dirs) \in Nat /\ Len(dirs) \in 1 .. Len(dirs)
           /\ dir \in Dirs /\ dir.qdb \in Seq(Nat) /\ dir.log \in Nat /\ dir.arch \in [Stamps -> Nat]
<1>1. Len(dirs) \in Nat /\ Len(dirs) \in 1 .. Len(dirs)
  BY DEF JTypes
<1>2. dir \in Dirs
  BY <1>1 DEF JTypes, dir
<1> QED BY <1>1, <1>2 DEF Dirs

LEMMA SetDirFacts ==
    ASSUME JTypes, NEW d \in Dirs, SetDir(d)
    PROVE  From(dirs, d, dirs') /\ dir' = d
<1>1. CASE "machine" \in Crashes
  <2>1. dirs' = Append(dirs, d) /\ dirs \in Seq(Dirs)
    BY <1>1 DEF SetDir, JTypes
  <2>2. /\ dirs' \in Seq(Dirs) /\ Len(dirs') = Len(dirs) + 1 /\ dirs'[Len(dirs) + 1] = d
        /\ \A k \in 1 .. Len(dirs) : dirs'[k] = dirs[k]
        /\ \A k \in 1 .. Len(dirs') : k \in 1 .. Len(dirs) \/ k = Len(dirs) + 1
    BY <2>1, AppendFacts
  <2>3. Len(dirs) \in Nat
    BY <2>1
  <2>4. Len(dirs') >= 1
    BY <2>2, <2>3
  <2> QED BY <2>2, <2>4 DEF From, dir
<1>2. CASE "machine" \notin Crashes
  <2>1. dirs' = <<d>>
    BY <1>2 DEF SetDir
  <2>2. dirs' \in Seq(Dirs) /\ Len(dirs') = 1 /\ dirs'[1] = d
    BY <2>1
  <2> QED BY <2>2 DEF From, dir
<1> QED BY <1>1, <1>2

LEMMA SyncDirFacts ==
    ASSUME JTypes, SyncDir
    PROVE  From(dirs, dir, dirs') /\ dir' = dir
<1>1. dirs' = <<dir>> /\ dir \in Dirs
  BY DirFacts DEF SyncDir
<1>2. dirs' \in Seq(Dirs) /\ Len(dirs') = 1 /\ dirs'[1] = dir
  BY <1>1
<1> QED BY <1>2 DEF From, dir

LEMMA SameDirFacts ==
    ASSUME JTypes, dirs' = dirs
    PROVE  From(dirs, dir, dirs') /\ dir' = dir
BY DEF JTypes, From, dir

LEMMA VersionGrows ==
    ASSUME NEW v \in Dirs, NEW A \in Seq(Frames), NEW B, NEW n \in Nat, NEW m \in Nat, n <= m,
           NEW ref, NEW ref2, ref \subseteq ref2, Grow(A, B, m), VersionOK(v, A, n, ref)
    PROVE  VersionOK(v, B, m, ref2)
<1>1. /\ B \in Seq(Frames) /\ Len(A) \in Nat /\ Len(B) \in Nat /\ Len(A) <= Len(B)
      /\ v.qdb \in Seq(Nat) /\ Len(v.qdb) \in Nat
  BY DEF Grow, Dirs
<1>2. v.log \in 0 .. Len(B)
  BY <1>1 DEF VersionOK
<1>3. v.arch \in [Stamps -> 0 .. Len(B)]
  BY <1>1 DEF VersionOK
<1>4. MessagesOK(v.qdb, m, ref2)
  <2>1. \A j \in 1 .. Len(v.qdb) : v.qdb[j] \in 1 .. m
    BY <1>1 DEF VersionOK, MessagesOK
  <2>2. Ordered(v.qdb, ref2)
    BY DEF VersionOK, MessagesOK, Ordered
  <2> QED BY <2>1, <2>2 DEF MessagesOK
<1>5. ASSUME v.log # NoLog PROVE Follows(B[v.log].frames, v.qdb, ref2)
  <2>1. v.log \in 1 .. Len(A)
    BY <1>1, <1>5 DEF VersionOK, NoLog
  <2> DEFINE f == B[v.log].frames
             q == v.qdb
  <2> SUFFICES ASSUME NEW j \in 1 .. Len(f), NEW k \in 1 .. Len(q),
                      f[j] # Torn, f[j] \notin ref2, f[j] < q[k]
               PROVE  In(f[j], q)
    BY DEF Follows
  <2>2. f[j] # m
    <3>1. q[k] \in 1 .. m
      BY <1>4 DEF MessagesOK
    <3> QED BY <3>1
  <2>3. In(f[j], A[v.log].frames)
    BY <2>1, <2>2 DEF Grow
  <2>4. PICK h \in 1 .. Len(A[v.log].frames) : A[v.log].frames[h] = f[j]
    BY <2>3 DEF In
  <2>5. Follows(A[v.log].frames, q, ref)
    BY <1>5 DEF VersionOK
  <2> QED BY <2>4, <2>5 DEF Follows
<1> QED BY <1>2, <1>3, <1>4, <1>5 DEF VersionOK

\* The versions that stay are still good, so a step is about the new one.
LEMMA VersionsFrame ==
    ASSUME JTypes, VersionsOK, NEW d, From(dirs, d, dirs'), VersionOK(d, logs', nmsgs', refused'),
           Grow(logs, logs', nmsgs'), nmsgs' \in Nat, nmsgs <= nmsgs', refused \subseteq refused'
    PROVE  VersionsOK'
<1> SUFFICES ASSUME NEW k \in 1 .. Len(dirs') PROVE VersionOK(dirs'[k], logs', nmsgs', refused')
  BY DEF VersionsOK
<1>1. CASE dirs'[k] = d
  BY <1>1
<1>2. CASE \E j \in 1 .. Len(dirs) : dirs'[k] = dirs[j]
  <2>1. PICK j \in 1 .. Len(dirs) : dirs'[k] = dirs[j]
    BY <1>2
  <2>2. dirs[j] \in Dirs /\ VersionOK(dirs[j], logs, nmsgs, refused)
    BY DEF JTypes, VersionsOK
  <2>3. VersionOK(dirs[j], logs', nmsgs', refused')
    BY <2>2, VersionGrows DEF JTypes
  <2> QED BY <2>1, <2>3
<1> QED BY <1>1, <1>2 DEF From

LEMMA DirGrows ==
    ASSUME JTypes, VersionsOK, Grow(logs, logs', nmsgs'), nmsgs' \in Nat, nmsgs <= nmsgs',
           refused \subseteq refused'
    PROVE  VersionOK(dir, logs', nmsgs', refused')
<1>1. dir \in Dirs /\ VersionOK(dir, logs, nmsgs, refused)
  BY DirFacts DEF VersionsOK, dir
<1> QED BY <1>1, VersionGrows DEF JTypes

LEMMA MessagesGrow ==
    ASSUME NEW q \in Seq(Nat), NEW n \in Nat, NEW m \in Nat, n <= m, NEW ref, NEW ref2,
           ref \subseteq ref2, MessagesOK(q, n, ref)
    PROVE  MessagesOK(q, m, ref2)
<1>1. Len(q) \in Nat
  OBVIOUS
<1>2. \A j \in 1 .. Len(q) : q[j] \in 1 .. m
  BY <1>1 DEF MessagesOK
<1>3. Ordered(q, ref2)
  BY DEF MessagesOK, Ordered
<1> QED BY <1>2, <1>3 DEF MessagesOK

-----------------------------------------------------------------------------
(* Steps that leave every frame and the current version of the directory   *)
(* as they are.                                                            *)

SameFrames(A, B) ==
    /\ B \in Seq(Frames) /\ Len(B) = Len(A)
    /\ \A g \in 1 .. Len(A) : B[g].frames = A[g].frames

LEMMA SameGrow ==
    ASSUME NEW A \in Seq(Frames), NEW B, SameFrames(A, B), NEW n
    PROVE  Grow(A, B, n)
<1>1. Len(A) \in Nat
  OBVIOUS
<1> QED BY <1>1 DEF SameFrames, Grow, In

\* The active log of a version is a log.
LEMMA ActiveLog ==
    ASSUME JTypes, VersionsOK, dir.log # NoLog
    PROVE  /\ dir.log \in 1 .. Len(logs) /\ File \in Frames /\ File.frames \in Seq(Nat)
           /\ Len(File.frames) \in Nat
<1>1. dir.log \in 0 .. Len(logs) /\ Len(logs) \in Nat
  BY DirFacts DEF VersionsOK, VersionOK, dir, JTypes
<1>2. dir.log \in 1 .. Len(logs)
  BY <1>1 DEF NoLog
<1>3. File \in Frames
  BY <1>2 DEF File, JTypes
<1>4. File.frames \in Seq(Nat)
  BY <1>3 DEF Frames
<1> QED BY <1>2, <1>3, <1>4

LEMMA Assemble ==
    ASSUME JInv, NEW d, From(dirs, d, dirs'), VersionOK(d, logs', nmsgs', refused'),
           Grow(logs, logs', nmsgs'), LogsOK', nmsgs' \in Nat, nmsgs <= nmsgs', refused \subseteq refused',
           clock' \in Stamps, stamp' \in Stamps,
           env' \in Seq(Nat), MessagesOK(env', nmsgs', refused'), Flight', Covered'
    PROVE  JInv'
<1>1. JTypes'
  BY DEF JTypes, From, Grow
<1>2. VersionsOK'
  BY VersionsFrame DEF JInv
<1> QED BY <1>1, <1>2 DEF JInv

LEMMA SameLogs ==
    ASSUME JInv, SameFrames(logs, logs'), nmsgs' = nmsgs
    PROVE  LogsOK' /\ Grow(logs, logs', nmsgs')
<1>1. Grow(logs, logs', nmsgs')
  BY SameGrow DEF JInv, JTypes
<1>2. LogsOK'
  BY DEF JInv, LogsOK, SameFrames
<1> QED BY <1>1, <1>2

LEMMA Quiet ==
    ASSUME JInv, SameFrames(logs, logs'), From(dirs, dir, dirs'), dir' = dir, nmsgs' = nmsgs,
           refused \subseteq refused', clock' \in Stamps, stamp' \in Stamps, env' = env,
           fp' => dir.log # NoLog,
           pc' \notin {"head", "payload", "badtail", "fsync"},
           pc' = "eval" => pc = "fsync",
           pc' = "r_rename" => ~fp',
           pc' # "down" => pc \notin {"down", "badtail"},
           pc' \notin {"down", "eval"} /\ pc \in {"fsync", "eval"} => nmsgs \in refused'
    PROVE  JInv'
<1>1. LogsOK' /\ Grow(logs, logs', nmsgs')
  BY SameLogs
<1>2. nmsgs \in Nat /\ env \in Seq(Nat)
  BY DEF JInv, JTypes
<1>3. nmsgs <= nmsgs'
  BY <1>2
<1>4. VersionOK(dir, logs', nmsgs', refused')
  BY <1>1, <1>2, <1>3, DirGrows DEF JInv
<1>5. MessagesOK(env', nmsgs', refused')
  BY <1>2, <1>3, MessagesGrow DEF JInv
<1>6. Flight'
  BY DEF JInv, Flight
<1>7. Covered'
  <2> SUFFICES ASSUME pc' \notin {"down", "badtail"}, dir.log # NoLog
               PROVE  \A j \in 1 .. Len(File.frames') : Known(File.frames[j])'
    BY DEF Covered
  <2>1. File.frames' = File.frames
    BY ActiveLog DEF File, SameFrames, JInv
  <2>2. pc \notin {"down", "badtail"} /\ Covered
    BY DEF JInv
  <2>3. TAKE j \in 1 .. Len(File.frames')
  <2>4. Known(File.frames[j])
    BY <2>1, <2>2, <2>3 DEF Covered
  <2> QED BY <2>1, <2>4 DEF Known, KnownTo
<1> QED BY <1>1, <1>2, <1>3, <1>4, <1>5, <1>6, <1>7, Assemble

\* The bookkeeping that JInv does not speak of may change.
LEMMA Unmoved ==
    ASSUME JInv, UNCHANGED <<dirs, logs, pc, fp, env, nmsgs, refused, stamp>>, clock' \in Stamps
    PROVE  JInv'
<1>1. JTypes'
  BY DEF JInv, JTypes
<1>2. LogsOK' /\ VersionsOK' /\ MessagesOK(env, nmsgs, refused)'
  BY DEF JInv, LogsOK, VersionsOK
<1>3. Flight' /\ Covered'
  BY DEF JInv, Flight, Covered, Known, KnownTo, dir, File
<1> QED BY <1>1, <1>2, <1>3 DEF JInv

\* A crash leaves one version of the directory and of every log a prefix.
LEMMA Death ==
    ASSUME JInv, Dead, NEW d, From(dirs, d, dirs'), VersionOK(d, logs', nmsgs', refused'), LogsOK',
           Grow(logs, logs', nmsgs'), UNCHANGED <<clock, nmsgs, refused>>
    PROVE  JInv'
<1>1. nmsgs \in Nat /\ clock \in Stamps /\ stamp' \in Stamps
  BY JournalAssumption DEF JInv, JTypes, Dead, Stamps
<1>2. env' \in Seq(Nat) /\ Len(env') = 0
  BY DEF Dead
<1>3. MessagesOK(env', nmsgs', refused')
  BY <1>2 DEF MessagesOK, Ordered
<1>4. Flight' /\ Covered'
  BY DEF Flight, Covered, Dead
<1> QED BY <1>1, <1>2, <1>3, <1>4, Assemble

-----------------------------------------------------------------------------
(* The quiet actions.                                                      *)

LEMMA SameLogFile ==
    ASSUME JInv, logs' = logs
    PROVE  SameFrames(logs, logs')
BY DEF JInv, JTypes, SameFrames

LEMMA SyncedLog ==
    ASSUME JInv, fp, SyncLog
    PROVE  SameFrames(logs, logs') /\ From(dirs, dir, dirs') /\ dir' = dir
<1>1. From(dirs, dir, dirs') /\ dir' = dir
  <2>1. CASE FsyncEntry
    BY <2>1, SyncDirFacts DEF JInv, SyncLog
  <2>2. CASE ~FsyncEntry
    BY <2>2, SameDirFacts DEF JInv, SyncLog
  <2> QED BY <2>1, <2>2
<1>2. dir.log \in 1 .. Len(logs) /\ File \in Frames /\ Len(File.frames) \in Nat
  BY ActiveLog DEF JInv, Flight
<1>3. logs' = [logs EXCEPT ![dir.log] = [File EXCEPT !.dur = Len(File.frames)]] /\ logs \in Seq(Frames)
  BY DEF SyncLog, JInv, JTypes, File
<1> DEFINE new == [File EXCEPT !.dur = Len(File.frames)]
<1>4. new \in Frames /\ new.frames = File.frames
  BY <1>2 DEF Frames
<1> HIDE DEF new
<1>5. logs' \in Seq(Frames) /\ Len(logs') = Len(logs)
      /\ \A g \in 1 .. Len(logs) : logs'[g] = IF g = dir.log THEN new ELSE logs[g]
  BY <1>2, <1>3, <1>4 DEF new
<1>6. \A g \in 1 .. Len(logs) : logs'[g].frames = logs[g].frames
  BY <1>4, <1>5 DEF File
<1> QED BY <1>1, <1>5, <1>6 DEF SameFrames

LEMMA QuietActions ==
    ASSUME JInv,
           \/ CloseVerb \/ RollVerb \/ RollClose \/ RollSyncDir \/ SnapshotSyncDir
           \/ SyncVerb \/ WriteSync
    PROVE  JInv'
<1>0. clock \in Stamps /\ stamp \in Stamps /\ (fp => dir.log # NoLog) /\ JTypes
  BY DEF JInv, JTypes, Flight
<1>1. CASE CloseVerb
  BY <1>0, <1>1, SameLogFile, SameDirFacts, Quiet DEF CloseVerb, counts
<1>2. CASE RollVerb
  BY <1>0, <1>2, SameLogFile, SameDirFacts, Quiet DEF RollVerb, Roll, Go
<1>3. CASE RollClose
  BY <1>0, <1>3, SameLogFile, SameDirFacts, Quiet DEF RollClose, Go, counts, ghosts
<1>4. CASE RollSyncDir
  BY <1>0, <1>4, SameLogFile, SameDirFacts, SyncDirFacts, Quiet DEF RollSyncDir, Go, counts, ghosts
<1>5. CASE SnapshotSyncDir
  BY <1>0, <1>5, SameLogFile, SameDirFacts, SyncDirFacts, Quiet DEF SnapshotSyncDir, Go, counts, ghosts
<1>6. CASE SyncVerb
  <2>1. fp /\ pc = "idle" /\ UNCHANGED <<pc, fp, env, stamp, clock, nmsgs, refused>>
    BY <1>6 DEF SyncVerb, server, counts
  <2>2. SameFrames(logs, logs') /\ From(dirs, dir, dirs') /\ dir' = dir
    BY <1>0, <1>6, <2>1, SyncedLog, SameLogFile, SameDirFacts DEF SyncVerb
  <2> QED BY <1>0, <2>1, <2>2, Quiet
<1>7. CASE WriteSync
  <2>1. fp /\ pc = "fsync" /\ UNCHANGED <<fp, env, stamp, clock, nmsgs>>
    BY <1>7 DEF WriteSync, counts, JInv, Flight
  <2>2. SameFrames(logs, logs') /\ From(dirs, dir, dirs') /\ dir' = dir
    BY <1>0, <1>7, <2>1, SyncedLog, SameLogFile, SameDirFacts DEF WriteSync
  <2>3. \/ pc' = "eval" /\ refused' = refused
        \/ pc' = "idle" /\ refused' = refused \cup {nmsgs}
    BY <1>7 DEF WriteSync, Refuse, Go
  <2> QED BY <1>0, <2>1, <2>2, <2>3, Quiet
<1> QED BY <1>1, <1>2, <1>3, <1>4, <1>5, <1>6, <1>7

LEMMA Undisturbed ==
    ASSUME JInv, Tick \/ UNCHANGED vars
    PROVE  JInv'
<1>1. CASE Tick
  <2>1. clock' \in Stamps
    BY <1>1, JournalAssumption DEF Tick, Stamps, JInv, JTypes
  <2>2. UNCHANGED <<dirs, logs, pc, fp, env, nmsgs, refused, stamp>>
    BY <1>1 DEF Tick, server, counts, ghosts
  <2> QED BY <2>1, <2>2, Unmoved
<1>2. CASE UNCHANGED vars
  BY <1>2, Unmoved DEF vars, server, counts, ghosts, JInv, JTypes
<1> QED BY <1>1, <1>2

\* A cut log is a prefix of what it was.
Cut(A, B) ==
    /\ B \in Seq(Frames) /\ Len(B) = Len(A)
    /\ \A g \in 1 .. Len(A) : \E n \in 0 .. Len(A[g].frames) : B[g].frames = SubSeq(A[g].frames, 1, n)

LEMMA CutLogs ==
    ASSUME JInv, Cut(logs, logs'), nmsgs' = nmsgs
    PROVE  LogsOK' /\ Grow(logs, logs', nmsgs')
<1>1. nmsgs \in Nat /\ logs \in Seq(Frames) /\ Len(logs) \in Nat /\ Len(logs') = Len(logs)
  BY DEF JInv, JTypes, Cut
<1>2. ASSUME NEW g \in 1 .. Len(logs)
      PROVE  /\ LogOK(logs'[g].frames, nmsgs)
             /\ \A j \in 1 .. Len(logs'[g].frames) : In(logs'[g].frames[j], logs[g].frames)
  <2>0. logs[g] \in Frames
    BY <1>1
  <2>1. logs[g].frames \in Seq(Nat) /\ LogOK(logs[g].frames, nmsgs)
    BY <2>0 DEF Frames, JInv, LogsOK
  <2>2. PICK n \in 0 .. Len(logs[g].frames) : logs'[g].frames = SubSeq(logs[g].frames, 1, n)
    BY DEF Cut
  <2>3. LogOK(logs'[g].frames, nmsgs)
    BY <1>1, <2>1, <2>2, LogOKPrefix
  <2>4. \A j \in 1 .. Len(logs'[g].frames) : In(logs'[g].frames[j], logs[g].frames)
    BY <2>1, <2>2, PrefixFacts DEF In
  <2> QED BY <2>3, <2>4
<1>3. LogsOK'
  BY <1>1, <1>2 DEF LogsOK
<1>4. Grow(logs, logs', nmsgs')
  BY <1>1, <1>2 DEF Grow, Cut
<1> QED BY <1>3, <1>4

LEMMA CrashActions ==
    ASSUME JInv, ProcessCrash \/ MachineCrash
    PROVE  JInv'
<1>1. nmsgs \in Nat /\ JTypes
  BY DEF JInv, JTypes
<1>2. CASE ProcessCrash
  <2>1. Dead /\ UNCHANGED <<dirs, logs, clock, nmsgs, refused>>
    BY <1>2 DEF ProcessCrash, ghosts
  <2>2. LogsOK' /\ Grow(logs, logs', nmsgs')
    BY <2>1, SameLogFile, SameLogs
  <2>3. From(dirs, dir, dirs')
    BY <1>1, <2>1, SameDirFacts
  <2>4. VersionOK(dir, logs', nmsgs', refused')
    BY <1>1, <2>1, <2>2, DirGrows DEF JInv
  <2> QED BY <2>1, <2>2, <2>3, <2>4, Death
<1>3. CASE MachineCrash
  <2>1. Dead /\ UNCHANGED <<clock, nmsgs, refused>>
    BY <1>3 DEF MachineCrash
  <2>2. PICK k \in 1 .. Len(dirs) : dirs' = <<dirs[k]>>
    BY <1>3 DEF MachineCrash
  <2>3. dirs[k] \in Dirs /\ VersionOK(dirs[k], logs, nmsgs, refused)
    BY <1>1 DEF JTypes, JInv, VersionsOK
  <2>4. From(dirs, dirs[k], dirs')
    <3>1. dirs' \in Seq(Dirs) /\ Len(dirs') = 1 /\ dirs'[1] = dirs[k]
      BY <2>2, <2>3
    <3> QED BY <3>1 DEF From
  <2>5. Cut(logs, logs')
    <3>1. PICK more \in 0 .. MaxMsgs :
            LET Kept(f) == IF f.dur + more < Len(f.frames) THEN f.dur + more ELSE Len(f.frames)
            IN  logs' = [g \in 1 .. Len(logs) |->
                           [frames |-> SubSeq(logs[g].frames, 1, Kept(logs[g])), dur |-> Kept(logs[g])]]
      BY <1>3 DEF MachineCrash
    <3> DEFINE kept(g) == IF logs[g].dur + more < Len(logs[g].frames) THEN logs[g].dur + more ELSE Len(logs[g].frames)
    <3>2. ASSUME NEW g \in 1 .. Len(logs)
          PROVE  /\ logs[g].frames \in Seq(Nat) /\ kept(g) \in 0 .. Len(logs[g].frames)
                 /\ [frames |-> SubSeq(logs[g].frames, 1, kept(g)), dur |-> kept(g)] \in Frames
      <4>0. logs[g] \in Frames /\ more \in Nat
        BY <1>1, JournalAssumption DEF JTypes
      <4>1. logs[g].frames \in Seq(Nat) /\ logs[g].dur \in Nat /\ Len(logs[g].frames) \in Nat /\ more \in Nat
        BY <4>0 DEF Frames
      <4>2. kept(g) \in 0 .. Len(logs[g].frames) /\ kept(g) \in Nat
        BY <4>1
      <4>3. SubSeq(logs[g].frames, 1, kept(g)) \in Seq(Nat)
        BY <4>1, <4>2, PrefixFacts
      <4> QED BY <4>1, <4>2, <4>3 DEF Frames
    <3>3. logs' = [g \in 1 .. Len(logs) |-> [frames |-> SubSeq(logs[g].frames, 1, kept(g)), dur |-> kept(g)]]
      BY <3>1
    <3> HIDE DEF kept
    <3>4. Len(logs) \in Nat
      BY <1>1 DEF JTypes
    <3>5. logs' \in Seq(Frames) /\ Len(logs') = Len(logs)
      BY <3>2, <3>3, <3>4
    <3>6. \A g \in 1 .. Len(logs) : logs'[g].frames = SubSeq(logs[g].frames, 1, kept(g))
      BY <3>3
    <3> QED BY <3>2, <3>5, <3>6 DEF Cut
  <2>6. LogsOK' /\ Grow(logs, logs', nmsgs')
    BY <2>1, <2>5, CutLogs
  <2>7. VersionOK(dirs[k], logs', nmsgs', refused')
    BY <1>1, <2>1, <2>3, <2>6, VersionGrows DEF JTypes
  <2> QED BY <2>1, <2>4, <2>6, <2>7, Death
<1> QED BY <1>2, <1>3

-----------------------------------------------------------------------------
(* Actions on the directory.                                               *)

\* A new version whose log is the old one or none, and whose snapshot the log
\* follows.
LEMMA NewVersion ==
    ASSUME JInv, NEW d \in Dirs, SetDir(d), UNCHANGED <<logs, env, clock, nmsgs, refused>>, stamp' \in Stamps,
           VersionOK(d, logs, nmsgs, refused), d.log \in {NoLog, dir.log}, fp' => d.log # NoLog,
           pc \notin {"down", "badtail", "fsync", "eval"},
           pc' \notin {"head", "payload", "badtail", "fsync", "eval", "r_rename"}
    PROVE  JInv'
<1>1. JTypes /\ nmsgs \in Nat /\ clock \in Stamps /\ env \in Seq(Nat) /\ nmsgs <= nmsgs'
  BY DEF JInv, JTypes
<1>2. From(dirs, d, dirs') /\ dir' = d
  BY <1>1, SetDirFacts
<1>3. LogsOK' /\ Grow(logs, logs', nmsgs')
  BY SameLogFile, SameLogs
<1>4. Flight'
  BY <1>2 DEF Flight
<1>5. Covered'
  <2> SUFFICES ASSUME d.log # NoLog PROVE \A j \in 1 .. Len(File.frames') : Known(File.frames[j])'
    BY <1>2 DEF Covered
  <2>1. File' = File
    BY <1>2 DEF File
  <2>2. \A j \in 1 .. Len(File.frames) : Known(File.frames[j])
    BY DEF JInv, Covered
  <2> QED BY <2>1, <2>2 DEF Known, KnownTo
<1> QED BY <1>1, <1>2, <1>3, <1>4, <1>5, Assemble DEF JInv

LEMMA DirectoryActions ==
    ASSUME JInv, RollRename \/ Snapshot \/ PurgeVerb \/ PurgeSnapshot \/ PurgeArchives
    PROVE  JInv'
<1>0. /\ clock \in Stamps /\ stamp \in Stamps /\ (fp => dir.log # NoLog) /\ JTypes
      /\ nmsgs \in Nat /\ env \in Seq(Nat)
  BY DEF JInv, JTypes, Flight
<1>1. dir \in Dirs /\ dir.qdb \in Seq(Nat) /\ dir.log \in Nat /\ dir.arch \in [Stamps -> Nat]
  BY <1>0, DirFacts
<1>2. /\ dir.log \in 0 .. Len(logs) /\ dir.arch \in [Stamps -> 0 .. Len(logs)] /\ Len(logs) \in Nat
      /\ MessagesOK(dir.qdb, nmsgs, refused)
      /\ dir.log # NoLog => Follows(logs[dir.log].frames, dir.qdb, refused)
  BY <1>0, DirFacts DEF JInv, VersionsOK, VersionOK, dir, JTypes
<1>3. CASE RollRename
  <2>1. UNCHANGED <<logs, fp, env, stamp, clock, nmsgs, refused>> /\ pc = "r_rename"
    BY <1>3 DEF RollRename, counts, ghosts
  <2>2. CASE SetDir([dir EXCEPT !.arch[stamp] = dir.log, !.log = NoLog]) /\ pc' = "r_dir"
    <3> DEFINE d == [dir EXCEPT !.arch[stamp] = dir.log, !.log = NoLog]
    <3>1. d \in Dirs /\ d.log = NoLog /\ d.qdb = dir.qdb
      BY <1>0, <1>1 DEF Dirs, NoLog
    <3>2. d.arch \in [Stamps -> 0 .. Len(logs)]
      BY <1>0, <1>1, <1>2 DEF Dirs
    <3>3. SetDir(d)
      BY <2>2
    <3> HIDE DEF d
    <3>4. VersionOK(d, logs, nmsgs, refused)
      BY <1>2, <3>1, <3>2 DEF VersionOK, NoLog
    <3>5. ~fp'
      BY <2>1 DEF JInv, Flight
    <3> QED BY <1>0, <2>1, <2>2, <3>1, <3>3, <3>4, <3>5, NewVersion
  <2>3. CASE pc' = "r_open" /\ UNCHANGED dirs
    BY <1>0, <2>1, <2>3, SameLogFile, SameDirFacts, Quiet
  <2> QED BY <1>3, <2>2, <2>3 DEF RollRename, Go
<1>4. CASE Snapshot
  <2>1. UNCHANGED <<logs, fp, env, clock, nmsgs, refused>> /\ pc = "idle" /\ fp /\ stamp' = clock
    BY <1>4 DEF Snapshot, Roll, ghosts
  <2>2. CASE SetDir([dir EXCEPT !.qdb = env]) /\ pc' = "s_dir"
    <3> DEFINE d == [dir EXCEPT !.qdb = env]
    <3>1. d \in Dirs /\ d.log = dir.log /\ d.qdb = env /\ d.arch = dir.arch
      BY <1>0, <1>1 DEF Dirs
    <3>2. SetDir(d)
      BY <2>2
    <3> HIDE DEF d
    <3>3. Follows(logs[dir.log].frames, env, refused)
      <4>1. \A j \in 1 .. Len(File.frames) : File.frames[j] = Torn \/ File.frames[j] \in refused \/ In(File.frames[j], env)
        BY <1>0, <2>1 DEF JInv, Covered, Known, KnownTo
      <4> QED BY <4>1 DEF Follows, File
    <3>4. VersionOK(d, logs, nmsgs, refused)
      BY <1>2, <3>1, <3>3 DEF VersionOK, JInv
    <3> QED BY <1>0, <2>1, <2>2, <3>1, <3>2, <3>4, NewVersion
  <2>3. CASE pc' = "idle" /\ UNCHANGED dirs
    BY <1>0, <2>1, <2>3, SameLogFile, SameDirFacts, Quiet
  <2> QED BY <1>4, <2>2, <2>3 DEF Snapshot, Go
<1>5. CASE PurgeVerb
  <2>1. UNCHANGED <<logs, env, stamp, clock, nmsgs, refused>> /\ pc = "idle" /\ fp' = FALSE /\ pc' = "p_qdb"
    BY <1>5 DEF PurgeVerb, Go
  <2> DEFINE d == [dir EXCEPT !.log = NoLog]
  <2>2. d \in Dirs /\ d.log = NoLog /\ d.qdb = dir.qdb /\ d.arch = dir.arch
    BY <1>1 DEF Dirs, NoLog
  <2>3. SetDir(d)
    BY <1>5 DEF PurgeVerb
  <2> HIDE DEF d
  <2>4. VersionOK(d, logs, nmsgs, refused)
    BY <1>2, <2>2 DEF VersionOK, NoLog
  <2> QED BY <1>0, <2>1, <2>2, <2>3, <2>4, NewVersion
<1>6. CASE PurgeSnapshot
  <2>1. UNCHANGED <<logs, fp, env, stamp, clock, nmsgs, refused>> /\ pc = "p_qdb" /\ pc' = "p_arch"
    BY <1>6 DEF PurgeSnapshot, Go, counts, ghosts
  <2> DEFINE d == [dir EXCEPT !.qdb = None]
  <2>0. None = <<>> /\ None \in Seq(Nat)
    BY DEF None
  <2>2. d \in Dirs /\ d.log = dir.log /\ d.qdb = <<>> /\ d.arch = dir.arch
    BY <1>1, <2>0 DEF Dirs
  <2>3. SetDir(d)
    BY <1>6 DEF PurgeSnapshot
  <2> HIDE DEF d
  <2>4. Len(d.qdb) = 0
    BY <2>2
  <2>5. VersionOK(d, logs, nmsgs, refused)
    BY <1>2, <2>2, <2>4 DEF VersionOK, MessagesOK, Ordered, Follows
  <2> QED BY <1>0, <2>1, <2>2, <2>3, <2>5, NewVersion
<1>7. CASE PurgeArchives
  <2>1. UNCHANGED <<logs, fp, env, stamp, clock, nmsgs, refused>> /\ pc = "p_arch" /\ pc' = "idle"
    BY <1>7 DEF PurgeArchives, Go, counts, ghosts
  <2> DEFINE none == [s \in Stamps |-> NoLog]
             d == [dir EXCEPT !.arch = none]
  <2>2. none \in [Stamps -> Nat] /\ none \in [Stamps -> 0 .. Len(logs)]
    BY <1>2 DEF NoLog
  <2>3. SetDir(d)
    BY <1>7 DEF PurgeArchives
  <2> HIDE DEF none
  <2>4. d \in Dirs /\ d.log = dir.log /\ d.qdb = dir.qdb /\ d.arch = none
    BY <1>1, <2>2 DEF Dirs
  <2> HIDE DEF d
  <2>5. VersionOK(d, logs, nmsgs, refused)
    BY <1>2, <2>2, <2>4 DEF VersionOK
  <2> QED BY <1>0, <2>1, <2>3, <2>4, <2>5, NewVersion
<1> QED BY <1>3, <1>4, <1>5, <1>6, <1>7

-----------------------------------------------------------------------------
(* Opening a log, new or old.                                              *)

LEMMA OpenKeeps ==
    ASSUME JInv, NEW to, NEW failed, OpenLog(to, failed), UNCHANGED <<env, stamp, clock, nmsgs, refused>>,
           to = "idle", failed \in {"idle", "down"}, pc \in {"idle", "open", "r_open"}
    PROVE  JInv'
<1>0. /\ clock \in Stamps /\ stamp \in Stamps /\ JTypes /\ nmsgs \in Nat /\ env \in Seq(Nat)
      /\ nmsgs <= nmsgs' /\ logs \in Seq(Frames) /\ Len(logs) \in Nat
  BY DEF JInv, JTypes
<1>1. CASE fp' = FALSE /\ pc' = failed /\ UNCHANGED <<logs, dirs>>
  BY <1>0, <1>1, SameLogFile, SameDirFacts, Quiet
<1>2. CASE dir.log # NoLog /\ UNCHANGED <<logs, dirs>> /\ pc' = to
  BY <1>0, <1>2, SameLogFile, SameDirFacts, Quiet
<1>3. CASE /\ dir.log = NoLog /\ pc' = to
           /\ logs' = Append(logs, [frames |-> <<>>, dur |-> 0])
           /\ SetDir([dir EXCEPT !.log = Len(logs) + 1])
  <2> DEFINE e == <<>>
             new == [frames |-> e, dur |-> 0]
             d == [dir EXCEPT !.log = Len(logs) + 1]
  <2>0. e \in Seq(Nat) /\ Len(e) = 0
    OBVIOUS
  <2>5. logs' = Append(logs, new)
    BY <1>3
  <2> HIDE DEF e
  <2>1. new \in Frames /\ new.frames = e /\ Len(new.frames) = 0
    BY <2>0 DEF Frames
  <2>2. dir \in Dirs /\ VersionOK(dir, logs, nmsgs, refused)
    BY <1>0, DirFacts DEF JInv, VersionsOK, dir
  <2>3. d \in Dirs /\ d.log = Len(logs) + 1 /\ d.qdb = dir.qdb /\ d.arch = dir.arch
    <3> DEFINE g == Len(logs) + 1
    <3>1. g \in Nat
      BY <1>0
    <3> HIDE DEF g
    <3>2. [dir EXCEPT !.log = g] \in Dirs
      BY <2>2, <3>1 DEF Dirs
    <3> QED BY <2>2, <3>2 DEF Dirs, g
  <2>4. From(dirs, d, dirs') /\ dir' = d
    BY <1>0, <1>3, <2>3, SetDirFacts
  <2> HIDE DEF new, d
  <2>6. /\ logs' \in Seq(Frames) /\ Len(logs') = Len(logs) + 1 /\ logs'[Len(logs) + 1] = new
        /\ \A g \in 1 .. Len(logs) : logs'[g] = logs[g]
        /\ \A g \in 1 .. Len(logs') : g \in 1 .. Len(logs) \/ g = Len(logs) + 1
    BY <1>0, <2>1, <2>5, AppendFacts
  <2>7. Len(logs) <= Len(logs') /\ Len(logs') \in Nat
    BY <1>0, <2>6
  <2>8. Grow(logs, logs', nmsgs')
    BY <2>6, <2>7 DEF Grow, In
  <2>9. LogsOK'
    <3>1. LogOK(new.frames, nmsgs)
      BY <2>1 DEF LogOK, Rising
    <3> QED BY <2>6, <3>1 DEF LogsOK, JInv
  <2>10. VersionOK(d, logs', nmsgs', refused')
    <3>1. VersionOK(dir, logs', nmsgs', refused')
      BY <1>0, <2>8, DirGrows DEF JInv
    <3>2. d.log \in 0 .. Len(logs')
      BY <1>0, <2>3, <2>6
    <3>3. Follows(logs'[d.log].frames, d.qdb, refused')
      BY <2>1, <2>3, <2>6 DEF Follows
    <3> QED BY <2>3, <3>1, <3>2, <3>3 DEF VersionOK
  <2>11. dir'.log # NoLog /\ File' = new
    BY <1>0, <2>3, <2>4, <2>6 DEF NoLog, File
  <2>12. Flight'
    BY <1>3, <2>11 DEF Flight
  <2>13. Covered'
    BY <2>1, <2>11 DEF Covered
  <2>14. MessagesOK(env', nmsgs', refused')
    BY DEF JInv
  <2> QED BY <1>0, <2>4, <2>8, <2>9, <2>10, <2>12, <2>13, <2>14, Assemble
<1> QED BY <1>1, <1>2, <1>3 DEF OpenLog, Go

LEMMA OpenActions ==
    ASSUME JInv, OpenAppend \/ OpenVerb \/ RollOpen
    PROVE  JInv'
<1>1. CASE OpenAppend
  BY <1>1, OpenKeeps DEF OpenAppend, counts, ghosts
<1>2. CASE OpenVerb
  BY <1>2, OpenKeeps DEF OpenVerb, counts
<1>3. CASE RollOpen
  BY <1>3, OpenKeeps DEF RollOpen, counts, ghosts
<1> QED BY <1>1, <1>2, <1>3

-----------------------------------------------------------------------------
(* A message from its receipt to its evaluation.                           *)

LEMMA ReceiveKeeps ==
    ASSUME JInv, Receive
    PROVE  JInv'
<1>0. /\ clock \in Stamps /\ stamp \in Stamps /\ JTypes /\ nmsgs \in Nat /\ env \in Seq(Nat)
      /\ logs \in Seq(Frames) /\ Len(logs) \in Nat
  BY DEF JInv, JTypes
<1>1. /\ UNCHANGED <<dirs, logs, fp, env, stamp, clock, refused>> /\ nmsgs' = nmsgs + 1
      /\ pc = "idle" /\ pc' = IF fp THEN "head" ELSE "eval"
  BY DEF Receive, Go
<1>2. nmsgs' \in Nat /\ nmsgs <= nmsgs' /\ nmsgs' >= 1
  BY <1>0, <1>1
<1>3. SameFrames(logs, logs')
  BY <1>1, SameLogFile
<1>4. Grow(logs, logs', nmsgs')
  BY <1>0, <1>3, SameGrow
<1>5. \A g \in 1 .. Len(logs) : \A j \in 1 .. Len(logs[g].frames) : logs[g].frames[j] < nmsgs'
  <2> TAKE g \in 1 .. Len(logs)
  <2>1. logs[g] \in Frames
    BY <1>0
  <2>2. logs[g].frames \in Seq(Nat)
    BY <2>1 DEF Frames
  <2>3. TAKE j \in 1 .. Len(logs[g].frames)
  <2>4. logs[g].frames[j] \in Nat /\ logs[g].frames[j] <= nmsgs
    BY <2>2, <2>3 DEF JInv, LogsOK, LogOK
  <2> QED BY <1>0, <1>1, <2>4
<1>6. LogsOK'
  <2> SUFFICES ASSUME NEW g \in 1 .. Len(logs) PROVE LogOK(logs[g].frames, nmsgs')
    BY <1>1 DEF LogsOK
  <2>1. Rising(logs[g].frames)
    BY DEF JInv, LogsOK, LogOK
  <2>2. logs[g] \in Frames
    BY <1>0
  <2>3. logs[g].frames \in Seq(Nat)
    BY <2>2 DEF Frames
  <2>4. ASSUME NEW j \in 1 .. Len(logs[g].frames) PROVE logs[g].frames[j] <= nmsgs'
    <3>1. logs[g].frames[j] \in Nat /\ logs[g].frames[j] < nmsgs'
      BY <1>5, <2>3
    <3> QED BY <1>2, <3>1
  <2> QED BY <2>1, <2>4 DEF LogOK
<1>7. VersionOK(dir, logs', nmsgs', refused')
  BY <1>0, <1>1, <1>2, <1>4, DirGrows DEF JInv
<1>8. From(dirs, dir, dirs') /\ dir' = dir /\ File' = File
  BY <1>0, <1>1, SameDirFacts DEF File
<1>9. MessagesOK(env', nmsgs', refused')
  BY <1>0, <1>1, <1>2, MessagesGrow DEF JInv
<1>10. Flight'
  BY <1>1, <1>2, <1>5, <1>8 DEF Flight, JInv
<1>11. Covered'
  <2>1. dir.log # NoLog => \A j \in 1 .. Len(File.frames) : Known(File.frames[j])
    BY <1>1 DEF JInv, Covered
  <2> QED BY <1>1, <1>8, <2>1 DEF Covered, Known, KnownTo
<1> QED BY <1>0, <1>1, <1>2, <1>4, <1>6, <1>7, <1>8, <1>9, <1>10, <1>11, Assemble

\* The active log with its frames replaced.
LEMMA Rewritten ==
    ASSUME JInv, dir.log # NoLog, NEW f \in Seq(Nat), logs' = [logs EXCEPT ![dir.log].frames = f]
    PROVE  /\ logs' \in Seq(Frames) /\ Len(logs') = Len(logs) /\ logs'[dir.log].frames = f
           /\ logs'[dir.log].dur = File.dur
           /\ \A g \in 1 .. Len(logs) : g # dir.log => logs'[g] = logs[g]
<1>1. dir.log \in 1 .. Len(logs) /\ File \in Frames /\ logs \in Seq(Frames)
  BY ActiveLog DEF JInv, JTypes
<1> DEFINE new == [File EXCEPT !.frames = f]
<1>2. new \in Frames /\ new.frames = f /\ new.dur = File.dur
  BY <1>1 DEF Frames
<1>3. logs' = [logs EXCEPT ![dir.log] = new]
  BY DEF File
<1> HIDE DEF new
<1>4. logs' \in Seq(Frames) /\ Len(logs') = Len(logs) /\ logs'[dir.log] = new
  BY <1>1, <1>2, <1>3
<1>5. \A g \in 1 .. Len(logs) : g # dir.log => logs'[g] = logs[g]
  BY <1>1, <1>3
<1> QED BY <1>2, <1>4, <1>5

\* The frames of the active log grow at their end, or their torn end becomes
\* the frame of the message in flight.
LEMMA WriteLog ==
    ASSUME JInv, dir.log # NoLog, NEW f \in Seq(Nat), logs' = [logs EXCEPT ![dir.log].frames = f],
           LogOK(f, nmsgs), UNCHANGED <<dirs, env, stamp, clock, nmsgs>>, refused \subseteq refused',
           \A j \in 1 .. Len(f) : f[j] = Torn \/ f[j] = nmsgs \/ In(f[j], File.frames)
    PROVE  /\ LogsOK' /\ Grow(logs, logs', nmsgs') /\ From(dirs, dir, dirs') /\ dir' = dir
           /\ VersionOK(dir, logs', nmsgs', refused') /\ MessagesOK(env', nmsgs', refused')
           /\ clock' \in Stamps /\ stamp' \in Stamps /\ nmsgs' \in Nat /\ nmsgs <= nmsgs' /\ env' \in Seq(Nat)
           /\ File'.frames = f
<1>0. /\ JTypes /\ nmsgs \in Nat /\ logs \in Seq(Frames) /\ Len(logs) \in Nat /\ nmsgs <= nmsgs'
      /\ clock' \in Stamps /\ stamp' \in Stamps /\ env \in Seq(Nat)
  BY DEF JInv, JTypes
<1>1. /\ logs' \in Seq(Frames) /\ Len(logs') = Len(logs) /\ logs'[dir.log].frames = f
      /\ \A g \in 1 .. Len(logs) : g # dir.log => logs'[g] = logs[g]
  BY Rewritten
<1>2. From(dirs, dir, dirs') /\ dir' = dir
  BY <1>0, SameDirFacts
<1>3. LogsOK'
  BY <1>1 DEF LogsOK, JInv
<1>4. Grow(logs, logs', nmsgs')
  <2> SUFFICES ASSUME NEW g \in 1 .. Len(logs), NEW j \in 1 .. Len(logs'[g].frames)
               PROVE  \/ logs'[g].frames[j] = Torn \/ logs'[g].frames[j] = nmsgs
                      \/ In(logs'[g].frames[j], logs[g].frames)
    BY <1>0, <1>1 DEF Grow
  <2>1. CASE g = dir.log
    BY <1>1, <2>1 DEF File
  <2>2. CASE g # dir.log
    BY <1>1, <2>2 DEF In
  <2> QED BY <2>1, <2>2
<1>5. VersionOK(dir, logs', nmsgs', refused')
  BY <1>0, <1>4, DirGrows DEF JInv
<1>6. MessagesOK(env', nmsgs', refused')
  BY <1>0, MessagesGrow DEF JInv
<1>7. File'.frames = f
  BY <1>1, <1>2 DEF File
<1> QED BY <1>0, <1>2, <1>3, <1>4, <1>5, <1>6, <1>7

LEMMA WriteHeaderKeeps ==
    ASSUME JInv, WriteHeader
    PROVE  JInv'
<1>0. /\ pc = "head" /\ UNCHANGED <<dirs, fp, env, stamp, clock, nmsgs>> /\ fp /\ dir.log # NoLog
      /\ clock \in Stamps /\ stamp \in Stamps /\ JTypes
  BY DEF WriteHeader, counts, JInv, JTypes, Flight
<1>1. /\ dir.log \in 1 .. Len(logs) /\ File \in Frames /\ File.frames \in Seq(Nat)
      /\ Len(File.frames) \in Nat
  BY <1>0, ActiveLog DEF JInv
<1>2. CASE logs' = logs /\ pc' = "idle" /\ refused' = refused \cup {nmsgs}
  BY <1>0, <1>2, SameLogFile, SameDirFacts, Quiet
<1>3. CASE /\ logs' = [logs EXCEPT ![dir.log].frames = Append(@, Torn)]
           /\ \/ pc' = "payload" /\ refused' = refused
              \/ pc' = "idle" /\ refused' = refused \cup {nmsgs}
  <2> DEFINE f == Append(File.frames, Torn)
  <2>1. Torn \in Nat
    BY DEF Torn
  <2>2. /\ f \in Seq(Nat) /\ Len(f) = Len(File.frames) + 1 /\ f[Len(File.frames) + 1] = Torn
        /\ \A k \in 1 .. Len(File.frames) : f[k] = File.frames[k]
        /\ \A k \in 1 .. Len(f) : k \in 1 .. Len(File.frames) \/ k = Len(File.frames) + 1
    BY <1>1, <2>1, AppendFacts
  <2>3. logs' = [logs EXCEPT ![dir.log].frames = f]
    BY <1>3 DEF File
  <2> HIDE DEF f
  <2>4. LogOK(File.frames, nmsgs) /\ nmsgs \in Nat
    BY <1>0, <1>1 DEF JInv, LogsOK, JTypes, File
  <2>5. LogOK(f, nmsgs)
    <3>1. \A k \in 1 .. Len(f) : f[k] <= nmsgs
      BY <2>2, <2>4 DEF LogOK, Torn
    <3>2. Rising(f)
      BY <2>2, <2>4 DEF LogOK, Rising
    <3> QED BY <3>1, <3>2 DEF LogOK
  <2>6. \A j \in 1 .. Len(f) : f[j] = Torn \/ f[j] = nmsgs \/ In(f[j], File.frames)
    BY <2>2 DEF In
  <2>7. refused \subseteq refused'
    BY <1>3
  <2>8. /\ LogsOK' /\ Grow(logs, logs', nmsgs') /\ From(dirs, dir, dirs') /\ dir' = dir
        /\ VersionOK(dir, logs', nmsgs', refused') /\ MessagesOK(env', nmsgs', refused')
        /\ clock' \in Stamps /\ stamp' \in Stamps /\ nmsgs' \in Nat /\ nmsgs <= nmsgs' /\ env' \in Seq(Nat)
        /\ File'.frames = f
    BY <1>0, <2>2, <2>3, <2>5, <2>6, <2>7, WriteLog
  <2>9. /\ logs' \in Seq(Frames) /\ Len(logs') = Len(logs) /\ logs'[dir.log].frames = f
        /\ \A g \in 1 .. Len(logs) : g # dir.log => logs'[g] = logs[g]
    BY <1>0, <2>2, <2>3, Rewritten
  <2>10. /\ nmsgs >= 1
         /\ \A g \in 1 .. Len(logs) : \A j \in 1 .. Len(logs[g].frames) : logs[g].frames[j] < nmsgs
    BY <1>0 DEF JInv, Flight
  <2>11. \A g \in 1 .. Len(logs') : \A j \in 1 .. Len(logs'[g].frames) : logs'[g].frames[j] < nmsgs
    <3> TAKE g \in 1 .. Len(logs')
    <3>1. CASE g = dir.log
      <4>0. Torn < nmsgs /\ \A k \in 1 .. Len(File.frames) : File.frames[k] < nmsgs
        BY <1>1, <2>4, <2>10 DEF File, Torn
      <4>1. \A j \in 1 .. Len(f) : f[j] < nmsgs
        BY <2>2, <4>0
      <4> QED BY <2>9, <3>1, <4>1
    <3>2. CASE g # dir.log
      BY <2>9, <2>10, <3>2
    <3> QED BY <3>1, <3>2
  <2>12. Len(f) >= 1 /\ f[Len(f)] = Torn
    BY <1>1, <2>2
  <2>13. Flight'
    BY <1>0, <1>3, <2>8, <2>10, <2>11, <2>12 DEF Flight
  <2>14. Covered'
    <3>1. \A j \in 1 .. Len(File.frames) : Known(File.frames[j])
      BY <1>0 DEF JInv, Covered
    <3>2. \A j \in 1 .. Len(f) : KnownTo(f[j], refused', env', nmsgs', pc')
      BY <1>0, <1>3, <2>2, <3>1 DEF Known, KnownTo
    <3> QED BY <2>8, <3>2 DEF Covered, Known
  <2> QED BY <2>7, <2>8, <2>13, <2>14, Assemble
<1> QED BY <1>0, <1>2, <1>3 DEF WriteHeader, Refuse, Go

LEMMA WritePayloadKeeps ==
    ASSUME JInv, WritePayload
    PROVE  JInv'
<1>0. /\ pc = "payload" /\ UNCHANGED <<dirs, fp, env, stamp, clock, nmsgs>> /\ fp /\ dir.log # NoLog
      /\ clock \in Stamps /\ stamp \in Stamps /\ JTypes
  BY DEF WritePayload, counts, JInv, JTypes, Flight
<1>1. /\ dir.log \in 1 .. Len(logs) /\ File \in Frames /\ File.frames \in Seq(Nat)
      /\ Len(File.frames) \in Nat
  BY <1>0, ActiveLog DEF JInv
<1>2. CASE logs' = logs /\ pc' = "idle" /\ refused' = refused \cup {nmsgs}
  BY <1>0, <1>2, SameLogFile, SameDirFacts, Quiet
<1>3. CASE /\ logs' = [logs EXCEPT ![dir.log].frames[Len(File.frames)] = nmsgs]
           /\ pc' \in {"fsync", "eval"} /\ refused' = refused
  <2> DEFINE f == [File.frames EXCEPT ![Len(File.frames)] = nmsgs]
  <2>1. nmsgs \in Nat /\ nmsgs >= 1 /\ Len(File.frames) >= 1
    BY <1>0 DEF JInv, JTypes, Flight
  <2>2. /\ f \in Seq(Nat) /\ Len(f) = Len(File.frames) /\ f[Len(File.frames)] = nmsgs
        /\ \A k \in 1 .. Len(File.frames) : k # Len(File.frames) => f[k] = File.frames[k]
    BY <1>1, <2>1
  <2>3. logs' = [logs EXCEPT ![dir.log].frames = f]
    BY <1>3 DEF File
  <2> HIDE DEF f
  <2>4. LogOK(File.frames, nmsgs) /\ \A k \in 1 .. Len(File.frames) : File.frames[k] < nmsgs
    BY <1>0, <1>1 DEF JInv, LogsOK, Flight, File
  <2>5. LogOK(f, nmsgs)
    <3>1. \A k \in 1 .. Len(f) : f[k] <= nmsgs
      BY <2>1, <2>2, <2>4 DEF LogOK
    <3>2. Rising(f)
      <4> SUFFICES ASSUME NEW j \in 1 .. Len(f), NEW k \in 1 .. Len(f), j < k, f[j] # Torn, f[k] # Torn
                   PROVE  f[j] < f[k]
        BY DEF Rising
      <4>1. j # Len(File.frames) /\ f[j] = File.frames[j] /\ f[j] < nmsgs
        BY <1>1, <2>2, <2>4
      <4>2. CASE k = Len(File.frames)
        BY <2>2, <4>1, <4>2
      <4>3. CASE k # Len(File.frames)
        BY <2>2, <2>4, <4>1, <4>3 DEF LogOK, Rising
      <4> QED BY <4>2, <4>3
    <3> QED BY <3>1, <3>2 DEF LogOK
  <2>6. \A j \in 1 .. Len(f) : f[j] = Torn \/ f[j] = nmsgs \/ In(f[j], File.frames)
    BY <2>2 DEF In
  <2>7. refused \subseteq refused'
    BY <1>3
  <2>8. /\ LogsOK' /\ Grow(logs, logs', nmsgs') /\ From(dirs, dir, dirs') /\ dir' = dir
        /\ VersionOK(dir, logs', nmsgs', refused') /\ MessagesOK(env', nmsgs', refused')
        /\ clock' \in Stamps /\ stamp' \in Stamps /\ nmsgs' \in Nat /\ nmsgs <= nmsgs' /\ env' \in Seq(Nat)
        /\ File'.frames = f
    BY <1>0, <2>2, <2>3, <2>5, <2>6, <2>7, WriteLog
  <2>9. Flight'
    BY <1>0, <1>3, <2>1, <2>8 DEF Flight
  <2>10. Covered'
    <3>1. \A j \in 1 .. Len(File.frames) : Known(File.frames[j])
      BY <1>0 DEF JInv, Covered
    <3>2. \A j \in 1 .. Len(f) : KnownTo(f[j], refused', env', nmsgs', pc')
      BY <1>0, <1>3, <2>2, <3>1 DEF Known, KnownTo
    <3> QED BY <2>8, <3>2 DEF Covered, Known
  <2> QED BY <2>7, <2>8, <2>9, <2>10, Assemble
<1> QED BY <1>0, <1>2, <1>3 DEF WritePayload, Refuse, Go

LEMMA EvalKeeps ==
    ASSUME JInv, Eval
    PROVE  JInv'
<1>0. /\ pc = "eval" /\ pc' = "idle" /\ UNCHANGED <<dirs, logs, fp, stamp, clock, nmsgs, refused>>
      /\ env' = Append(env, nmsgs)
      /\ clock \in Stamps /\ stamp \in Stamps /\ JTypes /\ nmsgs \in Nat /\ nmsgs >= 1 /\ env \in Seq(Nat)
      /\ Len(env) \in Nat
  BY DEF Eval, Go, counts, ghosts, JInv, JTypes, Flight
<1>1. /\ env' \in Seq(Nat) /\ Len(env') = Len(env) + 1 /\ env'[Len(env) + 1] = nmsgs
      /\ \A k \in 1 .. Len(env) : env'[k] = env[k]
      /\ \A k \in 1 .. Len(env') : k \in 1 .. Len(env) \/ k = Len(env) + 1
  BY <1>0, AppendFacts
<1>2. LogsOK' /\ Grow(logs, logs', nmsgs')
  BY <1>0, SameLogFile, SameLogs
<1>3. From(dirs, dir, dirs') /\ dir' = dir /\ File' = File
  BY <1>0, SameDirFacts DEF File
<1>4. nmsgs <= nmsgs' /\ nmsgs' \in Nat /\ refused \subseteq refused'
  BY <1>0
<1>5. VersionOK(dir, logs', nmsgs', refused')
  BY <1>0, <1>2, <1>4, DirGrows DEF JInv
<1>6. \A j \in 1 .. Len(env) : env[j] \in 1 .. nmsgs
  BY DEF JInv, MessagesOK
<1>7. MessagesOK(env', nmsgs', refused')
  <2>1. \A j \in 1 .. Len(env') : env'[j] \in 1 .. nmsgs
    BY <1>0, <1>1, <1>6
  <2>2. Ordered(env', refused')
    <3> SUFFICES ASSUME NEW j \in 1 .. Len(env'), NEW k \in 1 .. Len(env'), j < k, env'[k] < env'[j],
                        env'[k] \notin refused
                 PROVE  \E h \in 1 .. j - 1 : env'[h] = env'[k]
      BY <1>0 DEF Ordered
    <3>1. k \in 1 .. Len(env) /\ j \in 1 .. Len(env)
      BY <1>0, <1>1, <2>1
    <3>2. PICK h \in 1 .. j - 1 : env[h] = env[k]
      BY <1>1, <3>1 DEF JInv, MessagesOK, Ordered
    <3>3. h \in 1 .. Len(env)
      BY <1>0, <3>1
    <3> QED BY <1>1, <3>1, <3>2, <3>3
  <2> QED BY <1>0, <2>1, <2>2 DEF MessagesOK
<1>8. Flight'
  BY <1>0, <1>3 DEF JInv, Flight
<1>9. Covered'
  <2>1. dir.log # NoLog => \A j \in 1 .. Len(File.frames) : Known(File.frames[j])
    BY <1>0 DEF JInv, Covered
  <2>2. Len(env) + 1 \in 1 .. Len(env') /\ 1 .. Len(env) \subseteq 1 .. Len(env')
    BY <1>0, <1>1
  <2>3. In(nmsgs, env') /\ \A m : In(m, env) => In(m, env')
    BY <1>1, <2>2 DEF In
  <2> QED BY <1>0, <1>3, <2>1, <2>3 DEF Covered, Known, KnownTo
<1> QED BY <1>0, <1>1, <1>2, <1>3, <1>4, <1>5, <1>7, <1>8, <1>9, Assemble

-----------------------------------------------------------------------------
(* Recovery.                                                               *)

LEMMA ConcatFacts ==
    ASSUME NEW q \in Seq(Nat), NEW f \in Seq(Nat)
    PROVE  /\ q \o f \in Seq(Nat) /\ Len(q \o f) = Len(q) + Len(f)
           /\ \A k \in 1 .. Len(q) : (q \o f)[k] = q[k]
           /\ \A k \in 1 .. Len(f) : (q \o f)[Len(q) + k] = f[k]
           /\ \A k \in 1 .. Len(q \o f) : k \in 1 .. Len(q) \/ \E j \in 1 .. Len(f) : k = Len(q) + j
<1>1. Len(q) \in Nat /\ Len(f) \in Nat
  OBVIOUS
<1>2. q \o f \in Seq(Nat) /\ Len(q \o f) = Len(q) + Len(f)
  OBVIOUS
<1>3. \A k \in 1 .. Len(q) : (q \o f)[k] = q[k]
  BY <1>1
<1>4. \A k \in 1 .. Len(f) : (q \o f)[Len(q) + k] = f[k]
  BY <1>1
<1>5. ASSUME NEW k \in 1 .. Len(q \o f) PROVE k \in 1 .. Len(q) \/ \E j \in 1 .. Len(f) : k = Len(q) + j
  <2>1. CASE k <= Len(q)
    BY <1>1, <1>2, <2>1
  <2>2. CASE k > Len(q)
    <3>1. k - Len(q) \in 1 .. Len(f) /\ k = Len(q) + (k - Len(q))
      BY <1>1, <1>2, <2>2
    <3> QED BY <3>1
  <2> QED BY <1>1, <1>2, <2>1, <2>2
<1> QED BY <1>2, <1>3, <1>4, <1>5

\* The snapshot, then a log that follows it, is in order.
LEMMA ReplayOrdered ==
    ASSUME NEW q \in Seq(Nat), NEW f \in Seq(Nat), NEW n \in Nat, NEW ref,
           MessagesOK(q, n, ref), LogOK(f, n), \A k \in 1 .. Len(f) : f[k] # Torn, Follows(f, q, ref)
    PROVE  MessagesOK(q \o f, n, ref)
<1> DEFINE w == q \o f
<1>1. /\ w \in Seq(Nat) /\ Len(w) = Len(q) + Len(f)
      /\ \A k \in 1 .. Len(q) : w[k] = q[k]
      /\ \A k \in 1 .. Len(f) : w[Len(q) + k] = f[k]
      /\ \A k \in 1 .. Len(w) : k \in 1 .. Len(q) \/ \E j \in 1 .. Len(f) : k = Len(q) + j
  BY ConcatFacts
<1> HIDE DEF w
<1>2. Len(q) \in Nat /\ Len(f) \in Nat
  OBVIOUS
<1>3. \A k \in 1 .. Len(f) : f[k] \in 1 .. n
  BY <1>2 DEF LogOK, Torn
<1>4. \A k \in 1 .. Len(w) : w[k] \in 1 .. n
  BY <1>1, <1>3 DEF MessagesOK
<1>5. Ordered(w, ref)
  <2> SUFFICES ASSUME NEW j \in 1 .. Len(w), NEW k \in 1 .. Len(w), j < k, w[k] < w[j], w[k] \notin ref
               PROVE  \E h \in 1 .. j - 1 : w[h] = w[k]
    BY DEF Ordered
  <2>1. CASE k \in 1 .. Len(q)
    <3>1. j \in 1 .. Len(q)
      BY <1>2, <2>1
    <3>2. PICK h \in 1 .. j - 1 : q[h] = q[k]
      BY <1>1, <2>1, <3>1 DEF MessagesOK, Ordered
    <3>3. h \in 1 .. Len(q)
      BY <1>2, <3>1
    <3> QED BY <1>1, <2>1, <3>2, <3>3
  <2>2. ASSUME NEW b \in 1 .. Len(f), k = Len(q) + b
        PROVE  \E h \in 1 .. j - 1 : w[h] = w[k]
    <3>1. w[k] = f[b]
      BY <1>1, <2>2
    <3>2. CASE j \in 1 .. Len(q)
      <4>1. f[b] < q[j] /\ f[b] # Torn /\ f[b] \notin ref
        BY <1>1, <3>1, <3>2
      <4>2. PICK h \in 1 .. Len(q) : q[h] = f[b]
        BY <3>2, <4>1 DEF Follows, In
      <4>3. CASE h < j
        <5>1. h \in 1 .. j - 1 /\ w[h] = w[k]
          BY <1>1, <1>2, <3>1, <3>2, <4>2, <4>3
        <5> QED BY <5>1
      <4>4. CASE j < h
        <5>1. PICK i \in 1 .. j - 1 : q[i] = q[h]
          BY <3>2, <4>1, <4>2, <4>4 DEF MessagesOK, Ordered
        <5>2. i \in 1 .. Len(q)
          BY <1>2, <3>2
        <5> QED BY <1>1, <3>1, <4>2, <5>1, <5>2
      <4>5. h # j
        <5>1. q[j] \in Nat /\ f[b] \in Nat
          BY ONLY <3>2, q \in Seq(Nat), f \in Seq(Nat), b \in 1 .. Len(f)
        <5>2. q[j] # f[b]
          BY ONLY <4>1, <5>1
        <5> QED BY ONLY <4>2, <5>2
      <4> QED BY <1>2, <3>2, <4>3, <4>4, <4>5
    <3>3. ASSUME NEW a \in 1 .. Len(f), j = Len(q) + a PROVE FALSE
      <4>1. a < b
        BY <1>2, <2>2, <3>3
      <4>2. f[a] < f[b] /\ f[a] \in Nat /\ f[b] \in Nat
        BY <4>1 DEF LogOK, Rising
      <4>3. w[j] = f[a]
        BY <1>1, <3>3
      <4> QED BY <3>1, <4>2, <4>3
    <3> QED BY <1>1, <3>2, <3>3
  <2> QED BY <1>1, <2>1, <2>2
<1> QED BY <1>4, <1>5 DEF MessagesOK, w

LEMMA RecoverKeeps ==
    ASSUME JInv, Recover
    PROVE  JInv'
<1> DEFINE f == IF dir.log = NoLog THEN <<>> ELSE File.frames
<1>0. /\ pc = "down" /\ UNCHANGED <<dirs, logs, fp, stamp, clock, nmsgs, refused>>
      /\ \/ Valid(f) = f /\ pc' = "open" /\ env' = dir.qdb \o f
         \/ Valid(f) # f /\ pc' = "badtail" /\ env' = <<>>
  BY DEF Recover, Go, counts
<1>1. clock \in Stamps /\ stamp \in Stamps /\ JTypes /\ nmsgs \in Nat
  BY DEF JInv, JTypes
<1>2. f \in Seq(Nat) /\ LogOK(f, nmsgs) /\ Follows(f, dir.qdb, refused)
  <2>1. CASE dir.log = NoLog
    <3>1. f = <<>>
      BY <2>1
    <3> HIDE DEF f
    <3>2. f \in Seq(Nat) /\ Len(f) = 0
      BY <3>1
    <3> QED BY <3>2 DEF LogOK, Rising, Follows
  <2>2. CASE dir.log # NoLog
    <3>1. dir.log \in 1 .. Len(logs) /\ File.frames \in Seq(Nat)
      BY <2>2, ActiveLog DEF JInv
    <3>2. LogOK(File.frames, nmsgs)
      BY <3>1 DEF JInv, LogsOK, File
    <3>3. Follows(File.frames, dir.qdb, refused)
      BY <1>1, <2>2, DirFacts DEF JInv, VersionsOK, VersionOK, dir, File
    <3> QED BY <2>2, <3>1, <3>2, <3>3
  <2> QED BY <2>1, <2>2
<1>3. Valid(f) # f => dir.log # NoLog
  BY ValidEmpty
<1>4. dir.log # NoLog => f = File.frames
  OBVIOUS
<1> HIDE DEF f
<1>5. dir.qdb \in Seq(Nat) /\ MessagesOK(dir.qdb, nmsgs, refused)
  BY <1>1, DirFacts DEF JInv, VersionsOK, VersionOK, dir
<1>6. LogsOK' /\ Grow(logs, logs', nmsgs')
  BY <1>0, SameLogFile, SameLogs
<1>7. From(dirs, dir, dirs') /\ dir' = dir /\ File' = File
  BY <1>0, <1>1, SameDirFacts DEF File
<1>8. nmsgs <= nmsgs' /\ nmsgs' \in Nat /\ refused \subseteq refused'
  BY <1>0, <1>1
<1>9. VersionOK(dir, logs', nmsgs', refused')
  BY <1>1, <1>6, <1>8, DirGrows DEF JInv
<1>10. Flight'
  BY <1>0, <1>3, <1>7 DEF JInv, Flight
<1>11. env' \in Seq(Nat) /\ MessagesOK(env', nmsgs', refused') /\ Covered'
  <2>1. CASE Valid(f) = f /\ pc' = "open" /\ env' = dir.qdb \o f
    <3>1. \A k \in 1 .. Len(f) : f[k] # Torn
      BY <1>2, <2>1, ValidWhole
    <3>2. MessagesOK(env', nmsgs', refused')
      BY <1>0, <1>1, <1>2, <1>5, <2>1, <3>1, ReplayOrdered
    <3>3. /\ env' \in Seq(Nat) /\ Len(env') = Len(dir.qdb) + Len(f)
          /\ \A k \in 1 .. Len(f) : env'[Len(dir.qdb) + k] = f[k]
      BY <1>2, <1>5, <2>1, ConcatFacts
    <3>4. Len(dir.qdb) \in Nat /\ Len(f) \in Nat
      BY <1>2, <1>5
    <3>5. \A k \in 1 .. Len(f) : In(f[k], env')
      <4> TAKE k \in 1 .. Len(f)
      <4>1. Len(dir.qdb) + k \in 1 .. Len(env')
        BY <3>3, <3>4
      <4> QED BY <3>3, <4>1 DEF In
    <3>6. Covered'
      BY <1>4, <1>7, <3>5 DEF Covered, Known, KnownTo
    <3> QED BY <3>2, <3>3, <3>6
  <2>2. CASE pc' = "badtail" /\ env' = <<>>
    <3>1. env' \in Seq(Nat) /\ Len(env') = 0
      BY <2>2
    <3> QED BY <2>2, <3>1 DEF MessagesOK, Ordered, Covered
  <2> QED BY <1>0, <2>1, <2>2
<1> QED BY <1>0, <1>1, <1>6, <1>7, <1>8, <1>9, <1>10, <1>11, Assemble

LEMMA TruncateKeeps ==
    ASSUME JInv, TruncateByHand
    PROVE  JInv'
<1>0. /\ pc' = "down" /\ UNCHANGED <<dirs, fp, env, stamp, clock, nmsgs, refused>> /\ dir.log # NoLog
      /\ clock \in Stamps /\ stamp \in Stamps /\ JTypes /\ nmsgs \in Nat /\ env \in Seq(Nat)
      /\ logs \in Seq(Frames) /\ Len(logs) \in Nat
  BY DEF TruncateByHand, Go, counts, ghosts, JInv, JTypes, Flight
<1>1. /\ dir.log \in 1 .. Len(logs) /\ File \in Frames /\ File.frames \in Seq(Nat)
      /\ Len(File.frames) \in Nat
  BY <1>0, ActiveLog DEF JInv
<1>2. PICK n \in 0 .. Len(File.frames) : Valid(File.frames) = SubSeq(File.frames, 1, n)
  BY <1>1, ValidFacts
<1>3. Valid(File.frames) \in Seq(Nat) /\ Len(Valid(File.frames)) \in Nat
  BY <1>1, <1>2, PrefixFacts
<1> DEFINE v == Valid(File.frames)
           x == Len(v)
           new == [File EXCEPT !.frames = v, !.dur = x]
<1>4. logs' = [logs EXCEPT ![dir.log] = new]
  BY DEF TruncateByHand, File
<1> HIDE DEF v, x
<1>5. new \in Frames /\ new.frames = v
  BY <1>1, <1>3 DEF Frames, v, x
<1> HIDE DEF new
<1>6. /\ logs' \in Seq(Frames) /\ Len(logs') = Len(logs)
      /\ \A g \in 1 .. Len(logs) : logs'[g] = IF g = dir.log THEN new ELSE logs[g]
  BY <1>0, <1>1, <1>4, <1>5
<1>7. Cut(logs, logs')
  <2> SUFFICES ASSUME NEW g \in 1 .. Len(logs)
               PROVE  \E k \in 0 .. Len(logs[g].frames) : logs'[g].frames = SubSeq(logs[g].frames, 1, k)
    BY <1>6 DEF Cut
  <2>1. CASE g = dir.log
    BY <1>2, <1>5, <1>6, <2>1 DEF File, v
  <2>2. CASE g # dir.log
    <3>1. logs[g] \in Frames /\ logs'[g] = logs[g]
      BY <1>0, <1>6, <2>2
    <3>2. logs[g].frames \in Seq(Nat) /\ Len(logs[g].frames) \in 0 .. Len(logs[g].frames)
      BY <3>1 DEF Frames
    <3>3. SubSeq(logs[g].frames, 1, Len(logs[g].frames)) = logs[g].frames
      BY <3>2, SubSeqFull
    <3> QED BY <3>1, <3>2, <3>3
  <2> QED BY <2>1, <2>2
<1>8. LogsOK' /\ Grow(logs, logs', nmsgs')
  BY <1>0, <1>7, CutLogs
<1>9. From(dirs, dir, dirs') /\ dir' = dir
  BY <1>0, SameDirFacts
<1>10. nmsgs <= nmsgs' /\ nmsgs' \in Nat /\ refused \subseteq refused'
  BY <1>0
<1>11. VersionOK(dir, logs', nmsgs', refused')
  BY <1>0, <1>8, <1>10, DirGrows DEF JInv
<1>12. Flight' /\ Covered' /\ MessagesOK(env', nmsgs', refused')
  BY <1>0, <1>9 DEF JInv, Flight, Covered
<1> QED BY <1>0, <1>8, <1>9, <1>10, <1>11, <1>12, Assemble

-----------------------------------------------------------------------------
LEMMA JInit == Init => JInv
<1> SUFFICES ASSUME Init PROVE JInv
  OBVIOUS
<1> DEFINE none == [s \in Stamps |-> NoLog]
           d == [qdb |-> None, log |-> NoLog, arch |-> none]
<1>1. None \in Seq(Nat) /\ Len(None) = 0
  BY DEF None
<1>2. none \in [Stamps -> Nat] /\ none \in [Stamps -> 0 .. 0]
  BY DEF NoLog
<1>3. dirs = <<d>>
  BY DEF Init
<1> HIDE DEF none
<1>4. d \in Dirs /\ d.qdb = None /\ d.log = NoLog /\ d.arch = none
  BY <1>1, <1>2 DEF Dirs, NoLog
<1> HIDE DEF d
<1>5. dirs \in Seq(Dirs) /\ Len(dirs) = 1 /\ dirs[1] = d
  BY <1>3, <1>4
<1>6. logs \in Seq(Frames) /\ Len(logs) = 0
  BY DEF Init
<1>7. env \in Seq(Nat) /\ Len(env) = 0
  BY DEF Init
<1>8. JTypes
  BY <1>5, <1>6, <1>7, JournalAssumption DEF JTypes, Init, Stamps
<1>9. LogsOK
  BY <1>6 DEF LogsOK
<1>10. VersionOK(d, logs, nmsgs, refused)
  BY <1>1, <1>2, <1>4, <1>6 DEF VersionOK, MessagesOK, Ordered, NoLog
<1>11. VersionsOK
  BY <1>5, <1>10 DEF VersionsOK
<1>12. MessagesOK(env, nmsgs, refused)
  BY <1>7 DEF MessagesOK, Ordered
<1>13. Flight /\ Covered
  BY DEF Init, Flight, Covered
<1> QED BY <1>8, <1>9, <1>11, <1>12, <1>13 DEF JInv

LEMMA JNext == JInv /\ [Next]_vars => JInv'
<1> SUFFICES ASSUME JInv, [Next]_vars PROVE JInv'
  OBVIOUS
<1>1. CASE Tick \/ Stopped \/ UNCHANGED vars
  BY <1>1, Undisturbed DEF Stopped
<1>2. CASE Recover \/ TruncateByHand
  BY <1>2, RecoverKeeps, TruncateKeeps
<1>3. CASE OpenAppend \/ OpenVerb \/ RollOpen
  BY <1>3, OpenActions
<1>4. CASE Receive \/ WriteHeader \/ WritePayload \/ Eval
  BY <1>4, ReceiveKeeps, WriteHeaderKeeps, WritePayloadKeeps, EvalKeeps
<1>5. CASE \/ CloseVerb \/ RollVerb \/ RollClose \/ RollSyncDir \/ SnapshotSyncDir
           \/ SyncVerb \/ WriteSync
  BY <1>5, QuietActions
<1>6. CASE RollRename \/ Snapshot \/ PurgeVerb \/ PurgeSnapshot \/ PurgeArchives
  BY <1>6, DirectoryActions
<1>7. CASE ProcessCrash \/ MachineCrash
  BY <1>7, CrashActions
<1> QED BY <1>1, <1>2, <1>3, <1>4, <1>5, <1>6, <1>7 DEF Next, Step

(* Whatever survives, recovery from it is sound: every log file holds      *)
(* received messages in order, and every version of the directory that a   *)
(* crash may fall back to has a log that adds only later messages to its   *)
(* snapshot (journal.c: ray_journal_write_bytes, ray_journal_roll,         *)
(* ray_journal_snapshot).                                                  *)
THEOREM JournalInvariant == Spec => []JInv
<1> QED BY JInit, JNext, PTL DEF Spec

\* In a sequence in order, first occurrences come in order.
LEMMA OrderedFirst ==
    ASSUME NEW q \in Seq(Nat), NEW n \in Nat, NEW ref, MessagesOK(q, n, ref),
           NEW a \in Elems(q) \ ref, NEW b \in Elems(q) \ ref, a < b
    PROVE  (CHOOSE k \in 1 .. Len(q) : q[k] = a /\ \A j \in 1 .. k - 1 : q[j] # a)
             < (CHOOSE k \in 1 .. Len(q) : q[k] = b /\ \A j \in 1 .. k - 1 : q[j] # b)
<1> DEFINE First(m) == CHOOSE k \in 1 .. Len(q) : q[k] = m /\ \A j \in 1 .. k - 1 : q[j] # m
<1>1. Len(q) \in Nat
  OBVIOUS
<1>2. ASSUME NEW m \in Elems(q)
      PROVE  First(m) \in 1 .. Len(q) /\ q[First(m)] = m /\ \A j \in 1 .. First(m) - 1 : q[j] # m
  <2> DEFINE T == {k \in 1 .. Len(q) : q[k] = m}
  <2>1. T \subseteq Nat /\ T # {}
    BY <1>1 DEF Elems
  <2>2. PICK x \in T : \A y \in T : x <= y
    BY <2>1, NatMin
  <2>3. \A j \in 1 .. x - 1 : q[j] # m
    BY <1>1, <2>2
  <2> QED BY <2>2, <2>3
<1>3. First(a) \in 1 .. Len(q) /\ q[First(a)] = a
  BY <1>2
<1>4. First(b) \in 1 .. Len(q) /\ q[First(b)] = b
  BY <1>2
<1>5. \A j \in 1 .. First(a) - 1 : q[j] # a
  BY <1>2
<1> HIDE DEF First
<1>6. a \in Nat /\ b \in Nat
  BY <1>3, <1>4
<1>7. First(a) # First(b)
  BY <1>3, <1>4, <1>6
<1>8. ASSUME First(b) < First(a) PROVE FALSE
  <2>1. \E h \in 1 .. First(b) - 1 : q[h] = a
    BY <1>3, <1>4, <1>8 DEF MessagesOK, Ordered
  <2>2. PICK h \in 1 .. First(b) - 1 : q[h] = a
    BY <2>1
  <2>3. h \in 1 .. First(a) - 1
    BY <1>1, <1>3, <1>4, <1>8
  <2> QED BY <1>5, <2>2, <2>3
<1>9. \A x, y \in 1 .. Len(q) : x # y /\ ~(y < x) => x < y
  BY <1>1
<1>10. First(a) < First(b)
  BY <1>3, <1>4, <1>7, <1>8, <1>9
<1> QED BY <1>10 DEF First

(* A restarted server has the messages in its environment in the order in  *)
(* which they were accepted, whatever calls failed and however often the   *)
(* server or the machine crashed; only messages that were refused, and in  *)
(* the log all the same, are out of it (journal.c: ray_journal_recover).   *)
THEOREM JournalOrder == Spec => []ReplayOrder
<1>1. JInv => ReplayOrder
  BY OrderedFirst DEF JInv, JTypes, ReplayOrder
<1> QED BY <1>1, JournalInvariant, PTL

-----------------------------------------------------------------------------
(* Nothing that was promised is lost.  Where no call fails, where the fsync *)
(* of a new file covers its directory entry, and where no two rolls fall    *)
(* into one second: what an fsync covered can be recovered from every       *)
(* version of the directory that may survive, by what is durable of the     *)
(* logs; and what was promised can be recovered from the current version.   *)

Clean == faults = {} /\ FsyncEntry /\ DistinctStamps

\* The messages in each log, and those that are durable.
Written == [g \in 1 .. Len(logs) |-> Elems(logs[g].frames)]
OnDisk  == [g \in 1 .. Len(logs) |-> {logs[g].frames[j] : j \in 1 .. logs[g].dur}]

\* What recovery finds in version v of the directory, and what its archives
\* hold, if the logs hold the messages W.
Found(v, W) == Elems(v.qdb) \cup (IF v.log = NoLog THEN {} ELSE W[v.log])
Filed(v, W) == UNION {W[v.arch[s]] : s \in {t \in Stamps : v.arch[t] # NoLog}}
Recoverable(S, away, v, W) ==
    /\ S \ away \subseteq Found(v, W)
    /\ S \subseteq Found(v, W) \cup Filed(v, W)

\* A frame is torn only at the end of its log.
FilesOK ==
    \A g \in 1 .. Len(logs) :
        /\ logs[g].dur \in 0 .. Len(logs[g].frames)
        /\ \A j \in 1 .. Len(logs[g].frames) - 1 : logs[g].frames[j] # Torn

Promised == durable \subseteq safe /\ safe \subseteq Nat \ {0} /\ refused = {}

DurableKept == \A k \in 1 .. Len(dirs) : Recoverable(durable, rolled, dirs[k], OnDisk)
SafeKept    == Recoverable(safe, rolled, dir, Written)

\* While the log is about to be moved away the snapshot suffices, and the name
\* it gets is free.
Rolling ==
    pc \in {"s_dir", "r_close", "r_rename"} =>
        safe \ rolled \subseteq Elems(dir.qdb) /\ dir.arch[stamp] = NoLog

\* A running server has evaluated its snapshot, and its log is whole.
Running ==
    /\ pc \notin {"down", "badtail"} => Elems(dir.qdb) \subseteq Elems(env)
    /\ pc \notin {"down", "badtail", "payload"} /\ dir.log # NoLog =>
          \A j \in 1 .. Len(File.frames) : File.frames[j] # Torn
    /\ pc = "fsync" => nmsgs \in Elems(File.frames)
    /\ pc \in {"p_qdb", "p_arch"} => safe = {}

Keeping == FilesOK /\ Promised /\ DurableKept /\ SafeKept /\ Rolling /\ Running

\* The inductive invariant behind AckedKept.
KInv == Clean => Keeping

LEMMA RecoverableMono ==
    ASSUME NEW S, NEW S2, S2 \subseteq S, NEW away, NEW away2, away \subseteq away2,
           NEW v, NEW N \in Nat, v.log \in 0 .. N, v.arch \in [Stamps -> 0 .. N], NEW W, NEW X,
           \A g \in 1 .. N : W[g] \cap S2 \subseteq X[g], Recoverable(S, away, v, W)
    PROVE  Recoverable(S2, away2, v, X)
<1>1. v.log # NoLog => v.log \in 1 .. N
  BY DEF NoLog
<1>2. ASSUME NEW m \in S2, m \in Found(v, W) PROVE m \in Found(v, X)
  BY <1>1, <1>2 DEF Found
<1>3. ASSUME NEW m \in S2, m \in Filed(v, W) PROVE m \in Filed(v, X)
  <2>1. PICK s \in Stamps : v.arch[s] # NoLog /\ m \in W[v.arch[s]]
    BY <1>3 DEF Filed
  <2>2. v.arch[s] \in 1 .. N
    BY <2>1 DEF NoLog
  <2>3. m \in X[v.arch[s]]
    BY <2>1, <2>2
  <2> QED BY <2>1, <2>3 DEF Filed
<1> QED BY <1>2, <1>3 DEF Recoverable

LEMMA RecoverableAdd ==
    ASSUME NEW S, NEW T, NEW away, NEW v, NEW W, Recoverable(S, away, v, W), T \subseteq Found(v, W)
    PROVE  Recoverable(S \cup T, away, v, W)
BY DEF Recoverable

LEMMA RecoverableNone ==
    ASSUME NEW away, NEW v, NEW W
    PROVE  Recoverable({}, away, v, W)
BY DEF Recoverable

\* The files a version names.
LEMMA Places ==
    ASSUME JInv
    PROVE  /\ Len(logs) \in Nat /\ logs \in Seq(Frames) /\ Len(dirs) \in 1 .. Len(dirs)
           /\ \A k \in 1 .. Len(dirs) : dirs[k].log \in 0 .. Len(logs) /\ dirs[k].arch \in [Stamps -> 0 .. Len(logs)]
           /\ dir.log \in 0 .. Len(logs) /\ dir.arch \in [Stamps -> 0 .. Len(logs)]
           /\ \A g \in 1 .. Len(logs) : logs[g].frames \in Seq(Nat) /\ logs[g].dur \in Nat
<1>1. Len(logs) \in Nat /\ logs \in Seq(Frames) /\ Len(dirs) \in 1 .. Len(dirs)
  BY DirFacts DEF JInv, JTypes
<1>2. \A k \in 1 .. Len(dirs) : dirs[k].log \in 0 .. Len(logs) /\ dirs[k].arch \in [Stamps -> 0 .. Len(logs)]
  BY DEF JInv, VersionsOK, VersionOK
<1>3. \A g \in 1 .. Len(logs) : logs[g] \in Frames
  BY <1>1
<1>4. \A g \in 1 .. Len(logs) : logs[g].frames \in Seq(Nat) /\ logs[g].dur \in Nat
  BY <1>3 DEF Frames
<1> QED BY <1>1, <1>2, <1>4 DEF dir

\* No message leaves a log, nor what is durable of it.
LogsKeep ==
    /\ Len(logs) <= Len(logs')
    /\ \A g \in 1 .. Len(logs) : /\ OnDisk[g] \ {Torn} \subseteq OnDisk'[g]
                                 /\ Written[g] \ {Torn} \subseteq Written'[g]

LEMMA SameKeep ==
    ASSUME JInv, logs' = logs
    PROVE  LogsKeep /\ (FilesOK => FilesOK')
<1>1. Len(logs) \in Nat
  BY Places
<1>2. OnDisk' = OnDisk /\ Written' = Written
  BY DEF OnDisk, Written
<1> QED BY <1>1, <1>2 DEF LogsKeep, FilesOK

\* The versions that stay, and the current one if it stays, are as good as before.
LEMMA KeepVersions ==
    ASSUME JInv, Promised, DurableKept, LogsKeep, durable' = durable, rolled \subseteq rolled',
           NEW d, From(dirs, d, dirs'), Recoverable(durable', rolled', d, OnDisk')
    PROVE  DurableKept'
<1> SUFFICES ASSUME NEW k \in 1 .. Len(dirs') PROVE Recoverable(durable', rolled', dirs'[k], OnDisk')
  BY DEF DurableKept
<1>1. CASE dirs'[k] = d
  BY <1>1
<1>2. CASE \E j \in 1 .. Len(dirs) : dirs'[k] = dirs[j]
  <2>1. PICK j \in 1 .. Len(dirs) : dirs'[k] = dirs[j]
    BY <1>2
  <2>2. Recoverable(durable, rolled, dirs[j], OnDisk)
    BY DEF DurableKept
  <2>3. \A g \in 1 .. Len(logs) : OnDisk[g] \cap durable \subseteq OnDisk'[g]
    BY DEF LogsKeep, Promised, Torn
  <2>4. Recoverable(durable', rolled', dirs[j], OnDisk')
    BY <2>2, <2>3, Places, RecoverableMono
  <2> QED BY <2>1, <2>4
<1> QED BY <1>1, <1>2 DEF From

LEMMA KeepVersion ==
    ASSUME JInv, Promised, LogsKeep, rolled \subseteq rolled', NEW v,
           v.log \in 0 .. Len(logs), v.arch \in [Stamps -> 0 .. Len(logs)]
    PROVE  /\ Recoverable(durable, rolled, v, OnDisk) => Recoverable(durable, rolled', v, OnDisk')
           /\ Recoverable(safe, rolled, v, Written) => Recoverable(safe, rolled', v, Written')
<1>1. Len(logs) \in Nat
  BY Places
<1>2. \A g \in 1 .. Len(logs) : OnDisk[g] \cap durable \subseteq OnDisk'[g]
  BY DEF LogsKeep, Promised, Torn
<1>3. \A g \in 1 .. Len(logs) : Written[g] \cap safe \subseteq Written'[g]
  BY DEF LogsKeep, Promised, Torn
<1>4. ASSUME Recoverable(durable, rolled, v, OnDisk) PROVE Recoverable(durable, rolled', v, OnDisk')
  BY <1>1, <1>2, <1>4, RecoverableMono
<1>5. ASSUME Recoverable(safe, rolled, v, Written) PROVE Recoverable(safe, rolled', v, Written')
  BY <1>1, <1>3, <1>5, RecoverableMono
<1> QED BY <1>4, <1>5

LEMMA KeepDir ==
    ASSUME JInv, Promised, DurableKept, SafeKept, LogsKeep, rolled \subseteq rolled'
    PROVE  Recoverable(durable, rolled', dir, OnDisk') /\ Recoverable(safe, rolled', dir, Written')
<1>1. Recoverable(durable, rolled, dir, OnDisk) /\ Recoverable(safe, rolled, dir, Written)
  BY Places DEF DurableKept, SafeKept, dir
<1> QED BY <1>1, Places, KeepVersion

LEMMA KeepQuiet ==
    ASSUME JInv, Keeping, LogsKeep, FilesOK', UNCHANGED <<safe, durable, refused>>, rolled \subseteq rolled',
           From(dirs, dir, dirs'), dir' = dir, Rolling', Running'
    PROVE  Keeping'
<1>1. Recoverable(durable, rolled', dir, OnDisk') /\ Recoverable(safe, rolled', dir, Written')
  BY KeepDir DEF Keeping
<1>2. DurableKept'
  BY <1>1, KeepVersions DEF Keeping
<1>3. SafeKept'
  BY <1>1 DEF SafeKept
<1>4. Promised'
  BY DEF Keeping, Promised
<1> QED BY <1>2, <1>3, <1>4 DEF Keeping

-----------------------------------------------------------------------------
(* Steps that leave the logs and the current version alone.                *)

LEMMA KeepSame ==
    ASSUME JInv, Keeping, UNCHANGED <<logs, safe, durable, refused>>, rolled \subseteq rolled',
           dirs' = dirs \/ SyncDir, Rolling', Running'
    PROVE  Keeping'
<1>1. From(dirs, dir, dirs') /\ dir' = dir
  BY SameDirFacts, SyncDirFacts DEF JInv
<1>2. LogsKeep /\ FilesOK'
  BY SameKeep DEF Keeping
<1> QED BY <1>1, <1>2, KeepQuiet

LEMMA SameDir ==
    ASSUME JInv, dirs' = dirs \/ SyncDir, logs' = logs
    PROVE  dir' = dir /\ File' = File
<1>1. dir' = dir
  BY SameDirFacts, SyncDirFacts DEF JInv
<1> QED BY <1>1 DEF File

LEMMA KeepQuietActions ==
    ASSUME JInv, Keeping, Clean,
           \/ CloseVerb \/ RollVerb \/ RollClose \/ RollSyncDir \/ SnapshotSyncDir
           \/ Receive \/ Eval \/ Tick \/ UNCHANGED vars \/ ProcessCrash
    PROVE  Keeping'
<1>0. Rolling /\ Running /\ SafeKept
  BY DEF Keeping
<1>1. CASE CloseVerb
  <2>1. UNCHANGED <<dirs, logs, pc, env, stamp, rolled, safe, durable, refused>> /\ pc = "idle"
    BY <1>1 DEF CloseVerb
  <2>2. Rolling' /\ Running'
    BY <1>0, <2>1, SameDir DEF Rolling, Running
  <2> QED BY <2>1, <2>2, KeepSame
<1>2. CASE RollVerb
  <2>1. /\ UNCHANGED <<dirs, logs, env, safe, durable, refused>> /\ pc = "idle" /\ pc' = "r_close" /\ fp
        /\ stamp' = clock /\ (DistinctStamps => dir.arch[clock] = NoLog)
        /\ rolled' = rolled \cup Elems(File.frames)
    BY <1>2 DEF RollVerb, Roll, Go
  <2>2. dir' = dir /\ File' = File
    BY <2>1, SameDir
  <2>3. dir.log \in 1 .. Len(logs) /\ dir.log # NoLog
    BY <2>1, ActiveLog DEF JInv, Flight
  <2>4. safe \ rolled' \subseteq Elems(dir.qdb)
    BY <1>0, <2>1, <2>3 DEF SafeKept, Recoverable, Found, Written, File
  <2>5. Rolling'
    BY <2>1, <2>2, <2>4 DEF Rolling, Clean
  <2>6. Running'
    BY <1>0, <2>1, <2>2 DEF Running
  <2> QED BY <2>1, <2>5, <2>6, KeepSame
<1>3. CASE RollClose
  <2>1. /\ UNCHANGED <<dirs, logs, env, stamp, rolled, safe, durable, refused>> /\ pc = "r_close"
        /\ pc' = "r_rename"
    BY <1>3 DEF RollClose, Go, Fault, Clean, ghosts
  <2>2. Rolling' /\ Running'
    BY <1>0, <2>1, SameDir DEF Rolling, Running
  <2> QED BY <2>1, <2>2, KeepSame
<1>4. CASE RollSyncDir
  <2>1. /\ UNCHANGED <<logs, env, stamp, rolled, safe, durable, refused>> /\ pc = "r_dir"
        /\ pc' = "r_open" /\ (SyncDir \/ dirs' = dirs)
    BY <1>4 DEF RollSyncDir, Go, ghosts
  <2>2. Rolling' /\ Running'
    BY <1>0, <2>1, SameDir DEF Rolling, Running
  <2> QED BY <2>1, <2>2, KeepSame
<1>5. CASE SnapshotSyncDir
  <2>1. /\ UNCHANGED <<logs, env, stamp, rolled, safe, durable, refused>> /\ pc = "s_dir"
        /\ pc' = "r_close" /\ (SyncDir \/ dirs' = dirs)
    BY <1>5 DEF SnapshotSyncDir, Go, ghosts
  <2>2. Rolling' /\ Running'
    BY <1>0, <2>1, SameDir DEF Rolling, Running
  <2> QED BY <2>1, <2>2, KeepSame
<1>6. CASE Receive
  <2>1. /\ UNCHANGED <<dirs, logs, env, stamp, rolled, safe, durable, refused>> /\ pc = "idle"
        /\ pc' \in {"head", "eval"}
    BY <1>6 DEF Receive, Go
  <2>2. Rolling' /\ Running'
    BY <1>0, <2>1, SameDir DEF Rolling, Running
  <2> QED BY <2>1, <2>2, KeepSame
<1>7. CASE Eval
  <2>1. /\ UNCHANGED <<dirs, logs, stamp, rolled, safe, durable, refused>> /\ pc = "eval"
        /\ pc' = "idle" /\ env' = Append(env, nmsgs)
    BY <1>7 DEF Eval, Go, ghosts
  <2>2. Elems(env) \subseteq Elems(env')
    <3>1. env \in Seq(Nat) /\ nmsgs \in Nat /\ Len(env) \in Nat
      BY DEF JInv, JTypes
    <3>2. Len(env') = Len(env) + 1 /\ \A k \in 1 .. Len(env) : env'[k] = env[k]
      BY <2>1, <3>1, AppendFacts
    <3> QED BY <3>1, <3>2 DEF Elems
  <2>3. dir' = dir /\ File' = File
    BY <2>1, SameDir
  <2>4. Rolling' /\ Running'
    BY <1>0, <2>1, <2>2, <2>3 DEF Rolling, Running
  <2> QED BY <2>1, <2>4, KeepSame
<1>8. CASE Tick \/ UNCHANGED vars
  <2>1. UNCHANGED <<dirs, logs, pc, env, stamp, nmsgs, rolled, safe, durable, refused>>
    BY <1>8 DEF Tick, vars, server, counts, ghosts
  <2>2. Rolling' /\ Running'
    BY <1>0, <2>1, SameDir DEF Rolling, Running
  <2> QED BY <2>1, <2>2, KeepSame
<1>9. CASE ProcessCrash
  <2>1. UNCHANGED <<dirs, logs, rolled, safe, durable, refused>> /\ pc' = "down"
    BY <1>9 DEF ProcessCrash, Dead, ghosts
  <2>2. Rolling' /\ Running'
    BY <2>1 DEF Rolling, Running
  <2> QED BY <2>1, <2>2, KeepSame
<1> QED BY <1>1, <1>2, <1>3, <1>4, <1>5, <1>6, <1>7, <1>8, <1>9

LEMMA KeepRecover ==
    ASSUME JInv, Keeping, Recover
    PROVE  Keeping'
<1> DEFINE f == IF dir.log = NoLog THEN <<>> ELSE File.frames
<1>0. /\ UNCHANGED <<dirs, logs, stamp, rolled, safe, durable, refused>>
      /\ \/ Valid(f) = f /\ pc' = "open" /\ env' = dir.qdb \o f
         \/ pc' = "badtail"
  BY DEF Recover, Go
<1>1. dir' = dir /\ File' = File
  BY <1>0, SameDir
<1>2. CASE pc' = "badtail"
  <2>1. Rolling' /\ Running'
    BY <1>2 DEF Rolling, Running
  <2> QED BY <1>0, <2>1, KeepSame
<1>3. CASE Valid(f) = f /\ pc' = "open" /\ env' = dir.qdb \o f
  <2>1. dir.qdb \in Seq(Nat)
    BY DirFacts DEF JInv
  <2>2. f \in Seq(Nat)
    <3>1. CASE dir.log = NoLog
      BY <3>1
    <3>2. CASE dir.log # NoLog
      BY <3>2, ActiveLog DEF JInv
    <3> QED BY <3>1, <3>2
  <2>3. dir.log # NoLog => f = File.frames
    OBVIOUS
  <2> HIDE DEF f
  <2>4. \A j \in 1 .. Len(f) : f[j] # Torn
    BY <1>3, <2>2, ValidWhole
  <2>5. Elems(dir.qdb) \subseteq Elems(env')
    <3>1. Len(env') = Len(dir.qdb) + Len(f) /\ \A k \in 1 .. Len(dir.qdb) : env'[k] = dir.qdb[k]
      BY <1>3, <2>1, <2>2, ConcatFacts
    <3>2. Len(dir.qdb) \in Nat /\ Len(f) \in Nat
      BY <2>1, <2>2
    <3> QED BY <3>1, <3>2 DEF Elems
  <2>6. Rolling' /\ Running'
    BY <1>1, <1>3, <2>3, <2>4, <2>5 DEF Rolling, Running
  <2> QED BY <1>0, <2>6, KeepSame
<1> QED BY <1>0, <1>2, <1>3

-----------------------------------------------------------------------------
(* Writing a frame: the active log gets the frames f, which differ from    *)
(* what it has only at the end, behind its last whole frame.               *)

LEMMA KeepWritten ==
    ASSUME JInv, Keeping, dir.log # NoLog, NEW f \in Seq(Nat), logs' = [logs EXCEPT ![dir.log].frames = f],
           Len(File.frames) <= Len(f),
           \A j \in 1 .. Len(File.frames) : File.frames[j] # Torn => f[j] = File.frames[j],
           \A j \in 1 .. Len(f) - 1 : f[j] # Torn
    PROVE  /\ LogsKeep /\ FilesOK' /\ Len(logs') = Len(logs) /\ dir.log \in 1 .. Len(logs)
           /\ logs'[dir.log].frames = f
<1>0. Len(logs) \in Nat /\ dir.log \in 1 .. Len(logs) /\ File.frames \in Seq(Nat) /\ Len(File.frames) \in Nat
  BY ActiveLog, Places DEF JInv
<1>1. /\ logs' \in Seq(Frames) /\ Len(logs') = Len(logs) /\ logs'[dir.log].frames = f
      /\ logs'[dir.log].dur = File.dur
      /\ \A g \in 1 .. Len(logs) : g # dir.log => logs'[g] = logs[g]
  BY Rewritten
<1>2. \A g \in 1 .. Len(logs) : /\ logs[g].dur \in 0 .. Len(logs[g].frames)
                                /\ \A j \in 1 .. Len(logs[g].frames) - 1 : logs[g].frames[j] # Torn
  BY DEF Keeping, FilesOK
<1>3. File.dur \in 0 .. Len(File.frames) /\ Len(f) \in Nat
  BY <1>0, <1>2 DEF File
<1>4. FilesOK'
  <2> SUFFICES ASSUME NEW g \in 1 .. Len(logs)
               PROVE  /\ logs'[g].dur \in 0 .. Len(logs'[g].frames)
                      /\ \A j \in 1 .. Len(logs'[g].frames) - 1 : logs'[g].frames[j] # Torn
    BY <1>1 DEF FilesOK
  <2>1. CASE g = dir.log
    <3>1. File.dur \in 0 .. Len(f)
      BY <1>0, <1>3
    <3> QED BY <1>1, <2>1, <3>1
  <2>2. CASE g # dir.log
    BY <1>1, <1>2, <2>2
  <2> QED BY <2>1, <2>2
<1>5. LogsKeep
  <2>1. Len(logs) <= Len(logs')
    BY <1>0, <1>1
  <2> SUFFICES ASSUME NEW g \in 1 .. Len(logs)
               PROVE  /\ OnDisk[g] \ {Torn} \subseteq OnDisk'[g]
                      /\ Written[g] \ {Torn} \subseteq Written'[g]
    BY <2>1 DEF LogsKeep
  <2>2. /\ OnDisk[g] = {logs[g].frames[j] : j \in 1 .. logs[g].dur} /\ Written[g] = Elems(logs[g].frames)
        /\ OnDisk'[g] = {logs'[g].frames[j] : j \in 1 .. logs'[g].dur} /\ Written'[g] = Elems(logs'[g].frames)
    BY <1>1 DEF OnDisk, Written
  <2>3. CASE g # dir.log
    BY <1>1, <2>2, <2>3
  <2>4. CASE g = dir.log
    <3>1. OnDisk[g] = {File.frames[j] : j \in 1 .. File.dur} /\ OnDisk'[g] = {f[j] : j \in 1 .. File.dur}
      BY <1>1, <2>2, <2>4 DEF File
    <3>2. Written[g] = Elems(File.frames) /\ Written'[g] = Elems(f)
      BY <1>1, <2>2, <2>4 DEF File
    <3>3. 1 .. File.dur \subseteq 1 .. Len(File.frames) /\ 1 .. Len(File.frames) \subseteq 1 .. Len(f)
      BY <1>0, <1>3
    <3> QED BY <3>1, <3>2, <3>3 DEF Elems
  <2> QED BY <2>3, <2>4
<1> QED BY <1>0, <1>1, <1>4, <1>5

LEMMA KeepWrites ==
    ASSUME JInv, Keeping, Clean, WriteHeader \/ WritePayload
    PROVE  Keeping'
<1>0. /\ UNCHANGED <<dirs, env, stamp, nmsgs, rolled>> /\ fp /\ dir.log # NoLog /\ JTypes
      /\ nmsgs \in Nat /\ nmsgs >= 1
  BY DEF WriteHeader, WritePayload, counts, JInv, JTypes, Flight
<1>1. /\ dir.log \in 1 .. Len(logs) /\ File \in Frames /\ File.frames \in Seq(Nat)
      /\ Len(File.frames) \in Nat
  BY <1>0, ActiveLog DEF JInv
<1>2. From(dirs, dir, dirs') /\ dir' = dir
  BY <1>0, SameDirFacts
<1>3. CASE WriteHeader
  <2>1. /\ pc = "head" /\ pc' = "payload" /\ UNCHANGED <<safe, durable, refused>>
        /\ logs' = [logs EXCEPT ![dir.log].frames = Append(@, Torn)]
    BY <1>3 DEF WriteHeader, Go, Fault, Clean
  <2> DEFINE f == Append(File.frames, Torn)
  <2>2. Torn \in Nat
    BY DEF Torn
  <2>3. /\ f \in Seq(Nat) /\ Len(f) = Len(File.frames) + 1
        /\ \A k \in 1 .. Len(File.frames) : f[k] = File.frames[k]
    BY <1>1, <2>2, AppendFacts
  <2>4. logs' = [logs EXCEPT ![dir.log].frames = f]
    BY <2>1 DEF File
  <2> HIDE DEF f
  <2>5. \A j \in 1 .. Len(File.frames) : File.frames[j] # Torn
    BY <1>0, <2>1 DEF Keeping, Running
  <2>6. Len(File.frames) <= Len(f) /\ \A j \in 1 .. Len(f) - 1 : f[j] # Torn
    <3>1. Len(File.frames) <= Len(f) /\ \A j \in 1 .. Len(f) - 1 : j \in 1 .. Len(File.frames)
      BY <1>1, <2>3
    <3> QED BY <2>3, <2>5, <3>1
  <2>7. LogsKeep /\ FilesOK'
    BY <1>0, <2>3, <2>4, <2>6, KeepWritten
  <2>8. Rolling' /\ Running'
    BY <1>0, <1>2, <2>1 DEF Rolling, Running, Keeping
  <2> QED BY <1>0, <1>2, <2>1, <2>7, <2>8, KeepQuiet
<1>4. CASE WritePayload
  <2>1. /\ pc = "payload" /\ pc' = (IF mode = "sync" THEN "fsync" ELSE "eval") /\ UNCHANGED <<durable, refused>>
        /\ logs' = [logs EXCEPT ![dir.log].frames[Len(File.frames)] = nmsgs]
        /\ safe' = IF mode = "sync" THEN safe ELSE safe \cup {nmsgs}
    BY <1>4 DEF WritePayload, Go, Fault, Clean
  <2> DEFINE f == [File.frames EXCEPT ![Len(File.frames)] = nmsgs]
  <2>2. Len(File.frames) >= 1 /\ File.frames[Len(File.frames)] = Torn
    BY <2>1 DEF JInv, Flight
  <2>3. /\ f \in Seq(Nat) /\ Len(f) = Len(File.frames) /\ f[Len(File.frames)] = nmsgs
        /\ \A k \in 1 .. Len(File.frames) : k # Len(File.frames) => f[k] = File.frames[k]
    BY <1>0, <1>1, <2>2
  <2>4. logs' = [logs EXCEPT ![dir.log].frames = f]
    BY <2>1 DEF File
  <2> HIDE DEF f
  <2>5. \A j \in 1 .. Len(File.frames) - 1 : File.frames[j] # Torn
    BY <1>1 DEF Keeping, FilesOK, File
  <2>6. Len(File.frames) <= Len(f) /\ \A j \in 1 .. Len(f) - 1 : f[j] # Torn
    <3>1. /\ Len(File.frames) <= Len(f)
          /\ \A j \in 1 .. Len(f) - 1 : /\ j \in 1 .. Len(File.frames) - 1 /\ j \in 1 .. Len(File.frames)
                                        /\ j # Len(File.frames)
      BY <1>1, <2>3
    <3> QED BY <2>3, <2>5, <3>1
  <2>7. \A j \in 1 .. Len(File.frames) : File.frames[j] # Torn => f[j] = File.frames[j]
    BY <2>2, <2>3
  <2>8. /\ LogsKeep /\ FilesOK' /\ Len(logs') = Len(logs) /\ logs'[dir.log].frames = f
    BY <1>0, <2>3, <2>4, <2>6, <2>7, KeepWritten
  <2>9. Len(File.frames) \in 1 .. Len(f) /\ nmsgs \in Elems(f) /\ \A j \in 1 .. Len(f) : f[j] # Torn
    <3>1. Len(File.frames) \in 1 .. Len(f)
      BY <1>1, <2>2, <2>3
    <3>2. \A j \in 1 .. Len(f) : j = Len(File.frames) \/ j \in 1 .. Len(f) - 1
      BY <1>1, <2>3
    <3>3. nmsgs # Torn
      BY <1>0 DEF Torn
    <3> QED BY <2>3, <2>6, <3>1, <3>2, <3>3 DEF Elems
  <2>10. File'.frames = f
    BY <1>2, <2>8 DEF File
  <2>11. Rolling' /\ Running'
    <3>1. pc' \in {"fsync", "eval"}
      BY <2>1
    <3>2. Elems(dir.qdb) \subseteq Elems(env)
      BY <2>1 DEF Keeping, Running
    <3> QED BY <1>0, <1>2, <2>9, <2>10, <3>1, <3>2 DEF Rolling, Running
  <2>12. Recoverable(durable, rolled', dir, OnDisk') /\ Recoverable(safe, rolled', dir, Written')
    BY <1>0, <2>8, KeepDir DEF Keeping
  <2>13. DurableKept'
    BY <1>0, <1>2, <2>1, <2>8, <2>12, KeepVersions DEF Keeping
  <2>14. nmsgs \in Found(dir, Written')
    BY <1>0, <1>1, <2>8, <2>9 DEF Found, Written
  <2>15. Recoverable(safe \cup {nmsgs}, rolled', dir, Written')
    BY <2>12, <2>14, RecoverableAdd
  <2>16. SafeKept'
    BY <1>2, <2>1, <2>12, <2>15 DEF SafeKept
  <2>17. Promised'
    BY <1>0, <2>1 DEF Keeping, Promised
  <2> QED BY <2>8, <2>11, <2>13, <2>16, <2>17 DEF Keeping
<1> QED BY <1>3, <1>4

-----------------------------------------------------------------------------
(* fsync: what the active log holds becomes durable, and so does the       *)
(* directory.                                                              *)

LEMMA KeepPromise ==
    ASSUME JInv, Keeping, Clean, fp, SyncLog, NEW T, T \subseteq Elems(File.frames) \ {Torn}, Promise(T),
           UNCHANGED <<rolled, refused>>, Rolling', Running'
    PROVE  Keeping'
<1>0. /\ Len(logs) \in Nat /\ dir.log \in 1 .. Len(logs) /\ File \in Frames /\ File.frames \in Seq(Nat)
      /\ Len(File.frames) \in Nat /\ logs \in Seq(Frames) /\ dir.log # NoLog
  BY ActiveLog, Places DEF JInv, Flight
<1>1. From(dirs, dir, dirs') /\ dir' = dir /\ dirs' = <<dir>>
  BY SyncedLog, SyncDirFacts DEF SyncLog, Clean, SyncDir
<1> DEFINE x == Len(File.frames)
           new == [File EXCEPT !.dur = x]
<1>2. logs' = [logs EXCEPT ![dir.log] = new]
  BY DEF SyncLog, File
<1> HIDE DEF x
<1>3. new \in Frames /\ new.frames = File.frames /\ new.dur = x
  BY <1>0 DEF Frames, x
<1> HIDE DEF new
<1>4. /\ logs' \in Seq(Frames) /\ Len(logs') = Len(logs) /\ logs'[dir.log] = new
      /\ \A g \in 1 .. Len(logs) : g # dir.log => logs'[g] = logs[g]
  BY <1>0, <1>2, <1>3
<1>5. \A g \in 1 .. Len(logs) : /\ logs[g].dur \in 0 .. Len(logs[g].frames)
                                /\ \A j \in 1 .. Len(logs[g].frames) - 1 : logs[g].frames[j] # Torn
  BY DEF Keeping, FilesOK
<1>6. FilesOK'
  <2> SUFFICES ASSUME NEW g \in 1 .. Len(logs)
               PROVE  /\ logs'[g].dur \in 0 .. Len(logs'[g].frames)
                      /\ \A j \in 1 .. Len(logs'[g].frames) - 1 : logs'[g].frames[j] # Torn
    BY <1>4 DEF FilesOK
  <2>1. CASE g = dir.log
    <3>1. x \in 0 .. Len(File.frames)
      BY <1>0 DEF x
    <3>2. \A j \in 1 .. Len(File.frames) - 1 : File.frames[j] # Torn
      BY <1>0, <1>5 DEF File
    <3> QED BY <1>3, <1>4, <2>1, <3>1, <3>2
  <2>2. CASE g # dir.log
    BY <1>4, <1>5, <2>2
  <2> QED BY <2>1, <2>2
<1>7. OnDisk'[dir.log] = Elems(File.frames) /\ Written' = Written
  <2>1. OnDisk'[dir.log] = {new.frames[j] : j \in 1 .. new.dur}
    BY <1>0, <1>4 DEF OnDisk
  <2>2. OnDisk'[dir.log] = Elems(File.frames)
    BY <1>3, <2>1 DEF Elems, x
  <2>3. \A g \in 1 .. Len(logs) : logs'[g].frames = logs[g].frames
    BY <1>3, <1>4 DEF File
  <2> QED BY <1>4, <2>2, <2>3 DEF Written
<1>8. LogsKeep
  <2>1. Len(logs) <= Len(logs')
    BY <1>0, <1>4
  <2> SUFFICES ASSUME NEW g \in 1 .. Len(logs) PROVE OnDisk[g] \ {Torn} \subseteq OnDisk'[g]
    BY <1>7, <2>1 DEF LogsKeep
  <2>2. CASE g # dir.log
    BY <1>4, <2>2 DEF OnDisk
  <2>3. CASE g = dir.log
    <3>1. 1 .. File.dur \subseteq 1 .. Len(File.frames)
      BY <1>0, <1>5 DEF File
    <3>2. OnDisk[g] = {File.frames[j] : j \in 1 .. File.dur}
      BY <2>3 DEF OnDisk, File
    <3> QED BY <1>7, <2>3, <3>1, <3>2 DEF Elems
  <2> QED BY <2>2, <2>3
<1>9. Recoverable(durable, rolled, dir, OnDisk') /\ Recoverable(safe, rolled, dir, Written')
  BY <1>8, KeepDir DEF Keeping
<1>10. T \subseteq Found(dir, OnDisk') /\ T \subseteq Found(dir, Written')
  BY <1>0, <1>7 DEF Found, Written, File
<1>11. Recoverable(durable \cup T, rolled, dir, OnDisk') /\ Recoverable(safe \cup T, rolled, dir, Written')
  BY <1>9, <1>10, RecoverableAdd
<1>12. DurableKept'
  <2>1. Len(dirs') = 1 /\ dirs'[1] = dir
    BY <1>1
  <2> QED BY <1>11, <2>1 DEF DurableKept, Promise
<1>13. SafeKept'
  BY <1>1, <1>11 DEF SafeKept, Promise
<1>14. Promised'
  <2>1. T \subseteq Nat \ {0}
    BY <1>0 DEF Elems, Torn
  <2> QED BY <2>1 DEF Keeping, Promised, Promise
<1> QED BY <1>6, <1>12, <1>13, <1>14 DEF Keeping

LEMMA KeepSyncs ==
    ASSUME JInv, Keeping, Clean, WriteSync \/ SyncVerb
    PROVE  Keeping'
<1>0. fp /\ SyncLog /\ UNCHANGED <<env, stamp, nmsgs, rolled, refused>>
  BY DEF WriteSync, SyncVerb, Fault, Clean, server, counts, JInv, Flight
<1>1. dir' = dir /\ SameFrames(logs, logs')
  BY <1>0, SyncedLog
<1>2. dir.log # NoLog /\ dir.log \in 1 .. Len(logs) /\ File.frames' = File.frames
  <2>1. dir.log # NoLog /\ dir.log \in 1 .. Len(logs)
    BY <1>0, ActiveLog DEF JInv, Flight
  <2> QED BY <1>1, <2>1 DEF SameFrames, File
<1>3. CASE WriteSync
  <2>1. pc = "fsync" /\ pc' = "eval" /\ Promise({nmsgs})
    BY <1>3 DEF WriteSync, Go, Fault, Clean
  <2>2. nmsgs \in Elems(File.frames) /\ nmsgs # Torn
    BY <2>1 DEF Keeping, Running, JInv, JTypes, Flight, Torn
  <2>3. Rolling' /\ Running'
    BY <1>0, <1>1, <1>2, <2>1 DEF Rolling, Running, Keeping
  <2> QED BY <1>0, <2>1, <2>2, <2>3, KeepPromise
<1>4. CASE SyncVerb
  <2> DEFINE T == Elems(File.frames) \cap Elems(env)
  <2>1. pc = "idle" /\ pc' = "idle" /\ Promise(T)
    BY <1>4 DEF SyncVerb, Fault, Clean, server
  <2>2. T \subseteq Elems(File.frames) \ {Torn}
    <3>1. \A j \in 1 .. Len(env) : env[j] \in 1 .. nmsgs
      BY DEF JInv, MessagesOK
    <3>2. Torn \notin 1 .. nmsgs
      BY DEF Torn, JInv, JTypes
    <3>3. Torn \notin Elems(env)
      BY <3>1, <3>2 DEF Elems
    <3> QED BY <3>3
  <2> HIDE DEF T
  <2>3. Rolling' /\ Running'
    BY <1>0, <1>1, <1>2, <2>1 DEF Rolling, Running, Keeping
  <2> QED BY <1>0, <2>1, <2>2, <2>3, KeepPromise
<1> QED BY <1>3, <1>4

-----------------------------------------------------------------------------
(* A new version of the directory.                                         *)

LEMMA KeepNewDir ==
    ASSUME JInv, Keeping, NEW d \in Dirs, SetDir(d), UNCHANGED <<logs, safe, durable, refused, rolled>>,
           Recoverable(durable, rolled, d, OnDisk), Recoverable(safe, rolled, d, Written), Rolling', Running'
    PROVE  Keeping'
<1>1. From(dirs, d, dirs') /\ dir' = d
  BY SetDirFacts DEF JInv
<1>2. LogsKeep /\ FilesOK' /\ OnDisk' = OnDisk /\ Written' = Written
  BY SameKeep DEF Keeping, OnDisk, Written
<1>3. DurableKept'
  BY <1>1, <1>2, KeepVersions DEF Keeping
<1>4. SafeKept'
  BY <1>1, <1>2 DEF SafeKept
<1>5. Promised'
  BY DEF Keeping, Promised
<1> QED BY <1>2, <1>3, <1>4, <1>5 DEF Keeping

LEMMA KeepRename ==
    ASSUME JInv, Keeping, Clean, RollRename
    PROVE  Keeping'
<1>0. /\ UNCHANGED <<logs, env, stamp, safe, durable, refused, rolled>> /\ pc = "r_rename" /\ pc' = "r_dir"
      /\ SetDir([dir EXCEPT !.arch[stamp] = dir.log, !.log = NoLog])
      /\ stamp \in Stamps
  BY DEF RollRename, Go, Fault, Clean, counts, ghosts, JInv, JTypes
<1>1. dir \in Dirs /\ dir.qdb \in Seq(Nat) /\ dir.log \in Nat /\ dir.arch \in [Stamps -> Nat]
  BY DirFacts DEF JInv
<1> DEFINE d == [dir EXCEPT !.arch[stamp] = dir.log, !.log = NoLog]
<1>2. d \in Dirs /\ d.log = NoLog /\ d.qdb = dir.qdb
  BY <1>0, <1>1 DEF Dirs, NoLog
<1>3. \A s \in Stamps : d.arch[s] = IF s = stamp THEN dir.log ELSE dir.arch[s]
  BY <1>0, <1>1 DEF Dirs
<1>4. SetDir(d)
  BY <1>0
<1> HIDE DEF d
<1>5. safe \ rolled \subseteq Elems(dir.qdb) /\ dir.arch[stamp] = NoLog /\ durable \subseteq safe
  BY <1>0 DEF Keeping, Rolling, Promised
<1>6. ASSUME NEW W, NEW S, S \subseteq safe, Recoverable(S, rolled, dir, W)
      PROVE  Recoverable(S, rolled, d, W)
  <2>1. S \ rolled \subseteq Found(d, W)
    BY <1>2, <1>5, <1>6 DEF Found
  <2>2. Found(dir, W) \subseteq Found(d, W) \cup Filed(d, W)
    <3> SUFFICES ASSUME NEW m, dir.log # NoLog, m \in W[dir.log] PROVE m \in Filed(d, W)
      BY <1>2 DEF Found
    <3>1. d.arch[stamp] = dir.log
      BY <1>0, <1>3
    <3> QED BY <1>0, <3>1 DEF Filed
  <2>3. Filed(dir, W) \subseteq Filed(d, W)
    <3> SUFFICES ASSUME NEW s \in Stamps, dir.arch[s] # NoLog PROVE W[dir.arch[s]] \subseteq Filed(d, W)
      BY DEF Filed
    <3>1. d.arch[s] = dir.arch[s]
      BY <1>3, <1>5
    <3> QED BY <3>1 DEF Filed
  <2> QED BY <1>6, <2>1, <2>2, <2>3 DEF Recoverable
<1>7. Recoverable(durable, rolled, dir, OnDisk) /\ Recoverable(safe, rolled, dir, Written)
  BY Places DEF Keeping, DurableKept, SafeKept, dir
<1>8. Recoverable(durable, rolled, d, OnDisk)
  BY <1>5, <1>6, <1>7
<1>9. Recoverable(safe, rolled, d, Written)
  BY <1>6, <1>7
<1>10. dir' = d
  BY <1>2, <1>4, SetDirFacts DEF JInv
<1>11. Rolling' /\ Running'
  <2>1. Elems(dir.qdb) \subseteq Elems(env)
    BY <1>0 DEF Keeping, Running
  <2> QED BY <1>0, <1>2, <1>10, <2>1 DEF Rolling, Running
<1> QED BY <1>0, <1>2, <1>4, <1>8, <1>9, <1>11, KeepNewDir

\* At an idle server, what recovery would find is in the environment.
LEMMA IdleKnows ==
    ASSUME JInv, Keeping, pc = "idle", NEW S, S \subseteq Nat \ {0}, NEW W,
           \A g \in 1 .. Len(logs) : W[g] \subseteq Written[g]
    PROVE  Found(dir, W) \cap S \subseteq Elems(env)
<1>1. Elems(dir.qdb) \subseteq Elems(env) /\ refused = {}
  BY DEF Keeping, Running, Promised
<1>2. ASSUME NEW m \in S, dir.log # NoLog, m \in W[dir.log] PROVE m \in Elems(env)
  <2>1. dir.log \in 1 .. Len(logs)
    BY <1>2, ActiveLog DEF JInv
  <2>2. m \in Elems(File.frames)
    BY <1>2, <2>1 DEF Written, File
  <2>3. PICK j \in 1 .. Len(File.frames) : File.frames[j] = m
    BY <2>2 DEF Elems
  <2>4. Known(m)
    BY <1>2, <2>3 DEF JInv, Covered
  <2>5. m # Torn
    BY DEF Torn
  <2>6. In(m, env)
    BY <1>1, <2>4, <2>5 DEF Known, KnownTo
  <2> QED BY <2>6 DEF In, Elems
<1> QED BY <1>1, <1>2 DEF Found

LEMMA DiskWritten ==
    ASSUME JInv, FilesOK
    PROVE  \A g \in 1 .. Len(logs) : OnDisk[g] \subseteq Written[g]
<1> TAKE g \in 1 .. Len(logs)
<1>1. logs[g].dur \in 0 .. Len(logs[g].frames) /\ Len(logs[g].frames) \in Nat
  BY Places DEF FilesOK
<1>2. 1 .. logs[g].dur \subseteq 1 .. Len(logs[g].frames)
  BY <1>1
<1> QED BY <1>2 DEF OnDisk, Written, Elems

LEMMA KeepSnapshot ==
    ASSUME JInv, Keeping, Clean, Snapshot
    PROVE  Keeping'
<1>0. /\ UNCHANGED <<logs, env, safe, durable, refused, rolled>> /\ pc = "idle" /\ pc' = "s_dir"
      /\ SetDir([dir EXCEPT !.qdb = env]) /\ stamp' = clock /\ dir.arch[clock] = NoLog
      /\ env \in Seq(Nat)
  BY DEF Snapshot, Roll, Go, Fault, Clean, ghosts, JInv, JTypes
<1>1. dir \in Dirs
  BY DirFacts DEF JInv
<1> DEFINE d == [dir EXCEPT !.qdb = env]
<1>2. d \in Dirs /\ d.log = dir.log /\ d.qdb = env /\ d.arch = dir.arch
  BY <1>0, <1>1 DEF Dirs
<1>3. SetDir(d)
  BY <1>0
<1> HIDE DEF d
<1>4. durable \subseteq Nat \ {0} /\ safe \subseteq Nat \ {0} /\ durable \subseteq safe /\ FilesOK
  BY DEF Keeping, Promised
<1>5. Recoverable(durable, rolled, dir, OnDisk) /\ Recoverable(safe, rolled, dir, Written)
  BY Places DEF Keeping, DurableKept, SafeKept, dir
<1>6. ASSUME NEW W, NEW S, S \subseteq Nat \ {0}, \A g \in 1 .. Len(logs) : W[g] \subseteq Written[g],
             Recoverable(S, rolled, dir, W)
      PROVE  Recoverable(S, rolled, d, W)
  <2>1. Found(dir, W) \cap S \subseteq Elems(env)
    BY <1>0, <1>6, IdleKnows
  <2>2. Elems(env) \subseteq Found(d, W) /\ Filed(d, W) = Filed(dir, W)
    BY <1>2 DEF Found, Filed
  <2> QED BY <1>6, <2>1, <2>2 DEF Recoverable
<1>7. Recoverable(durable, rolled, d, OnDisk)
  BY <1>4, <1>5, <1>6, DiskWritten
<1>8. Recoverable(safe, rolled, d, Written)
  BY <1>4, <1>5, <1>6
<1>9. dir' = d
  BY <1>2, <1>3, SetDirFacts DEF JInv
<1>10. File' = File
  BY <1>0, <1>2, <1>9 DEF File
<1>11. safe \ rolled \subseteq Elems(env)
  <2>1. Found(dir, Written) \cap safe \subseteq Elems(env)
    BY <1>0, <1>4, IdleKnows
  <2> QED BY <1>5, <2>1 DEF Recoverable
<1>12. Rolling' /\ Running'
  BY <1>0, <1>2, <1>9, <1>10, <1>11 DEF Rolling, Running, Keeping
<1> QED BY <1>0, <1>2, <1>3, <1>7, <1>8, <1>12, KeepNewDir

LEMMA KeepPurges ==
    ASSUME JInv, Keeping, PurgeVerb \/ PurgeSnapshot \/ PurgeArchives
    PROVE  Keeping'
<1>0. dir \in Dirs /\ dir.qdb \in Seq(Nat) /\ dir.log \in Nat /\ dir.arch \in [Stamps -> Nat]
  BY DirFacts DEF JInv
<1>1. PICK d \in Dirs : SetDir(d) /\ d.log \in {NoLog, dir.log} /\ (d.qdb = dir.qdb \/ Elems(d.qdb) = {})
  <2>1. CASE PurgeVerb
    <3>1. [dir EXCEPT !.log = NoLog] \in Dirs
      BY <1>0 DEF Dirs, NoLog
    <3> QED BY <1>0, <2>1, <3>1 DEF PurgeVerb, Dirs
  <2>2. CASE PurgeSnapshot
    <3>1. None \in Seq(Nat) /\ Len(None) = 0
      BY DEF None
    <3>2. Elems(None) = {}
      BY <3>1 DEF Elems
    <3>3. [dir EXCEPT !.qdb = None] \in Dirs
      BY <1>0, <3>1 DEF Dirs
    <3> QED BY <1>0, <2>2, <3>2, <3>3 DEF PurgeSnapshot, Dirs
  <2>3. CASE PurgeArchives
    <3> DEFINE none == [s \in Stamps |-> NoLog]
    <3>1. none \in [Stamps -> Nat]
      BY DEF NoLog
    <3>2. SetDir([dir EXCEPT !.arch = none])
      BY <2>3 DEF PurgeArchives
    <3> HIDE DEF none
    <3>3. [dir EXCEPT !.arch = none] \in Dirs
      BY <1>0, <3>1 DEF Dirs
    <3> QED BY <1>0, <3>2, <3>3 DEF Dirs
  <2> QED BY <2>1, <2>2, <2>3
<1>2. /\ UNCHANGED <<logs, env, stamp, refused, rolled>> /\ safe' = {} /\ durable' = {}
      /\ pc \in {"idle", "p_qdb", "p_arch"} /\ pc' \in {"idle", "p_qdb", "p_arch"}
  BY DEF PurgeVerb, PurgeSnapshot, PurgeArchives, Go, counts, ghosts, Keeping, Running, Promised
<1>3. dir' = d /\ Len(dirs') >= 1
  BY <1>1, SetDirFacts DEF JInv, From
<1>4. FilesOK'
  BY <1>2, SameKeep DEF Keeping
<1>5. DurableKept' /\ SafeKept'
  BY <1>2, RecoverableNone DEF DurableKept, SafeKept
<1>6. Promised'
  BY <1>2 DEF Keeping, Promised
<1>7. Rolling'
  BY <1>2 DEF Rolling
<1>8. Running'
  <2>1. Elems(d.qdb) \subseteq Elems(env)
    BY <1>1, <1>2 DEF Keeping, Running
  <2>2. d.log # NoLog => File' = File /\ d.log = dir.log
    BY <1>1, <1>2, <1>3 DEF File
  <2>3. d.log # NoLog => \A j \in 1 .. Len(File.frames) : File.frames[j] # Torn
    BY <1>2, <2>2 DEF Keeping, Running
  <2> QED BY <1>2, <1>3, <2>1, <2>2, <2>3 DEF Running
<1> QED BY <1>4, <1>5, <1>6, <1>7, <1>8 DEF Keeping

LEMMA KeepOpen ==
    ASSUME JInv, Keeping, Clean, NEW to, NEW failed, OpenLog(to, failed),
           UNCHANGED <<env, stamp, safe, durable, refused, rolled>>,
           to = "idle", pc \in {"idle", "open", "r_open"}
    PROVE  Keeping'
<1>0. /\ pc' = "idle"
      /\ \/ dir.log # NoLog /\ UNCHANGED <<logs, dirs>>
         \/ /\ dir.log = NoLog /\ logs' = Append(logs, [frames |-> <<>>, dur |-> 0])
            /\ SetDir([dir EXCEPT !.log = Len(logs) + 1])
  BY DEF OpenLog, Go, Fault, Clean
<1>1. CASE dir.log # NoLog /\ UNCHANGED <<logs, dirs>>
  <2>1. dir' = dir /\ File' = File
    BY <1>1, SameDir
  <2>2. Rolling' /\ Running'
    BY <1>0, <2>1 DEF Rolling, Running, Keeping
  <2> QED BY <1>1, <2>2, KeepSame
<1>2. CASE /\ dir.log = NoLog /\ logs' = Append(logs, [frames |-> <<>>, dur |-> 0])
           /\ SetDir([dir EXCEPT !.log = Len(logs) + 1])
  <2> DEFINE e == <<>>
             new == [frames |-> e, dur |-> 0]
             n == Len(logs) + 1
             d == [dir EXCEPT !.log = n]
  <2>1. e \in Seq(Nat) /\ Len(e) = 0
    OBVIOUS
  <2>2. logs' = Append(logs, new) /\ SetDir(d)
    BY <1>2
  <2>3. n \in Nat /\ Len(logs) \in Nat /\ logs \in Seq(Frames) /\ n = Len(logs) + 1 /\ n # NoLog
    BY Places DEF NoLog
  <2> HIDE DEF e, n
  <2>4. new \in Frames /\ new.frames = e /\ new.dur = 0
    BY <2>1 DEF Frames
  <2>5. dir \in Dirs
    BY DirFacts DEF JInv
  <2>6. d \in Dirs /\ d.log = n /\ d.qdb = dir.qdb /\ d.arch = dir.arch
    BY <2>3, <2>5 DEF Dirs
  <2> HIDE DEF new, d
  <2>7. From(dirs, d, dirs') /\ dir' = d
    BY <2>2, <2>6, SetDirFacts DEF JInv
  <2>8. /\ logs' \in Seq(Frames) /\ Len(logs') = Len(logs) + 1 /\ logs'[Len(logs) + 1] = new
        /\ \A g \in 1 .. Len(logs) : logs'[g] = logs[g]
        /\ \A g \in 1 .. Len(logs') : g \in 1 .. Len(logs) \/ g = Len(logs) + 1
    BY <2>2, <2>3, <2>4, AppendFacts
  <2>9. Len(logs) <= Len(logs') /\ 1 .. Len(logs) \subseteq 1 .. Len(logs')
    BY <2>3, <2>8
  <2>10. \A g \in 1 .. Len(logs) : OnDisk'[g] = OnDisk[g] /\ Written'[g] = Written[g]
    BY <2>8, <2>9 DEF OnDisk, Written
  <2>11. LogsKeep
    BY <2>9, <2>10 DEF LogsKeep
  <2>12. FilesOK'
    <3>1. new.dur \in 0 .. Len(new.frames) /\ \A j \in 1 .. Len(new.frames) - 1 : new.frames[j] # Torn
      BY <2>1, <2>4
    <3> QED BY <2>8, <3>1 DEF FilesOK, Keeping
  <2>13. Recoverable(durable, rolled, dir, OnDisk') /\ Recoverable(safe, rolled, dir, Written')
    BY <2>11, KeepDir DEF Keeping
  <2>14. Recoverable(durable, rolled, d, OnDisk') /\ Recoverable(safe, rolled, d, Written')
    BY <1>2, <2>6, <2>13 DEF Recoverable, Found, Filed
  <2>15. DurableKept'
    BY <2>7, <2>11, <2>14, KeepVersions DEF Keeping
  <2>16. SafeKept' /\ Promised'
    BY <2>7, <2>14 DEF SafeKept, Keeping, Promised
  <2>17. File' = new
    BY <2>3, <2>6, <2>7, <2>8 DEF File
  <2>18. Rolling' /\ Running'
    <3>1. Elems(dir.qdb) \subseteq Elems(env)
      BY DEF Keeping, Running
    <3>2. Len(File'.frames) = 0
      BY <2>1, <2>4, <2>17
    <3> QED BY <1>0, <2>6, <2>7, <3>1, <3>2 DEF Rolling, Running
  <2> QED BY <2>12, <2>15, <2>16, <2>18 DEF Keeping
<1> QED BY <1>0, <1>1, <1>2

-----------------------------------------------------------------------------
(* A torn log that is cut, and the crash of a machine.                     *)

LEMMA ValidKeeps ==
    ASSUME NEW f \in Seq(Nat), \A j \in 1 .. Len(f) - 1 : f[j] # Torn
    PROVE  /\ Valid(f) \in Seq(Nat) /\ Len(Valid(f)) \in Nat
           /\ Elems(f) \ {Torn} \subseteq Elems(Valid(f))
           /\ \A j \in 1 .. Len(Valid(f)) : Valid(f)[j] # Torn
<1>1. PICK n \in 0 .. Len(f) : /\ Valid(f) = SubSeq(f, 1, n)
                               /\ \A k \in 1 .. n : f[k] # Torn
                               /\ \A m \in 0 .. Len(f) : (\A k \in 1 .. m : f[k] # Torn) => m <= n
  BY ValidFacts
<1>2. /\ Valid(f) \in Seq(Nat) /\ Len(Valid(f)) = n
      /\ \A k \in 1 .. n : k \in 1 .. Len(f) /\ Valid(f)[k] = f[k]
  BY <1>1, PrefixFacts
<1>3. Len(f) \in Nat /\ n \in Nat
  OBVIOUS
<1>4. ASSUME NEW j \in 1 .. Len(f), f[j] # Torn PROVE j \in 1 .. n
  <2>1. j \in 0 .. Len(f) /\ \A k \in 1 .. j : k = j \/ k \in 1 .. Len(f) - 1
    BY <1>3
  <2>2. \A k \in 1 .. j : f[k] # Torn
    BY <1>4, <2>1
  <2>3. j <= n
    BY <1>1, <2>1, <2>2
  <2> QED BY <1>3, <2>3
<1>5. Elems(f) \ {Torn} \subseteq Elems(Valid(f))
  BY <1>2, <1>4 DEF Elems
<1>6. \A j \in 1 .. Len(Valid(f)) : Valid(f)[j] # Torn
  BY <1>1, <1>2
<1> QED BY <1>2, <1>3, <1>5, <1>6

LEMMA KeepTruncate ==
    ASSUME JInv, Keeping, TruncateByHand
    PROVE  Keeping'
<1>0. /\ pc' = "down" /\ UNCHANGED <<dirs, safe, durable, refused, rolled>> /\ dir.log # NoLog
      /\ Len(logs) \in Nat /\ logs \in Seq(Frames)
  BY Places DEF TruncateByHand, Go, ghosts, JInv, Flight
<1>1. /\ dir.log \in 1 .. Len(logs) /\ File \in Frames /\ File.frames \in Seq(Nat)
      /\ Len(File.frames) \in Nat
  BY <1>0, ActiveLog DEF JInv
<1>2. /\ File.dur \in 0 .. Len(File.frames)
      /\ \A j \in 1 .. Len(File.frames) - 1 : File.frames[j] # Torn
  BY <1>1 DEF Keeping, FilesOK, File
<1> DEFINE v == Valid(File.frames)
           x == Len(v)
           new == [File EXCEPT !.frames = v, !.dur = x]
<1>3. /\ v \in Seq(Nat) /\ x \in Nat /\ Elems(File.frames) \ {Torn} \subseteq Elems(v)
      /\ \A j \in 1 .. x : v[j] # Torn
  BY <1>1, <1>2, ValidKeeps
<1>4. logs' = [logs EXCEPT ![dir.log] = new]
  BY DEF TruncateByHand, File
<1>5. x = Len(v)
  OBVIOUS
<1> HIDE DEF v, x
<1>6. new \in Frames /\ new.frames = v /\ new.dur = x
  BY <1>1, <1>3 DEF Frames
<1> HIDE DEF new
<1>7. /\ logs' \in Seq(Frames) /\ Len(logs') = Len(logs) /\ logs'[dir.log] = new
      /\ \A g \in 1 .. Len(logs) : g # dir.log => logs'[g] = logs[g]
  BY <1>0, <1>1, <1>4, <1>6
<1>8. FilesOK'
  <2>1. /\ new.dur \in 0 .. Len(new.frames) /\ \A j \in 1 .. Len(new.frames) - 1 : new.frames[j] # Torn
    BY <1>3, <1>5, <1>6
  <2> QED BY <1>7, <2>1 DEF Keeping, FilesOK
<1>9. LogsKeep
  <2>1. Len(logs) <= Len(logs')
    BY <1>0, <1>7
  <2> SUFFICES ASSUME NEW g \in 1 .. Len(logs)
               PROVE  OnDisk[g] \ {Torn} \subseteq OnDisk'[g] /\ Written[g] \ {Torn} \subseteq Written'[g]
    BY <2>1 DEF LogsKeep
  <2>2. CASE g # dir.log
    BY <1>7, <2>2 DEF OnDisk, Written
  <2>3. CASE g = dir.log
    <3>1. Written[g] = Elems(File.frames) /\ OnDisk[g] = {File.frames[j] : j \in 1 .. File.dur}
      BY <2>3 DEF Written, OnDisk, File
    <3>2. 1 .. File.dur \subseteq 1 .. Len(File.frames)
      BY <1>1, <1>2
    <3>3. OnDisk[g] \subseteq Elems(File.frames)
      BY <3>1, <3>2 DEF Elems
    <3>4. Written'[g] = Elems(v) /\ OnDisk'[g] = Elems(v)
      BY <1>5, <1>6, <1>7, <2>3 DEF Written, OnDisk, Elems
    <3> QED BY <1>3, <3>1, <3>3, <3>4
  <2> QED BY <2>2, <2>3
<1>10. From(dirs, dir, dirs') /\ dir' = dir
  BY <1>0, SameDirFacts DEF JInv
<1>11. Rolling' /\ Running'
  BY <1>0 DEF Rolling, Running
<1> QED BY <1>0, <1>8, <1>9, <1>10, <1>11, KeepQuiet

LEMMA KeepMachineCrash ==
    ASSUME JInv, Keeping, MachineCrash
    PROVE  Keeping'
<1>0. pc' = "down" /\ UNCHANGED <<durable, refused, rolled>> /\ safe' = durable
  BY DEF MachineCrash, Dead
<1>1. PICK k \in 1 .. Len(dirs) : dirs' = <<dirs[k]>>
  BY DEF MachineCrash
<1>2. Len(dirs') = 1 /\ dirs'[1] = dirs[k] /\ dir' = dirs[k]
  BY <1>1 DEF dir
<1>3. PICK more \in 0 .. MaxMsgs :
        LET Kept(f) == IF f.dur + more < Len(f.frames) THEN f.dur + more ELSE Len(f.frames)
        IN  logs' = [g \in 1 .. Len(logs) |->
                       [frames |-> SubSeq(logs[g].frames, 1, Kept(logs[g])), dur |-> Kept(logs[g])]]
  BY DEF MachineCrash
<1> DEFINE kept(g) == IF logs[g].dur + more < Len(logs[g].frames) THEN logs[g].dur + more ELSE Len(logs[g].frames)
<1>4. logs' = [g \in 1 .. Len(logs) |-> [frames |-> SubSeq(logs[g].frames, 1, kept(g)), dur |-> kept(g)]]
  BY <1>3
<1>5. Len(logs) \in Nat
  BY Places
<1>6. ASSUME NEW g \in 1 .. Len(logs)
      PROVE  /\ kept(g) \in Nat /\ Len(SubSeq(logs[g].frames, 1, kept(g))) = kept(g)
             /\ 1 .. logs[g].dur \subseteq 1 .. kept(g)
             /\ \A j \in 1 .. kept(g) : SubSeq(logs[g].frames, 1, kept(g))[j] = logs[g].frames[j]
             /\ \A j \in 1 .. kept(g) - 1 : logs[g].frames[j] # Torn
  <2>1. /\ logs[g].frames \in Seq(Nat) /\ logs[g].dur \in 0 .. Len(logs[g].frames)
        /\ Len(logs[g].frames) \in Nat /\ logs[g].dur \in Nat /\ more \in Nat
        /\ \A j \in 1 .. Len(logs[g].frames) - 1 : logs[g].frames[j] # Torn
    BY Places, JournalAssumption DEF Keeping, FilesOK
  <2>2. kept(g) \in 0 .. Len(logs[g].frames) /\ kept(g) \in Nat /\ logs[g].dur <= kept(g)
    BY <2>1
  <2> HIDE DEF kept
  <2>3. 1 .. logs[g].dur \subseteq 1 .. kept(g) /\ 1 .. kept(g) - 1 \subseteq 1 .. Len(logs[g].frames) - 1
    BY <2>1, <2>2
  <2>4. /\ Len(SubSeq(logs[g].frames, 1, kept(g))) = kept(g)
        /\ \A j \in 1 .. kept(g) : SubSeq(logs[g].frames, 1, kept(g))[j] = logs[g].frames[j]
    BY <2>1, <2>2, PrefixFacts
  <2> QED BY <2>1, <2>2, <2>3, <2>4
<1> HIDE DEF kept
<1>7. /\ DOMAIN logs' = 1 .. Len(logs)
      /\ \A g \in 1 .. Len(logs) : logs'[g].frames = SubSeq(logs[g].frames, 1, kept(g)) /\ logs'[g].dur = kept(g)
  BY <1>4
<1>8. Len(logs') = Len(logs)
  <2>1. logs' \in Seq(Frames) /\ Len(logs') \in Nat
    <3>1. JInv'
      BY CrashActions
    <3> QED BY <3>1 DEF JInv, JTypes
  <2>2. 1 .. Len(logs') = 1 .. Len(logs)
    BY <1>7, <2>1
  <2> QED BY <1>5, <2>1, <2>2
<1>9. FilesOK'
  <2> SUFFICES ASSUME NEW g \in 1 .. Len(logs)
               PROVE  /\ logs'[g].dur \in 0 .. Len(logs'[g].frames)
                      /\ \A j \in 1 .. Len(logs'[g].frames) - 1 : logs'[g].frames[j] # Torn
    BY <1>8 DEF FilesOK
  <2>1. kept(g) \in 0 .. kept(g) /\ \A j \in 1 .. kept(g) - 1 : j \in 1 .. kept(g)
    BY <1>6
  <2>2. Len(logs'[g].frames) = kept(g) /\ logs'[g].dur = kept(g)
    <3>1. logs'[g].frames = SubSeq(logs[g].frames, 1, kept(g)) /\ logs'[g].dur = kept(g)
      BY <1>7
    <3> QED BY <1>6, <3>1
  <2>3. ASSUME NEW j \in 1 .. kept(g) - 1 PROVE logs'[g].frames[j] # Torn
    <3>1. logs'[g].frames[j] = SubSeq(logs[g].frames, 1, kept(g))[j]
      BY <1>7
    <3>2. SubSeq(logs[g].frames, 1, kept(g))[j] = logs[g].frames[j] /\ logs[g].frames[j] # Torn
      BY <1>6, <2>1
    <3> QED BY <3>1, <3>2
  <2> QED BY <2>1, <2>2, <2>3
<1>10. \A g \in 1 .. Len(logs) : OnDisk[g] \subseteq OnDisk'[g] /\ OnDisk[g] \subseteq Written'[g]
  <2> TAKE g \in 1 .. Len(logs)
  <2>1. OnDisk[g] = {logs[g].frames[j] : j \in 1 .. logs[g].dur}
    BY DEF OnDisk
  <2>2. OnDisk'[g] = {logs'[g].frames[j] : j \in 1 .. kept(g)} /\ Written'[g] = Elems(logs'[g].frames)
    BY <1>7, <1>8 DEF OnDisk, Written
  <2>3. \A j \in 1 .. logs[g].dur : j \in 1 .. kept(g) /\ logs'[g].frames[j] = logs[g].frames[j]
    BY <1>6, <1>7
  <2>4. Len(logs'[g].frames) = kept(g)
    BY <1>6, <1>7
  <2> QED BY <2>1, <2>2, <2>3, <2>4 DEF Elems
<1>11. Recoverable(durable, rolled, dirs[k], OnDisk)
  BY DEF Keeping, DurableKept
<1>12. dirs[k].log \in 0 .. Len(logs) /\ dirs[k].arch \in [Stamps -> 0 .. Len(logs)]
  BY Places
<1>13. Recoverable(durable, rolled, dirs[k], OnDisk') /\ Recoverable(durable, rolled, dirs[k], Written')
  <2>1. durable \subseteq durable /\ rolled \subseteq rolled
    OBVIOUS
  <2>2. Recoverable(durable, rolled, dirs[k], OnDisk')
    BY <1>5, <1>10, <1>11, <1>12, <2>1, RecoverableMono
  <2>3. Recoverable(durable, rolled, dirs[k], Written')
    BY <1>5, <1>10, <1>11, <1>12, <2>1, RecoverableMono
  <2> QED BY <2>2, <2>3
<1>14. DurableKept' /\ SafeKept'
  BY <1>0, <1>2, <1>13 DEF DurableKept, SafeKept
<1>15. Promised' /\ Rolling' /\ Running'
  BY <1>0 DEF Keeping, Promised, Rolling, Running
<1> QED BY <1>9, <1>14, <1>15 DEF Keeping

-----------------------------------------------------------------------------
LEMMA KInit == Init => KInv
<1> SUFFICES ASSUME Init PROVE Keeping
  BY DEF KInv
<1>1. logs \in Seq(Frames) /\ Len(logs) = 0 /\ safe = {} /\ durable = {} /\ refused = {} /\ pc = "down"
  BY DEF Init
<1>2. FilesOK /\ Promised /\ Rolling /\ Running
  BY <1>1 DEF FilesOK, Promised, Rolling, Running
<1>3. DurableKept /\ SafeKept
  BY <1>1, RecoverableNone DEF DurableKept, SafeKept
<1> QED BY <1>2, <1>3 DEF Keeping

LEMMA KNext == JInv /\ KInv /\ [Next]_vars => KInv'
<1> SUFFICES ASSUME JInv, KInv, [Next]_vars, Clean' PROVE Keeping'
  BY DEF KInv
<1>0. Clean /\ Keeping
  BY DEF Clean, KInv, Next, vars
<1>1. CASE UNCHANGED vars
  BY <1>0, <1>1, KeepQuietActions
<1>2. CASE Step
  <2>1. CASE \/ CloseVerb \/ RollVerb \/ RollClose \/ RollSyncDir \/ SnapshotSyncDir
             \/ Receive \/ Eval \/ Tick \/ Stopped \/ ProcessCrash
    BY <1>0, <2>1, KeepQuietActions DEF Stopped
  <2>2. CASE Recover \/ TruncateByHand
    BY <1>0, <2>2, KeepRecover, KeepTruncate
  <2>3. CASE WriteHeader \/ WritePayload \/ WriteSync \/ SyncVerb
    BY <1>0, <2>3, KeepWrites, KeepSyncs
  <2>4. CASE OpenAppend \/ RollOpen \/ OpenVerb
    <3>1. /\ UNCHANGED <<env, stamp, safe, durable, refused, rolled>> /\ pc \in {"idle", "open", "r_open"}
          /\ OpenLog("idle", "down") \/ OpenLog("idle", "idle")
      BY <2>4 DEF OpenAppend, RollOpen, OpenVerb, ghosts
    <3> QED BY <1>0, <3>1, KeepOpen
  <2>5. CASE RollRename \/ Snapshot
    BY <1>0, <2>5, KeepRename, KeepSnapshot
  <2>6. CASE PurgeVerb \/ PurgeSnapshot \/ PurgeArchives
    BY <1>0, <2>6, KeepPurges
  <2>7. CASE MachineCrash
    BY <1>0, <2>7, KeepMachineCrash
  <2> QED BY <1>2, <2>1, <2>2, <2>3, <2>4, <2>5, <2>6, <2>7 DEF Step
<1> QED BY <1>1, <1>2 DEF Next

(* What was acknowledged survives: in every behaviour without failing      *)
(* calls, where an fsync covers the directory entry of a new log and rolls *)
(* have names of their own, an idle server has every message that was      *)
(* promised, but those that .log.roll moved to an archive, and those are   *)
(* there (journal.c: ray_journal_write_bytes, ray_journal_recover,         *)
(* ray_journal_roll, ray_journal_snapshot).                                *)
THEOREM JournalKeeps == Spec => [](FsyncEntry /\ DistinctStamps => AckedKept)
<1>1. JInv /\ KInv => (FsyncEntry /\ DistinctStamps => AckedKept)
  <2> SUFFICES ASSUME JInv, KInv, FsyncEntry, DistinctStamps, pc = "idle", faults = {}
               PROVE  safe \ rolled \subseteq Elems(env) /\ safe \subseteq Elems(env) \cup Archived
    BY DEF AckedKept
  <2>1. Keeping
    BY DEF KInv, Clean
  <2>2. Recoverable(safe, rolled, dir, Written) /\ safe \subseteq Nat \ {0}
    BY <2>1 DEF Keeping, SafeKept, Promised
  <2>3. Found(dir, Written) \cap safe \subseteq Elems(env)
    BY <2>1, <2>2, IdleKnows
  <2>4. Filed(dir, Written) \subseteq Archived
    <3> SUFFICES ASSUME NEW s \in Stamps, dir.arch[s] # NoLog PROVE Written[dir.arch[s]] \subseteq Archived
      BY DEF Filed
    <3>1. dir.arch[s] \in 1 .. Len(logs)
      BY Places DEF NoLog
    <3>2. Written[dir.arch[s]] = Elems(logs[dir.arch[s]].frames)
      BY <3>1 DEF Written
    <3> QED BY <3>2 DEF Archived
  <2> QED BY <2>2, <2>3, <2>4 DEF Recoverable
<1> QED BY <1>1, KInit, KNext, JInit, JNext, PTL DEF Spec
=============================================================================
