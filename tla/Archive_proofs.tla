----------------------------- MODULE Archive_proofs -----------------------------
(***************************************************************************)
(* Theorems about the members of a mounted archive, for any number of      *)
(* members, versions, failures and operations of the user: the write lock  *)
(* is exclusive; publishing one member takes no other member back; a copy  *)
(* that counts as unmodified is not ahead of the archive; and no member is *)
(* replaced unasked that had changed before the check.                     *)
(*                                                                         *)
(* The second rests on what a commit knows between its refresh and its     *)
(* write-back: only others publish meanwhile, and the local archive is the *)
(* version of the refresh, or the baseline is.                             *)
(*                                                                         *)
(* The last two rest on what is known of each member (MemberInv): what its *)
(* one thread at work carries, and that what a baseline names is part of   *)
(* what the local file descends from, or is gone from wherever it could be *)
(* published again, unless a commit is bound to replace that baseline.     *)
(***************************************************************************)
EXTENDS ArchiveCopies, SequenceTheorems, TLAPS

\* What a thread inside the lock relies on.
CommitInv ==
  \A t \in Threads :
    /\ thr[t].pc \in {"download", "publish"} =>
         /\ thr[t].upto \in 1 .. Latest
         /\ \A v \in thr[t].upto + 1 .. Latest : remote[v].by = "others"
    /\ thr[t].pc = "publish" =>
         known = thr[t].upto \/ copied = Content(thr[t].upto)

ArchiveInv == ArchiveTypeOK /\ CommitInv

LockOK ==
  /\ locked = {t \in Threads : thr[t].pc \in LockedPcs}
  /\ \A t, u \in locked : t = u

-------------------------------------------------------------------------------
\* Types.

LEMMA LatestType == ASSUME ArchiveTypeOK PROVE Latest \in Nat \ {0}
BY EmptySeq, LenProperties DEF ArchiveTypeOK, Latest

LEMMA VersionType ==
  ASSUME ArchiveTypeOK, NEW v \in 1 .. Latest
  PROVE  remote[v] \in Version /\ Content(v) \in Revisions
<1>1. remote[v] \in Version BY ElementOfSeq DEF ArchiveTypeOK, Latest
<1> QED BY <1>1 DEF Version, Content

LEMMA IdleType == ASSUME ArchiveTypeOK PROVE Idle \in ThreadRecord
BY LatestType DEF Idle, ThreadRecord, OtherPcs

LEMMA MountIsThread == MountThread \in Threads BY DEF MountThread, Threads

LEMMA MemberThreads ==
  ASSUME NEW m \in Members PROVE Sync(m) \in Threads /\ Open(m) \in Threads
BY DEF Sync, Open, Threads

LEMMA LockedAreOthers ==
  LockedPcs \cap (WritePcs \cup OtherPcs) = {}
BY DEF LockedPcs, WritePcs, OtherPcs

\* The new version is one more, and what was there stays.
LEMMA Appended ==
  ASSUME ArchiveTypeOK, NEW x \in Version, remote' = Append(remote, x)
  PROVE  /\ remote' \in Seq(Version) /\ remote' # <<>>
         /\ Latest' = Latest + 1 /\ remote'[Latest + 1] = x
         /\ \A v \in 1 .. Latest : remote'[v] = remote[v]
         /\ ThreadRecord \subseteq ThreadRecord'
<1>1. remote \in Seq(Version) BY DEF ArchiveTypeOK
<1>2. /\ remote' \in Seq(Version) /\ remote' # <<>>
      /\ Len(remote') = Len(remote) + 1 /\ remote'[Len(remote) + 1] = x
      /\ \A v \in 1 .. Len(remote) : remote'[v] = remote[v]
  BY <1>1, AppendProperties
<1>3. Latest' = Latest + 1 BY <1>2 DEF Latest
<1>4. Latest \in Nat BY LatestType
<1>5. 0 .. Latest \subseteq 0 .. Latest' BY <1>3, <1>4
<1>6. ThreadRecord \subseteq ThreadRecord' BY <1>5 DEF ThreadRecord
<1> QED BY <1>2, <1>3, <1>6 DEF Latest

\* A step of one thread that does not concern the lock.
LEMMA LockStays ==
  ASSUME LockOK, thr \in [Threads -> ThreadRecord], NEW t \in Threads, NEW r,
         thr' = [thr EXCEPT ![t] = r], locked' = locked,
         thr[t].pc \in LockedPcs <=> r.pc \in LockedPcs
  PROVE  LockOK'
<1>1. \A u \in Threads : thr'[u].pc \in LockedPcs <=> thr[u].pc \in LockedPcs
  OBVIOUS
<1> QED BY <1>1 DEF LockOK, LockedPcs

LEMMA LockTaken ==
  ASSUME LockOK, thr \in [Threads -> ThreadRecord], NEW t \in Threads, NEW r,
         thr' = [thr EXCEPT ![t] = r], locked = {}, locked' = locked \cup {t},
         r.pc \in LockedPcs
  PROVE  LockOK'
<1>1. \A u \in Threads : thr'[u].pc \in LockedPcs <=> u = t
  BY DEF LockOK
<1>2. locked' = {u \in Threads : thr'[u].pc \in LockedPcs} BY <1>1
<1> QED BY <1>2 DEF LockOK, LockedPcs

LEMMA LockLeft ==
  ASSUME LockOK, thr \in [Threads -> ThreadRecord], NEW t \in Threads, NEW r,
         thr' = [thr EXCEPT ![t] = r], t \in locked, locked' = locked \ {t},
         r.pc \notin LockedPcs
  PROVE  LockOK'
<1>1. \A u \in Threads : thr'[u].pc \notin LockedPcs
  BY DEF LockOK
<1>2. locked' = {} BY DEF LockOK
<1> QED BY <1>1, <1>2 DEF LockOK, LockedPcs

\* Whoever holds the lock is alone.
LEMMA Alone ==
  ASSUME ArchiveTypeOK, NEW t \in Threads, thr[t].pc \in LockedPcs,
         NEW u \in Threads, u # t
  PROVE  thr[u].pc \notin LockedPcs
BY DEF ArchiveTypeOK

-------------------------------------------------------------------------------
\* The archive, step by step.

LEMMA ArchiveInitInv == ArchiveInit => ArchiveInv
<1> SUFFICES ASSUME ArchiveInit PROVE ArchiveInv OBVIOUS
<1> DEFINE first == [members |-> [m \in Members |-> 1], by |-> "others"]
<1>1. remote = <<first>> BY DEF ArchiveInit
<1>2. first \in Version BY DEF Version, Revisions
<1>3. remote \in Seq(Version) /\ remote # <<>> /\ Latest = 1
  BY <1>1, <1>2 DEF Latest
<1>4. Content(1) \in Revisions BY <1>1, <1>2 DEF Content, Revisions
<1>5. Idle \in ThreadRecord BY <1>3 DEF Idle, ThreadRecord, OtherPcs
<1>6. \A t \in Threads : thr[t] = Idle BY DEF ArchiveInit
<1>7. Idle.pc = "idle" BY DEF Idle
<1>8. ArchiveTypeOK
  BY <1>3, <1>4, <1>5, <1>6, <1>7 DEF ArchiveTypeOK, ArchiveInit, LockedPcs
<1>9. CommitInv BY <1>6, <1>7 DEF CommitInv
<1> QED BY <1>8, <1>9 DEF ArchiveInv

\* A step of a thread that is outside of the lock before and after it.
LEMMA Outside ==
  ASSUME ArchiveInv, NEW t \in Threads, NEW r \in ThreadRecord,
         thr' = [thr EXCEPT ![t] = r], faults' \in Nat,
         thr[t].pc \notin LockedPcs, r.pc \notin LockedPcs, UNCHANGED mountVars
  PROVE  ArchiveInv'
<1> USE DEF ArchiveInv
<1>1. remote' = remote /\ revs' = revs /\ copied' = copied /\ known' = known
      /\ reader' = reader /\ locked' = locked
  BY DEF mountVars
<1>2. ThreadRecord' = ThreadRecord BY <1>1 DEF ThreadRecord, Latest
<1>3. thr' \in [Threads -> ThreadRecord]' BY <1>2 DEF ArchiveTypeOK
<1>4. LockOK BY DEF ArchiveTypeOK, LockOK
<1>5. LockOK' BY <1>1, <1>4, LockStays DEF ArchiveTypeOK
<1>6. ArchiveTypeOK'
  BY <1>1, <1>3, <1>5 DEF ArchiveTypeOK, LockOK, Latest
<1>7. \A u \in Threads : thr'[u].pc \in LockedPcs => thr'[u] = thr[u]
  BY DEF ArchiveTypeOK
<1>8. CommitInv' BY <1>1, <1>7 DEF CommitInv, LockedPcs, Latest, Content
<1> QED BY <1>6, <1>8

\* Steps of nobody.
LEMMA NoThread ==
  ASSUME ArchiveInv, revs' \in Nat,
         UNCHANGED <<remote, copied, known, reader, locked, thr, faults>>
  PROVE  ArchiveInv'
BY DEF ArchiveInv, ArchiveTypeOK, CommitInv, Latest, Content, ThreadRecord


\* A step of a thread while nobody, or this thread, holds the lock: the invariant
\* of the others is void.
LEMMA Inside ==
  ASSUME ArchiveTypeOK, NEW t \in Threads, NEW r, thr' = [thr EXCEPT ![t] = r],
         locked = {} \/ thr[t].pc \in LockedPcs,
         r.pc = "publish" => known' = r.upto \/ copied' = remote'[r.upto].members,
         r.pc \in {"download", "publish"} =>
           /\ r.upto \in 1 .. Latest'
           /\ \A v \in r.upto + 1 .. Latest' : remote'[v].by = "others"
  PROVE  CommitInv'
<1>1. \A u \in Threads \ {t} : thr'[u].pc \notin LockedPcs
  BY Alone DEF ArchiveTypeOK
<1>2. thr'[t] = r BY DEF ArchiveTypeOK
<1> QED BY <1>1, <1>2 DEF CommitInv, LockedPcs, Content

LEMMA FailedType ==
  ASSUME ArchiveTypeOK, NEW t
  PROVE  Failed(t) \in ThreadRecord /\ Failed(t).pc \notin LockedPcs
BY IdleType DEF Failed, Idle, ThreadRecord, OtherPcs, LockedPcs

LEMMA AcquireInv ==
  ASSUME ArchiveInv, NEW t \in Threads, Acquire(t) PROVE ArchiveInv'
<1> USE DEF ArchiveInv
<1>1. thr[t].pc \notin LockedPcs BY DEF Acquire, LockedPcs
<1>2. CASE Fail(t) /\ UNCHANGED <<locked, known>>
  <2>1. faults' \in Nat BY <1>2 DEF Fail, Faulty, ArchiveTypeOK
  <2> QED
    BY <1>1, <1>2, <2>1, FailedType, Outside DEF Acquire, Fail, mountVars
<1>3. CASE /\ locked' = locked \cup {t}
           /\ known' = IF Outdated THEN Latest ELSE known
           /\ Goto(t, [thr[t] EXCEPT !.upto = Latest,
                         !.pc = IF Outdated THEN "download" ELSE AfterPrepare(t)])
  <2> DEFINE pc == IF Outdated THEN "download" ELSE AfterPrepare(t)
  <2> DEFINE r == [thr[t] EXCEPT !.upto = Latest, !.pc = pc]
  <2>1. Latest \in Nat \ {0} BY LatestType
  <2>2. thr[t] \in ThreadRecord BY DEF ArchiveTypeOK
  <2>3. pc \in LockedPcs BY DEF AfterPrepare, LockedPcs
  <2> HIDE DEF pc
  <2>4. r \in ThreadRecord /\ r.pc = pc /\ r.upto = Latest
    <3>1. Latest \in 0 .. Latest BY <2>1
    <3>2. pc \in LockedPcs \cup WritePcs \cup OtherPcs BY <2>3
    <3> QED BY <3>1, <3>2, <2>2 DEF ThreadRecord
  <2> HIDE DEF r
  <2>5. thr' = [thr EXCEPT ![t] = r] /\ faults' = faults BY <1>3 DEF Goto, r, pc
  <2>6. remote' = remote /\ copied' = copied /\ reader' = reader /\ revs' = revs
    BY DEF Acquire
  <2>7. ThreadRecord' = ThreadRecord /\ Latest' = Latest
    BY <2>6 DEF ThreadRecord, Latest
  <2>8. thr' \in [Threads -> ThreadRecord]' BY <2>4, <2>5, <2>7 DEF ArchiveTypeOK
  <2>9. locked = {} BY DEF Acquire, Lockable
  <2>10. LockOK BY DEF ArchiveTypeOK, LockOK
  <2>11. LockOK' BY <1>3, <2>3, <2>4, <2>5, <2>9, <2>10, LockTaken DEF ArchiveTypeOK
  <2>12. known' \in 1 .. Latest BY <1>3, <2>1 DEF ArchiveTypeOK
  <2>13. ArchiveTypeOK'
    BY <2>5, <2>6, <2>7, <2>8, <2>11, <2>12 DEF ArchiveTypeOK, LockOK
  <2>14. pc = "publish" => known' = Latest
    BY <1>3 DEF Outdated, AfterPrepare, pc
  <2>15. r.upto \in 1 .. Latest' BY <2>1, <2>4, <2>7
  <2>16. \A v \in r.upto + 1 .. Latest' : remote'[v].by = "others"
    BY <2>1, <2>4, <2>7
  <2>17. CommitInv' BY <2>4, <2>5, <2>9, <2>14, <2>15, <2>16, Inside
  <2> QED BY <2>13, <2>17
<1> QED BY <1>2, <1>3 DEF Acquire

LEMMA DownloadInv ==
  ASSUME ArchiveInv, NEW t \in Threads, Download(t) PROVE ArchiveInv'
<1> USE DEF ArchiveInv
<1>1. thr[t].pc \in LockedPcs /\ t \in locked
  BY DEF Download, LockedPcs, ArchiveTypeOK
<1>2. /\ remote' = remote /\ revs' = revs /\ known' = known /\ reader' = reader
  BY DEF Download
<1>3. ThreadRecord' = ThreadRecord /\ Latest' = Latest
  BY <1>2 DEF ThreadRecord, Latest
<1>4. LockOK BY DEF ArchiveTypeOK, LockOK
<1>5. Latest \in Nat \ {0} BY LatestType
<1>6. CASE /\ copied' = Content(Latest)
           /\ Goto(t, [thr[t] EXCEPT !.upto = Latest, !.pc = AfterPrepare(t)])
           /\ UNCHANGED locked
  <2> DEFINE r == [thr[t] EXCEPT !.upto = Latest, !.pc = AfterPrepare(t)]
  <2>1. AfterPrepare(t) \in LockedPcs /\ AfterPrepare(t) # "download"
    BY DEF AfterPrepare, LockedPcs
  <2>2. r \in ThreadRecord /\ r.pc = AfterPrepare(t) /\ r.upto = Latest
    <3>1. Latest \in 0 .. Latest BY <1>5
    <3>2. thr[t] \in ThreadRecord BY DEF ArchiveTypeOK
    <3>3. AfterPrepare(t) \in LockedPcs \cup WritePcs \cup OtherPcs BY <2>1
    <3> QED BY <3>1, <3>2, <3>3 DEF ThreadRecord
  <2> HIDE DEF r
  <2>3. thr' = [thr EXCEPT ![t] = r] /\ faults' = faults BY <1>6 DEF Goto, r
  <2>4. thr' \in [Threads -> ThreadRecord]' BY <1>3, <2>2, <2>3 DEF ArchiveTypeOK
  <2>5. LockOK' BY <1>1, <1>4, <1>6, <2>1, <2>2, <2>3, LockStays DEF ArchiveTypeOK
  <2>6. copied' \in Revisions BY <1>5, <1>6, VersionType
  <2>7. ArchiveTypeOK'
    BY <1>2, <1>3, <2>3, <2>4, <2>5, <2>6 DEF ArchiveTypeOK, LockOK
  <2>8. copied' = remote'[Latest].members BY <1>2, <1>6 DEF Content
  <2>9. r.upto \in 1 .. Latest' BY <1>3, <1>5, <2>2
  <2>10. \A v \in r.upto + 1 .. Latest' : remote'[v].by = "others"
    BY <1>3, <1>5, <2>2
  <2>11. CommitInv' BY <1>1, <2>2, <2>3, <2>8, <2>9, <2>10, Inside
  <2> QED BY <2>7, <2>11
<1>7. CASE Fail(t) /\ locked' = locked \ {t} /\ UNCHANGED copied
  <2>1. faults' \in Nat BY <1>7 DEF Fail, Faulty, ArchiveTypeOK
  <2>2. thr' = [thr EXCEPT ![t] = Failed(t)] BY <1>7 DEF Fail
  <2>3. Failed(t) \in ThreadRecord /\ Failed(t).pc \notin LockedPcs BY FailedType
  <2>4. thr' \in [Threads -> ThreadRecord]' BY <1>3, <2>2, <2>3 DEF ArchiveTypeOK
  <2>5. LockOK' BY <1>1, <1>4, <1>7, <2>2, <2>3, LockLeft DEF ArchiveTypeOK
  <2>6. ArchiveTypeOK'
    BY <1>2, <1>3, <1>7, <2>1, <2>4, <2>5 DEF ArchiveTypeOK, LockOK
  <2>7. CommitInv' BY <1>1, <2>2, <2>3, Inside DEF LockedPcs
  <2> QED BY <2>6, <2>7
<1> QED BY <1>6, <1>7 DEF Download

LEMMA RebuiltType ==
  ASSUME ArchiveTypeOK, NEW t \in Threads PROVE Rebuilt(t) \in Revisions
<1>1. thr[t].data \in Nat BY DEF ArchiveTypeOK, ThreadRecord
<1> QED BY <1>1 DEF Rebuilt, Revisions, ArchiveTypeOK

LEMMA FailLockedType ==
  ASSUME ArchiveTypeOK
  PROVE  LET r == [Idle EXCEPT !.pc = "reopen", !.outcome = "failed"]
         IN  r \in ThreadRecord /\ r.pc = "reopen"
BY IdleType DEF Idle, ThreadRecord, LockedPcs

\* A step inside the lock that goes on to one where nothing is relied upon.
LEMMA LockedStep ==
  ASSUME ArchiveInv, NEW t \in Threads, NEW r, thr[t].pc \in LockedPcs,
         r.pc \in {"record", "reopen"}, r \in ThreadRecord',
         thr' = [thr EXCEPT ![t] = r], faults' \in Nat, locked' = locked,
         remote' \in Seq(Version), remote' # <<>>, ThreadRecord \subseteq ThreadRecord',
         revs' \in Nat, copied' \in Revisions, reader' \in Revisions,
         known' \in 1 .. Latest'
  PROVE  ArchiveInv'
<1> USE DEF ArchiveInv
<1>1. thr' \in [Threads -> ThreadRecord]' BY DEF ArchiveTypeOK
<1>2. LockOK BY DEF ArchiveTypeOK, LockOK
<1>3. r.pc \in LockedPcs BY DEF LockedPcs
<1>4. LockOK' BY <1>2, <1>3, LockStays DEF ArchiveTypeOK
<1>5. ArchiveTypeOK' BY <1>1, <1>4 DEF ArchiveTypeOK, LockOK
<1>6. CommitInv' BY Inside
<1> QED BY <1>5, <1>6

LEMMA PublishInv ==
  ASSUME ArchiveInv, NEW t \in Threads, Publish(t) PROVE ArchiveInv'
<1> USE DEF ArchiveInv
<1>1. thr[t].pc \in LockedPcs BY DEF Publish, LockedPcs
<1>2. revs' = revs /\ known' = known /\ reader' = reader /\ locked' = locked
  BY DEF Publish
<1>3. copied' \in Revisions BY RebuiltType DEF Publish, ArchiveTypeOK
<1>4. known \in 1 .. Latest /\ Latest \in Nat BY LatestType DEF ArchiveTypeOK
<1>5. CASE /\ remote' = Append(remote, [members |-> Rebuilt(t), by |-> "us"])
           /\ Goto(t, [Idle EXCEPT !.pc = "record", !.data = thr[t].data])
  <2> DEFINE r == [Idle EXCEPT !.pc = "record", !.data = thr[t].data]
  <2>1. thr[t].data \in Nat BY DEF ArchiveTypeOK, ThreadRecord
  <2>2. r \in ThreadRecord /\ r.pc = "record"
    BY <2>1, IdleType DEF Idle, ThreadRecord, LockedPcs
  <2> HIDE DEF r
  <2>3. thr' = [thr EXCEPT ![t] = r] /\ faults' = faults BY <1>5 DEF Goto, r
  <2>4. [members |-> Rebuilt(t), by |-> "us"] \in Version
    BY RebuiltType DEF Version
  <2>5. /\ remote' \in Seq(Version) /\ remote' # <<>>
        /\ Latest' = Latest + 1 /\ ThreadRecord \subseteq ThreadRecord'
    BY <1>5, <2>4, Appended
  <2>6. known' \in 1 .. Latest' BY <1>2, <1>4, <2>5
  <2>7. /\ r \in ThreadRecord' /\ faults' \in Nat /\ revs' \in Nat
        /\ reader' \in Revisions
    BY <1>2, <2>2, <2>3, <2>5 DEF ArchiveTypeOK
  <2> QED BY <1>1, <1>2, <1>3, <2>2, <2>3, <2>5, <2>6, <2>7, LockedStep
<1>6. CASE FailLocked(t) /\ UNCHANGED remote
  <2> DEFINE r == [Idle EXCEPT !.pc = "reopen", !.outcome = "failed"]
  <2>1. r \in ThreadRecord /\ r.pc = "reopen" BY FailLockedType
  <2> HIDE DEF r
  <2>2. thr' = [thr EXCEPT ![t] = r] /\ faults' \in Nat
    BY <1>6 DEF FailLocked, Faulty, ArchiveTypeOK, r
  <2>3. ThreadRecord' = ThreadRecord /\ Latest' = Latest
    BY <1>6 DEF ThreadRecord, Latest
  <2> QED
    BY <1>1, <1>2, <1>3, <1>4, <1>6, <2>1, <2>2, <2>3, LockedStep DEF ArchiveTypeOK
<1> QED BY <1>5, <1>6 DEF Publish

LEMMA RecordInv ==
  ASSUME ArchiveInv, NEW t \in Threads, Record(t) PROVE ArchiveInv'
<1> USE DEF ArchiveInv
<1>1. thr[t].pc \in LockedPcs BY DEF Record, LockedPcs
<1>2. /\ remote' = remote /\ revs' = revs /\ copied' = copied
      /\ reader' = reader /\ locked' = locked
  BY DEF Record
<1>3. ThreadRecord' = ThreadRecord /\ Latest' = Latest
  BY <1>2 DEF ThreadRecord, Latest
<1>4. Latest \in Nat \ {0} BY LatestType
<1>5. CASE known' = Latest /\ At(t, "reopen")
  <2> DEFINE r == [thr[t] EXCEPT !.pc = "reopen"]
  <2>1. thr[t] \in ThreadRecord BY DEF ArchiveTypeOK
  <2>2. r \in ThreadRecord /\ r.pc = "reopen"
    BY <2>1 DEF ThreadRecord, LockedPcs
  <2> HIDE DEF r
  <2>3. thr' = [thr EXCEPT ![t] = r] /\ faults' = faults BY <1>5 DEF At, Goto, r
  <2>4. known' \in 1 .. Latest' BY <1>3, <1>4, <1>5
  <2> QED BY <1>1, <1>2, <1>3, <2>2, <2>3, <2>4, LockedStep DEF ArchiveTypeOK
<1>6. CASE FailLocked(t) /\ UNCHANGED known
  <2> DEFINE r == [Idle EXCEPT !.pc = "reopen", !.outcome = "failed"]
  <2>1. r \in ThreadRecord /\ r.pc = "reopen" BY FailLockedType
  <2> HIDE DEF r
  <2>2. thr' = [thr EXCEPT ![t] = r] /\ faults' \in Nat
    BY <1>6 DEF FailLocked, Faulty, ArchiveTypeOK, r
  <2> QED BY <1>1, <1>2, <1>3, <1>6, <2>1, <2>2, LockedStep DEF ArchiveTypeOK
<1> QED BY <1>5, <1>6 DEF Record

LEMMA ReopenInv ==
  ASSUME ArchiveInv, NEW t \in Threads, Reopen(t) PROVE ArchiveInv'
<1> USE DEF ArchiveInv
<1>1. thr[t].pc \in LockedPcs /\ t \in locked
  BY DEF Reopen, LockedPcs, ArchiveTypeOK
<1>2. /\ remote' = remote /\ revs' = revs /\ copied' = copied /\ known' = known
      /\ locked' = locked \ {t}
  BY DEF Reopen
<1>3. ThreadRecord' = ThreadRecord /\ Latest' = Latest
  BY <1>2 DEF ThreadRecord, Latest
<1>4. PICK r \in ThreadRecord :
        /\ r.pc \notin LockedPcs
        /\ thr' = [thr EXCEPT ![t] = r] /\ faults' \in Nat
  <2>1. CASE Fail(t)
    <3>1. Failed(t) \in ThreadRecord /\ Failed(t).pc \notin LockedPcs BY FailedType
    <3>2. faults' \in Nat BY <2>1 DEF Fail, Faulty, ArchiveTypeOK
    <3> QED BY <2>1, <3>1, <3>2 DEF Fail
  <2>2. CASE Goto(t, Idle)
    BY <2>2, IdleType DEF Goto, Idle, LockedPcs, ArchiveTypeOK
  <2>3. CASE Goto(t, Failed(t))
    BY <2>3, FailedType DEF Goto, ArchiveTypeOK
  <2>4. CASE Goto(t, [Idle EXCEPT !.pc = "stamp", !.data = thr[t].data])
    <3> DEFINE r == [Idle EXCEPT !.pc = "stamp", !.data = thr[t].data]
    <3>1. thr[t].data \in Nat BY DEF ArchiveTypeOK, ThreadRecord
    <3>2. r \in ThreadRecord /\ r.pc = "stamp"
      BY <3>1, IdleType DEF Idle, ThreadRecord, WritePcs
    <3> HIDE DEF r
    <3> QED BY <2>4, <3>2 DEF Goto, r, LockedPcs, ArchiveTypeOK
  <2> QED BY <2>1, <2>2, <2>3, <2>4 DEF Reopen
<1>5. LockOK BY DEF ArchiveTypeOK, LockOK
<1>6. LockOK' BY <1>1, <1>2, <1>4, <1>5, LockLeft DEF ArchiveTypeOK
<1>7. reader' \in Revisions BY DEF Reopen, ArchiveTypeOK
<1>8. thr' \in [Threads -> ThreadRecord]' BY <1>3, <1>4 DEF ArchiveTypeOK
<1>9. ArchiveTypeOK'
  BY <1>2, <1>3, <1>4, <1>6, <1>7, <1>8 DEF ArchiveTypeOK, LockOK
<1>10. CommitInv' BY <1>1, <1>4, Inside DEF LockedPcs
<1> QED BY <1>9, <1>10

LEMMA OthersInv == ASSUME ArchiveInv, OthersWrite PROVE ArchiveInv'
<1> USE DEF ArchiveInv
<1>1. PICK x : x \in Version /\ x.by = "others" /\ remote' = Append(remote, x)
  <2>1. PICK ms \in SUBSET Members :
          remote' = Append(remote,
            [members |-> [m \in Members |-> IF m \in ms THEN revs + 1
                                            ELSE Content(Latest)[m]],
             by |-> "others"])
    BY DEF OthersWrite
  <2>2. Latest \in 1 .. Latest BY LatestType
  <2>3. Content(Latest) \in Revisions BY <2>2, VersionType
  <2>4. [m \in Members |-> IF m \in ms THEN revs + 1 ELSE Content(Latest)[m]]
          \in Revisions
    BY <2>3 DEF Revisions, ArchiveTypeOK
  <2> QED BY <2>1, <2>4 DEF Version
<1>2. /\ copied' = copied /\ known' = known /\ reader' = reader /\ locked' = locked
      /\ thr' = thr /\ faults' = faults /\ revs' = revs + 1
  BY DEF OthersWrite
<1>3. /\ remote' \in Seq(Version) /\ remote' # <<>>
      /\ Latest' = Latest + 1 /\ remote'[Latest + 1] = x
      /\ \A v \in 1 .. Latest : remote'[v] = remote[v]
      /\ ThreadRecord \subseteq ThreadRecord'
  BY <1>1, Appended
<1>4. Latest \in Nat BY LatestType
<1>5. known' \in 1 .. Latest' BY <1>2, <1>3, <1>4 DEF ArchiveTypeOK
<1>6. thr' \in [Threads -> ThreadRecord]' BY <1>2, <1>3 DEF ArchiveTypeOK
<1>7. ArchiveTypeOK' BY <1>2, <1>3, <1>5, <1>6 DEF ArchiveTypeOK
<1>8. ASSUME NEW t \in Threads, thr[t].pc \in {"download", "publish"}
      PROVE  /\ thr[t].upto \in 1 .. Latest'
             /\ \A v \in thr[t].upto + 1 .. Latest' : remote'[v].by = "others"
             /\ Content(thr[t].upto)' = Content(thr'[t].upto)
  <2>1. /\ thr[t].upto \in 1 .. Latest
        /\ \A v \in thr[t].upto + 1 .. Latest : remote[v].by = "others"
    BY <1>8 DEF CommitInv
  <2>2. \A v \in thr[t].upto + 1 .. Latest' : v \in 1 .. Latest \/ v = Latest + 1
    BY <1>3, <1>4, <2>1
  <2>3. ASSUME NEW v \in thr[t].upto + 1 .. Latest' PROVE remote'[v].by = "others"
    <3>1. CASE v \in 1 .. Latest
      BY <1>3, <1>4, <2>1, <3>1
    <3>2. CASE v = Latest + 1 BY <1>1, <1>3, <3>2
    <3> QED BY <2>2, <3>1, <3>2
  <2> QED BY <1>2, <1>3, <1>4, <2>1, <2>3 DEF Content
<1>9. CommitInv' BY <1>2, <1>3, <1>8 DEF CommitInv, Content
<1> QED BY <1>7, <1>9

LEMMA ArchiveStepInv ==
  ASSUME ArchiveInv, NEW t \in Threads, ArchiveStep(t) PROVE ArchiveInv'
BY AcquireInv, DownloadInv, PublishInv, RecordInv, ReopenInv DEF ArchiveStep

-------------------------------------------------------------------------------
\* The copies of the members.  Every step of theirs is outside of the lock.

Quiet == {"idle", "check", "askSync", "decide", "askOpen", "start", "fetch", "done",
          "rebase", "rebasePut", "lock", "stamp"}

LEMMA QuietIsOutside ==
  Quiet \subseteq LockedPcs \cup WritePcs \cup OtherPcs /\ Quiet \cap LockedPcs = {}
BY DEF Quiet, LockedPcs, WritePcs, OtherPcs

\* A step of a thread of a member, with the record that it leaves.
Moves(t, r) ==
  /\ thr[t].pc \in Quiet /\ r.pc \in Quiet /\ r \in ThreadRecord
  /\ thr' = [thr EXCEPT ![t] = r] /\ faults' \in Nat

LEMMA MovesInv ==
  ASSUME ArchiveInv, NEW t \in Threads, NEW r, Moves(t, r), UNCHANGED mountVars
  PROVE  ArchiveInv'
BY QuietIsOutside, Outside DEF Moves

LEMMA FailMoves ==
  ASSUME ArchiveTypeOK, NEW t, thr[t].pc \in Quiet, Fail(t)
  PROVE  \E r : Moves(t, r)
<1>1. Failed(t) \in ThreadRecord BY FailedType
<1>2. Failed(t).pc \in Quiet BY DEF Failed, Idle, Quiet
<1>3. faults' \in Nat BY DEF Fail, Faulty, ArchiveTypeOK
<1> QED BY <1>1, <1>2, <1>3 DEF Moves, Fail

LEMMA FinishMoves ==
  ASSUME ArchiveTypeOK, NEW t, thr[t].pc \in Quiet,
         NEW o \in {"ok", "conflict", "declined"}, Finish(t, o)
  PROVE  \E r : Moves(t, r)
<1> DEFINE r == [Idle EXCEPT !.pc = "done", !.outcome = o]
<1>1. r \in ThreadRecord /\ r.pc = "done"
  BY IdleType DEF Idle, ThreadRecord, OtherPcs
<1> HIDE DEF r
<1>2. Moves(t, r) BY <1>1 DEF Moves, Finish, Goto, Quiet, ArchiveTypeOK, r
<1> QED BY <1>2

LEMMA AtMoves ==
  ASSUME ArchiveTypeOK, NEW t \in Threads, thr[t].pc \in Quiet,
         NEW p \in Quiet, At(t, p)
  PROVE  \E r : Moves(t, r)
<1> DEFINE r == [thr[t] EXCEPT !.pc = p]
<1>1. thr[t] \in ThreadRecord BY DEF ArchiveTypeOK
<1>2. r \in ThreadRecord /\ r.pc = p
  BY <1>1, QuietIsOutside DEF ThreadRecord
<1> HIDE DEF r
<1>3. Moves(t, r) BY <1>2 DEF Moves, At, Goto, ArchiveTypeOK, r
<1> QED BY <1>3

LEMMA EnterMoves ==
  ASSUME ArchiveTypeOK, CopiesTypeOK, NEW t \in Threads, Member(t) \in Members,
         thr[t].pc \in Quiet, NEW c \in BOOLEAN, EnterWriteBack(t, c)
  PROVE  \E r : Moves(t, r)
<1> DEFINE ver == IF c THEN 0 ELSE Latest
<1> DEFINE doubt == IF c THEN "level" ELSE Doubt(Member(t))
<1> DEFINE r == [Idle EXCEPT !.pc = "lock", !.consent = c, !.data = local[Member(t)],
                             !.ver = ver, !.doubt = doubt]
<1>1. ver \in 0 .. Latest BY LatestType
<1>2. doubt \in {"level", "behind", "ahead", "torn", "unread"} BY DEF Doubt, CopiesTypeOK
<1>3. local[Member(t)] \in Nat BY DEF CopiesTypeOK, Revisions
<1>4. thr' = [thr EXCEPT ![t] = r] /\ faults' = faults BY DEF EnterWriteBack, Goto
<1> HIDE DEF ver, doubt
<1>5. r \in ThreadRecord /\ r.pc = "lock"
  BY <1>1, <1>2, <1>3, IdleType DEF Idle, ThreadRecord, WritePcs
<1> HIDE DEF r
<1>6. Moves(t, r) BY <1>4, <1>5 DEF Moves, Quiet, ArchiveTypeOK
<1> QED BY <1>6

LEMMA IdleMoves ==
  ASSUME ArchiveTypeOK, NEW t, thr[t].pc \in Quiet, Goto(t, Idle)
  PROVE  \E r : Moves(t, r)
BY IdleType DEF Moves, Goto, Idle, Quiet, ArchiveTypeOK

\* A new job of a thread, at its first step.
LEMMA BeginMoves ==
  ASSUME ArchiveTypeOK, NEW t, thr[t].pc \in Quiet, NEW p \in Quiet,
         NEW c \in BOOLEAN, Goto(t, [Idle EXCEPT !.pc = p, !.consent = c])
  PROVE  \E r : Moves(t, r)
<1> DEFINE r == [Idle EXCEPT !.pc = p, !.consent = c]
<1>1. r \in ThreadRecord /\ r.pc = p
  BY IdleType, QuietIsOutside DEF Idle, ThreadRecord
<1> HIDE DEF r
<1>2. Moves(t, r) BY <1>1 DEF Moves, Goto, ArchiveTypeOK, r
<1> QED BY <1>2

LEMMA StartMoves ==
  ASSUME ArchiveTypeOK, NEW t, thr[t].pc \in Quiet, NEW p \in Quiet,
         Goto(t, [Idle EXCEPT !.pc = p])
  PROVE  \E r : Moves(t, r)
<1> DEFINE r == [Idle EXCEPT !.pc = p]
<1>1. r \in ThreadRecord /\ r.pc = p
  BY IdleType, QuietIsOutside DEF Idle, ThreadRecord
<1> HIDE DEF r
<1>2. Moves(t, r) BY <1>1 DEF Moves, Goto, ArchiveTypeOK, r
<1> QED BY <1>2

MovesSome == \E t \in Threads : \E r : Moves(t, r)

LEMMA OfMember ==
  ASSUME NEW m \in Members
  PROVE  /\ Sync(m) \in Threads /\ Open(m) \in Threads
         /\ Member(Sync(m)) = m /\ Member(Open(m)) = m
BY DEF Sync, Open, Threads, Member

\* Nothing of the copies changes; versions may be added.
LEMMA CopiesStay ==
  ASSUME ArchiveTypeOK, CopiesTypeOK, Latest' \in Nat, Latest' >= Latest,
         basis' \in Revisions, events' \in Nat,
         UNCHANGED <<local, base, shown, made, entryVars>>
  PROVE  CopiesTypeOK'
<1>1. 0 .. Latest \subseteq 0 .. Latest' BY LatestType
<1>2. /\ base' \in [Members -> [own : Nat, ver : 0 .. Latest', digest : Nat]]
      /\ made' \in [Members -> 0 .. Latest']
  BY <1>1 DEF CopiesTypeOK
<1> QED BY <1>2 DEF CopiesTypeOK, entryVars, Revisions

LEMMA CommitStep ==
  ASSUME ArchiveInv, CopiesTypeOK, NEW t \in Threads, Commit(t)
  PROVE  ArchiveInv' /\ CopiesTypeOK'
<1> USE DEF ArchiveInv
<1>1. ArchiveInv' BY ArchiveStepInv DEF Commit
<1>2. Latest' \in Nat /\ Latest' >= Latest
  <2>1. CASE remote' = remote BY <2>1, LatestType DEF Latest
  <2>2. CASE remote' = Append(remote, [members |-> Rebuilt(t), by |-> "us"])
    <3>1. [members |-> Rebuilt(t), by |-> "us"] \in Version
      BY RebuiltType DEF Version
    <3> QED BY <2>2, <3>1, Appended, LatestType
  <2> QED
    BY <2>1, <2>2 DEF Commit, ArchiveStep, Acquire, Download, Publish, Record, Reopen
<1>3. basis' \in Revisions
  <2>1. thr[t].data \in Nat BY DEF ArchiveTypeOK, ThreadRecord
  <2> QED BY <2>1 DEF Commit, CopiesTypeOK, Revisions
<1>4. events' \in Nat BY DEF Commit, CopiesTypeOK
<1>5. UNCHANGED <<local, base, shown, made, entryVars>> BY DEF Commit
<1> QED BY <1>1, <1>2, <1>3, <1>4, <1>5, CopiesStay

\* Steps of a job that leave the copies alone.
LEMMA JobStep ==
  ASSUME ArchiveTypeOK, CopiesTypeOK, NEW m \in Members,
         Check(m) \/ AnswerSync(m) \/ Decide(m) \/ AnswerOpen(m)
  PROVE  MovesSome /\ UNCHANGED mountVars /\ CopiesTypeOK'
<1>1. /\ Sync(m) \in Threads /\ Open(m) \in Threads
      /\ Member(Sync(m)) = m /\ Member(Open(m)) = m
  BY OfMember
<1>2. UNCHANGED <<mountVars, copyVars, entryVars, events>>
  BY DEF Check, AnswerSync, Decide, AnswerOpen
<1>3. Latest' = Latest BY <1>2 DEF mountVars, Latest
<1>4. CopiesTypeOK'
  BY <1>2, <1>3, CopiesStay, LatestType DEF copyVars, CopiesTypeOK
<1>5. ASSUME Check(m) PROVE MovesSome
  <2> DEFINE t == Sync(m)
  <2>1. t \in Threads /\ Member(t) \in Members BY <1>1
  <2>2. thr[t].pc \in Quiet BY <1>5 DEF Check, Quiet
  <2>3. "askSync" \in Quiet /\ thr[t].consent \in BOOLEAN
    BY <2>1 DEF Quiet, ArchiveTypeOK, ThreadRecord
  <2>5. CASE EnterWriteBack(t, thr[t].consent) BY <2>1, <2>2, <2>3, <2>5, EnterMoves DEF MovesSome
  <2>6. CASE At(t, "askSync") BY <2>1, <2>2, <2>3, <2>6, AtMoves DEF MovesSome
  <2>7. CASE Fail(t) BY <2>1, <2>2, <2>7, FailMoves DEF MovesSome
  <2> QED BY <1>5, <2>5, <2>6, <2>7 DEF Check
<1>6. ASSUME AnswerSync(m) PROVE MovesSome
  <2> DEFINE t == Sync(m)
  <2>1. t \in Threads /\ Member(t) \in Members BY <1>1
  <2>2. thr[t].pc \in Quiet BY <1>6 DEF AnswerSync, Quiet
  <2>3. CASE EnterWriteBack(t, TRUE) BY <2>1, <2>2, <2>3, EnterMoves DEF MovesSome
  <2>4. CASE Finish(t, "conflict") BY <2>1, <2>2, <2>4, FinishMoves DEF MovesSome
  <2> QED BY <1>6, <2>3, <2>4 DEF AnswerSync
<1>7. ASSUME Decide(m) PROVE MovesSome
  <2> DEFINE t == Open(m)
  <2>1. t \in Threads /\ Member(t) \in Members BY <1>1
  <2>2. thr[t].pc \in Quiet BY <1>7 DEF Decide, Quiet
  <2>3. "askOpen" \in Quiet /\ "start" \in Quiet BY DEF Quiet
  <2>4. CASE At(t, "askOpen") BY <2>1, <2>2, <2>3, <2>4, AtMoves DEF MovesSome
  <2>5. CASE At(t, "start") BY <2>1, <2>2, <2>3, <2>5, AtMoves DEF MovesSome
  <2>6. CASE Finish(t, "ok") BY <2>1, <2>2, <2>6, FinishMoves DEF MovesSome
  <2>7. CASE Fail(t) BY <2>1, <2>2, <2>7, FailMoves DEF MovesSome
  <2> QED BY <1>7, <2>4, <2>5, <2>6, <2>7 DEF Decide
<1>8. ASSUME AnswerOpen(m) PROVE MovesSome
  <2> DEFINE t == Open(m)
  <2>1. t \in Threads /\ Member(t) \in Members BY <1>1
  <2>2. thr[t].pc \in Quiet BY <1>8 DEF AnswerOpen, Quiet
  <2>3. "start" \in Quiet BY DEF Quiet
  <2>4. CASE EnterWriteBack(t, TRUE) BY <2>1, <2>2, <2>3, <2>4, EnterMoves DEF MovesSome
  <2>5. CASE At(t, "start") BY <2>1, <2>2, <2>3, <2>5, AtMoves DEF MovesSome
  <2>6. CASE Finish(t, "declined") BY <2>1, <2>2, <2>6, FinishMoves DEF MovesSome
  <2> QED BY <1>8, <2>4, <2>5, <2>6 DEF AnswerOpen
<1> QED BY <1>2, <1>4, <1>5, <1>6, <1>7, <1>8

LEMMA StampStep ==
  ASSUME ArchiveTypeOK, CopiesTypeOK, NEW t \in Threads \ {MountThread}, Stamp(t)
  PROVE  MovesSome /\ UNCHANGED mountVars /\ CopiesTypeOK'
<1>1. thr[t].pc \in Quiet BY DEF Stamp, Quiet
<1>2. MovesSome BY <1>1, FinishMoves, FailMoves DEF Stamp, MovesSome
<1>3. UNCHANGED mountVars /\ Latest' = Latest BY DEF Stamp, mountVars, Latest
<1>4. Latest \in 0 .. Latest BY LatestType
<1>5. Member(t) \in Members BY DEF Threads, MountThread, Member
<1>6. reader[Member(t)] \in Nat BY <1>5 DEF ArchiveTypeOK, Revisions
<1>7. Written(t) \in Nat BY DEF Written, ArchiveTypeOK, ThreadRecord
<1>8. base' \in [Members -> [own : Nat, ver : 0 .. Latest, digest : Nat]]
  BY <1>4, <1>6, <1>7 DEF Stamp, CopiesTypeOK
<1>9. basis' \in Revisions /\ shown' \in [Members -> {"level", "behind", "ahead"}]
  BY <1>6 DEF Stamp, CopiesTypeOK, Revisions
<1>10. CopiesTypeOK'
  BY <1>3, <1>8, <1>9 DEF Stamp, CopiesTypeOK, entryVars, Revisions
<1> QED BY <1>2, <1>3, <1>10

LEMMA StartDownloadStep ==
  ASSUME ArchiveTypeOK, CopiesTypeOK, NEW m \in Members, StartDownload(m)
  PROVE  MovesSome /\ UNCHANGED mountVars /\ CopiesTypeOK'
<1>1. Open(m) \in Threads /\ thr[Open(m)].pc \in Quiet
  BY OfMember DEF StartDownload, Quiet
<1>2. "fetch" \in Quiet BY DEF Quiet
<1>3. MovesSome BY <1>1, <1>2, AtMoves, FailMoves DEF StartDownload, MovesSome
<1>4. UNCHANGED mountVars /\ Latest' = Latest BY DEF StartDownload, mountVars, Latest
<1>5. Latest \in 0 .. Latest BY LatestType
<1>6. reader[m] \in Nat BY DEF ArchiveTypeOK, Revisions
<1>7. base' \in [Members -> [own : Nat, ver : 0 .. Latest, digest : Nat]]
  BY <1>5, <1>6 DEF StartDownload, CopiesTypeOK, NoDigest
<1>8. made' \in [Members -> 0 .. Latest]
  BY <1>5 DEF StartDownload, CopiesTypeOK
<1>9. CopiesTypeOK'
  BY <1>4, <1>7, <1>8 DEF StartDownload, CopiesTypeOK, entryVars, Revisions
<1> QED BY <1>3, <1>4, <1>9

LEMMA FetchStep ==
  ASSUME ArchiveTypeOK, CopiesTypeOK, NEW m \in Members, Fetch(m)
  PROVE  MovesSome /\ UNCHANGED mountVars /\ CopiesTypeOK'
<1>1. Open(m) \in Threads /\ thr[Open(m)].pc \in Quiet
  BY OfMember DEF Fetch, Quiet
<1>2. MovesSome BY <1>1, FinishMoves, FailMoves DEF Fetch, MovesSome
<1>3. UNCHANGED mountVars /\ Latest' = Latest BY DEF Fetch, mountVars, Latest
<1>4. reader[m] \in Nat BY DEF ArchiveTypeOK, Revisions
<1>5. base' \in [Members -> [own : Nat, ver : 0 .. Latest, digest : Nat]]
  BY <1>4 DEF Fetch, CopiesTypeOK
<1>6. local' \in Revisions /\ basis' \in Revisions
  BY <1>4 DEF Fetch, CopiesTypeOK, Revisions
<1>7. shown' \in [Members -> {"level", "behind", "ahead"}]
  <2>1. Showing(m) \in {"level", "behind", "ahead"} BY DEF Showing
  <2> QED BY <2>1 DEF Fetch, CopiesTypeOK
<1>8. CopiesTypeOK'
  BY <1>3, <1>5, <1>6, <1>7 DEF Fetch, CopiesTypeOK, entryVars, Revisions
<1> QED BY <1>2, <1>3, <1>8

-------------------------------------------------------------------------------
\* The manager and the user.

Statuses == {"closed", "synced", "modified", "syncing", "failed", "conflict"}

\* Only the entries change.
LEMMA EntriesType ==
  ASSUME ArchiveTypeOK, CopiesTypeOK, UNCHANGED <<mountVars, copyVars>>,
         status' \in [Members -> Statuses], queued' \in [Members -> BOOLEAN],
         marked' \in [Members -> BOOLEAN], detBase' \in [Members -> Nat],
         events' \in Nat
  PROVE  CopiesTypeOK'
<1>1. Latest' = Latest BY DEF mountVars, Latest
<1> QED BY <1>1 DEF CopiesTypeOK, copyVars, Statuses, Revisions

\* What a step outside of the lock gives.
QuietStep ==
  /\ MovesSome \/ UNCHANGED <<thr, faults>>
  /\ UNCHANGED mountVars
  /\ CopiesTypeOK'

LEMMA EntryTypes ==
  ASSUME CopiesTypeOK
  PROVE  /\ status \in [Members -> Statuses] /\ queued \in [Members -> BOOLEAN]
         /\ marked \in [Members -> BOOLEAN] /\ detBase \in [Members -> Nat]
         /\ events \in Nat
BY DEF CopiesTypeOK, Statuses

LEMMA OpenMemberStep ==
  ASSUME ArchiveTypeOK, CopiesTypeOK, NEW m \in Members, OpenMember(m)
  PROVE  QuietStep
<1> DEFINE p == IF status[m] = "closed" THEN "start" ELSE "decide"
<1>1. thr[Open(m)].pc \in Quiet BY DEF OpenMember, Opening, Quiet
<1>2. p \in Quiet BY DEF Quiet
<1>3. Goto(Open(m), [Idle EXCEPT !.pc = p]) BY DEF OpenMember
<1> HIDE DEF p
<1>4. MovesSome BY <1>1, <1>2, <1>3, StartMoves, OfMember DEF MovesSome
<1>5. UNCHANGED <<mountVars, copyVars, entryVars>> BY DEF OpenMember
<1>6. events' \in Nat BY DEF OpenMember, Counted, CopiesTypeOK
<1>7. CopiesTypeOK' BY <1>5, <1>6, EntryTypes, EntriesType DEF entryVars
<1> QED BY <1>4, <1>5, <1>7 DEF QuietStep

LEMMA OpenDoneStep ==
  ASSUME ArchiveTypeOK, CopiesTypeOK, NEW m \in Members, OpenDone(m)
  PROVE  QuietStep
<1>1. thr[Open(m)].pc \in Quiet BY DEF OpenDone, Quiet
<1>2. MovesSome BY <1>1, IdleMoves, OfMember DEF OpenDone, MovesSome
<1>3. UNCHANGED <<mountVars, copyVars, queued, marked, events>> BY DEF OpenDone
<1>4. base[m].digest \in Nat BY DEF CopiesTypeOK
<1>5. status' \in [Members -> Statuses] /\ detBase' \in [Members -> Nat]
  BY <1>4, EntryTypes DEF OpenDone, Statuses
<1>6. CopiesTypeOK' BY <1>3, <1>5, EntryTypes, EntriesType
<1> QED BY <1>2, <1>3, <1>6 DEF QuietStep

LEMMA SaveStep ==
  ASSUME ArchiveInv, CopiesTypeOK, NEW m \in Members, Save(m)
  PROVE  ArchiveInv' /\ CopiesTypeOK'
<1>1. revs \in Nat BY DEF ArchiveInv, ArchiveTypeOK
<1>2. ArchiveInv' BY <1>1, NoThread DEF Save
<1>3. Latest' = Latest BY DEF Save, Latest
<1>4. local' \in Revisions /\ marked' \in [Members -> BOOLEAN] /\ events' \in Nat
  BY <1>1 DEF Save, Counted, CopiesTypeOK, Revisions
<1>5. CopiesTypeOK' BY <1>3, <1>4 DEF Save, CopiesTypeOK, Revisions
<1> QED BY <1>2, <1>5

LEMMA StartSyncStep ==
  ASSUME ArchiveTypeOK, CopiesTypeOK, NEW m \in Members, NEW f \in BOOLEAN,
         StartSync(m, f)
  PROVE  /\ MovesSome
         /\ status' \in [Members -> Statuses] /\ queued' \in [Members -> BOOLEAN]
<1>1. thr[Sync(m)].pc \in Quiet BY DEF StartSync, Running, Quiet
<1>2. "check" \in Quiet BY DEF Quiet
<1>3. MovesSome
  BY <1>1, <1>2, BeginMoves, OfMember DEF StartSync, MovesSome
<1> QED BY <1>3, EntryTypes DEF StartSync, Statuses

LEMMA ReportStep ==
  ASSUME ArchiveTypeOK, CopiesTypeOK, NEW m \in Members, Report(m)
  PROVE  QuietStep
<1>1. UNCHANGED <<mountVars, copyVars, events>> BY DEF Report
<1>2. local[m] \in Nat BY DEF CopiesTypeOK, Revisions
<1>3. marked' \in [Members -> BOOLEAN] /\ detBase' \in [Members -> Nat]
  BY <1>2, EntryTypes DEF Report
<1>4. /\ MovesSome \/ UNCHANGED <<thr, faults>>
      /\ status' \in [Members -> Statuses] /\ queued' \in [Members -> BOOLEAN]
  <2>1. CASE UNCHANGED <<thr, faults, status, queued>> BY <2>1, EntryTypes
  <2>2. CASE StartSync(m, FALSE) BY <2>2, StartSyncStep
  <2>3. CASE /\ QueueSync(m)
             /\ status' = [status EXCEPT ![m] = IF @ = "syncing" THEN @ ELSE "modified"]
    BY <2>3, EntryTypes DEF QueueSync, Statuses
  <2> QED BY <2>1, <2>2, <2>3 DEF Report
<1>5. CopiesTypeOK' BY <1>1, <1>3, <1>4, EntryTypes, EntriesType
<1> QED BY <1>1, <1>4, <1>5 DEF QuietStep

LEMMA SyncNowStep ==
  ASSUME ArchiveTypeOK, CopiesTypeOK, NEW m \in Members, SyncNow(m)
  PROVE  QuietStep
<1> DEFINE f == status[m] = "conflict"
<1>1. f \in BOOLEAN OBVIOUS
<1>2. StartSync(m, f) \/ (QueueSync(m) /\ UNCHANGED status)
  <2>1. CASE StartSync(m, status[m] = "conflict") BY <2>1
  <2>2. CASE QueueSync(m) /\ UNCHANGED status BY <2>2
  <2> HIDE DEF f
  <2> QED BY <2>1, <2>2 DEF SyncNow
<1> HIDE DEF f
<1>3. /\ MovesSome \/ UNCHANGED <<thr, faults>>
      /\ status' \in [Members -> Statuses] /\ queued' \in [Members -> BOOLEAN]
  <2>1. CASE StartSync(m, f) BY <1>1, <2>1, StartSyncStep
  <2>2. CASE QueueSync(m) /\ UNCHANGED status BY <2>2, EntryTypes DEF QueueSync
  <2> QED BY <1>2, <2>1, <2>2
<1>4. UNCHANGED <<mountVars, copyVars, marked, detBase>> BY DEF SyncNow
<1>5. events' \in Nat BY DEF SyncNow, Counted, CopiesTypeOK
<1>6. CopiesTypeOK' BY <1>3, <1>4, <1>5, EntryTypes, EntriesType
<1> QED BY <1>3, <1>4, <1>6 DEF QuietStep

LEMMA AgainStep ==
  ASSUME ArchiveTypeOK, CopiesTypeOK, NEW m \in Members, NEW r, Again(m, r),
         thr[Sync(m)].pc \in Quiet
  PROVE  /\ MovesSome
         /\ status' \in [Members -> Statuses] /\ queued' \in [Members -> BOOLEAN]
<1>1. CASE queued[m]
  <2>1. Goto(Sync(m), [Idle EXCEPT !.pc = "check"]) BY <1>1 DEF Again
  <2>2. "check" \in Quiet BY DEF Quiet
  <2>3. MovesSome BY <2>1, <2>2, StartMoves, OfMember DEF MovesSome
  <2> QED BY <1>1, <2>3, EntryTypes DEF Again, Statuses
<1>2. CASE ~queued[m]
  <2>1. MovesSome BY <1>2, IdleMoves, OfMember DEF Again, MovesSome
  <2> QED BY <1>2, <2>1, EntryTypes DEF Again, Statuses
<1> QED BY <1>1, <1>2

LEMMA SyncDoneStep ==
  ASSUME ArchiveTypeOK, CopiesTypeOK, NEW m \in Members, SyncDone(m)
  PROVE  QuietStep
<1> DEFINE t == Sync(m)
<1>1. t \in Threads /\ thr[t].pc \in Quiet BY OfMember DEF SyncDone, Quiet
<1>2. UNCHANGED <<mountVars, copyVars, marked, events>> BY DEF SyncDone
<1>3. base[m].digest \in Nat BY DEF CopiesTypeOK
<1>4. detBase' \in [Members -> Nat] BY <1>3, EntryTypes DEF SyncDone
<1>5. /\ MovesSome
      /\ status' \in [Members -> Statuses] /\ queued' \in [Members -> BOOLEAN]
  <2>1. CASE thr[t].outcome = "conflict"
    <3>1. MovesSome BY <1>1, <2>1, IdleMoves DEF SyncDone, MovesSome
    <3> QED BY <2>1, <3>1, EntryTypes DEF SyncDone, Statuses
  <2>2. CASE thr[t].outcome = "ok"
    <3> DEFINE r == [thr[t] EXCEPT !.pc = "rebase", !.todo = Siblings(m)]
    <3>1. thr[t] \in ThreadRecord BY <1>1 DEF ArchiveTypeOK
    <3>2. Siblings(m) \in SUBSET Members BY DEF Siblings
    <3>3. "rebase" \in LockedPcs \cup WritePcs \cup OtherPcs BY DEF OtherPcs
    <3>4. r \in ThreadRecord /\ r.pc = "rebase"
      BY <3>1, <3>2, <3>3 DEF ThreadRecord
    <3>5. Goto(t, r) BY <2>2 DEF SyncDone
    <3> HIDE DEF r
    <3>6. Moves(t, r) BY <1>1, <3>4, <3>5 DEF Moves, Goto, Quiet, ArchiveTypeOK
    <3>7. MovesSome BY <1>1, <3>6 DEF MovesSome
    <3> QED BY <2>2, <3>7, EntryTypes DEF SyncDone
  <2>3. CASE Again(m, "failed") BY <1>1, <2>3, AgainStep
  <2> QED BY <2>1, <2>2, <2>3 DEF SyncDone
<1>6. CopiesTypeOK' BY <1>2, <1>4, <1>5, EntryTypes, EntriesType
<1> QED BY <1>2, <1>5, <1>6 DEF QuietStep

LEMMA RebaseSiblingStep ==
  ASSUME ArchiveTypeOK, CopiesTypeOK, NEW m \in Members, RebaseSibling(m)
  PROVE  QuietStep
<1> DEFINE t == Sync(m)
<1>1. /\ t \in Threads /\ thr[t].pc \in Quiet /\ thr[t] \in ThreadRecord
      /\ thr[t].todo \in SUBSET Members
  BY OfMember DEF RebaseSibling, Quiet, ArchiveTypeOK, ThreadRecord
<1>2. UNCHANGED <<mountVars, copyVars, entryVars, events>> BY DEF RebaseSibling
<1>3. CopiesTypeOK' BY <1>2, EntryTypes, EntriesType DEF entryVars
<1>4. PICK n \in thr[t].todo :
        \/ Goto(t, [thr[t] EXCEPT !.pc = "rebasePut",
                      !.found = [who |-> n, own |-> reader[n], ver |-> Latest]])
        \/ Goto(t, [thr[t] EXCEPT !.todo = @ \ {n}])
        \/ Faulty /\ thr' = [thr EXCEPT ![t].todo = @ \ {n}]
  BY DEF RebaseSibling
<1>5. CASE Goto(t, [thr[t] EXCEPT !.pc = "rebasePut",
                      !.found = [who |-> n, own |-> reader[n], ver |-> Latest]])
  <2> DEFINE f == [who |-> n, own |-> reader[n], ver |-> Latest]
  <2> DEFINE r == [thr[t] EXCEPT !.pc = "rebasePut", !.found = f]
  <2>1. reader[n] \in Nat BY <1>1 DEF ArchiveTypeOK, Revisions
  <2>2. Latest \in 0 .. Latest BY LatestType
  <2>3. f \in [who : Members \cup {Mount}, own : Nat, ver : 0 .. Latest]
    BY <1>1, <2>1, <2>2
  <2>4. Goto(t, r) BY <1>5
  <2> HIDE DEF f
  <2>5. "rebasePut" \in LockedPcs \cup WritePcs \cup OtherPcs BY DEF OtherPcs
  <2>6. r \in ThreadRecord /\ r.pc = "rebasePut"
    BY <1>1, <2>3, <2>5 DEF ThreadRecord
  <2> HIDE DEF r
  <2>7. Moves(t, r) BY <1>1, <2>4, <2>6 DEF Moves, Goto, Quiet, ArchiveTypeOK
  <2>8. MovesSome BY <1>1, <2>7 DEF MovesSome
  <2> QED BY <1>2, <1>3, <2>8 DEF QuietStep
<1>6. CASE \/ Goto(t, [thr[t] EXCEPT !.todo = @ \ {n}])
           \/ Faulty /\ thr' = [thr EXCEPT ![t].todo = @ \ {n}]
  <2> DEFINE left == thr[t].todo \ {n}
  <2> DEFINE r == [thr[t] EXCEPT !.todo = left]
  <2>1. left \in SUBSET Members BY <1>1
  <2>2. thr' = [thr EXCEPT ![t] = r] BY <1>6 DEF Goto
  <2>3. faults' \in Nat BY <1>6 DEF Goto, Faulty, ArchiveTypeOK
  <2> HIDE DEF left
  <2>4. r \in ThreadRecord /\ r.pc = thr[t].pc BY <1>1, <2>1 DEF ThreadRecord
  <2> HIDE DEF r
  <2>5. Moves(t, r) BY <1>1, <2>2, <2>3, <2>4 DEF Moves
  <2>6. MovesSome BY <1>1, <2>5 DEF MovesSome
  <2> QED BY <1>2, <1>3, <2>6 DEF QuietStep
<1> QED BY <1>4, <1>5, <1>6

LEMMA RebasePutStep ==
  ASSUME ArchiveTypeOK, CopiesTypeOK, NEW m \in Members, RebasePut(m)
  PROVE  QuietStep
<1> DEFINE t == Sync(m)
<1> DEFINE f == thr[t].found
<1>1. /\ t \in Threads /\ thr[t].pc \in Quiet /\ thr[t] \in ThreadRecord
      /\ thr[t].todo \in SUBSET Members /\ f.own \in Nat /\ f.ver \in 0 .. Latest
  BY OfMember DEF RebasePut, Quiet, ArchiveTypeOK, ThreadRecord
<1>2. UNCHANGED mountVars /\ Latest' = Latest BY DEF RebasePut, mountVars, Latest
<1>3. base' \in [Members -> [own : Nat, ver : 0 .. Latest, digest : Nat]]
  BY <1>1 DEF RebasePut, CopiesTypeOK
<1>4. CopiesTypeOK'
  BY <1>2, <1>3 DEF RebasePut, CopiesTypeOK, entryVars, Revisions
<1>5. MovesSome
  <2> DEFINE left == thr[t].todo \ {f.who}
  <2> DEFINE r == [thr[t] EXCEPT !.pc = "rebase", !.todo = left]
  <2>1. left \in SUBSET Members BY <1>1
  <2>2. Goto(t, r) BY DEF RebasePut
  <2> HIDE DEF left
  <2>3. "rebase" \in LockedPcs \cup WritePcs \cup OtherPcs BY DEF OtherPcs
  <2>4. r \in ThreadRecord /\ r.pc = "rebase" BY <1>1, <2>1, <2>3 DEF ThreadRecord
  <2> HIDE DEF r
  <2>5. Moves(t, r) BY <1>1, <2>2, <2>4 DEF Moves, Goto, Quiet, ArchiveTypeOK
  <2> QED BY <1>1, <2>5 DEF MovesSome
<1> QED BY <1>2, <1>4, <1>5 DEF QuietStep

LEMMA RebaseDoneStep ==
  ASSUME ArchiveTypeOK, CopiesTypeOK, NEW m \in Members, RebaseDone(m)
  PROVE  QuietStep
<1>1. thr[Sync(m)].pc \in Quiet BY DEF RebaseDone, Quiet
<1>2. /\ MovesSome
      /\ status' \in [Members -> Statuses] /\ queued' \in [Members -> BOOLEAN]
  BY <1>1, AgainStep DEF RebaseDone
<1>3. UNCHANGED <<mountVars, copyVars, marked, detBase, events>> BY DEF RebaseDone
<1>4. CopiesTypeOK' BY <1>2, <1>3, EntryTypes, EntriesType
<1> QED BY <1>2, <1>3, <1>4 DEF QuietStep

LEMMA EnterArchiveStep ==
  ASSUME ArchiveTypeOK, CopiesTypeOK, EnterArchive PROVE QuietStep
<1>1. thr[MountThread].pc \in Quiet /\ "lock" \in Quiet BY DEF EnterArchive, Quiet
<1>2. MovesSome
  BY <1>1, AtMoves, MountIsThread DEF EnterArchive, MovesSome
<1>3. UNCHANGED <<mountVars, copyVars, entryVars>> BY DEF EnterArchive
<1>4. events' \in Nat BY DEF EnterArchive, Counted, CopiesTypeOK
<1>5. CopiesTypeOK' BY <1>3, <1>4, EntryTypes, EntriesType DEF entryVars
<1> QED BY <1>2, <1>3, <1>5 DEF QuietStep

LEMMA OthersStep ==
  ASSUME ArchiveInv, CopiesTypeOK, Others PROVE ArchiveInv' /\ CopiesTypeOK'
<1> USE DEF ArchiveInv
<1>1. ArchiveInv' BY OthersInv DEF Others
<1>2. Latest' \in Nat /\ Latest' >= Latest
  <2>1. PICK x : remote' = Append(remote, x) BY DEF Others, OthersWrite
  <2>2. remote \in Seq(Version) BY DEF ArchiveTypeOK
  <2>3. Len(remote') = Len(remote) + 1 BY <2>1, <2>2
  <2> QED BY <2>3, LatestType DEF Latest
<1>3. basis' \in Revisions /\ UNCHANGED <<local, base, shown, made, entryVars>>
  BY DEF Others, copyVars, CopiesTypeOK, Revisions
<1>4. events' \in Nat BY DEF Others, Counted, CopiesTypeOK
<1> QED BY <1>1, <1>2, <1>3, <1>4, CopiesStay

-------------------------------------------------------------------------------
\* The invariant of the whole.

CopiesInv == ArchiveInv /\ CopiesTypeOK

LEMMA QuietInv == ASSUME CopiesInv, QuietStep PROVE CopiesInv'
<1>1. CASE MovesSome BY <1>1, MovesInv DEF CopiesInv, QuietStep, MovesSome
<1>2. CASE UNCHANGED <<thr, faults>>
  BY <1>2, NoThread DEF CopiesInv, QuietStep, mountVars, ArchiveInv, ArchiveTypeOK
<1> QED BY <1>1, <1>2 DEF CopiesInv, QuietStep

LEMMA CopiesInit == Init => CopiesInv
<1> SUFFICES ASSUME Init PROVE CopiesInv OBVIOUS
<1>1. ArchiveInv BY ArchiveInitInv DEF Init
<1>2. Latest = 1 BY DEF Init, ArchiveInit, Latest
<1>3. PICK opened \in SUBSET Members :
        /\ local = [m \in Members |-> IF m \in opened THEN 1 ELSE 0]
        /\ base = [m \in Members |->
                     IF m \in opened THEN [own |-> 1, ver |-> 1, digest |-> 1]
                     ELSE [own |-> 0, ver |-> 0, digest |-> NoDigest]]
        /\ status = [m \in Members |-> IF m \in opened THEN "synced" ELSE "closed"]
  BY DEF Init
<1>4. local \in Revisions /\ local \in [Members -> 0 .. Latest]
  BY <1>2, <1>3 DEF Revisions
<1>5. base \in [Members -> [own : Nat, ver : 0 .. Latest, digest : Nat]]
  BY <1>2, <1>3 DEF NoDigest
<1>6. CopiesTypeOK BY <1>3, <1>4, <1>5 DEF CopiesTypeOK, Init, Revisions
<1> QED BY <1>1, <1>6 DEF CopiesInv

\* Every step is a commit's, one outside of the lock, or nobody's.
LEMMA StepKinds ==
  ASSUME CopiesInv, [Next]_vars
  PROVE  \/ \E t \in Threads : Commit(t)
         \/ QuietStep
         \/ \E m \in Members : Save(m)
         \/ Others
<1> USE DEF CopiesInv, ArchiveInv
<1>1. ASSUME NEW t \in Threads \ {MountThread}, Stamp(t) PROVE QuietStep
  BY <1>1, StampStep DEF QuietStep
<1>2. ASSUME NEW m \in Members,
             Check(m) \/ AnswerSync(m) \/ Decide(m) \/ AnswerOpen(m)
      PROVE  QuietStep
  BY <1>2, JobStep DEF QuietStep
<1>3. ASSUME NEW m \in Members, StartDownload(m) PROVE QuietStep
  BY <1>3, StartDownloadStep DEF QuietStep
<1>4. ASSUME NEW m \in Members, Fetch(m) PROVE QuietStep
  BY <1>4, FetchStep DEF QuietStep
<1>5. ASSUME NEW m \in Members, OpenMember(m) PROVE QuietStep
  BY <1>5, OpenMemberStep
<1>6. ASSUME NEW m \in Members, OpenDone(m) PROVE QuietStep
  BY <1>6, OpenDoneStep
<1>7. ASSUME NEW m \in Members, Report(m) PROVE QuietStep
  BY <1>7, ReportStep
<1>8. ASSUME NEW m \in Members, SyncNow(m) PROVE QuietStep
  BY <1>8, SyncNowStep
<1>9. ASSUME NEW m \in Members, SyncDone(m) PROVE QuietStep
  BY <1>9, SyncDoneStep
<1>10. ASSUME NEW m \in Members, RebaseSibling(m) PROVE QuietStep
  BY <1>10, RebaseSiblingStep
<1>11. ASSUME NEW m \in Members, RebasePut(m) PROVE QuietStep
  BY <1>11, RebasePutStep
<1>12. ASSUME NEW m \in Members, RebaseDone(m) PROVE QuietStep
  BY <1>12, RebaseDoneStep
<1>13. ASSUME EnterArchive PROVE QuietStep BY <1>13, EnterArchiveStep
<1>14. ASSUME UNCHANGED vars PROVE QuietStep
  <2>1. UNCHANGED <<thr, faults>> /\ UNCHANGED mountVars
    BY <1>14 DEF vars, archiveVars, mountVars
  <2>2. CopiesTypeOK'
    BY <1>14, <2>1, EntryTypes, EntriesType DEF vars, entryVars
  <2> QED BY <2>1, <2>2 DEF QuietStep
<1> QED
  BY <1>1, <1>2, <1>3, <1>4, <1>5, <1>6, <1>7, <1>8, <1>9, <1>10,
     <1>11, <1>12, <1>13, <1>14 DEF Next

LEMMA CopiesNext == CopiesInv /\ [Next]_vars => CopiesInv'
<1> SUFFICES ASSUME CopiesInv, [Next]_vars PROVE CopiesInv' OBVIOUS
<1>1. ASSUME NEW t \in Threads, Commit(t) PROVE CopiesInv'
  BY <1>1, CommitStep DEF CopiesInv
<1>2. ASSUME NEW m \in Members, Save(m) PROVE CopiesInv'
  BY <1>2, SaveStep DEF CopiesInv
<1>3. ASSUME Others PROVE CopiesInv' BY <1>3, OthersStep DEF CopiesInv
<1> QED BY <1>1, <1>2, <1>3, QuietInv, StepKinds

LEMMA CopiesInvariant == Spec => []CopiesInv
BY CopiesInit, CopiesNext, PTL DEF Spec

\* The types, and the write lock of the mount: it is held exactly by the thread
\* that is inside of a commit or a refresh, and by one at a time
\* (ArchiveFilesystem._write_lock).
THEOREM ArchiveTypeCorrect == Spec => []TypeOK
<1>1. CopiesInv => TypeOK BY DEF CopiesInv, ArchiveInv, TypeOK
<1> QED BY <1>1, CopiesInvariant, PTL

-------------------------------------------------------------------------------
\* Publishing one member.

\* The archive that is rebuilt is the newest one, but for the member.
LEMMA PublishedIsLatest ==
  ASSUME CopiesInv, NEW t \in Threads, Publish(t), ~Raced(t), Whole
  PROVE  copied = Content(Latest)
<1> USE DEF CopiesInv, ArchiveInv
<1>1. thr[t].pc = "publish" BY DEF Publish
<1>2. /\ thr[t].upto \in 1 .. Latest
      /\ \A v \in thr[t].upto + 1 .. Latest : remote[v].by = "others"
      /\ known = thr[t].upto \/ copied = Content(thr[t].upto)
  BY <1>1 DEF CommitInv
<1>3. Latest \in Nat BY LatestType
<1>4. thr[t].upto = Latest
  <2> SUFFICES ASSUME thr[t].upto # Latest PROVE FALSE OBVIOUS
  <2>1. Latest \in thr[t].upto + 1 .. Latest BY <1>2, <1>3
  <2> QED BY <1>2, <2>1 DEF Raced
<1> QED BY <1>2, <1>4 DEF Whole

LEMMA PublishingKeepsMembers ==
  CopiesInv /\ [Next]_vars =>
    \A t \in Threads : Published(t) /\ ~Raced(t) /\ Whole =>
      \A n \in Members \ {Member(t)} :
        remote'[Latest + 1].members[n] >= Content(Latest)[n]
<1> SUFFICES ASSUME CopiesInv, [Next]_vars, NEW t \in Threads, Published(t),
                    ~Raced(t), Whole, NEW n \in Members \ {Member(t)}
             PROVE  remote'[Latest + 1].members[n] >= Content(Latest)[n]
  OBVIOUS
<1> USE DEF CopiesInv, ArchiveInv
<1>1. Publish(t) /\ remote' = Append(remote, [members |-> Rebuilt(t), by |-> "us"])
  <2>1. thr[t].pc = "publish" /\ thr'[t].pc = "record" /\ thr'[t] # thr[t]
    BY DEF Published
  <2>2. ~QuietStep /\ thr' # thr
    BY <2>1 DEF QuietStep, MovesSome, Moves, Quiet, ArchiveTypeOK
  <2>3. PICK u \in Threads : Commit(u)
    BY <2>2, StepKinds DEF Save, Others, OthersWrite
  <2>4. \/ u = t
        \/ thr'[t] = thr[t]
    BY <2>3 DEF Commit, ArchiveStep, Acquire, Download, Publish, Record, Reopen,
       Goto, At, Fail, FailLocked, ArchiveTypeOK
  <2>5. Publish(t) BY <2>1, <2>3, <2>4 DEF Commit, ArchiveStep, Acquire, Download,
       Record, Reopen
  <2>6. ~FailLocked(t)
    <3> SUFFICES ASSUME FailLocked(t) PROVE FALSE OBVIOUS
    <3> QED BY <2>1 DEF FailLocked, ArchiveTypeOK
  <2> QED BY <2>5, <2>6 DEF Publish
<1>2. copied = Content(Latest) BY <1>1, PublishedIsLatest
<1>3. [members |-> Rebuilt(t), by |-> "us"] \in Version
  BY RebuiltType DEF Version
<1>4. remote'[Latest + 1].members = Rebuilt(t)
  <2> DEFINE x == [members |-> Rebuilt(t), by |-> "us"]
  <2>1. x.members = Rebuilt(t) /\ x \in Version BY <1>3
  <2>2. remote' = Append(remote, x) BY <1>1
  <2> HIDE DEF x
  <2> QED BY <2>1, <2>2, Appended
<1>5. Latest \in 1 .. Latest BY LatestType
<1>6. Content(Latest) \in Revisions BY <1>5, VersionType
<1>7. Rebuilt(t)[n] = copied[n] BY <1>2, <1>6 DEF Rebuilt, Revisions
<1> QED BY <1>2, <1>4, <1>6, <1>7 DEF Revisions

\* Publishing one member takes no other member back to an older revision, unless
\* somebody else replaced the archive after the commit had refreshed, or a commit
\* or a download had failed half-way before (_commit_member).
THEOREM NoMemberTakenBack == Spec => NoMemberGoesBack
BY CopiesInvariant, PublishingKeepsMembers, PTL DEF Spec, NoMemberGoesBack

-------------------------------------------------------------------------------
(* What a copy of a member is a copy of. *)

\* The revision of a member in the archive; the threads of a member.
Newest(m) == Content(Latest)[m]
Of(m) == {t \in Threads : Member(t) = m}

\* A thread is on its way to publish what it read; or has published it and has not
\* failed since.
Before(t) == thr[t].pc \in {"lock", "download", "publish"}
After(t) == \/ thr[t].pc \in {"record", "stamp"}
            \/ thr[t].pc = "reopen" /\ thr[t].outcome # "failed"

\* No revision is newer than the last one made.
Numbered ==
  /\ \A m \in Members : /\ local[m] <= revs /\ copied[m] <= revs /\ reader[m] <= revs
                        /\ base[m].own <= revs /\ base[m].digest <= revs
                        /\ \A v \in 1 .. Latest : Content(v)[m] <= revs
  /\ \A t \in Threads : thr[t].data <= revs /\ thr[t].found.own <= revs

\* A member is synced or reopened, never both.
OneAtWork(m) ==
  \A t, u \in Of(m) : thr[t].pc # "idle" /\ thr[u].pc # "idle" => t = u

\* What a thread carries is the local file, unless that has been saved since; once
\* published, it is not newer than the archive and the file it is rebuilt from.
Carried(m) ==
  \A t \in Of(m) :
    /\ Before(t) => thr[t].data = local[m] \/ Modified(m)
    /\ After(t) => /\ thr[t].data = basis[m]
                   /\ thr[t].data <= Newest(m) /\ thr[t].data <= copied[m]
    /\ thr[t].pc = "stamp" => thr[t].data <= reader[m]

\* The file that the next version is rebuilt from is not older than the copy either.
Kept(m) ==
  ~Modified(m) /\ shown[m] # "ahead" => local[m] <= Newest(m) /\ local[m] <= copied[m]

\* Revision x of a member is nowhere from where it could be published again.
Gone(m, x) ==
  /\ x \notin {Newest(m), copied[m], local[m]}
  /\ \A t \in Of(m) : Before(t) => thr[t].data # x

\* What a baseline names is part of what the local file descends from, or gone for
\* good; a baseline that is in doubt is made good by the commit that replaces it.
\* In no case is it what was saved since a commit has read the file.
Covered(m, x) == x <= basis[m] \/ Gone(m, x)
Doubted(m) == shown[m] # "level" \/ base[m].digest = NoDigest
Landed(m) == \E t \in Of(m) : After(t)
Overtaken(m) == \E t \in Of(m) : Before(t) /\ thr[t].data # local[m]
Good(m, x) ==
  /\ Covered(m, x) \/ (Doubted(m) /\ ~Landed(m))
  /\ Overtaken(m) => x # local[m]
Based(m) == Good(m, base[m].own)
Found(m) ==
  \A t \in Threads : thr[t].pc = "rebasePut" /\ thr[t].found.who = m => Good(m, thr[t].found.own)

\* What the check could see of a member is what the local file descends from.
Asked(m) ==
  \A t \in Of(m) : Before(t) /\ ~thr[t].consent /\ thr[t].doubt = "level"
                     => thr[t].ver \in 1 .. Latest /\ Seen(t)

MemberInv(m) ==
  OneAtWork(m) /\ Carried(m) /\ Kept(m) /\ Based(m) /\ Found(m) /\ Asked(m)

AllInv == CopiesInv /\ Numbered /\ \A m \in Members : MemberInv(m)

LEMMA ThreadsOf ==
  ASSUME NEW m \in Members
  PROVE  /\ Of(m) = {Sync(m), Open(m)} /\ MountThread \notin Of(m)
         /\ Sync(m) # Open(m)
         /\ \A t \in Threads \ {MountThread} : Member(t) \in Members
         /\ \A n \in Members : n # m => Of(m) \cap Of(n) = {}
<1>1. \A t \in Threads \ {MountThread} : Member(t) \in Members
  BY DEF Threads, MountThread, Member
<1>2. Of(m) \subseteq {Sync(m), Open(m)}
  BY MembersAssumption DEF Of, Sync, Open, Threads, Member
<1>3. Sync(m) # Open(m) BY DEF Sync, Open
<1>4. MountThread \notin Of(m) BY MembersAssumption DEF Of, MountThread, Member
<1> QED BY <1>1, <1>2, <1>3, <1>4, OfMember DEF Of

LEMMA MemberTypes ==
  ASSUME CopiesInv, NEW m \in Members
  PROVE  /\ local[m] \in Nat /\ basis[m] \in Nat /\ copied[m] \in Nat /\ reader[m] \in Nat
         /\ base[m].own \in Nat /\ base[m].digest \in Nat /\ base[m].ver \in 0 .. Latest
         /\ Newest(m) \in Nat /\ revs \in Nat /\ Latest \in Nat \ {0}
         /\ shown[m] \in {"level", "behind", "ahead"}
         /\ \A v \in 1 .. Latest : Content(v)[m] \in Nat
<1> USE DEF CopiesInv, ArchiveInv
<1>1. Latest \in Nat \ {0} BY LatestType
<1>2. \A v \in 1 .. Latest : Content(v)[m] \in Nat BY VersionType DEF Revisions
<1>3. Newest(m) \in Nat BY <1>1, <1>2 DEF Newest
<1> QED BY <1>1, <1>2, <1>3 DEF ArchiveTypeOK, CopiesTypeOK, Revisions

LEMMA ThreadTypes ==
  ASSUME CopiesInv, NEW t \in Threads
  PROVE  /\ thr[t] \in ThreadRecord /\ thr[t].data \in Nat /\ thr[t].found.own \in Nat
         /\ thr[t].ver \in Nat
BY DEF CopiesInv, ArchiveInv, ArchiveTypeOK, ThreadRecord

\* What others may do around a member whose copy is left alone.
Untouched(m) == /\ local'[m] = local[m] /\ basis'[m] = basis[m]
                /\ base'[m].digest = base[m].digest /\ shown'[m] = shown[m]
                /\ \/ base'[m].own = base[m].own
                   \/ \E x \in Nat : x <= revs /\ Good(m, x) /\ base'[m].own = x
Grows == Latest' \in Nat /\ Latest' >= Latest /\ \A v \in 1 .. Latest : remote'[v] = remote[v]
Drift(m) == /\ Newest(m)' \in {Newest(m), copied[m]} \/ Newest(m)' > revs
            /\ Newest(m)' \in Nat
            /\ copied'[m] \in {copied[m], Newest(m)}
            /\ reader'[m] \in {reader[m], copied[m]}
Steady(m, t) ==
  \/ thr'[t] = thr[t]
  \/ ~Before(t)' /\ ~After(t)'
  \/ /\ Before(t) /\ Before(t)'
     /\ thr'[t].data = thr[t].data /\ thr'[t].ver = thr[t].ver
     /\ (thr'[t].consent <=> thr[t].consent) /\ thr'[t].doubt = thr[t].doubt
  \/ /\ After(t) /\ After(t)' /\ thr'[t].data = thr[t].data
     /\ thr'[t].pc = "stamp" => reader'[m] = copied[m]
Calm(m) == Untouched(m) /\ Grows /\ Drift(m) /\ \A t \in Of(m) : Steady(m, t)

\* What a step keeps of a member, but for the threads at work on it and what
\* rebases have found.
Keeps(m) ==
  /\ Carried(m)' /\ Kept(m)' /\ Based(m)' /\ Asked(m)'
  /\ \A x \in Nat : x <= revs /\ Good(m, x) => Good(m, x)'

LEMMA CalmKeeps ==
  ASSUME CopiesInv, Numbered, NEW m \in Members, MemberInv(m), Calm(m)
  PROVE  Keeps(m)
<1> DEFINE Low(x) == x <= revs => (x <= Newest(m) /\ x <= copied[m] =>
                                     x <= Newest(m)' /\ x <= copied'[m])
<1>1. /\ Untouched(m) /\ Grows /\ Drift(m) /\ Carried(m) /\ Kept(m) /\ Based(m) /\ Asked(m)
      /\ \A t \in Of(m) : t \in Threads /\ Steady(m, t)
  BY DEF Calm, MemberInv, Of
<1>2. /\ local[m] \in Nat /\ basis[m] \in Nat /\ copied[m] \in Nat /\ reader[m] \in Nat
      /\ Newest(m) \in Nat /\ revs \in Nat /\ Latest \in Nat \ {0}
      /\ base[m].own \in Nat /\ base[m].digest \in Nat
  BY MemberTypes
<1>3. /\ local[m] <= revs /\ base[m].own <= revs
      /\ \A t \in Threads : thr[t].data \in Nat /\ thr[t].data <= revs
  BY ThreadTypes DEF Numbered
<1>4. \A x \in Nat : Low(x) BY <1>1, <1>2 DEF Drift
<1>5. Modified(m)' <=> Modified(m) BY <1>1 DEF Modified, Untouched
<1>6. Kept(m)'
  <2>1. ASSUME ~Modified(m), shown[m] # "ahead"
        PROVE  local[m] <= Newest(m)' /\ local[m] <= copied'[m]
    BY <1>1, <1>2, <1>3, <1>4, <2>1 DEF Kept
  <2> QED BY <1>1, <1>5, <2>1 DEF Kept, Untouched
<1>7. Carried(m)'
  <2> SUFFICES ASSUME NEW t \in Of(m)
               PROVE  /\ Before(t)' => thr'[t].data = local'[m] \/ Modified(m)'
                      /\ After(t)' => /\ thr'[t].data = basis'[m]
                                      /\ thr'[t].data <= Newest(m)'
                                      /\ thr'[t].data <= copied'[m]
                      /\ thr'[t].pc = "stamp" => thr'[t].data <= reader'[m]
    BY DEF Carried
  <2>1. Steady(m, t) /\ Low(thr[t].data) /\ thr[t].data \in Nat /\ thr[t].data <= revs
    BY <1>1, <1>3, <1>4
  <2>2. Before(t)' => Before(t) /\ thr'[t].data = thr[t].data
    BY <2>1 DEF Steady, Before, After
  <2>3. After(t)' => After(t) /\ thr'[t].data = thr[t].data
    BY <2>1 DEF Steady, Before, After
  <2>4. thr'[t].pc = "stamp" =>
          After(t) /\ thr'[t].data = thr[t].data /\ (thr[t].pc = "stamp" \/ reader'[m] = copied[m])
    BY <2>1 DEF Steady, Before, After
  <2>5. Before(t) => thr[t].data = local[m] \/ Modified(m) BY <1>1 DEF Carried
  <2>6. After(t) => /\ thr[t].data = basis[m]
                    /\ thr[t].data <= Newest(m) /\ thr[t].data <= copied[m]
    BY <1>1 DEF Carried
  <2>7. thr[t].pc = "stamp" => thr[t].data <= reader[m] BY <1>1 DEF Carried
  <2>8. thr'[t].pc = "stamp" => thr'[t].data <= reader'[m]
    BY <1>1, <1>2, <2>1, <2>4, <2>6, <2>7 DEF Drift
  <2> QED BY <1>1, <1>5, <2>1, <2>2, <2>3, <2>5, <2>6, <2>8 DEF Untouched
<1>8. Landed(m)' => Landed(m)
  <2>1. \A t \in Of(m) : After(t)' => After(t) BY <1>1 DEF Steady, Before, After
  <2> QED BY <2>1 DEF Landed
<1>9. Doubted(m)' <=> Doubted(m) BY <1>1 DEF Doubted, Untouched
<1>10. ASSUME NEW x \in Nat, x <= revs, Covered(m, x) PROVE Covered(m, x)'
  <2>1. CASE x <= basis[m] BY <1>1, <2>1 DEF Covered, Untouched
  <2>2. CASE Gone(m, x)
    <3>1. x \notin {Newest(m)', copied'[m], local'[m]}
      BY <1>1, <1>2, <1>10, <2>2 DEF Gone, Drift, Untouched
    <3>2. \A t \in Of(m) : Before(t)' => thr'[t].data # x
      BY <1>1, <2>2 DEF Gone, Steady, Before, After
    <3> QED BY <3>1, <3>2 DEF Covered, Gone
  <2> QED BY <1>10, <2>1, <2>2 DEF Covered
<1>11. ASSUME NEW x \in Nat, x <= revs, Good(m, x) PROVE Good(m, x)'
  <2>0. Overtaken(m)' => Overtaken(m)
    <3>1. \A t \in Of(m) : Before(t)' => Before(t) /\ thr'[t].data = thr[t].data
      BY <1>1 DEF Steady, Before, After
    <3> QED BY <1>1, <3>1 DEF Overtaken, Untouched
  <2>1. Overtaken(m)' => x # local'[m] BY <1>1, <1>11, <2>0 DEF Good, Untouched
  <2>2. Covered(m, x) => Covered(m, x)' BY <1>10, <1>11
  <2>3. Doubted(m) /\ ~Landed(m) => (Doubted(m) /\ ~Landed(m))' BY <1>8, <1>9
  <2> QED BY <1>11, <2>1, <2>2, <2>3 DEF Good
<1>12. Based(m)'
  <2>1. Good(m, base[m].own) BY <1>1 DEF Based
  <2>2. PICK x \in Nat : x <= revs /\ Good(m, x) /\ base'[m].own = x
    BY <1>1, <1>2, <1>3, <2>1 DEF Untouched
  <2>3. Good(m, x)' BY <1>11, <2>2
  <2> QED BY <2>2, <2>3 DEF Based
<1>13. Asked(m)'
  <2> SUFFICES ASSUME NEW t \in Of(m), Before(t)', ~thr'[t].consent, thr'[t].doubt = "level"
               PROVE  thr'[t].ver \in 1 .. Latest' /\ Seen(t)'
    BY DEF Asked
  <2>1. Before(t) /\ ~thr[t].consent /\ thr[t].doubt = "level" /\ thr'[t].ver = thr[t].ver
    BY <1>1 DEF Steady, Before, After
  <2>2. thr[t].ver \in 1 .. Latest /\ Seen(t) BY <1>1, <2>1 DEF Asked
  <2>3. Member(t) = m BY DEF Of
  <2>4. remote'[thr[t].ver] = remote[thr[t].ver] /\ thr[t].ver \in 1 .. Latest'
    BY <1>1, <1>2, <2>2 DEF Grows
  <2> QED BY <1>1, <2>1, <2>2, <2>3, <2>4 DEF Seen, Content, Untouched
<1> QED BY <1>6, <1>7, <1>11, <1>12, <1>13 DEF Keeps

\* Steps in which no thread of a member begins, or goes on with, a commit.
Working == {"lock", "download", "publish", "record", "reopen", "stamp"}
Resting ==
  \A t \in Threads \ {MountThread} : thr'[t] = thr[t] \/ thr'[t].pc \notin Working
CopiesAlone == UNCHANGED <<local, base, basis, shown>>
MountAlone == UNCHANGED <<remote, copied, reader>>

LEMMA RestingIsCalm ==
  ASSUME CopiesInv, NEW m \in Members, Resting, CopiesAlone, MountAlone
  PROVE  Calm(m)
<1>1. Untouched(m) BY DEF CopiesAlone, Untouched
<1>2. Grows /\ Drift(m)
  BY MemberTypes DEF MountAlone, Grows, Drift, Latest, Newest, Content
<1>3. \A t \in Of(m) : Steady(m, t)
  BY ThreadsOf DEF Resting, Steady, Before, After, Working, Of
<1> QED BY <1>1, <1>2, <1>3 DEF Calm

LEMMA OneRests ==
  ASSUME CopiesInv, NEW u \in Threads, NEW r, thr' = [thr EXCEPT ![u] = r],
         u = MountThread \/ r.pc \notin Working
  PROVE  Resting
BY DEF CopiesInv, ArchiveInv, ArchiveTypeOK, Resting

LEMMA AtRests ==
  ASSUME CopiesInv, NEW u \in Threads, NEW p, At(u, p), u = MountThread \/ p \notin Working
  PROVE  Resting
<1> DEFINE r == [thr[u] EXCEPT !.pc = p]
<1>1. r.pc = p BY ThreadTypes DEF ThreadRecord
<1>2. thr' = [thr EXCEPT ![u] = r] BY DEF At, Goto
<1> HIDE DEF r
<1> QED BY <1>1, <1>2, OneRests

LEMMA EndRests ==
  ASSUME CopiesInv, NEW u \in Threads,
         Fail(u) \/ Goto(u, Idle) \/ \E o \in {"ok", "conflict", "declined"} : Finish(u, o)
  PROVE  Resting
<1>1. CASE Fail(u)
  <2>1. Failed(u).pc \notin Working BY DEF Failed, Idle, Working
  <2> QED BY <1>1, <2>1, OneRests DEF Fail
<1>2. CASE Goto(u, Idle)
  <2>1. Idle.pc \notin Working BY DEF Idle, Working
  <2> QED BY <1>2, <2>1, OneRests DEF Goto
<1>3. ASSUME NEW o, Finish(u, o) PROVE Resting
  <2> DEFINE r == [Idle EXCEPT !.pc = "done", !.outcome = o]
  <2>1. r.pc \notin Working BY DEF Idle, Working
  <2>2. thr' = [thr EXCEPT ![u] = r] BY <1>3 DEF Finish, Goto
  <2> HIDE DEF r
  <2> QED BY <2>1, <2>2, OneRests
<1> QED BY <1>1, <1>2, <1>3

LEMMA BeginRests ==
  ASSUME CopiesInv, NEW u \in Threads, NEW p, NEW c, p \notin Working,
         Goto(u, [Idle EXCEPT !.pc = p, !.consent = c])
  PROVE  Resting
<1> DEFINE r == [Idle EXCEPT !.pc = p, !.consent = c]
<1>1. r.pc \notin Working BY DEF Idle
<1>2. thr' = [thr EXCEPT ![u] = r] BY DEF Goto
<1> HIDE DEF r
<1> QED BY <1>1, <1>2, OneRests

LEMMA StartRests ==
  ASSUME CopiesInv, NEW u \in Threads, NEW p, p \notin Working,
         Goto(u, [Idle EXCEPT !.pc = p])
  PROVE  Resting
<1> DEFINE r == [Idle EXCEPT !.pc = p]
<1>1. r.pc \notin Working BY DEF Idle
<1>2. thr' = [thr EXCEPT ![u] = r] BY DEF Goto
<1> HIDE DEF r
<1> QED BY <1>1, <1>2, OneRests

\* The manager's and the user's steps, but for a save.
LEMMA ManagerRests ==
  ASSUME CopiesInv, NEW m \in Members,
         \/ OpenMember(m) \/ OpenDone(m) \/ Report(m) \/ SyncNow(m) \/ SyncDone(m)
         \/ RebaseSibling(m) \/ RebaseDone(m) \/ EnterArchive \/ UNCHANGED vars
  PROVE  Resting /\ CopiesAlone /\ MountAlone
<1> USE OfMember
<1>1. CopiesAlone /\ MountAlone
  BY DEF OpenMember, OpenDone, Report, SyncNow, SyncDone, RebaseSibling, RebaseDone,
     EnterArchive, vars, archiveVars, mountVars, copyVars, CopiesAlone, MountAlone
<1>2. Resting
  <2>0. {"check", "start", "decide", "rebase", "rebasePut"} \cap Working = {}
    BY DEF Working
  <2>1. CASE OpenMember(m)
    <3> DEFINE p == IF status[m] = "closed" THEN "start" ELSE "decide"
    <3>1. p \notin Working /\ Goto(Open(m), [Idle EXCEPT !.pc = p])
      BY <2>1 DEF OpenMember, Working
    <3> HIDE DEF p
    <3> QED BY <3>1, StartRests
  <2>2. CASE OpenDone(m) BY <2>2, EndRests DEF OpenDone
  <2>3. ASSUME NEW c, StartSync(m, c) PROVE Resting
    BY <2>0, <2>3, BeginRests DEF StartSync
  <2>4. ASSUME thr' = thr PROVE Resting BY <2>4 DEF Resting
  <2>5. CASE Report(m) BY <2>3, <2>4, <2>5 DEF Report, QueueSync
  <2>6. CASE SyncNow(m) BY <2>3, <2>4, <2>6 DEF SyncNow, QueueSync
  <2>7. ASSUME NEW o, Again(m, o) PROVE Resting
    BY <2>0, <2>7, EndRests, StartRests DEF Again
  <2>8. CASE SyncDone(m)
    <3>1. ASSUME Goto(Sync(m), [thr[Sync(m)] EXCEPT !.pc = "rebase", !.todo = Siblings(m)])
          PROVE  Resting
      <4> DEFINE r == [thr[Sync(m)] EXCEPT !.pc = "rebase", !.todo = Siblings(m)]
      <4>1. r.pc = "rebase" BY ThreadTypes DEF ThreadRecord
      <4>2. thr' = [thr EXCEPT ![Sync(m)] = r] BY <3>1 DEF Goto
      <4> HIDE DEF r
      <4> QED BY <2>0, <4>1, <4>2, OneRests
    <3> QED BY <2>7, <2>8, <3>1, EndRests DEF SyncDone
  <2>9. CASE RebaseSibling(m)
    <3>1. thr'[Sync(m)].pc \in {"rebase", "rebasePut"}
      <4> DEFINE t == Sync(m)
      <4>1. thr[t] \in ThreadRecord /\ thr[t].pc = "rebase" /\ t \in Threads
        BY <2>9, ThreadTypes DEF RebaseSibling
      <4>2. PICK n \in thr[t].todo :
              \/ thr' = [thr EXCEPT ![t] = [thr[t] EXCEPT !.pc = "rebasePut",
                           !.found = [who |-> n, own |-> reader[n], ver |-> Latest]]]
              \/ thr' = [thr EXCEPT ![t] = [thr[t] EXCEPT !.todo = @ \ {n}]]
              \/ thr' = [thr EXCEPT ![t].todo = @ \ {n}]
        BY <2>9 DEF RebaseSibling, Goto
      <4>3. t \in DOMAIN thr BY <4>1 DEF CopiesInv, ArchiveInv, ArchiveTypeOK
      <4> DEFINE f == [who |-> n, own |-> reader[n], ver |-> Latest]
                 r == [thr[t] EXCEPT !.pc = "rebasePut", !.found = f]
                 q == [thr[t] EXCEPT !.todo = @ \ {n}]
      <4>4. r.pc = "rebasePut" /\ q.pc = "rebase" BY <4>1 DEF ThreadRecord
      <4>5. thr' = [thr EXCEPT ![t] = r] \/ thr' = [thr EXCEPT ![t] = q] BY <4>2
      <4> HIDE DEF t, f, r, q
      <4>6. thr'[t].pc \in {"rebase", "rebasePut"} BY <4>3, <4>4, <4>5
      <4> QED BY <4>6 DEF t
    <3>2. \A t \in Threads \ {Sync(m)} : thr'[t] = thr[t]
      BY <2>9 DEF RebaseSibling, Goto, CopiesInv, ArchiveInv, ArchiveTypeOK
    <3> QED BY <2>0, <3>1, <3>2 DEF Resting
  <2>10. CASE RebaseDone(m) BY <2>7, <2>10 DEF RebaseDone
  <2>11. CASE EnterArchive BY <2>11, AtRests, MountIsThread DEF EnterArchive
  <2>12. CASE UNCHANGED vars BY <2>4, <2>12 DEF vars, archiveVars
  <2> QED BY <2>1, <2>2, <2>5, <2>6, <2>8, <2>9, <2>10, <2>11, <2>12
<1> QED BY <1>1, <1>2

-------------------------------------------------------------------------------
(* The steps of a commit and of a download, for their own member.            *)

ThrOnly(t) == \A u \in Threads \ {t} : thr'[u] = thr[u]

LEMMA AloneAtWork ==
  ASSUME NEW m \in Members, OneAtWork(m), NEW t \in Of(m), thr[t].pc # "idle", ThrOnly(t)
  PROVE  \A u \in Of(m) : u = t \/ (/\ ~Before(u) /\ ~After(u) /\ ~Before(u)' /\ ~After(u)'
                                    /\ thr[u].pc # "stamp" /\ thr'[u].pc # "stamp")
<1> SUFFICES ASSUME NEW u \in Of(m) \ {t}
             PROVE  /\ ~Before(u) /\ ~After(u) /\ ~Before(u)' /\ ~After(u)'
                    /\ thr[u].pc # "stamp" /\ thr'[u].pc # "stamp"
  OBVIOUS
<1>1. thr[u].pc = "idle" BY DEF OneAtWork
<1>2. thr'[u] = thr[u] BY DEF ThrOnly, Of
<1> QED BY <1>1, <1>2 DEF Before, After

LEMMA EnterFields ==
  ASSUME CopiesInv, NEW t \in Threads, NEW c \in BOOLEAN, EnterWriteBack(t, c)
  PROVE  /\ thr'[t].pc = "lock" /\ thr'[t].data = local[Member(t)]
         /\ thr'[t].consent = c /\ ThrOnly(t)
         /\ ~c => thr'[t].ver = Latest /\ thr'[t].doubt = Doubt(Member(t))
<1> DEFINE ver == IF c THEN 0 ELSE Latest
           doubt == IF c THEN "level" ELSE Doubt(Member(t))
           data == local[Member(t)]
           r == [Idle EXCEPT !.pc = "lock", !.consent = c, !.data = data, !.ver = ver,
                             !.doubt = doubt]
<1>1. thr' = [thr EXCEPT ![t] = r] BY DEF EnterWriteBack, Goto
<1>2. r.pc = "lock" /\ r.data = data /\ r.consent = c /\ r.ver = ver /\ r.doubt = doubt
  <2> HIDE DEF ver, doubt, data
  <2> QED BY DEF Idle
<1>3. thr \in [Threads -> ThreadRecord] BY DEF CopiesInv, ArchiveInv, ArchiveTypeOK
<1> HIDE DEF r
<1>4. thr'[t] = r /\ ThrOnly(t) BY <1>1, <1>3 DEF ThrOnly
<1> QED BY <1>2, <1>4

\* write_back begins with the local file as it is.
LEMMA EnterKeeps ==
  ASSUME CopiesInv, NEW m \in Members, MemberInv(m), NEW t \in Of(m),
         thr[t].pc \in {"check", "askSync", "askOpen"}, NEW c \in BOOLEAN, EnterWriteBack(t, c),
         c \/ ~SourceChanged(m), CopiesAlone, MountAlone
  PROVE  Keeps(m)
<1>1. t \in Threads /\ Member(t) = m BY DEF Of
<1>2. /\ thr'[t].pc = "lock" /\ thr'[t].data = local[m] /\ thr'[t].consent = c /\ ThrOnly(t)
      /\ ~c => thr'[t].ver = Latest /\ thr'[t].doubt = Doubt(m)
  BY <1>1, EnterFields
<1>3. Before(t)' /\ ~After(t)' /\ ~After(t) /\ ~Before(t)
  BY <1>2 DEF Before, After
<1>4. \A u \in Of(m) : u = t \/ (/\ ~Before(u) /\ ~After(u) /\ ~Before(u)' /\ ~After(u)'
                                 /\ thr'[u].pc # "stamp")
  BY <1>2, AloneAtWork DEF MemberInv
<1>5. /\ local' = local /\ base' = base /\ basis' = basis /\ shown' = shown
      /\ copied' = copied /\ reader' = reader /\ Newest(m)' = Newest(m) /\ Latest' = Latest
      /\ remote' = remote
  BY DEF CopiesAlone, MountAlone, Newest, Latest, Content
<1>6. Carried(m)' BY <1>2, <1>3, <1>4, <1>5 DEF Carried
<1>7. Kept(m)' BY <1>5 DEF MemberInv, Kept, Modified
<1>8. ~Landed(m) /\ ~Landed(m)' BY <1>3, <1>4 DEF Landed
<1>9. ASSUME NEW x \in Nat, Good(m, x) PROVE Good(m, x)'
  <2>1. ~Overtaken(m)' BY <1>2, <1>4, <1>5 DEF Overtaken
  <2>2. Covered(m, x) => Covered(m, x)'
    <3>1. Gone(m, x) => Gone(m, x)' BY <1>2, <1>4, <1>5 DEF Gone
    <3> QED BY <1>5, <3>1 DEF Covered
  <2> QED BY <1>5, <1>8, <1>9, <2>1, <2>2 DEF Good, Doubted
<1>10. Based(m)'
  <2>1. \A x \in Nat : x = base[m].own => Good(m, x)' BY <1>9 DEF MemberInv, Based
  <2> QED BY <1>5, <2>1, MemberTypes DEF Based
<1>11. Asked(m)'
  <2> SUFFICES ASSUME ~c, Doubt(m) = "level"
               PROVE  Latest \in 1 .. Latest /\ Content(Latest)[m] <= basis[m]
    BY <1>1, <1>2, <1>4, <1>5 DEF Asked, Seen, Content
  <2>1. base[m].ver = Latest /\ base[m].digest # NoDigest /\ ~Torn(m) /\ shown[m] = "level"
    BY DEF SourceChanged, Doubt
  <2>2. Newest(m) = base[m].own BY <2>1 DEF Torn, Newest
  <2>3. Covered(m, base[m].own) BY <2>1 DEF MemberInv, Based, Good, Doubted
  <2>4. base[m].own <= basis[m] BY <2>2, <2>3 DEF Covered, Gone
  <2> QED BY <2>2, <2>4, MemberTypes DEF Newest
<1> QED BY <1>6, <1>7, <1>9, <1>10, <1>11 DEF Keeps

\* With no thread of the member in a commit, there is little to keep.
LEMMA OutOfCommit ==
  ASSUME NEW m \in Members, \A t \in Of(m) : ~Before(t)' /\ ~After(t)'
  PROVE  Carried(m)' /\ Asked(m)' /\ ~Landed(m)' /\ ~Overtaken(m)'
BY DEF Carried, Asked, Landed, Overtaken, After

LEMMA StartKeeps ==
  ASSUME CopiesInv, NEW m \in Members, MemberInv(m), thr[Open(m)].pc = "start",
         At(Open(m), "fetch"),
         base' = [base EXCEPT ![m] = [own |-> reader[m], ver |-> Latest, digest |-> NoDigest]],
         UNCHANGED <<local, basis, shown>>, MountAlone
  PROVE  Keeps(m)
<1> DEFINE t == Open(m)
<1>1. t \in Of(m) /\ t \in Threads BY ThreadsOf DEF Of
<1>2. ThrOnly(t) /\ thr'[t].pc = "fetch"
  <2> DEFINE r == [thr[t] EXCEPT !.pc = "fetch"]
  <2>1. r.pc = "fetch" BY <1>1, ThreadTypes DEF ThreadRecord
  <2>2. thr' = [thr EXCEPT ![t] = r] BY DEF At, Goto
  <2>3. thr \in [Threads -> ThreadRecord] BY DEF CopiesInv, ArchiveInv, ArchiveTypeOK
  <2> HIDE DEF r, t
  <2> QED BY <1>1, <2>1, <2>2, <2>3 DEF ThrOnly
<1>3. \A u \in Of(m) : ~Before(u)' /\ ~After(u)'
  BY <1>1, <1>2, AloneAtWork DEF MemberInv, Before, After
<1>4. Carried(m)' /\ Asked(m)' /\ ~Landed(m)' /\ ~Overtaken(m)' BY <1>3, OutOfCommit
<1>5. base'[m].digest = NoDigest BY DEF CopiesInv, CopiesTypeOK
<1>6. \A x \in Nat : Good(m, x)' BY <1>4, <1>5 DEF Good, Doubted
<1>7. base'[m].own \in Nat BY MemberTypes DEF CopiesInv, CopiesTypeOK
<1>8. Kept(m)'
  BY <1>5, MemberTypes DEF Kept, Modified, NoDigest, MountAlone, Newest, Content, Latest
<1> QED BY <1>4, <1>6, <1>7, <1>8 DEF Keeps, Based

LEMMA FetchKeeps ==
  ASSUME CopiesInv, NEW m \in Members, MemberInv(m), thr[Open(m)].pc = "fetch",
         Finish(Open(m), "ok"),
         local' = [local EXCEPT ![m] = reader[m]], basis' = [basis EXCEPT ![m] = reader[m]],
         shown' = [shown EXCEPT ![m] = Showing(m)],
         base' = [base EXCEPT ![m].digest = reader[m]], MountAlone
  PROVE  Keeps(m)
<1> DEFINE t == Open(m)
<1>1. t \in Of(m) /\ t \in Threads BY ThreadsOf DEF Of
<1>2. ThrOnly(t) /\ thr'[t].pc = "done"
  <2> DEFINE r == [Idle EXCEPT !.pc = "done", !.outcome = "ok"]
  <2>1. r.pc = "done" BY DEF Idle
  <2>2. thr' = [thr EXCEPT ![t] = r] BY DEF Finish, Goto
  <2>3. thr \in [Threads -> ThreadRecord] BY DEF CopiesInv, ArchiveInv, ArchiveTypeOK
  <2> HIDE DEF r, t
  <2> QED BY <1>1, <2>1, <2>2, <2>3 DEF ThrOnly
<1>3. \A u \in Of(m) : ~Before(u)' /\ ~After(u)'
  BY <1>1, <1>2, AloneAtWork DEF MemberInv, Before, After
<1>4. Carried(m)' /\ Asked(m)' /\ ~Landed(m)' /\ ~Overtaken(m)' BY <1>3, OutOfCommit
<1>5. /\ local'[m] = reader[m] /\ basis'[m] = reader[m] /\ shown'[m] = Showing(m)
      /\ base'[m].own = base[m].own
      /\ copied' = copied /\ reader' = reader /\ Newest(m)' = Newest(m)
  BY DEF CopiesInv, CopiesTypeOK, Revisions, MountAlone, Newest, Latest, Content
<1>6. Kept(m)' BY <1>5, MemberTypes DEF Kept, Showing, Newest
<1>7. ASSUME NEW x \in Nat PROVE Good(m, x)'
  <2>1. CASE Showing(m) = "level"
    <3>1. reader[m] = Newest(m) /\ reader[m] = copied[m] BY <2>1 DEF Showing, Newest
    <3> QED BY <1>3, <1>4, <1>5, <3>1, MemberTypes DEF Good, Covered, Gone
  <2>2. CASE Showing(m) # "level" BY <1>4, <1>5, <2>2 DEF Good, Doubted
  <2> QED BY <2>1, <2>2
<1> QED BY <1>4, <1>5, <1>6, <1>7, MemberTypes DEF Keeps, Based

\* The new baseline is of what the mount shows by now.
LEMMA StampKeeps ==
  ASSUME CopiesInv, NEW m \in Members, MemberInv(m), NEW t \in Of(m), thr[t].pc = "stamp",
         Finish(t, "ok"),
         base' = [base EXCEPT ![m] = [own |-> reader[m], ver |-> Latest,
                                      digest |-> thr[t].data]],
         basis' = [basis EXCEPT ![m] = reader[m]],
         shown' = [shown EXCEPT ![m] = "level"], UNCHANGED local, MountAlone
  PROVE  Keeps(m)
<1>1. t \in Threads /\ Member(t) = m BY DEF Of
<1>2. ThrOnly(t) /\ thr'[t].pc = "done"
  <2> DEFINE r == [Idle EXCEPT !.pc = "done", !.outcome = "ok"]
  <2>1. r.pc = "done" BY DEF Idle
  <2>2. thr' = [thr EXCEPT ![t] = r] BY DEF Finish, Goto
  <2>3. thr \in [Threads -> ThreadRecord] BY DEF CopiesInv, ArchiveInv, ArchiveTypeOK
  <2> HIDE DEF r
  <2> QED BY <1>1, <2>1, <2>2, <2>3 DEF ThrOnly
<1>3. \A u \in Of(m) : u = t \/ (~Before(u) /\ ~Before(u)' /\ ~After(u)')
  BY <1>2, AloneAtWork DEF MemberInv
<1>4. \A u \in Of(m) : ~Before(u)' /\ ~After(u)' /\ ~Before(u)
  BY <1>2, <1>3 DEF Before, After
<1>5. Carried(m)' /\ Asked(m)' /\ ~Landed(m)' /\ ~Overtaken(m)' BY <1>4, OutOfCommit
<1>6. /\ basis'[m] = reader[m] /\ local'[m] = local[m]
      /\ base'[m].own = reader[m] /\ base'[m].digest = thr[t].data
      /\ copied' = copied /\ reader' = reader /\ Newest(m)' = Newest(m)
  BY DEF CopiesInv, CopiesTypeOK, Revisions, MountAlone, Newest, Latest, Content
<1>7. After(t) BY DEF After
<1>8. /\ thr[t].data = basis[m] /\ thr[t].data <= reader[m]
      /\ thr[t].data <= Newest(m) /\ thr[t].data <= copied[m]
  BY <1>7 DEF MemberInv, Carried
<1>9. Kept(m)'
  <2>1. local'[m] = thr[t].data => local'[m] <= Newest(m)' /\ local'[m] <= copied'[m]
    BY <1>6, <1>8
  <2> QED BY <1>6, <2>1 DEF Kept, Modified
<1>10. ASSUME NEW x \in Nat, Good(m, x) PROVE Good(m, x)'
  <2>1. Covered(m, x) BY <1>7, <1>10 DEF Good, Landed
  <2>2. CASE x <= basis[m]
    <3>1. x <= basis'[m] BY <1>6, <1>8, <2>2, MemberTypes
    <3> QED BY <1>5, <3>1 DEF Good, Covered
  <2>3. CASE Gone(m, x)
    <3>1. Gone(m, x)' BY <1>4, <1>6, <2>3 DEF Gone
    <3> QED BY <1>5, <3>1 DEF Good, Covered
  <2> QED BY <2>1, <2>2, <2>3 DEF Covered
<1>11. Based(m)' BY <1>5, <1>6, MemberTypes DEF Based, Good, Covered
<1> QED BY <1>5, <1>9, <1>10, <1>11 DEF Keeps

\* The archive with the new member is in place.
LEMMA PublishedKeeps ==
  ASSUME CopiesInv, NEW m \in Members, MemberInv(m), NEW t \in Of(m), thr[t].pc = "publish",
         ThrOnly(t), thr'[t].pc = "record", thr'[t].data = thr[t].data,
         Newest(m)' = thr[t].data, copied'[m] = thr[t].data, basis'[m] = thr[t].data,
         UNCHANGED <<local, base, shown>>
  PROVE  Keeps(m)
<1>1. t \in Threads /\ thr[t].data \in Nat BY ThreadTypes DEF Of
<1>2. Before(t) /\ ~Before(t)' /\ After(t)' BY DEF Before, After
<1>3. \A u \in Of(m) : u = t \/ (~Before(u)' /\ ~After(u)' /\ thr'[u].pc # "stamp")
  BY AloneAtWork DEF MemberInv
<1>4. thr[t].data = local[m] \/ Modified(m) BY <1>2 DEF MemberInv, Carried
<1>5. Carried(m)' BY <1>1, <1>2, <1>3 DEF Carried
<1>6. Asked(m)' BY <1>2, <1>3 DEF Asked
<1>7. Kept(m)'
  <2>1. ~Modified(m)' => local'[m] = thr[t].data BY <1>4 DEF Modified
  <2> QED BY <1>1, <2>1 DEF Kept
<1>8. ASSUME NEW x \in Nat, Good(m, x) PROVE Good(m, x)'
  <2>1. ~Overtaken(m)' BY <1>2, <1>3 DEF Overtaken
  <2>2. CASE x <= thr[t].data BY <2>1, <2>2 DEF Good, Covered
  <2>3. CASE ~(x <= thr[t].data)
    <3>1. x # thr[t].data BY <1>1, <2>3
    <3>2. thr[t].data # local[m] => Overtaken(m) BY <1>2 DEF Overtaken
    <3>3. x # local[m] BY <1>8, <3>1, <3>2 DEF Good
    <3>4. \A u \in Of(m) : ~Before(u)' BY <1>2, <1>3
    <3>5. Gone(m, x)' BY <3>1, <3>3, <3>4 DEF Gone
    <3> QED BY <2>1, <3>5 DEF Good, Covered
  <2> QED BY <2>2, <2>3
<1>9. Based(m)'
  <2>1. \A x \in Nat : x = base[m].own => Good(m, x)' BY <1>8 DEF MemberInv, Based
  <2> QED BY <2>1, MemberTypes DEF Based
<1> QED BY <1>5, <1>6, <1>7, <1>8, <1>9 DEF Keeps

\* The local archive may have been replaced, and nothing published.
LEMMA UnpublishedKeeps ==
  ASSUME CopiesInv, NEW m \in Members, MemberInv(m), NEW t \in Of(m), thr[t].pc = "publish",
         ThrOnly(t), thr'[t].pc = "reopen", thr'[t].outcome = "failed",
         Newest(m)' = Newest(m), copied'[m] \in {copied[m], thr[t].data},
         UNCHANGED <<local, base, basis, shown>>
  PROVE  Keeps(m)
<1>1. t \in Threads /\ thr[t].data \in Nat BY ThreadTypes DEF Of
<1>2. Before(t) /\ ~Before(t)' /\ ~After(t)' BY DEF Before, After
<1>3. \A u \in Of(m) : ~Before(u)' /\ ~After(u)'
  BY <1>2, AloneAtWork DEF MemberInv
<1>4. thr[t].data = local[m] \/ Modified(m) BY <1>2 DEF MemberInv, Carried
<1>5. Carried(m)' /\ Asked(m)' /\ ~Landed(m)' /\ ~Overtaken(m)' BY <1>3, OutOfCommit
<1>6. ~Landed(m)
  <2>1. \A u \in Of(m) : ~After(u)
    <3>1. ~After(t) BY DEF After
    <3> QED BY <3>1, AloneAtWork DEF MemberInv
  <2> QED BY <2>1 DEF Landed
<1>7. Kept(m)'
  <2>1. Modified(m)' <=> Modified(m) BY DEF Modified
  <2>2. Kept(m) BY DEF MemberInv
  <2> QED BY <1>4, <2>1, <2>2, MemberTypes DEF Kept
<1>8. ASSUME NEW x \in Nat, Good(m, x) PROVE Good(m, x)'
  <2>1. Gone(m, x) => Gone(m, x)' BY <1>2, <1>3 DEF Gone
  <2>2. Covered(m, x) => Covered(m, x)' BY <2>1 DEF Covered
  <2> QED BY <1>5, <1>6, <1>8, <2>2 DEF Good, Doubted
<1>9. Based(m)'
  <2>1. \A x \in Nat : x = base[m].own => Good(m, x)' BY <1>8 DEF MemberInv, Based
  <2> QED BY <2>1, MemberTypes DEF Based
<1> QED BY <1>5, <1>7, <1>8, <1>9 DEF Keeps

\* A save makes a revision that there was not.
LEMMA SaveKeeps ==
  ASSUME CopiesInv, Numbered, NEW m \in Members, MemberInv(m),
         local'[m] = revs + 1, UNCHANGED <<thr, base, basis, shown>>, MountAlone
  PROVE  Keeps(m)
<1>1. /\ copied' = copied /\ reader' = reader /\ Newest(m)' = Newest(m) /\ Latest' = Latest
      /\ remote' = remote
  BY DEF MountAlone, Newest, Latest, Content
<1>2. Modified(m)'
  <2>1. base[m].digest <= revs /\ base[m].digest \in Nat /\ revs \in Nat
    BY MemberTypes DEF Numbered
  <2> QED BY <2>1 DEF Modified
<1>3. Carried(m)' BY <1>1, <1>2 DEF MemberInv, Carried, Before, After
<1>4. Kept(m)' BY <1>2 DEF Kept
<1>5. Asked(m)' BY <1>1 DEF MemberInv, Asked, Before, Seen, Content
<1>6. ASSUME NEW x \in Nat, x <= revs, Good(m, x) PROVE Good(m, x)'
  <2>1. x # local'[m] BY <1>6, MemberTypes
  <2>2. Gone(m, x) => Gone(m, x)' BY <1>1, <2>1 DEF Gone, Before
  <2>3. Covered(m, x) => Covered(m, x)' BY <2>2 DEF Covered
  <2>4. Landed(m)' <=> Landed(m) BY DEF Landed, After
  <2> QED BY <1>6, <2>1, <2>3, <2>4 DEF Good, Doubted
<1>7. Based(m)'
  <2>1. \A x \in Nat : x = base[m].own => Good(m, x)'
    BY <1>6 DEF MemberInv, Based, Numbered
  <2> QED BY <2>1, MemberTypes DEF Based
<1> QED BY <1>3, <1>4, <1>5, <1>6, <1>7 DEF Keeps

-------------------------------------------------------------------------------
(* Every step keeps what is known of every member.                           *)

LEMMA MountStill ==
  ASSUME CopiesInv, NEW m \in Members, MountAlone
  PROVE  Grows /\ Drift(m)
BY MemberTypes DEF MountAlone, Grows, Drift, Latest, Newest, Content

LEMMA OthersCalm ==
  ASSUME NEW m \in Members, NEW t \in Threads \ Of(m), ThrOnly(t),
         Untouched(m), Grows, Drift(m)
  PROVE  Calm(m)
BY DEF Calm, ThrOnly, Steady, Of

LEMMA EnterKeepsAll ==
  ASSUME AllInv, NEW m \in Members, NEW n \in Members, NEW t \in Of(n),
         thr[t].pc \in {"check", "askSync", "askOpen"}, NEW c \in BOOLEAN,
         EnterWriteBack(t, c), c \/ ~SourceChanged(n), CopiesAlone, MountAlone
  PROVE  Keeps(m)
<1> USE DEF AllInv
<1>1. CASE m = n BY <1>1, EnterKeeps
<1>2. CASE m # n
  <2>1. t \in Threads \ Of(m) BY <1>2, ThreadsOf DEF Of
  <2>2. ThrOnly(t) BY <2>1, EnterFields
  <2>3. Untouched(m) BY DEF CopiesAlone, Untouched
  <2> QED BY <2>1, <2>2, <2>3, MountStill, OthersCalm, CalmKeeps
<1> QED BY <1>1, <1>2

LEMMA RestingKeeps ==
  ASSUME AllInv, NEW m \in Members, Resting, CopiesAlone, MountAlone
  PROVE  Keeps(m)
BY RestingIsCalm, CalmKeeps DEF AllInv

LEMMA JobKeeps ==
  ASSUME AllInv, NEW m \in Members, NEW n \in Members,
         Check(n) \/ AnswerSync(n) \/ Decide(n) \/ AnswerOpen(n)
  PROVE  Keeps(m)
<1> USE ThreadsOf, OfMember DEF AllInv
<1>1. CopiesAlone /\ MountAlone
  BY DEF Check, AnswerSync, Decide, AnswerOpen, mountVars, copyVars, CopiesAlone, MountAlone
<1>2. ASSUME NEW t \in Threads,
             \/ Fail(t) \/ Finish(t, "ok") \/ Finish(t, "conflict") \/ Finish(t, "declined")
             \/ At(t, "askSync") \/ At(t, "askOpen") \/ At(t, "start")
      PROVE  Keeps(m)
  <2>1. {"askSync", "askOpen", "start"} \cap Working = {} BY DEF Working
  <2> QED BY <1>1, <1>2, <2>1, EndRests, AtRests, RestingKeeps
<1>3. CASE Check(n)
  <2> DEFINE t == Sync(n)
  <2>1. thr[t].pc = "check" /\ t \in Of(n) /\ t \in Threads BY <1>3 DEF Check
  <2>2. thr[t].consent \in BOOLEAN BY <2>1, ThreadTypes DEF ThreadRecord
  <2>3. CASE (thr[t].consent \/ ~SourceChanged(n)) /\ EnterWriteBack(t, thr[t].consent)
    BY <1>1, <2>1, <2>2, <2>3, EnterKeepsAll
  <2> QED BY <1>2, <1>3, <2>1, <2>3 DEF Check
<1>4. CASE AnswerSync(n)
  <2>1. thr[Sync(n)].pc = "askSync" /\ Sync(n) \in Of(n) BY <1>4 DEF AnswerSync
  <2>2. CASE EnterWriteBack(Sync(n), TRUE) BY <1>1, <2>1, <2>2, EnterKeepsAll
  <2> QED BY <1>2, <1>4, <2>2 DEF AnswerSync
<1>5. CASE Decide(n) BY <1>2, <1>5 DEF Decide
<1>6. CASE AnswerOpen(n)
  <2>1. thr[Open(n)].pc = "askOpen" /\ Open(n) \in Of(n) BY <1>6 DEF AnswerOpen
  <2>2. CASE EnterWriteBack(Open(n), TRUE) BY <1>1, <2>1, <2>2, EnterKeepsAll
  <2> QED BY <1>2, <1>6, <2>2 DEF AnswerOpen
<1> QED BY <1>3, <1>4, <1>5, <1>6

\* A step of one thread that touches the copy of its own member only.
LEMMA AtThrOnly ==
  ASSUME CopiesInv, NEW t \in Threads, NEW p, At(t, p) \/ Finish(t, p)
  PROVE  ThrOnly(t)
BY DEF CopiesInv, ArchiveInv, ArchiveTypeOK, ThrOnly, At, Finish, Goto

LEMMA DownloadKeeps ==
  ASSUME AllInv, NEW m \in Members, NEW n \in Members, StartDownload(n) \/ Fetch(n)
  PROVE  Keeps(m)
<1> DEFINE t == Open(n)
<1> USE DEF AllInv
<1>1. MountAlone BY DEF StartDownload, Fetch, mountVars, MountAlone
<1>2. t \in Threads /\ t \in Of(n) /\ (m # n => t \notin Of(m)) BY ThreadsOf, OfMember
<1>3. ASSUME Resting, CopiesAlone PROVE Keeps(m) BY <1>1, <1>3, RestingKeeps
<1>4. CASE StartDownload(n)
  <2>1. CASE Fail(t) /\ UNCHANGED <<base, made>>
    <3>1. CopiesAlone BY <1>4, <2>1 DEF StartDownload, CopiesAlone
    <3> QED BY <1>2, <1>3, <2>1, <3>1, EndRests
  <2>2. CASE /\ base' = [base EXCEPT ![n] = [own |-> reader[n], ver |-> Latest,
                                             digest |-> NoDigest]]
             /\ At(t, "fetch")
    <3>1. UNCHANGED <<local, basis, shown>> /\ thr[t].pc = "start"
      BY <1>4 DEF StartDownload
    <3>2. CASE m = n BY <1>1, <2>2, <3>1, <3>2, StartKeeps
    <3>3. CASE m # n
      <4>1. Untouched(m) BY <2>2, <3>1, <3>3 DEF Untouched, CopiesInv, CopiesTypeOK
      <4>2. ThrOnly(t) BY <1>2, <2>2, AtThrOnly
      <4> QED BY <1>1, <1>2, <3>3, <4>1, <4>2, MountStill, OthersCalm, CalmKeeps
    <3> QED BY <3>2, <3>3
  <2> QED BY <1>4, <2>1, <2>2 DEF StartDownload
<1>5. CASE Fetch(n)
  <2>1. CASE Fail(t) /\ UNCHANGED <<local, basis, shown, base>>
    <3>1. CopiesAlone BY <2>1 DEF CopiesAlone
    <3> QED BY <1>2, <1>3, <2>1, <3>1, EndRests
  <2>2. CASE /\ local' = [local EXCEPT ![n] = reader[n]]
             /\ basis' = [basis EXCEPT ![n] = reader[n]]
             /\ shown' = [shown EXCEPT ![n] = Showing(n)]
             /\ base' = [base EXCEPT ![n].digest = reader[n]]
             /\ Finish(t, "ok")
    <3>1. thr[t].pc = "fetch" BY <1>5 DEF Fetch
    <3>2. CASE m = n BY <1>1, <2>2, <3>1, <3>2, FetchKeeps
    <3>3. CASE m # n
      <4>1. Untouched(m)
        BY <2>2, <3>3 DEF Untouched, CopiesInv, CopiesTypeOK, Revisions
      <4>2. ThrOnly(t) BY <1>2, <2>2, AtThrOnly
      <4> QED BY <1>1, <1>2, <3>3, <4>1, <4>2, MountStill, OthersCalm, CalmKeeps
    <3> QED BY <3>2, <3>3
  <2> QED BY <1>5, <2>1, <2>2 DEF Fetch
<1> QED BY <1>4, <1>5

LEMMA StampKeepsAll ==
  ASSUME AllInv, NEW m \in Members, NEW t \in Threads \ {MountThread}, Stamp(t)
  PROVE  Keeps(m)
<1> DEFINE n == Member(t)
<1> USE DEF AllInv
<1>1. MountAlone /\ UNCHANGED local BY DEF Stamp, mountVars, MountAlone
<1>2. n \in Members /\ t \in Of(n) /\ (m # n => t \notin Of(m)) BY ThreadsOf DEF Of
<1>3. CASE Fail(t) /\ UNCHANGED <<base, basis, shown>>
  <2>1. CopiesAlone BY <1>1, <1>3 DEF CopiesAlone
  <2> QED BY <1>1, <1>3, <2>1, EndRests, RestingKeeps
<1>4. CASE /\ base' = [base EXCEPT ![n] = [own |-> reader[n], ver |-> Latest,
                                           digest |-> thr[t].data]]
           /\ basis' = [basis EXCEPT ![n] = reader[n]]
           /\ shown' = [shown EXCEPT ![n] = "level"]
           /\ Finish(t, "ok")
  <2>1. thr[t].pc = "stamp" BY DEF Stamp
  <2>2. CASE m = n BY <1>1, <1>2, <1>4, <2>1, <2>2, StampKeeps
  <2>3. CASE m # n
    <3>1. Untouched(m)
      BY <1>1, <1>4, <2>3 DEF Untouched, CopiesInv, CopiesTypeOK, Revisions
    <3>2. ThrOnly(t) BY <1>4, AtThrOnly
    <3> QED BY <1>1, <1>2, <2>3, <3>1, <3>2, MountStill, OthersCalm, CalmKeeps
  <2> QED BY <2>2, <2>3
<1> QED BY <1>3, <1>4 DEF Stamp, Written

LEMMA SaveKeepsAll ==
  ASSUME AllInv, NEW m \in Members, NEW n \in Members, Save(n)
  PROVE  Keeps(m)
<1> USE DEF AllInv
<1>1. MountAlone /\ UNCHANGED <<thr, base, basis, shown>> BY DEF Save, MountAlone
<1>2. CASE m = n
  <2>1. local'[m] = revs + 1 BY <1>2 DEF Save, CopiesInv, CopiesTypeOK, Revisions
  <2> QED BY <1>1, <2>1, SaveKeeps
<1>3. CASE m # n
  <2>1. Untouched(m) BY <1>1, <1>3 DEF Save, Untouched, CopiesInv, CopiesTypeOK, Revisions
  <2>2. MountThread \in Threads \ Of(m) /\ ThrOnly(MountThread)
    BY <1>1, ThreadsOf, MountIsThread DEF ThrOnly
  <2> QED BY <1>1, <2>1, <2>2, MountStill, OthersCalm, CalmKeeps
<1> QED BY <1>2, <1>3

\* What a rebase puts into the baseline of a sibling, it has found there.
LEMMA RebasePutKeeps ==
  ASSUME AllInv, NEW m \in Members, NEW n \in Members, RebasePut(n)
  PROVE  Keeps(m)
<1> DEFINE t == Sync(n)
           f == thr[t].found
<1> USE DEF AllInv
<1>1. MountAlone /\ UNCHANGED <<local, basis, shown>>
  BY DEF RebasePut, mountVars, MountAlone
<1>2. t \in Threads /\ thr[t].pc = "rebasePut" BY OfMember DEF RebasePut
<1>3. \A u \in Threads \ {MountThread} : thr'[u] = thr[u] \/ thr'[u].pc \notin Working
  <2>1. Goto(t, [thr[t] EXCEPT !.pc = "rebase", !.todo = @ \ {f.who}]) BY DEF RebasePut
  <2> DEFINE r == [thr[t] EXCEPT !.pc = "rebase", !.todo = @ \ {f.who}]
  <2>2. r.pc = "rebase" BY <1>2, ThreadTypes DEF ThreadRecord
  <2>3. thr' = [thr EXCEPT ![t] = r] BY <2>1 DEF Goto
  <2> HIDE DEF r, t
  <2> QED BY <1>2, <2>2, <2>3, OneRests DEF Resting, Working
<1>4. base' = [base EXCEPT ![f.who] = [own |-> f.own, ver |-> f.ver, digest |-> @.digest]]
  BY DEF RebasePut
<1>5. Untouched(m)
  <2>1. CASE f.who # m BY <1>1, <1>4, <2>1 DEF Untouched, CopiesInv, CopiesTypeOK
  <2>2. CASE f.who = m
    <3>1. base'[m].own = f.own /\ base'[m].digest = base[m].digest
      BY <1>4, <2>2 DEF CopiesInv, CopiesTypeOK
    <3>2. Good(m, f.own) /\ f.own \in Nat /\ f.own <= revs
      BY <1>2, <2>2, ThreadTypes DEF MemberInv, Found, Numbered
    <3> QED BY <1>1, <3>1, <3>2 DEF Untouched
  <2> QED BY <2>1, <2>2
<1>6. \A u \in Of(m) : Steady(m, u)
  BY <1>3, ThreadsOf DEF Steady, Before, After, Working, Of
<1> QED BY <1>1, <1>5, <1>6, MountStill, CalmKeeps DEF Calm

\* A commit changes the record of its own thread.
LEMMA CommitThread ==
  ASSUME CopiesInv, NEW t \in Threads, ArchiveStep(t) PROVE ThrOnly(t)
BY DEF CopiesInv, ArchiveInv, ArchiveTypeOK, ThrOnly, ArchiveStep, Acquire, Download, Publish,
   Record, Reopen, Goto, At, Fail, FailLocked

LEMMA FailedSteady ==
  ASSUME CopiesInv, NEW m \in Members, NEW t \in Threads, Fail(t) \/ FailLocked(t)
  PROVE  Steady(m, t) /\ ~Before(t)' /\ ~After(t)'
<1>1. CASE Fail(t)
  <2>1. Failed(t).pc \in {"idle", "done"} BY DEF Failed, Idle
  <2>2. thr'[t] = Failed(t) BY <1>1 DEF Fail, CopiesInv, ArchiveInv, ArchiveTypeOK
  <2> QED BY <2>1, <2>2 DEF Steady, Before, After
<1>2. CASE FailLocked(t)
  <2> DEFINE r == [Idle EXCEPT !.pc = "reopen", !.outcome = "failed"]
  <2>1. r.pc = "reopen" /\ r.outcome = "failed" BY DEF Idle
  <2>2. thr' = [thr EXCEPT ![t] = r] BY <1>2 DEF FailLocked
  <2> HIDE DEF r
  <2>3. thr'[t] = r BY <2>2 DEF CopiesInv, ArchiveInv, ArchiveTypeOK
  <2> QED BY <2>1, <2>3 DEF Steady, Before, After
<1> QED BY <1>1, <1>2

\* A commit goes on with what it carries, or gives up.
LEMMA CommitSteady ==
  ASSUME CopiesInv, NEW m \in Members, NEW t \in Of(m),
         Acquire(t) \/ Download(t) \/ Record(t) \/ Reopen(t)
  PROVE  Steady(m, t)
<1>1. t \in Threads /\ t # MountThread BY ThreadsOf DEF Of
<1>2. thr[t] \in ThreadRecord /\ thr \in [Threads -> ThreadRecord]
  BY <1>1 DEF CopiesInv, ArchiveInv, ArchiveTypeOK
<1>3. CASE Fail(t) \/ FailLocked(t) BY <1>1, <1>3, FailedSteady
<1>4. ASSUME NEW p \in {"download", "publish"}, thr[t].pc \in {"lock", "download"},
             Goto(t, [thr[t] EXCEPT !.upto = Latest, !.pc = p])
      PROVE  Steady(m, t)
  <2> DEFINE r == [thr[t] EXCEPT !.upto = Latest, !.pc = p]
  <2>1. /\ r.pc = p /\ r.data = thr[t].data /\ r.ver = thr[t].ver
        /\ r.consent = thr[t].consent /\ r.doubt = thr[t].doubt
    BY <1>2 DEF ThreadRecord
  <2>2. thr' = [thr EXCEPT ![t] = r] BY <1>4 DEF Goto
  <2> HIDE DEF r
  <2>3. thr'[t] = r BY <1>1, <1>2, <2>2
  <2>4. Before(t) /\ Before(t)' BY <1>4, <2>1, <2>3 DEF Before
  <2> QED BY <2>1, <2>3, <2>4 DEF Steady
<1>5. CASE thr[t].pc = "record" /\ At(t, "reopen")
  <2> DEFINE r == [thr[t] EXCEPT !.pc = "reopen"]
  <2>1. r.pc = "reopen" /\ r.data = thr[t].data BY <1>2 DEF ThreadRecord
  <2>2. thr' = [thr EXCEPT ![t] = r] BY <1>5 DEF At, Goto
  <2> HIDE DEF r
  <2>3. thr'[t] = r BY <1>1, <1>2, <2>2
  <2>4. After(t) /\ ~Before(t)' BY <1>5, <2>1, <2>3 DEF After, Before
  <2> QED BY <2>1, <2>3, <2>4 DEF Steady
<1>6. CASE Reopen(t) /\ reader' = copied
  <2>1. CASE thr[t].outcome = "failed"
    <3>1. Failed(t).pc \in {"idle", "done"} BY DEF Failed, Idle
    <3>2. Goto(t, Failed(t)) \/ Fail(t) BY <1>1, <1>6, <2>1 DEF Reopen
    <3>3. thr'[t] = Failed(t) BY <1>1, <1>2, <3>2 DEF Goto, Fail
    <3> QED BY <3>1, <3>3 DEF Steady, Before, After
  <2>2. CASE thr[t].outcome # "failed" /\ ~Fail(t)
    <3> DEFINE r == [Idle EXCEPT !.pc = "stamp", !.data = thr[t].data]
    <3>1. r.pc = "stamp" /\ r.data = thr[t].data BY DEF Idle
    <3>2. thr' = [thr EXCEPT ![t] = r] BY <1>1, <1>6, <2>2 DEF Reopen, Goto
    <3> HIDE DEF r
    <3>3. thr'[t] = r BY <1>1, <1>2, <3>2
    <3>4. After(t) /\ After(t)' BY <1>6, <2>2, <3>1, <3>3 DEF Reopen, After
    <3> QED BY <1>6, <3>1, <3>3, <3>4 DEF Steady
  <2> QED BY <1>3, <2>1, <2>2
<1>7. CASE Acquire(t)
  <2> DEFINE p == IF Outdated THEN "download" ELSE AfterPrepare(t)
  <2>1. p \in {"download", "publish"} BY <1>1 DEF AfterPrepare
  <2>2. Fail(t) \/ Goto(t, [thr[t] EXCEPT !.upto = Latest, !.pc = p]) BY <1>7 DEF Acquire
  <2>3. thr[t].pc = "lock" BY <1>7 DEF Acquire
  <2> HIDE DEF p
  <2> QED BY <1>3, <1>4, <2>1, <2>2, <2>3
<1>8. CASE Download(t)
  <2> DEFINE p == AfterPrepare(t)
  <2>1. p \in {"download", "publish"} BY <1>1 DEF AfterPrepare
  <2>2. Fail(t) \/ Goto(t, [thr[t] EXCEPT !.upto = Latest, !.pc = p]) BY <1>8 DEF Download
  <2>3. thr[t].pc = "download" BY <1>8 DEF Download
  <2> HIDE DEF p
  <2> QED BY <1>3, <1>4, <2>1, <2>2, <2>3
<1> QED BY <1>3, <1>5, <1>6, <1>7, <1>8 DEF Record, Reopen

LEMMA CommitCalm ==
  ASSUME CopiesInv, NEW m \in Members, NEW t \in Threads, Commit(t),
         Acquire(t) \/ Download(t) \/ Record(t) \/ Reopen(t)
  PROVE  Calm(m)
<1>1. thr[t].pc # "publish" /\ UNCHANGED <<local, base, shown, remote>>
  BY DEF Commit, Acquire, Download, Record, Reopen
<1>2. Untouched(m) BY <1>1 DEF Commit, Untouched
<1>3. Newest(m)' = Newest(m) BY <1>1 DEF Newest, Latest, Content
<1>4. Grows BY <1>1, MemberTypes DEF Grows, Latest
<1>5. copied'[m] \in {copied[m], Newest(m)}
  BY DEF Acquire, Download, Record, Reopen, Newest
<1>6. reader'[m] \in {reader[m], copied[m]} BY DEF Acquire, Download, Record, Reopen
<1>7. Drift(m) BY <1>3, <1>5, <1>6, MemberTypes DEF Drift
<1>8. ASSUME NEW u \in Of(m) PROVE Steady(m, u)
  <2>1. CASE u = t BY <1>8, <2>1, CommitSteady
  <2>2. CASE u # t BY <1>8, <2>2, CommitThread DEF ThrOnly, Of, Steady, Commit
  <2> QED BY <2>1, <2>2
<1> QED BY <1>2, <1>4, <1>7, <1>8 DEF Calm

LEMMA PublishKeeps ==
  ASSUME AllInv, NEW m \in Members, NEW t \in Threads, Commit(t), Publish(t)
  PROVE  Keeps(m)
<1> USE DEF AllInv
<1>1. /\ ThrOnly(t) /\ thr[t].pc = "publish" /\ thr[t].data \in Nat
      /\ thr \in [Threads -> ThreadRecord]
  BY CommitThread, ThreadTypes DEF Commit, Publish, CopiesInv, ArchiveInv, ArchiveTypeOK
<1>2. UNCHANGED <<local, base, shown, reader>> BY DEF Commit, Publish
<1>3. copied \in Revisions /\ basis \in Revisions /\ Rebuilt(t) \in Revisions
  BY RebuiltType DEF CopiesInv, ArchiveInv, ArchiveTypeOK, CopiesTypeOK
<1>4. CASE /\ copied' = Rebuilt(t)
           /\ remote' = Append(remote, [members |-> Rebuilt(t), by |-> "us"])
           /\ Goto(t, [Idle EXCEPT !.pc = "record", !.data = thr[t].data])
  <2>1. thr'[t].pc = "record" /\ thr'[t].data = thr[t].data
    <3> DEFINE r == [Idle EXCEPT !.pc = "record", !.data = thr[t].data]
    <3>1. r.pc = "record" /\ r.data = thr[t].data BY DEF Idle
    <3>2. thr' = [thr EXCEPT ![t] = r] BY <1>4 DEF Goto
    <3> HIDE DEF r
    <3> QED BY <1>1, <3>1, <3>2
  <2>2. Grows /\ Newest(m)' = Rebuilt(t)[m] /\ remote' # remote
    <3> DEFINE x == [members |-> Rebuilt(t), by |-> "us"]
    <3>1. x.members = Rebuilt(t) /\ x \in Version BY <1>3 DEF Version
    <3>2. remote' = Append(remote, x) BY <1>4
    <3> HIDE DEF x
    <3>3. /\ Latest' = Latest + 1 /\ remote'[Latest + 1] = x
          /\ \A v \in 1 .. Latest : remote'[v] = remote[v]
      BY <3>1, <3>2, Appended DEF CopiesInv, ArchiveInv
    <3>4. Newest(m)' = remote'[Latest'].members[m] BY DEF Newest, Content
    <3>5. Latest' # Latest BY <3>3, MemberTypes
    <3>6. remote' # remote BY <3>5 DEF Latest
    <3> QED BY <3>1, <3>3, <3>4, <3>6, MemberTypes DEF Grows
  <2>3. basis' = [basis EXCEPT ![Member(t)] = thr[t].data] BY <1>1, <2>2 DEF Commit
  <2>4. CASE Member(t) = m
    <3>1. /\ Newest(m)' = thr[t].data /\ copied'[m] = thr[t].data
          /\ basis'[m] = thr[t].data
      BY <1>3, <1>4, <2>2, <2>3, <2>4 DEF Rebuilt, Revisions
    <3>2. t \in Of(m) BY <2>4 DEF Of
    <3> QED BY <1>1, <1>2, <2>1, <3>1, <3>2, PublishedKeeps
  <2>5. CASE Member(t) # m
    <3>1. Newest(m)' = copied[m] /\ copied'[m] = copied[m] /\ basis'[m] = basis[m]
      BY <1>3, <1>4, <2>2, <2>3, <2>5 DEF Rebuilt, Revisions
    <3>2. Untouched(m) BY <1>2, <3>1 DEF Untouched
    <3>3. Drift(m) BY <1>2, <3>1, MemberTypes DEF Drift
    <3>4. t \in Threads \ Of(m) BY <2>5 DEF Of
    <3> QED BY <1>1, <2>2, <3>2, <3>3, <3>4, OthersCalm, CalmKeeps
  <2> QED BY <2>4, <2>5
<1>5. CASE FailLocked(t) /\ UNCHANGED remote
  <2>1. thr'[t].pc = "reopen" /\ thr'[t].outcome = "failed"
    <3> DEFINE r == [Idle EXCEPT !.pc = "reopen", !.outcome = "failed"]
    <3>1. r.pc = "reopen" /\ r.outcome = "failed" BY DEF Idle
    <3>2. thr' = [thr EXCEPT ![t] = r] BY <1>5 DEF FailLocked
    <3> HIDE DEF r
    <3> QED BY <1>1, <3>1, <3>2
  <2>2. /\ basis' = basis /\ Newest(m)' = Newest(m) /\ remote' = remote /\ Latest' = Latest
        /\ copied' \in {copied, Rebuilt(t)}
    BY <1>5 DEF Commit, Publish, Newest, Latest, Content
  <2>3. CASE Member(t) = m
    <3>1. copied'[m] \in {copied[m], thr[t].data}
      BY <1>3, <2>2, <2>3 DEF Rebuilt, Revisions
    <3>2. t \in Of(m) BY <2>3 DEF Of
    <3> QED BY <1>1, <1>2, <2>1, <2>2, <3>1, <3>2, UnpublishedKeeps
  <2>4. CASE Member(t) # m
    <3>1. copied'[m] = copied[m] BY <1>3, <2>2, <2>4 DEF Rebuilt, Revisions
    <3>2. Untouched(m) BY <1>2, <2>2 DEF Untouched
    <3>3. Grows /\ Drift(m) BY <1>2, <2>2, <3>1, MemberTypes DEF Drift, Grows
    <3>4. t \in Threads \ Of(m) BY <2>4 DEF Of
    <3> QED BY <1>1, <3>2, <3>3, <3>4, OthersCalm, CalmKeeps
  <2> QED BY <2>3, <2>4
<1> QED BY <1>4, <1>5 DEF Publish

LEMMA OthersKeeps ==
  ASSUME AllInv, NEW m \in Members, Others PROVE Keeps(m)
<1> USE DEF AllInv
<1>1. UNCHANGED <<copyVars, thr, copied, reader>> BY DEF Others, OthersWrite
<1>2. PICK x \in Version : /\ remote' = Append(remote, x)
                           /\ \A n \in Members : x.members[n] \in {revs + 1, Newest(n)}
  <2>1. PICK ms \in SUBSET Members :
          remote' = Append(remote,
            [members |-> [n \in Members |-> IF n \in ms THEN revs + 1
                                            ELSE Content(Latest)[n]],
             by |-> "others"])
    BY DEF Others, OthersWrite
  <2> DEFINE c == [n \in Members |-> IF n \in ms THEN revs + 1 ELSE Content(Latest)[n]]
             x == [members |-> c, by |-> "others"]
  <2>2. c \in Revisions BY MemberTypes DEF Newest, Revisions
  <2>3. \A n \in Members : c[n] \in {revs + 1, Newest(n)} BY DEF Newest
  <2> HIDE DEF c
  <2>4. x \in Version /\ x.members = c BY <2>2 DEF Version
  <2>5. remote' = Append(remote, x) BY <2>1 DEF c
  <2> QED BY <2>3, <2>4, <2>5
<1>3. Grows /\ Newest(m)' \in {revs + 1, Newest(m)}
  <2>1. /\ Latest' = Latest + 1 /\ remote'[Latest + 1] = x
        /\ \A v \in 1 .. Latest : remote'[v] = remote[v]
    BY <1>2, Appended DEF CopiesInv, ArchiveInv
  <2>2. Newest(m)' = remote'[Latest'].members[m] BY DEF Newest, Content
  <2>3. Newest(m)' = x.members[m] BY <2>1, <2>2
  <2>4. Grows BY <2>1, MemberTypes DEF Grows
  <2> QED BY <1>2, <2>3, <2>4
<1>4. Untouched(m) BY <1>1 DEF Untouched, copyVars
<1>5. Drift(m) BY <1>1, <1>3, MemberTypes DEF Drift
<1>6. MountThread \in Threads \ Of(m) /\ ThrOnly(MountThread)
  BY <1>1, ThreadsOf, MountIsThread DEF ThrOnly
<1> QED BY <1>3, <1>4, <1>5, <1>6, OthersCalm, CalmKeeps

LEMMA EachKeeps ==
  ASSUME AllInv, [Next]_vars, NEW m \in Members PROVE Keeps(m)
<1> USE DEF AllInv
<1>1. ASSUME NEW t \in Threads, Commit(t) PROVE Keeps(m)
  <2>1. CASE Publish(t) BY <1>1, <2>1, PublishKeeps
  <2>2. CASE Acquire(t) \/ Download(t) \/ Record(t) \/ Reopen(t)
    BY <1>1, <2>2, CommitCalm, CalmKeeps
  <2> QED BY <1>1, <2>1, <2>2 DEF Commit, ArchiveStep
<1>2. ASSUME NEW t \in Threads \ {MountThread}, Stamp(t) PROVE Keeps(m)
  BY <1>2, StampKeepsAll
<1>3. ASSUME NEW n \in Members, Check(n) \/ AnswerSync(n) \/ Decide(n) \/ AnswerOpen(n)
      PROVE  Keeps(m)
  BY <1>3, JobKeeps
<1>4. ASSUME NEW n \in Members, StartDownload(n) \/ Fetch(n) PROVE Keeps(m)
  BY <1>4, DownloadKeeps
<1>5. ASSUME NEW n \in Members, Save(n) PROVE Keeps(m) BY <1>5, SaveKeepsAll
<1>6. ASSUME NEW n \in Members, RebasePut(n) PROVE Keeps(m) BY <1>6, RebasePutKeeps
<1>7. ASSUME NEW n \in Members,
             \/ OpenMember(n) \/ OpenDone(n) \/ Report(n) \/ SyncNow(n) \/ SyncDone(n)
             \/ RebaseSibling(n) \/ RebaseDone(n)
      PROVE  Keeps(m)
  BY <1>7, ManagerRests, RestingKeeps
<1>8. ASSUME EnterArchive \/ UNCHANGED vars PROVE Keeps(m)
  BY <1>8, ManagerRests, RestingKeeps
<1>9. ASSUME Others PROVE Keeps(m) BY <1>9, OthersKeeps
<1> QED BY <1>1, <1>2, <1>3, <1>4, <1>5, <1>6, <1>7, <1>8, <1>9 DEF Next

-------------------------------------------------------------------------------
\* Every step is of one thread, or of none.

\* What a step leaves of its thread: what it carries was made before.
Made(u, r) ==
  /\ r.data \in {0, thr[u].data} \/ \E m \in Members : r.data = local[m]
  /\ \/ r.found.own \in {0, thr[u].found.own} /\ r.pc # "rebasePut"
     \/ r.found.who \in Members /\ SameMember(r.found.who) /\ r.found.own = reader[r.found.who]
     \/ r.found = thr[u].found /\ thr[u].pc = "rebasePut"
  /\ u = MountThread => r.pc # "publish" \/ r = thr[u]
\* A job of a member begins when the member has none.
Free(u) == \/ thr[u].pc # "idle" \/ u = MountThread
           \/ \E n \in Members : u \in Of(n) /\ ~Running(n) /\ ~Opening(n)
StepOf(u) == ThrOnly(u) /\ Free(u) /\ Made(u, thr'[u])
OneStep == \E u \in Threads : StepOf(u)

LEMMA Leaves ==
  ASSUME CopiesInv, NEW u \in Threads, Free(u), NEW r, thr' = [thr EXCEPT ![u] = r], Made(u, r)
  PROVE  OneStep
<1>1. thr'[u] = r /\ ThrOnly(u) BY DEF CopiesInv, ArchiveInv, ArchiveTypeOK, ThrOnly
<1> QED BY <1>1 DEF OneStep, StepOf

LEMMA LeavesNone ==
  ASSUME CopiesInv, UNCHANGED thr PROVE OneStep
<1>1. thr' = [thr EXCEPT ![MountThread] = thr[MountThread]]
  BY MountIsThread DEF CopiesInv, ArchiveInv, ArchiveTypeOK
<1>2. Made(MountThread, thr[MountThread]) BY DEF Made
<1> QED BY <1>1, <1>2, MountIsThread, Leaves DEF Free

\* A thread that is reset.
LEMMA LeavesReset ==
  ASSUME CopiesInv, NEW u \in Threads, Free(u), NEW r, thr' = [thr EXCEPT ![u] = r],
         r.pc \notin {"rebasePut", "publish"}, r.data = 0, r.found.own = 0
  PROVE  OneStep
<1>1. Made(u, r) BY DEF Made
<1> QED BY <1>1, Leaves

LEMMA LeavesEnd ==
  ASSUME CopiesInv, NEW u \in Threads, Free(u),
         \/ Fail(u) \/ FailLocked(u) \/ Goto(u, Idle) \/ Goto(u, Failed(u))
         \/ \E o : Finish(u, o)
         \/ \E p \in {"check", "decide", "start"} : Goto(u, [Idle EXCEPT !.pc = p])
         \/ \E c : Goto(u, [Idle EXCEPT !.pc = "check", !.consent = c])
  PROVE  OneStep
<1>1. Idle.pc = "idle" /\ Idle.data = 0 /\ Idle.found.own = 0 BY DEF Idle
<1>2. Failed(u).pc \notin {"rebasePut", "publish"} /\ Failed(u).data = 0 /\ Failed(u).found.own = 0
  BY DEF Failed, Idle
<1>3. CASE Fail(u) \/ Goto(u, Failed(u)) BY <1>2, <1>3, LeavesReset DEF Fail, Goto
<1>4. CASE Goto(u, Idle) BY <1>1, <1>4, LeavesReset DEF Goto
<1>5. CASE FailLocked(u)
  <2> DEFINE r == [Idle EXCEPT !.pc = "reopen", !.outcome = "failed"]
  <2>1. r.pc \notin {"rebasePut", "publish"} /\ r.data = 0 /\ r.found.own = 0 BY DEF Idle
  <2>2. thr' = [thr EXCEPT ![u] = r] BY <1>5 DEF FailLocked
  <2> HIDE DEF r
  <2> QED BY <2>1, <2>2, LeavesReset
<1>6. ASSUME NEW o, Finish(u, o) PROVE OneStep
  <2> DEFINE r == [Idle EXCEPT !.pc = "done", !.outcome = o]
  <2>1. r.pc \notin {"rebasePut", "publish"} /\ r.data = 0 /\ r.found.own = 0 BY DEF Idle
  <2>2. thr' = [thr EXCEPT ![u] = r] BY <1>6 DEF Finish, Goto
  <2> HIDE DEF r
  <2> QED BY <2>1, <2>2, LeavesReset
<1>7. ASSUME NEW p \in {"check", "decide", "start"}, Goto(u, [Idle EXCEPT !.pc = p])
      PROVE  OneStep
  <2> DEFINE r == [Idle EXCEPT !.pc = p]
  <2>1. r.pc \notin {"rebasePut", "publish"} /\ r.data = 0 /\ r.found.own = 0 BY DEF Idle
  <2>2. thr' = [thr EXCEPT ![u] = r] BY <1>7 DEF Goto
  <2> HIDE DEF r
  <2> QED BY <2>1, <2>2, LeavesReset
<1>8. ASSUME NEW c, Goto(u, [Idle EXCEPT !.pc = "check", !.consent = c]) PROVE OneStep
  <2> DEFINE r == [Idle EXCEPT !.pc = "check", !.consent = c]
  <2>1. r.pc \notin {"rebasePut", "publish"} /\ r.data = 0 /\ r.found.own = 0 BY DEF Idle
  <2>2. thr' = [thr EXCEPT ![u] = r] BY <1>8 DEF Goto
  <2> HIDE DEF r
  <2> QED BY <2>1, <2>2, LeavesReset
<1> QED BY <1>3, <1>4, <1>5, <1>6, <1>7, <1>8

\* A thread that goes on.
Continues(u, p) ==
  \/ At(u, p)
  \/ \E x : Goto(u, [thr[u] EXCEPT !.upto = x, !.pc = p])
  \/ \E x : Goto(u, [thr[u] EXCEPT !.pc = p, !.todo = x])
  \/ Goto(u, [Idle EXCEPT !.pc = p, !.data = thr[u].data])

LEMMA LeavesOnTo ==
  ASSUME CopiesInv, NEW u \in Threads, Free(u), NEW p, p # "rebasePut",
         p # "publish" \/ u # MountThread, Continues(u, p)
  PROVE  OneStep
<1>1. ASSUME NEW r, thr' = [thr EXCEPT ![u] = r], r.pc = p, r.found.own \in {0, thr[u].found.own},
             r.data = thr[u].data
      PROVE  OneStep
  BY <1>1, Leaves DEF Made
<1>2. thr[u] \in ThreadRecord BY ThreadTypes
<1>3. CASE At(u, p)
  <2> DEFINE r == [thr[u] EXCEPT !.pc = p]
  <2>1. r.pc = p /\ r.found = thr[u].found /\ r.data = thr[u].data
    BY <1>2 DEF ThreadRecord
  <2>2. thr' = [thr EXCEPT ![u] = r] BY <1>3 DEF At, Goto
  <2> HIDE DEF r
  <2> QED BY <1>1, <2>1, <2>2
<1>4. ASSUME NEW x, Goto(u, [thr[u] EXCEPT !.upto = x, !.pc = p]) PROVE OneStep
  <2> DEFINE r == [thr[u] EXCEPT !.upto = x, !.pc = p]
  <2>1. r.pc = p /\ r.found = thr[u].found /\ r.data = thr[u].data
    BY <1>2 DEF ThreadRecord
  <2>2. thr' = [thr EXCEPT ![u] = r] BY <1>4 DEF Goto
  <2> HIDE DEF r
  <2> QED BY <1>1, <2>1, <2>2
<1>5. ASSUME NEW x, Goto(u, [thr[u] EXCEPT !.pc = p, !.todo = x]) PROVE OneStep
  <2> DEFINE r == [thr[u] EXCEPT !.pc = p, !.todo = x]
  <2>1. r.pc = p /\ r.found = thr[u].found /\ r.data = thr[u].data
    BY <1>2 DEF ThreadRecord
  <2>2. thr' = [thr EXCEPT ![u] = r] BY <1>5 DEF Goto
  <2> HIDE DEF r
  <2> QED BY <1>1, <2>1, <2>2
<1>6. CASE Goto(u, [Idle EXCEPT !.pc = p, !.data = thr[u].data])
  <2> DEFINE r == [Idle EXCEPT !.pc = p, !.data = thr[u].data]
  <2>1. r.pc = p /\ r.found.own = 0 /\ r.data = thr[u].data BY DEF Idle
  <2>2. thr' = [thr EXCEPT ![u] = r] BY <1>6 DEF Goto
  <2> HIDE DEF r
  <2> QED BY <1>1, <2>1, <2>2
<1> QED BY <1>3, <1>4, <1>5, <1>6 DEF Continues

LEMMA LeavesOn ==
  ASSUME CopiesInv, NEW u \in Threads, Free(u), NEW p, p # "rebasePut", p # "publish",
         \/ At(u, p)
         \/ \E x : Goto(u, [thr[u] EXCEPT !.pc = p, !.todo = x])
         \/ Goto(u, [Idle EXCEPT !.pc = p, !.data = thr[u].data])
  PROVE  OneStep
<1>1. Continues(u, p) BY DEF Continues
<1> QED BY <1>1, LeavesOnTo

LEMMA LeavesEnter ==
  ASSUME CopiesInv, NEW u \in Threads \ {MountThread}, Free(u), NEW c, EnterWriteBack(u, c)
  PROVE  OneStep
<1> DEFINE ver == IF c THEN 0 ELSE Latest
           doubt == IF c THEN "level" ELSE Doubt(Member(u))
           data == local[Member(u)]
           r == [Idle EXCEPT !.pc = "lock", !.consent = c, !.data = data, !.ver = ver,
                             !.doubt = doubt]
<1>1. thr' = [thr EXCEPT ![u] = r] BY DEF EnterWriteBack, Goto
<1>2. r.pc = "lock" /\ r.data = data /\ r.found.own = 0
  <2> HIDE DEF ver, doubt, data
  <2> QED BY DEF Idle
<1>3. Member(u) \in Members BY DEF Threads, MountThread, Member
<1> HIDE DEF r
<1>4. Made(u, r) BY <1>2, <1>3 DEF Made
<1> QED BY <1>1, <1>4, Leaves

LEMMA LeavesRebase ==
  ASSUME CopiesInv, NEW n \in Members, RebaseSibling(n)
  PROVE  OneStep
<1> DEFINE u == Sync(n)
<1>5. u # MountThread BY ThreadsOf, OfMember DEF Of
<1>1. /\ u \in Threads /\ thr[u].pc = "rebase" /\ thr[u] \in ThreadRecord /\ Free(u)
      /\ thr[u].todo \subseteq Members
  BY OfMember, ThreadTypes DEF RebaseSibling, Free, ThreadRecord
<1>2. PICK k \in thr[u].todo :
        \/ /\ SameMember(k)
           /\ Goto(u, [thr[u] EXCEPT !.pc = "rebasePut",
                         !.found = [who |-> k, own |-> reader[k], ver |-> Latest]])
        \/ thr' = [thr EXCEPT ![u] = [thr[u] EXCEPT !.todo = @ \ {k}]]
  BY DEF RebaseSibling, Goto
<1>3. CASE /\ SameMember(k)
           /\ Goto(u, [thr[u] EXCEPT !.pc = "rebasePut",
                         !.found = [who |-> k, own |-> reader[k], ver |-> Latest]])
  <2> DEFINE f == [who |-> k, own |-> reader[k], ver |-> Latest]
             r == [thr[u] EXCEPT !.pc = "rebasePut", !.found = f]
  <2>1. f.who = k /\ f.own = reader[k] OBVIOUS
  <2>2. thr' = [thr EXCEPT ![u] = r] BY <1>3 DEF Goto
  <2> HIDE DEF f
  <2>3. r.data = thr[u].data /\ r.found = f BY <1>1 DEF ThreadRecord
  <2> HIDE DEF r
  <2>4. Made(u, r) BY <1>1, <1>2, <1>3, <1>5, <2>1, <2>3 DEF Made
  <2> HIDE DEF u
  <2> QED BY <1>1, <2>2, <2>4, Leaves
<1>4. CASE thr' = [thr EXCEPT ![u] = [thr[u] EXCEPT !.todo = @ \ {k}]]
  <2> DEFINE left == thr[u].todo \ {k}
             r == [thr[u] EXCEPT !.todo = left]
  <2>1. thr' = [thr EXCEPT ![u] = r] BY <1>4
  <2> HIDE DEF left
  <2>2. r.data = thr[u].data /\ r.found = thr[u].found /\ r.pc = "rebase"
    BY <1>1 DEF ThreadRecord
  <2> HIDE DEF r
  <2>3. Made(u, r) BY <1>5, <2>2 DEF Made
  <2> HIDE DEF u
  <2> QED BY <1>1, <2>1, <2>3, Leaves
<1> QED BY <1>2, <1>3, <1>4

LEMMA EveryStepIsOne ==
  ASSUME CopiesInv, [Next]_vars PROVE OneStep
<1> USE DEF Free
<1>1. ASSUME NEW t \in Threads, Commit(t) PROVE OneStep
  <2> DEFINE p == IF Outdated THEN "download" ELSE AfterPrepare(t)
  <2>0. /\ AfterPrepare(t) # "rebasePut" /\ p # "rebasePut"
        /\ t = MountThread => AfterPrepare(t) # "publish" /\ p # "publish"
    BY DEF AfterPrepare
  <2>1. CASE Acquire(t)
    <3>1. Fail(t) \/ Goto(t, [thr[t] EXCEPT !.upto = Latest, !.pc = p])
      BY <2>1 DEF Acquire
    <3> HIDE DEF p
    <3> QED BY <2>0, <2>1, <3>1, LeavesEnd, LeavesOnTo DEF Acquire, Continues
  <2>2. CASE Download(t) BY <2>0, <2>2, LeavesEnd, LeavesOnTo DEF Download, Continues
  <2>3. CASE Publish(t) BY <2>3, LeavesEnd, LeavesOn DEF Publish
  <2>4. CASE Record(t) BY <2>4, LeavesEnd, LeavesOn DEF Record
  <2>5. CASE Reopen(t)
    <3>1. \/ Fail(t) \/ Goto(t, Idle) \/ Goto(t, Failed(t))
          \/ Goto(t, [Idle EXCEPT !.pc = "stamp", !.data = thr[t].data])
      BY <2>5 DEF Reopen
    <3> QED BY <2>5, <3>1, LeavesEnd, LeavesOn DEF Reopen
  <2> QED BY <1>1, <2>1, <2>2, <2>3, <2>4, <2>5 DEF Commit, ArchiveStep
<1>2. ASSUME NEW t \in Threads \ {MountThread}, Stamp(t) PROVE OneStep
  BY <1>2, LeavesEnd DEF Stamp
<1>3. ASSUME NEW n \in Members, Check(n) \/ AnswerSync(n) \/ Decide(n) \/ AnswerOpen(n)
      PROVE  OneStep
  <2>1. Sync(n) \in Threads \ {MountThread} /\ Open(n) \in Threads \ {MountThread}
    BY OfMember, ThreadsOf DEF Of
  <2>2. CASE Check(n) BY <2>1, <2>2, LeavesEnd, LeavesOn, LeavesEnter DEF Check
  <2>3. CASE AnswerSync(n) BY <2>1, <2>3, LeavesEnd, LeavesEnter DEF AnswerSync
  <2>4. CASE Decide(n) BY <2>1, <2>4, LeavesEnd, LeavesOn DEF Decide
  <2>5. CASE AnswerOpen(n)
    BY <2>1, <2>5, LeavesEnd, LeavesOn, LeavesEnter DEF AnswerOpen
  <2> QED BY <1>3, <2>2, <2>3, <2>4, <2>5
<1>4. ASSUME NEW n \in Members, StartDownload(n) \/ Fetch(n) \/ OpenDone(n) PROVE OneStep
  BY <1>4, OfMember, LeavesEnd, LeavesOn DEF StartDownload, Fetch, OpenDone
<1>5. ASSUME NEW n \in Members, OpenMember(n) PROVE OneStep
  <2> DEFINE p == IF status[n] = "closed" THEN "start" ELSE "decide"
  <2>1. p \in {"start", "decide"} /\ Goto(Open(n), [Idle EXCEPT !.pc = p])
    BY <1>5 DEF OpenMember
  <2>2. Open(n) \in Of(n) /\ ~Running(n) /\ ~Opening(n)
    BY <1>5, OfMember DEF Of, OpenMember
  <2> HIDE DEF p
  <2> QED BY <2>1, <2>2, OfMember, LeavesEnd
<1>6. ASSUME NEW n \in Members, Save(n) PROVE OneStep BY <1>6, LeavesNone DEF Save
<1>7. ASSUME NEW n \in Members, Report(n) \/ SyncNow(n) PROVE OneStep
  <2>1. ~Opening(n) /\ Sync(n) \in Of(n) /\ Sync(n) \in Threads
    BY <1>7, OfMember DEF Report, SyncNow, Of
  <2>2. ASSUME NEW c, StartSync(n, c) PROVE OneStep
    BY <2>1, <2>2, LeavesEnd DEF StartSync
  <2>3. CASE UNCHANGED thr BY <2>3, LeavesNone
  <2> QED BY <1>7, <2>2, <2>3 DEF Report, SyncNow, QueueSync
<1>8. ASSUME NEW n \in Members, SyncDone(n) \/ RebaseDone(n) PROVE OneStep
  <2>1. Sync(n) \in Threads /\ Free(Sync(n)) BY <1>8, OfMember DEF SyncDone, RebaseDone
  <2>2. \/ Goto(Sync(n), Idle) \/ Goto(Sync(n), [Idle EXCEPT !.pc = "check"])
        \/ Goto(Sync(n), [thr[Sync(n)] EXCEPT !.pc = "rebase", !.todo = Siblings(n)])
    BY <1>8 DEF SyncDone, RebaseDone, Again
  <2> QED BY <2>1, <2>2, LeavesEnd, LeavesOn
<1>9. ASSUME NEW n \in Members, RebaseSibling(n) PROVE OneStep BY <1>9, LeavesRebase
<1>10. ASSUME NEW n \in Members, RebasePut(n) PROVE OneStep
  <2>1. Sync(n) \in Threads /\ Free(Sync(n)) BY <1>10, OfMember DEF RebasePut
  <2> DEFINE left == thr[Sync(n)].todo \ {thr[Sync(n)].found.who}
  <2>2. Goto(Sync(n), [thr[Sync(n)] EXCEPT !.pc = "rebase", !.todo = left])
    BY <1>10 DEF RebasePut
  <2> HIDE DEF left
  <2> QED BY <2>1, <2>2, LeavesOn
<1>11. ASSUME EnterArchive PROVE OneStep
  BY <1>11, MountIsThread, LeavesOn DEF EnterArchive
<1>12. ASSUME Others \/ UNCHANGED vars PROVE OneStep
  BY <1>12, LeavesNone DEF Others, OthersWrite, vars, archiveVars
<1> QED
  BY <1>1, <1>2, <1>3, <1>4, <1>5, <1>6, <1>7, <1>8, <1>9, <1>10, <1>11, <1>12 DEF Next

LEMMA OneAtWorkNext ==
  ASSUME AllInv, [Next]_vars, NEW m \in Members PROVE OneAtWork(m)'
<1>1. PICK u \in Threads : StepOf(u) BY EveryStepIsOne DEF AllInv, OneStep
<1>2. OneAtWork(m) /\ \A x \in Threads \ {u} : thr'[x] = thr[x]
  BY <1>1 DEF AllInv, MemberInv, StepOf, ThrOnly
<1>3. CASE u \in Of(m) /\ thr[u].pc # "idle"
  <2>1. \A x \in Of(m) \ {u} : x \in Threads /\ thr[x].pc = "idle"
    BY <1>2, <1>3 DEF OneAtWork, Of
  <2> QED BY <1>2, <2>1 DEF OneAtWork
<1>4. CASE u \in Of(m) /\ thr[u].pc = "idle"
  <2>1. u # MountThread BY <1>4, ThreadsOf
  <2>2. ~Running(m) /\ ~Opening(m) BY <1>1, <1>4, <2>1, ThreadsOf DEF StepOf, Free
  <2>3. \A x \in Of(m) \ {u} : x \in Threads /\ thr[x].pc = "idle"
    BY <2>2, ThreadsOf DEF Running, Opening, Of
  <2> QED BY <1>2, <2>3 DEF OneAtWork
<1>5. CASE u \notin Of(m) BY <1>2, <1>5 DEF OneAtWork, Of
<1> QED BY <1>3, <1>4, <1>5

LEMMA FoundNext ==
  ASSUME AllInv, [Next]_vars, NEW m \in Members PROVE Found(m)'
<1>1. Keeps(m) BY EachKeeps
<1>2. PICK u \in Threads : StepOf(u) BY EveryStepIsOne DEF AllInv, OneStep
<1>3. \A x \in Nat : x <= revs /\ Good(m, x) => Good(m, x)' BY <1>1 DEF Keeps
<1>4. ASSUME NEW t \in Threads, thr'[t].pc = "rebasePut", thr'[t].found.who = m
      PROVE  /\ thr'[t].found.own \in Nat /\ thr'[t].found.own <= revs
             /\ Good(m, thr'[t].found.own)
  <2>1. CASE /\ thr'[t].found = thr[t].found /\ thr[t].pc = "rebasePut"
    BY <1>4, <2>1, ThreadTypes DEF AllInv, MemberInv, Found, Numbered
  <2>2. CASE t # u
    BY <1>2, <1>4, <2>1, <2>2 DEF StepOf, ThrOnly
  <2>3. CASE SameMember(m) /\ thr'[t].found.own = reader[m]
    <3>1. thr'[t].found.own = base[m].own BY <2>3 DEF SameMember
    <3> QED BY <3>1, MemberTypes DEF AllInv, MemberInv, Based, Numbered
  <2>4. CASE t = u BY <1>2, <1>4, <2>1, <2>3, <2>4 DEF StepOf, Made
  <2> QED BY <2>2, <2>4
<1> QED BY <1>3, <1>4 DEF Found

\* Revisions are numbered as they are made.
LEMMA RevsGrow ==
  ASSUME CopiesInv, [Next]_vars PROVE revs \in Nat /\ revs' \in Nat /\ revs <= revs'
<1>1. revs \in Nat /\ revs' \in Nat
  BY CopiesNext DEF CopiesInv, ArchiveInv, ArchiveTypeOK
<1>2. revs' \in {revs, revs + 1}
  BY DEF Next, Commit, ArchiveStep, Acquire, Download, Publish, Record, Reopen, Stamp, Check,
     AnswerSync, Decide, AnswerOpen, StartDownload, Fetch, OpenMember, OpenDone, Save, Report,
     SyncNow, SyncDone, RebaseSibling, RebasePut, RebaseDone, EnterArchive, Others, OthersWrite,
     mountVars, archiveVars, vars
<1> QED BY <1>1, <1>2

LEMMA ThreadsNumbered ==
  ASSUME AllInv, [Next]_vars, NEW t \in Threads
  PROVE  thr'[t].data <= revs' /\ thr'[t].found.own <= revs'
<1>1. PICK u \in Threads : StepOf(u) BY EveryStepIsOne DEF AllInv, OneStep
<1>2. thr[t].data <= revs /\ thr[t].found.own <= revs /\ revs \in Nat /\ revs' \in Nat /\ revs <= revs'
  BY RevsGrow DEF AllInv, Numbered
<1>3. thr[t].data \in Nat /\ thr[t].found.own \in Nat
  BY ThreadTypes DEF AllInv
<1>4. \A m \in Members : /\ local[m] \in Nat /\ local[m] <= revs
                         /\ reader[m] \in Nat /\ reader[m] <= revs
  BY MemberTypes DEF AllInv, Numbered
<1>5. CASE t # u BY <1>1, <1>2, <1>3, <1>5 DEF StepOf, ThrOnly
<1>6. CASE t = u
  <2>1. thr'[t].data <= revs' BY <1>1, <1>2, <1>3, <1>4, <1>6 DEF StepOf, Made
  <2>2. thr'[t].found.own <= revs' BY <1>1, <1>2, <1>3, <1>4, <1>6 DEF StepOf, Made
  <2> QED BY <2>1, <2>2
<1> QED BY <1>5, <1>6

\* What the mount, the archive and the local file of it hold.
MountNumbered(m) ==
  /\ copied[m] <= revs /\ reader[m] <= revs
  /\ \A v \in 1 .. Latest : Content(v)[m] <= revs

LEMMA MountNumberedNext ==
  ASSUME AllInv, [Next]_vars, NEW m \in Members PROVE MountNumbered(m)'
<1> USE DEF AllInv
<1>1. /\ revs \in Nat /\ revs' \in Nat /\ revs <= revs'
      /\ copied[m] \in Nat /\ reader[m] \in Nat /\ Latest \in Nat \ {0}
      /\ copied[m] <= revs /\ reader[m] <= revs
      /\ \A v \in 1 .. Latest : Content(v)[m] \in Nat /\ Content(v)[m] <= revs
      /\ copied \in Revisions /\ reader \in Revisions
  BY RevsGrow, MemberTypes DEF Numbered, CopiesInv, ArchiveInv, ArchiveTypeOK
<1>2. CASE MountAlone
  BY <1>1, <1>2 DEF MountAlone, MountNumbered, Latest, Content
<1>3. ASSUME NEW t \in Threads, Acquire(t) \/ Download(t) \/ Record(t) \/ Reopen(t)
      PROVE  MountNumbered(m)'
  <2>1. remote' = remote /\ Latest' = Latest /\ \A v \in 1 .. Latest : Content(v)' = Content(v)
    BY <1>3 DEF Acquire, Download, Record, Reopen, Latest, Content
  <2>2. copied'[m] \in {copied[m], Content(Latest)[m]}
    BY <1>3 DEF Acquire, Download, Record, Reopen
  <2>3. reader'[m] \in {copied[m], reader[m]}
    BY <1>3 DEF Acquire, Download, Record, Reopen
  <2>4. copied'[m] <= revs' /\ reader'[m] <= revs' BY <1>1, <2>2, <2>3
  <2> QED BY <1>1, <2>1, <2>4 DEF MountNumbered
<1>4. ASSUME NEW x \in Version, remote' = Append(remote, x), x.members[m] <= revs',
             copied'[m] <= revs', reader' = reader
      PROVE  MountNumbered(m)'
  <2>1. /\ Latest' = Latest + 1 /\ remote'[Latest + 1] = x
        /\ \A v \in 1 .. Latest : remote'[v] = remote[v]
    BY <1>4, Appended DEF CopiesInv, ArchiveInv
  <2>2. \A v \in 1 .. Latest' : Content(v)'[m] <= revs'
    <3> SUFFICES ASSUME NEW v \in 1 .. Latest' PROVE remote'[v].members[m] <= revs'
      BY DEF Content
    <3>1. CASE v = Latest + 1 BY <1>4, <2>1, <3>1
    <3>2. CASE v \in 1 .. Latest
      <4>1. Content(v)[m] \in Nat /\ Content(v)[m] <= revs BY <1>1, <3>2
      <4>2. remote'[v].members[m] = Content(v)[m] BY <2>1, <3>2 DEF Content
      <4> QED BY <1>1, <4>1, <4>2
    <3> QED BY <1>1, <2>1, <3>1, <3>2
  <2>3. reader'[m] <= revs' BY <1>1, <1>4
  <2> QED BY <1>4, <2>2, <2>3 DEF MountNumbered
<1>5. ASSUME NEW t \in Threads, Publish(t) PROVE MountNumbered(m)'
  <2>1. thr[t].data \in Nat /\ thr[t].data <= revs /\ Rebuilt(t) \in Revisions
    BY ThreadTypes, RebuiltType DEF Numbered, CopiesInv, ArchiveInv
  <2>2. Rebuilt(t)[m] \in {copied[m], thr[t].data} BY <1>1 DEF Rebuilt, Revisions
  <2>3. Rebuilt(t)[m] <= revs' BY <1>1, <2>1, <2>2
  <2>4. copied'[m] <= revs' /\ reader' = reader BY <1>1, <1>5, <2>3 DEF Publish
  <2>5. CASE remote' = remote
    BY <1>1, <2>4, <2>5 DEF MountNumbered, Latest, Content
  <2>6. CASE remote' = Append(remote, [members |-> Rebuilt(t), by |-> "us"])
    <3> DEFINE x == [members |-> Rebuilt(t), by |-> "us"]
    <3>1. x.members = Rebuilt(t) /\ x \in Version BY <2>1 DEF Version
    <3>2. remote' = Append(remote, x) BY <2>6
    <3> HIDE DEF x
    <3> QED BY <1>4, <2>3, <2>4, <3>1, <3>2
  <2> QED BY <1>5, <2>5, <2>6 DEF Publish
<1>6. ASSUME Others PROVE MountNumbered(m)'
  <2>1. PICK ms \in SUBSET Members :
          remote' = Append(remote,
            [members |-> [n \in Members |-> IF n \in ms THEN revs + 1
                                            ELSE Content(Latest)[n]],
             by |-> "others"])
    BY <1>6 DEF Others, OthersWrite
  <2> DEFINE c == [n \in Members |-> IF n \in ms THEN revs + 1 ELSE Content(Latest)[n]]
             x == [members |-> c, by |-> "others"]
  <2>2. c \in Revisions BY MemberTypes DEF Newest, Revisions
  <2>3. c[m] \in {revs + 1, Content(Latest)[m]} /\ revs' = revs + 1
    BY <1>6 DEF Others, OthersWrite
  <2>4. c[m] <= revs' BY <1>1, <2>3
  <2> HIDE DEF c
  <2>5. x \in Version /\ x.members = c BY <2>2 DEF Version
  <2>6. remote' = Append(remote, x) BY <2>1 DEF c
  <2>7. copied'[m] <= revs' /\ reader' = reader
    BY <1>1, <1>6 DEF Others, OthersWrite
  <2> HIDE DEF x
  <2> QED BY <1>4, <2>4, <2>5, <2>6, <2>7
<1>7. \/ MountAlone \/ Others
      \/ \E t \in Threads : \/ Publish(t) \/ Acquire(t) \/ Download(t) \/ Record(t)
                            \/ Reopen(t)
  BY DEF Next, Commit, ArchiveStep, Stamp, Check,
     AnswerSync, Decide, AnswerOpen, StartDownload, Fetch, OpenMember, OpenDone, Save, Report,
     SyncNow, SyncDone, RebaseSibling, RebasePut, RebaseDone, EnterArchive,
     mountVars, archiveVars, vars, MountAlone
<1> QED BY <1>2, <1>3, <1>5, <1>6, <1>7

\* What the copies hold.
LEMMA CopiesNumbered ==
  ASSUME AllInv, [Next]_vars, NEW m \in Members
  PROVE  local'[m] <= revs' /\ base'[m].own <= revs' /\ base'[m].digest <= revs'
<1> USE DEF AllInv
<1>1. /\ revs \in Nat /\ revs' \in Nat /\ revs <= revs'
      /\ local[m] \in Nat /\ reader[m] \in Nat /\ base[m].own \in Nat /\ base[m].digest \in Nat
      /\ local[m] <= revs /\ reader[m] <= revs /\ base[m].own <= revs
      /\ base[m].digest <= revs /\ 0 <= revs'
  BY RevsGrow, MemberTypes DEF Numbered
<1>2. \A t \in Threads : /\ thr[t].data \in Nat /\ thr[t].data <= revs
                         /\ thr[t].found.own \in Nat /\ thr[t].found.own <= revs
  BY ThreadTypes DEF Numbered
<1>3. local \in Revisions /\ base \in [Members -> [own : Nat, ver : 0 .. Latest, digest : Nat]]
  BY DEF CopiesInv, CopiesTypeOK
<1>4. CASE UNCHANGED <<local, base>> BY <1>1, <1>4
<1>5. ASSUME NEW t \in Threads \ {MountThread}, Stamp(t)
      PROVE  local'[m] <= revs' /\ base'[m].own <= revs' /\ base'[m].digest <= revs'
  <2>1. CASE /\ Member(t) = m
             /\ base' = [base EXCEPT ![m] = [own |-> reader[m], ver |-> Latest,
                                             digest |-> thr[t].data]]
    <3>1. base'[m].own = reader[m] /\ base'[m].digest = thr[t].data BY <1>3, <2>1
    <3> QED BY <1>1, <1>2, <1>5, <3>1 DEF Stamp
  <2>2. CASE base'[m] = base[m] BY <1>1, <1>5, <2>2 DEF Stamp
  <2> QED BY <1>3, <1>5, <2>1, <2>2 DEF Stamp, Written
<1>6. ASSUME NEW n \in Members, StartDownload(n) \/ Fetch(n)
      PROVE  local'[m] <= revs' /\ base'[m].own <= revs' /\ base'[m].digest <= revs'
  <2>1. local'[m] \in {local[m], reader[m]}
    BY <1>3, <1>6 DEF StartDownload, Fetch, Revisions
  <2>2. base'[m].own \in {base[m].own, reader[m]}
    BY <1>3, <1>6 DEF StartDownload, Fetch
  <2>3. base'[m].digest \in {0, base[m].digest, reader[m]}
    BY <1>3, <1>6 DEF StartDownload, Fetch, NoDigest
  <2> QED BY <1>1, <2>1, <2>2, <2>3
<1>7. ASSUME NEW n \in Members, Save(n)
      PROVE  local'[m] <= revs' /\ base'[m].own <= revs' /\ base'[m].digest <= revs'
  <2>1. local'[m] \in {local[m], revs'} /\ base' = base
    BY <1>3, <1>7 DEF Save, Revisions
  <2> QED BY <1>1, <2>1
<1>8. ASSUME NEW n \in Members, RebasePut(n)
      PROVE  local'[m] <= revs' /\ base'[m].own <= revs' /\ base'[m].digest <= revs'
  <2>1. /\ local' = local
        /\ base' = [base EXCEPT ![thr[Sync(n)].found.who] =
                      [own |-> thr[Sync(n)].found.own, ver |-> thr[Sync(n)].found.ver,
                       digest |-> @.digest]]
    BY <1>8 DEF RebasePut
  <2>2. base'[m].digest = base[m].digest /\ base'[m].own \in {base[m].own, thr[Sync(n)].found.own}
    BY <1>3, <2>1
  <2> QED BY <1>1, <1>2, <2>1, <2>2, OfMember
<1>9. \/ UNCHANGED <<local, base>>
      \/ \E t \in Threads \ {MountThread} : Stamp(t)
      \/ \E n \in Members : StartDownload(n) \/ Fetch(n) \/ Save(n) \/ RebasePut(n)
  BY DEF Next, Commit, Check,
     AnswerSync, Decide, AnswerOpen, OpenMember, OpenDone, Report,
     SyncNow, SyncDone, RebaseSibling, RebaseDone, EnterArchive, Others,
     copyVars, vars
<1> QED BY <1>4, <1>5, <1>6, <1>7, <1>8, <1>9

LEMMA AllNext == ASSUME AllInv, [Next]_vars PROVE AllInv'
<1>1. CopiesInv' BY CopiesNext DEF AllInv
<1>2. Numbered'
  BY ThreadsNumbered, MountNumberedNext, CopiesNumbered DEF Numbered, MountNumbered
<1>3. ASSUME NEW m \in Members PROVE MemberInv(m)'
  BY EachKeeps, OneAtWorkNext, FoundNext DEF MemberInv, Keeps
<1> QED BY <1>1, <1>2, <1>3 DEF AllInv

LEMMA AllInit == Init => AllInv
<1> SUFFICES ASSUME Init PROVE AllInv OBVIOUS
<1>1. CopiesInv BY CopiesInit
<1>2. /\ Latest = 1 /\ revs = 1 /\ Content(1) = [m \in Members |-> 1] /\ copied = Content(1)
      /\ reader = Content(1) /\ basis = local /\ \A m \in Members : shown[m] = "level"
  BY DEF Init, ArchiveInit, Latest, Content
<1>3. /\ \A t \in Threads : thr[t].pc = "idle" /\ thr[t].data = 0 /\ thr[t].found.own = 0
  <2>1. \A t \in Threads : thr[t] = Idle BY DEF Init, ArchiveInit
  <2>2. Idle.pc = "idle" /\ Idle.data = 0 /\ Idle.found.own = 0 BY DEF Idle
  <2> QED BY <2>1, <2>2
<1>4. \A m \in Members : /\ local[m] \in {0, 1} /\ base[m].own = local[m]
                         /\ base[m].digest = local[m]
  <2>1. PICK opened \in SUBSET Members :
          /\ local = [m \in Members |-> IF m \in opened THEN 1 ELSE 0]
          /\ base = [m \in Members |->
                       IF m \in opened THEN [own |-> 1, ver |-> 1, digest |-> 1]
                       ELSE [own |-> 0, ver |-> 0, digest |-> NoDigest]]
    BY DEF Init
  <2> QED BY <2>1 DEF NoDigest
<1>5. Numbered BY <1>2, <1>3, <1>4 DEF Numbered
<1>6. ASSUME NEW m \in Members PROVE MemberInv(m)
  <2>1. \A t \in Of(m) : ~Before(t) /\ ~After(t) /\ thr[t].pc = "idle"
    BY <1>3 DEF Before, After, Of
  <2>2. OneAtWork(m) /\ Carried(m) /\ Asked(m) BY <2>1 DEF OneAtWork, Carried, Asked
  <2>3. Kept(m) BY <1>2, <1>4 DEF Kept, Newest
  <2>4. Based(m) BY <1>2, <1>4, <2>1 DEF Based, Good, Covered, Overtaken
  <2>5. Found(m) BY <1>3 DEF Found
  <2> QED BY <2>2, <2>3, <2>4, <2>5 DEF MemberInv
<1> QED BY <1>1, <1>5, <1>6 DEF AllInv

LEMMA AllInvariant == Spec => []AllInv
BY AllInit, AllNext, PTL DEF Spec

\* A copy that counts as unmodified is on the archive, or was replaced there by
\* something newer (write_back, _commit_member, _rebase_siblings), unless it was
\* downloaded from a mount that a failed commit had left ahead.
THEOREM UnmodifiedStaysKept == Spec => []UnmodifiedIsKept
<1>1. AllInv => UnmodifiedIsKept
  <2> SUFFICES ASSUME AllInv, NEW m \in Members, ~Modified(m), shown[m] # "ahead"
               PROVE  Content(Latest)[m] >= local[m]
    BY DEF UnmodifiedIsKept
  <2>1. local[m] <= Newest(m) BY DEF AllInv, MemberInv, Kept
  <2> QED BY <2>1, MemberTypes DEF AllInv, Newest
<1> QED BY <1>1, AllInvariant, PTL

\* A refresh of the mount publishes nothing.
MountReads == thr[MountThread].pc # "publish"

LEMMA MountReadsNext ==
  ASSUME CopiesInv, MountReads, [Next]_vars PROVE MountReads'
<1>1. PICK u \in Threads : StepOf(u) BY EveryStepIsOne DEF OneStep
<1> QED BY <1>1, MountIsThread DEF MountReads, StepOf, ThrOnly, Made

LEMMA MountInvariant == Spec => []MountReads
<1>1. Init => MountReads BY MountIsThread DEF Init, ArchiveInit, Idle, MountReads
<1>2. CopiesInv /\ MountReads /\ [Next]_vars => MountReads' BY MountReadsNext
<1> QED BY <1>1, <1>2, CopiesInvariant, PTL DEF Spec

\* A member is replaced unasked only if what the local file descends from is what the
\* check could see of it, provided its baseline was in no doubt (sync_copy_task, of,
\* rebase_container).
THEOREM MembersAreAskedFirst == Spec => MembersAreAsked
<1>1. AllInv /\ MountReads /\ [Next]_vars =>
        \A t \in Threads : Published(t) /\ ~thr[t].consent /\ thr[t].doubt = "level"
                             => Seen(t)
  <2> SUFFICES ASSUME AllInv, MountReads, NEW t \in Threads, Published(t), ~thr[t].consent,
                      thr[t].doubt = "level"
               PROVE  Seen(t)
    OBVIOUS
  <2>1. Before(t) /\ t # MountThread BY DEF Published, Before, MountReads
  <2>2. Member(t) \in Members /\ t \in Of(Member(t))
    BY <2>1 DEF Threads, MountThread, Member, Of
  <2>3. Asked(Member(t)) BY <2>2 DEF AllInv, MemberInv
  <2> QED BY <2>1, <2>2, <2>3 DEF Asked
<1> QED BY <1>1, AllInvariant, MountInvariant, PTL DEF Spec, MembersAreAsked

=============================================================================
