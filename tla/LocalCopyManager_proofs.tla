----------------------- MODULE LocalCopyManager_proofs -----------------------
(***************************************************************************)
(* Theorems about LocalCopyManager, for every set of contents and every    *)
(* bound: what holds whatever the habits of the user are, and, further     *)
(* down, what a user can rely on who lets each operation end.              *)
(***************************************************************************)
EXTENDS LocalCopyManager, TLAPS

-----------------------------------------------------------------------------
\* Type correctness of the worker threads.

LEMMA IdleType == Idle \in ThreadRecord /\ Idle.pc = "idle"
BY DEF Idle, ThreadRecord, Pcs, Outcomes

LEMMA SourceIsNat == CopyTypeOK => Source \in Nat /\ Source >= 1
BY DEF CopyTypeOK, Source

\* A thread goes to one of its own steps with what that step needs, while the
\* source has not lost a version.
LEMMA GotoType ==
  ASSUME CopyTypeOK, Source' \in Nat, Source <= Source',
         NEW t \in Threads, NEW r \in ThreadRecord, Goto(t, r),
         t = "open" => r.pc \in OpenPcs,
         t # "open" => r.pc \in SyncPcs,
         r.pc = "publish" => r.data # NoContent,
         r.pc \in {"place", "digest"} => r.ver \in 1 .. Source'
  PROVE  ThreadsOK'
<1>1. /\ thr \in [Threads -> ThreadRecord]
      /\ \A u \in Threads : thr[u] \in ThreadRecord /\ Usable(thr[u])
  BY DEF CopyTypeOK, ThreadsOK
<1>2. thr' = [thr EXCEPT ![t] = r] BY DEF Goto
<1>3. \A u \in Threads : Usable(thr[u])'
  BY <1>1, <1>2, SourceIsNat DEF Usable, ThreadRecord
<1> QED BY <1>1, <1>2, <1>3 DEF ThreadsOK, CopyTypeOK, Threads

\* The same for a step that leaves the source alone.
LEMMA LocalGotoType ==
  ASSUME CopyTypeOK, UNCHANGED history,
         NEW t \in Threads, NEW r \in ThreadRecord, Goto(t, r),
         t = "open" => r.pc \in OpenPcs,
         t # "open" => r.pc \in SyncPcs,
         r.pc = "publish" => r.data # NoContent,
         r.pc \in {"place", "digest"} => r.ver \in 1 .. Source
  PROVE  ThreadsOK'
<1>1. Source' = Source BY DEF Source
<1> QED BY <1>1, SourceIsNat, GotoType

LEMMA CheckType ==
  ASSUME CopyTypeOK, NEW t \in Threads, Check(t) PROVE CopyTypeOK'
<1>1. thr[t] \in ThreadRecord BY DEF CopyTypeOK, ThreadsOK
<1>2. \E r \in ThreadRecord : r.pc \in {"read", "askSync", "done"} /\ Goto(t, r)
  BY <1>1 DEF Check, EnterWriteBack, Finish, ThreadRecord, Pcs, Outcomes, CopyTypeOK
<1>3. t # "open" BY DEF Check, CopyTypeOK, ThreadsOK, OpenPcs
<1> QED BY <1>2, <1>3, LocalGotoType DEF Check, CopyTypeOK, SyncPcs

LEMMA AnswerType ==
  ASSUME CopyTypeOK, NEW t \in Threads, Answer(t) PROVE CopyTypeOK'
<1>1. thr[t] \in ThreadRecord BY DEF CopyTypeOK, ThreadsOK
<1>2. CASE AnswerSync(t)
  <2>1. \E r \in ThreadRecord : r.pc \in {"read", "done"} /\ Goto(t, r)
    BY <1>1, <1>2 DEF AnswerSync, EnterWriteBack, Finish, ThreadRecord, Pcs,
                      Outcomes, CopyTypeOK
  <2>2. t # "open" BY <1>2 DEF AnswerSync, CopyTypeOK, ThreadsOK, OpenPcs
  <2> QED BY <1>2, <2>1, <2>2, LocalGotoType DEF AnswerSync, CopyTypeOK, SyncPcs
<1>3. CASE AnswerOpen(t)
  <2>1. \E r \in ThreadRecord : r.pc \in {"read", "begin", "done"} /\ Goto(t, r)
    BY <1>1, <1>3 DEF AnswerOpen, EnterWriteBack, Finish, ThreadRecord, Pcs,
                      Outcomes, CopyTypeOK
  <2>2. t = "open"
    BY <1>3 DEF AnswerOpen, CopyTypeOK, ThreadsOK, SyncPcs, Threads
  <2> QED BY <1>3, <2>1, <2>2, LocalGotoType DEF AnswerOpen, CopyTypeOK, OpenPcs, Pcs
<1> QED BY <1>2, <1>3 DEF Answer

\* The source gets one version more.
LEMMA AppendType ==
  ASSUME CopyTypeOK, NEW v \in Version, history' = Append(history, v)
  PROVE  /\ history' \in Seq(Version) /\ history' # <<>>
         /\ Source' = Source + 1
BY DEF CopyTypeOK, Source

LEMMA WriteBackType ==
  ASSUME CopyTypeOK, NEW t \in Threads, Read(t) \/ Publish(t) \/ Stamp(t)
  PROVE  CopyTypeOK'
<1>1. thr[t] \in ThreadRecord /\ Usable(thr[t]) BY DEF CopyTypeOK, ThreadsOK
<1>2. CASE Read(t)
  <2>1. \E r \in ThreadRecord :
          /\ r.pc \in {"publish", "done"}
          /\ r.pc = "publish" => r.data # NoContent
          /\ Goto(t, r)
    BY <1>1, <1>2 DEF Read, Readable, Finish, ThreadRecord, Pcs, Outcomes, CopyTypeOK
  <2>2. ThreadsOK' BY <1>2, <2>1, LocalGotoType DEF Read, Readable, SyncPcs, OpenPcs, Pcs
  <2> QED BY <1>2, <2>2 DEF Read, CopyTypeOK
<1>3. CASE Publish(t)
  <2>1. \E r \in ThreadRecord : r.pc \in {"stamp", "done"} /\ Goto(t, r)
    BY <1>1, <1>3 DEF Publish, Finish, ThreadRecord, Pcs, Outcomes
  <2>2. CASE history' = Append(history, [data |-> thr[t].data, by |-> "us",
                                         raced |-> FALSE])
             /\ basis' = IF thr[t].own THEN Source + 1 ELSE basis
    <3>1. [data |-> thr[t].data, by |-> "us", raced |-> FALSE] \in Version
      BY <1>1, <1>3 DEF Version, Publish, Usable, ThreadRecord
    <3>2. /\ history' \in Seq(Version) /\ history' # <<>>
          /\ Source' = Source + 1
      BY <2>2, <3>1, AppendType
    <3>3. ThreadsOK'
      BY <2>1, <3>2, SourceIsNat, GotoType DEF SyncPcs, OpenPcs, Pcs
    <3> QED BY <1>3, <2>2, <3>2, <3>3, SourceIsNat DEF Publish, CopyTypeOK
  <2>3. CASE UNCHANGED <<history, basis>>
    <3>1. ThreadsOK' BY <2>1, <2>3, LocalGotoType DEF SyncPcs, OpenPcs, Pcs
    <3> QED BY <1>3, <2>3, <3>1 DEF Publish, CopyTypeOK
  <2> QED BY <1>3, <2>2, <2>3 DEF Publish
<1>4. CASE Stamp(t)
  <2>1. \E r \in ThreadRecord : r.pc = "done" /\ Goto(t, r)
    BY <1>1, <1>4 DEF Stamp, Finish, ThreadRecord, Pcs, Outcomes
  <2>2. ThreadsOK' BY <1>4, <2>1, LocalGotoType DEF Stamp, SyncPcs, OpenPcs, Pcs
  <2> QED BY <1>1, <1>4, <2>2, SourceIsNat
          DEF Stamp, WrittenDigest, CopyTypeOK, ThreadRecord
<1> QED BY <1>2, <1>3, <1>4

LEMMA DownloadType ==
  ASSUME CopyTypeOK, NEW t \in Threads,
         Decide(t) \/ Begin(t) \/ Fetch(t) \/ Place(t) \/ Digest(t)
  PROVE  CopyTypeOK'
<1>1. thr[t] \in ThreadRecord /\ Usable(thr[t]) BY DEF CopyTypeOK, ThreadsOK
<1>2. t = "open"
  BY DEF Decide, Begin, Fetch, Place, Digest, CopyTypeOK, ThreadsOK, SyncPcs, Threads
<1>3. \E r \in ThreadRecord :
        /\ r.pc \in {"askOpen", "begin", "fetch", "place", "digest", "done"}
        /\ r.pc \in {"place", "digest"} => r.ver \in 1 .. Source
        /\ Goto(t, r)
  <2>1. CASE Decide(t)
    BY <1>1, <2>1 DEF Decide, Finish, ThreadRecord, Pcs, Outcomes, CopyTypeOK
  <2>2. CASE Begin(t)
    BY <1>1, <2>2 DEF Begin, Finish, ThreadRecord, Pcs, Outcomes
  <2>3. CASE Fetch(t)
    <3>1. CASE Finish(t, "failed")
      BY <1>1, <3>1 DEF Finish, ThreadRecord, Pcs, Outcomes
    <3>2. CASE Goto(t, [thr[t] EXCEPT !.pc = "place", !.ver = Source])
      <4> DEFINE r == [thr[t] EXCEPT !.pc = "place", !.ver = Source]
      <4>1. r \in ThreadRecord /\ r.pc = "place" /\ r.ver = Source
        BY <1>1, SourceIsNat DEF ThreadRecord, Pcs
      <4>2. Goto(t, r) BY <3>2
      <4>3. r.ver \in 1 .. Source BY <4>1, SourceIsNat
      <4> HIDE DEF r
      <4> QED BY <4>1, <4>2, <4>3
    <3> QED BY <2>3, <3>1, <3>2 DEF Fetch
  <2>4. CASE Place(t)
    BY <1>1, <2>4 DEF Place, Usable, ThreadRecord, Pcs
  <2>5. CASE Digest(t)
    BY <1>1, <2>5 DEF Digest, Finish, ThreadRecord, Pcs, Outcomes
  <2> QED BY <2>1, <2>2, <2>3, <2>4, <2>5
<1>4. UNCHANGED history BY DEF Decide, Begin, Fetch, Place, Digest
<1>5. ThreadsOK' BY <1>2, <1>3, <1>4, LocalGotoType DEF OpenPcs, Pcs
<1>6. /\ local' \in Contents \cup {NoContent}
      /\ base' \in [ver : Nat, digest : Contents \cup {NoContent}]
      /\ basis' \in Nat
  <2>1. thr[t].pc \in {"place", "digest"} =>
          history[thr[t].ver].data \in Contents /\ thr[t].ver \in Nat
    <3>1. thr[t].pc \in {"place", "digest"} => history[thr[t].ver] \in Version
      BY <1>1 DEF Usable, CopyTypeOK, Source
    <3> QED BY <1>1, <3>1 DEF Version, ThreadRecord
  <2>2. CASE Decide(t) BY <2>2 DEF Decide, CopyTypeOK
  <2>3. CASE Begin(t) BY <2>3, SourceIsNat DEF Begin, CopyTypeOK
  <2>4. CASE Fetch(t) BY <2>4 DEF Fetch, CopyTypeOK
  <2>5. CASE Place(t) BY <2>1, <2>5 DEF Place, CopyTypeOK
  <2>6. CASE Digest(t) BY <2>1, <2>6 DEF Digest, Downloaded, CopyTypeOK
  <2> QED BY <2>2, <2>3, <2>4, <2>5, <2>6
<1> QED BY <1>4, <1>5, <1>6 DEF CopyTypeOK

LEMMA ThreadStepType ==
  ASSUME CopyTypeOK, NEW t \in Threads, ThreadStep(t) PROVE CopyTypeOK'
BY CheckType, WriteBackType, DownloadType DEF ThreadStep

-----------------------------------------------------------------------------
\* Type correctness of the manager.

\* What the manager does to the threads: start, forget or disown them.
LEMMA StartJobType ==
  ASSUME CopyTypeOK, UNCHANGED history, NEW force \in BOOLEAN, StartJob(force)
  PROVE  ThreadsOK'
<1> DEFINE r == [Idle EXCEPT !.pc = "check", !.consent = force]
<1>1. r \in ThreadRecord /\ r.pc = "check"
  BY DEF Idle, ThreadRecord, Pcs, Outcomes
<1>2. Goto("sync", r) BY DEF StartJob, Goto
<1> HIDE DEF r
<1> QED BY <1>1, <1>2, LocalGotoType DEF Threads, SyncPcs

LEMMA ThreadOverType ==
  ASSUME CopyTypeOK, UNCHANGED history, NEW t \in Threads, ThreadOver(t)
  PROVE  ThreadsOK'
<1>1. Goto(t, Idle) BY DEF ThreadOver, Goto
<1> QED BY <1>1, IdleType, LocalGotoType DEF SyncPcs, OpenPcs, Pcs

LEMMA ThreadsUnchanged ==
  ASSUME CopyTypeOK, UNCHANGED <<history, thr>> PROVE ThreadsOK'
BY DEF CopyTypeOK, ThreadsOK, Usable, Source

EntryTypeOK ==
  /\ status \in Statuses /\ queued \in BOOLEAN
  /\ task \in {"none", "running", "cancelled"}

LEMMA ScheduleType ==
  ASSUME TypeOK, UNCHANGED history, NEW force \in BOOLEAN, Schedule(force)
  PROVE  ThreadsOK' /\ EntryTypeOK'
<1>1. ThreadsOK'
  BY StartJobType, ThreadsUnchanged DEF Schedule, TypeOK
<1>2. EntryTypeOK'
  BY DEF Schedule, FollowUp, TypeOK, ManagerTypeOK, EntryTypeOK, Statuses
<1> QED BY <1>1, <1>2

LEMMA ScheduleNowType ==
  ASSUME TypeOK, UNCHANGED history, ScheduleNow
  PROVE  ThreadsOK' /\ EntryTypeOK'
<1>1. CASE TaskOver
  BY <1>1, ScheduleType DEF ScheduleNow, Forced
<1>2. CASE ~TaskOver
  BY <1>2, ThreadsUnchanged
  DEF ScheduleNow, FollowUp, TypeOK, ManagerTypeOK, EntryTypeOK
<1> QED BY <1>1, <1>2

LEMMA EntryUnchanged ==
  ASSUME ManagerTypeOK, UNCHANGED entryVars
  PROVE  EntryTypeOK' /\ entry' \in BOOLEAN
BY DEF ManagerTypeOK, EntryTypeOK, entryVars

LEMMA MayStartType ==
  ASSUME ManagerTypeOK, MayStart PROVE saves' \in Nat /\ ops' \in Nat
BY DEF MayStart, ManagerTypeOK

LEMMA InitType == Init => TypeOK
<1> SUFFICES ASSUME Init PROVE TypeOK OBVIOUS
<1>1. PICK c \in Contents :
        history = <<[data |-> c, by |-> "others", raced |-> FALSE]>>
  BY DEF Init, CopyInit
<1>2. history \in Seq(Version) /\ history # <<>>
  BY <1>1 DEF Version
<1>3. ThreadsOK
  BY IdleType DEF Init, CopyInit, ThreadsOK, Threads, Usable, SyncPcs, OpenPcs, Pcs
<1> QED BY <1>2, <1>3
        DEF Init, CopyInit, TypeOK, CopyTypeOK, ManagerTypeOK, Statuses

LEMMA CopyUnchanged == ASSUME CopyTypeOK, UNCHANGED copyVars PROVE CopyTypeOK'
BY ThreadsUnchanged DEF copyVars, CopyTypeOK

\* The copy keeps its type when only its threads change.
LEMMA OnlyThreads ==
  ASSUME CopyTypeOK, ThreadsOK', UNCHANGED <<history, local, base, basis>>
  PROVE  CopyTypeOK'
BY DEF CopyTypeOK

LEMMA SyncJobDoneType == ASSUME TypeOK, SyncJobDone PROVE TypeOK'
<1>1. CopyTypeOK /\ ManagerTypeOK BY DEF TypeOK
<1>2. ThreadsOK' /\ EntryTypeOK'
  <2>1. UNCHANGED history BY DEF SyncJobDone
  <2>2. CASE Pause
    BY <1>1, <2>1, <2>2, ThreadOverType DEF Pause, EntryTypeOK, Statuses, Threads
  <2>3. CASE Again /\ UNCHANGED task
    BY <1>1, <2>1, <2>3, StartJobType
    DEF Again, EntryTypeOK, Statuses, ManagerTypeOK
  <2>4. CASE Settle(thr["sync"].outcome)
    BY <1>1, <2>1, <2>4, ThreadOverType
    DEF Settle, EntryTypeOK, Statuses, Threads, ManagerTypeOK
  <2> QED BY <2>2, <2>3, <2>4 DEF SyncJobDone, Again
<1>3. CopyTypeOK' BY <1>1, <1>2, OnlyThreads DEF SyncJobDone
<1>4. ManagerTypeOK'
  BY <1>1, <1>2 DEF SyncJobDone, CopyTypeOK, ManagerTypeOK, EntryTypeOK, entryVars, detVars, opVars, boundVars
<1> QED BY <1>3, <1>4 DEF TypeOK

LEMMA DetectorSampleType == ASSUME TypeOK, DetectorSample PROVE TypeOK'
<1>1. CopyTypeOK /\ ManagerTypeOK BY DEF TypeOK
<1>2. CopyTypeOK' BY <1>1, CopyUnchanged DEF DetectorSample
<1>3. local \in Contents \cup {NoContent} BY <1>1 DEF CopyTypeOK
<1>4. EntryTypeOK' /\ entry' \in BOOLEAN
  BY <1>1, EntryUnchanged DEF DetectorSample
<1>5. ManagerTypeOK'
  BY <1>1, <1>3, <1>4
  DEF DetectorSample, ManagerTypeOK, EntryTypeOK, opVars, boundVars
<1> QED BY <1>2, <1>5 DEF TypeOK

LEMMA DetectorReportType == ASSUME TypeOK, DetectorReport PROVE TypeOK'
<1>1. CopyTypeOK /\ ManagerTypeOK BY DEF TypeOK
<1>2. ThreadsOK' /\ EntryTypeOK'
  <2>1. CASE Reported BY <2>1, ScheduleType DEF DetectorReport
  <2>2. CASE ~Reported
    BY <1>1, <2>2, ThreadsUnchanged DEF DetectorReport, ManagerTypeOK, EntryTypeOK
  <2> QED BY <2>1, <2>2
<1>3. CopyTypeOK' BY <1>1, <1>2, OnlyThreads DEF DetectorReport
<1>4. ManagerTypeOK'
  BY <1>1, <1>2 DEF DetectorReport, ManagerTypeOK, EntryTypeOK, opVars, boundVars
<1> QED BY <1>3, <1>4 DEF TypeOK

LEMMA CheckNowType == ASSUME TypeOK, CheckNow PROVE TypeOK'
BY CopyUnchanged
DEF CheckNow, TypeOK, ManagerTypeOK, entryVars, opVars, boundVars

LEMMA ThreadActionType == ASSUME TypeOK, NEW t \in Threads, RunThread(t) \/ AnswerQuestion(t) PROVE TypeOK'
<1>1. CopyTypeOK /\ ManagerTypeOK BY DEF TypeOK
<1>2. CopyTypeOK'
  BY <1>1, ThreadStepType, AnswerType DEF RunThread, AnswerQuestion
<1>3. ManagerTypeOK'
  <2>1. CASE RunThread(t)
    BY <1>1, <2>1 DEF RunThread, ManagerTypeOK, EntryTypeOK, entryVars, detVars, opVars, boundVars
  <2>2. CASE AnswerQuestion(t)
    BY <1>1, <2>2 DEF AnswerQuestion, ManagerTypeOK, EntryTypeOK, entryVars, detVars, opVars, boundVars
  <2> QED BY <2>1, <2>2
<1> QED BY <1>2, <1>3 DEF TypeOK

LEMMA StrayEndsType ==
  ASSUME TypeOK, StrayEnds PROVE TypeOK'
<1>1. CopyTypeOK /\ ManagerTypeOK BY DEF TypeOK
<1>2. ThreadsOK' BY <1>1, ThreadOverType DEF StrayEnds, Threads
<1>3. CopyTypeOK' BY <1>1, <1>2, OnlyThreads DEF StrayEnds
<1>4. ManagerTypeOK'
  BY <1>1 DEF StrayEnds, ManagerTypeOK, EntryTypeOK, entryVars, detVars, opVars, boundVars
<1> QED BY <1>3, <1>4 DEF TypeOK

\* The operations that open a copy.

LEMMA OpenType == ASSUME TypeOK, Open PROVE TypeOK'
<1> DEFINE r == [Idle EXCEPT !.pc = "begin"]
<1>1. CopyTypeOK /\ ManagerTypeOK BY DEF TypeOK
<1>2. r \in ThreadRecord /\ r.pc = "begin"
  BY DEF Idle, ThreadRecord, Pcs, Outcomes
<1>3. Goto("open", r) BY DEF Open, Goto
<1> HIDE DEF r
<1>4. ThreadsOK'
  BY <1>1, <1>2, <1>3, LocalGotoType DEF Open, Threads, OpenPcs, Pcs
<1>5. CopyTypeOK' BY <1>1, <1>4, OnlyThreads DEF Open
<1>6. saves' \in Nat /\ ops' \in Nat BY <1>1, MayStartType DEF Open
<1>7. EntryTypeOK' /\ entry' \in BOOLEAN BY <1>1, EntryUnchanged DEF Open
<1>8. ManagerTypeOK'
  BY <1>1, <1>6, <1>7 DEF Open, ManagerTypeOK, EntryTypeOK, detVars
<1> QED BY <1>5, <1>8 DEF TypeOK

LEMMA ReopenType == ASSUME TypeOK, Reopen PROVE TypeOK'
<1> DEFINE r == [Idle EXCEPT !.pc = "decide"]
<1>1. CopyTypeOK /\ ManagerTypeOK BY DEF TypeOK
<1>2. r \in ThreadRecord /\ r.pc = "decide"
  BY DEF Idle, ThreadRecord, Pcs, Outcomes
<1>3. Goto("open", r) BY DEF Reopen, Goto
<1> HIDE DEF r
<1>4. ThreadsOK'
  BY <1>1, <1>2, <1>3, LocalGotoType DEF Reopen, Threads, OpenPcs, Pcs
<1>5. CopyTypeOK' BY <1>1, <1>4, OnlyThreads DEF Reopen
<1>6. saves' \in Nat /\ ops' \in Nat BY <1>1, MayStartType DEF Reopen
<1>7. EntryTypeOK' /\ entry' \in BOOLEAN BY <1>1, EntryUnchanged DEF Reopen
<1>8. ManagerTypeOK'
  BY <1>1, <1>6, <1>7 DEF Reopen, ManagerTypeOK, EntryTypeOK, detVars
<1> QED BY <1>5, <1>8 DEF TypeOK

LEMMA OpenJobDoneType == ASSUME TypeOK, OpenJobDone PROVE TypeOK'
<1>1. CopyTypeOK /\ ManagerTypeOK BY DEF TypeOK
<1>2. ThreadsOK' BY <1>1, ThreadOverType DEF OpenJobDone, Threads
<1>3. CopyTypeOK' BY <1>1, <1>2, OnlyThreads DEF OpenJobDone
<1>4. ManagerTypeOK'
  <2>1. base.digest \in Contents \cup {NoContent} BY <1>1 DEF CopyTypeOK
  <2>2. CASE thr["open"].outcome = "ok"
    BY <1>1, <2>1, <2>2
    DEF OpenJobDone, Statuses, ManagerTypeOK, detVars, boundVars
  <2>3. CASE thr["open"].outcome # "ok"
    BY <1>1, <2>3 DEF OpenJobDone, ManagerTypeOK, entryVars, detVars, boundVars
  <2> QED BY <2>2, <2>3
<1> QED BY <1>3, <1>4 DEF TypeOK

\* The operations of the Local Copies dialog.

LEMMA SyncNowType == ASSUME TypeOK, SyncNow PROVE TypeOK'
<1>1. CopyTypeOK /\ ManagerTypeOK BY DEF TypeOK
<1>2. ThreadsOK' /\ EntryTypeOK' BY ScheduleNowType DEF SyncNow
<1>3. CopyTypeOK' BY <1>1, <1>2, OnlyThreads DEF SyncNow
<1>4. saves' \in Nat /\ ops' \in Nat BY <1>1, MayStartType DEF SyncNow
<1>5. ManagerTypeOK'
  BY <1>1, <1>2, <1>4 DEF SyncNow, ManagerTypeOK, EntryTypeOK, detVars
<1> QED BY <1>3, <1>5 DEF TypeOK

\* The detector's variables, in an action that may stop it.
DetTypeOK ==
  /\ det \in {"off", "on"} /\ dirty \in BOOLEAN
  /\ detBase \in Contents \cup {NoContent}
  /\ seen \in Contents \cup {NoContent}

LEMMA MayStopType ==
  ASSUME ManagerTypeOK, StopDetector \/ UNCHANGED detVars PROVE DetTypeOK'
BY DEF StopDetector, ManagerTypeOK, DetTypeOK, detVars

LEMMA CloseType == ASSUME TypeOK, Close PROVE TypeOK'
<1>1. CopyTypeOK /\ ManagerTypeOK BY DEF TypeOK
<1>2. ThreadsOK' /\ EntryTypeOK'
  BY <1>1, ScheduleNowType, ThreadsUnchanged DEF Close, EntryTypeOK, ManagerTypeOK
<1>3. CopyTypeOK' BY <1>1, <1>2, OnlyThreads DEF Close
<1>4. saves' \in Nat /\ ops' \in Nat BY <1>1, MayStartType DEF Close
<1>5. DetTypeOK' BY <1>1, MayStopType DEF Close
<1>6. ManagerTypeOK'
  BY <1>1, <1>2, <1>4, <1>5 DEF Close, ManagerTypeOK, EntryTypeOK, DetTypeOK
<1> QED BY <1>3, <1>6 DEF TypeOK

LEMMA DiscardType == ASSUME TypeOK, Discard PROVE TypeOK'
<1>1. CopyTypeOK /\ ManagerTypeOK BY DEF TypeOK
<1>2. CopyTypeOK' BY <1>1, CopyUnchanged DEF Discard
<1>3. saves' \in Nat /\ ops' \in Nat BY <1>1, MayStartType DEF Discard
<1>4. DetTypeOK' BY <1>1, MayStopType DEF Discard
<1>5. ManagerTypeOK'
  BY <1>1, <1>3, <1>4 DEF Discard, ManagerTypeOK, DetTypeOK, entryVars
<1> QED BY <1>2, <1>5 DEF TypeOK

LEMMA DialogDoneType == ASSUME TypeOK, DialogDone PROVE TypeOK'
<1>1. CopyTypeOK /\ ManagerTypeOK BY DEF TypeOK
<1>2. ThreadsOK'
  <2>1. CASE thr' = [t \in Threads |-> [thr[t] EXCEPT !.own = FALSE]]
    <3>1. \A t \in Threads :
            /\ thr'[t] \in ThreadRecord /\ thr'[t].pc = thr[t].pc
            /\ thr'[t].data = thr[t].data /\ thr'[t].ver = thr[t].ver
      BY <1>1, <2>1 DEF CopyTypeOK, ThreadsOK, ThreadRecord
    <3>2. thr' \in [Threads -> ThreadRecord] BY <2>1, <3>1
    <3>3. Source' = Source BY DEF DialogDone, Source
    <3> QED BY <1>1, <3>1, <3>2, <3>3 DEF CopyTypeOK, ThreadsOK, Usable, Threads
  <2>2. CASE UNCHANGED thr BY <1>1, <2>2, ThreadsUnchanged DEF DialogDone
  <2> QED BY <2>1, <2>2 DEF DialogDone
<1>3. CopyTypeOK' BY <1>1, <1>2 DEF DialogDone, CopyTypeOK
<1>4. DetTypeOK' BY <1>1, MayStopType DEF DialogDone
<1>5. entry' \in BOOLEAN BY <1>1 DEF DialogDone, ManagerTypeOK
<1>6. ManagerTypeOK'
  BY <1>1, <1>4, <1>5 DEF DialogDone, ManagerTypeOK, DetTypeOK, boundVars
<1> QED BY <1>3, <1>6 DEF TypeOK

LEMMA InterruptType == ASSUME TypeOK, Interrupt PROVE TypeOK'
<1>1. CopyTypeOK /\ ManagerTypeOK BY DEF TypeOK
<1>2. thr \in [Threads -> ThreadRecord] /\ thr["sync"] \in ThreadRecord
  BY <1>1 DEF CopyTypeOK, ThreadsOK, Threads
<1>3. thr' = [thr EXCEPT !["stray"] = thr["sync"], !["sync"] = Idle]
  BY DEF Interrupt
<1>4. thr' \in [Threads -> ThreadRecord] BY <1>2, <1>3, IdleType
<1>5. /\ thr'["sync"] = Idle /\ thr'["stray"] = thr["sync"]
      /\ thr'["open"] = thr["open"]
  BY <1>2, <1>3 DEF Threads
<1>6. Source' = Source BY DEF Interrupt, Source
<1>7. ThreadsOK'
  BY <1>1, <1>4, <1>5, <1>6, IdleType
  DEF CopyTypeOK, ThreadsOK, Usable, Threads, SyncPcs
<1>8. CopyTypeOK' BY <1>1, <1>7, OnlyThreads DEF Interrupt
<1>9. ManagerTypeOK' BY <1>1 DEF Interrupt, ManagerTypeOK, detVars, boundVars
<1> QED BY <1>8, <1>9 DEF TypeOK

\* The end of an editor session.

LEMMA ReleaseType == ASSUME TypeOK, Release PROVE TypeOK'
<1>1. CopyTypeOK /\ ManagerTypeOK BY DEF TypeOK
<1>2. CopyTypeOK' BY <1>1, CopyUnchanged DEF Release
<1>3. saves' \in Nat /\ ops' \in Nat BY <1>1, MayStartType DEF Release
<1>4. DetTypeOK' BY <1>1, MayStopType DEF Release
<1>5. EntryTypeOK' /\ entry' \in BOOLEAN BY <1>1, EntryUnchanged DEF Release
<1>6. ManagerTypeOK'
  BY <1>1, <1>3, <1>4, <1>5 DEF Release, ManagerTypeOK, DetTypeOK, EntryTypeOK
<1> QED BY <1>2, <1>6 DEF TypeOK

LEMMA ReleaseWaitedType == ASSUME TypeOK, ReleaseWaited PROVE TypeOK'
<1>1. CopyTypeOK /\ ManagerTypeOK BY DEF TypeOK
<1>2. ThreadsOK' /\ EntryTypeOK'
  BY <1>1, ScheduleNowType, ThreadsUnchanged
  DEF ReleaseWaited, EntryTypeOK, ManagerTypeOK
<1>3. CopyTypeOK' BY <1>1, <1>2, OnlyThreads DEF ReleaseWaited
<1>4. editor' \in {"none", "wait", "sync"} BY DEF ReleaseWaited
<1>5. DetTypeOK' BY <1>1, MayStopType DEF ReleaseWaited
<1>6. ManagerTypeOK'
  BY <1>1, <1>2, <1>4, <1>5
  DEF ReleaseWaited, ManagerTypeOK, EntryTypeOK, DetTypeOK, boundVars
<1> QED BY <1>3, <1>6 DEF TypeOK

LEMMA ReleaseDoneType == ASSUME TypeOK, ReleaseDone PROVE TypeOK'
<1>1. CopyTypeOK /\ ManagerTypeOK BY DEF TypeOK
<1>2. CopyTypeOK' BY <1>1, CopyUnchanged DEF ReleaseDone
<1>3. EntryTypeOK' /\ entry' \in BOOLEAN BY <1>1, EntryUnchanged DEF ReleaseDone
<1>4. DetTypeOK' BY <1>1, MayStopType DEF ReleaseDone
<1>5. ManagerTypeOK'
  BY <1>1, <1>3, <1>4
  DEF ReleaseDone, ManagerTypeOK, EntryTypeOK, DetTypeOK, boundVars
<1> QED BY <1>2, <1>5 DEF TypeOK

\* Quitting.

LEMMA BeginShutdownType ==
  ASSUME ManagerTypeOK, NEW files \in {"removing", "keeping", "unmounting"},
         BeginShutdown(files)
  PROVE  /\ DetTypeOK' /\ shut' \in BOOLEAN
         /\ quitting' \in {"removing", "keeping", "unmounting", "gone"}
<1>1. DetTypeOK' BY MayStopType DEF BeginShutdown
<1> QED BY <1>1 DEF BeginShutdown, ManagerTypeOK

LEMMA QuitUnlessUnsyncedType ==
  ASSUME ManagerTypeOK, NEW next \in {"none", "asking"}, QuitUnlessUnsynced(next)
  PROVE  /\ DetTypeOK' /\ shut' \in BOOLEAN
         /\ quitting' \in {"none", "asking", "removing", "gone", "keeping", "unmounting"}
<1>1. CASE quitting' = next /\ UNCHANGED <<detVars, shut>>
  BY <1>1, MayStopType DEF ManagerTypeOK
<1>2. CASE BeginShutdown("removing") BY <1>2, BeginShutdownType
<1>3. CASE BeginShutdown("unmounting") BY <1>3, BeginShutdownType
<1> QED BY <1>1, <1>2, <1>3 DEF QuitUnlessUnsynced

LEMMA RequestQuitType == ASSUME TypeOK, RequestQuit PROVE TypeOK'
<1>1. CopyTypeOK /\ ManagerTypeOK BY DEF TypeOK
<1>2. CopyTypeOK' BY <1>1, CopyUnchanged DEF RequestQuit
<1>3. saves' \in Nat /\ ops' \in Nat BY <1>1, MayStartType DEF RequestQuit
<1>4. EntryTypeOK' /\ entry' \in BOOLEAN BY <1>1, EntryUnchanged DEF RequestQuit
<1>5. /\ DetTypeOK' /\ shut' \in BOOLEAN
      /\ quitting' \in {"none", "asking", "removing", "gone", "keeping", "unmounting"}
  BY <1>1, QuitUnlessUnsyncedType DEF RequestQuit
<1>6. ManagerTypeOK'
  BY <1>1, <1>3, <1>4, <1>5
  DEF RequestQuit, ManagerTypeOK, EntryTypeOK, DetTypeOK
<1> QED BY <1>2, <1>6 DEF TypeOK

LEMMA AnswerQuitType == ASSUME TypeOK, AnswerQuit PROVE TypeOK'
<1>1. CopyTypeOK /\ ManagerTypeOK BY DEF TypeOK
<1>2. /\ ThreadsOK' /\ EntryTypeOK' /\ DetTypeOK' /\ shut' \in BOOLEAN
      /\ skipped' \in BOOLEAN
      /\ quitting' \in {"none", "syncing", "removing", "keeping", "unmounting", "gone"}
  <2>1. CASE /\ quitting' = "syncing" /\ ScheduleNow /\ skipped' = FALSE
             /\ UNCHANGED <<detVars, shut>>
    BY <1>1, <2>1, ScheduleNowType, MayStopType DEF AnswerQuit, ManagerTypeOK
  <2>2. CASE BeginShutdown("keeping") /\ UNCHANGED <<status, queued, task, thr, skipped>>
    <3>1. ThreadsOK' BY <1>1, <2>2, ThreadsUnchanged DEF AnswerQuit
    <3>2. EntryTypeOK' /\ skipped' \in BOOLEAN
      BY <1>1, <2>2 DEF ManagerTypeOK, EntryTypeOK
    <3> QED BY <1>1, <2>2, <3>1, <3>2, BeginShutdownType
  <2>3. CASE /\ quitting' = "none"
             /\ UNCHANGED <<status, queued, task, thr, detVars, shut, skipped>>
    <3>1. ThreadsOK' BY <1>1, <2>3, ThreadsUnchanged DEF AnswerQuit
    <3>2. EntryTypeOK' /\ skipped' \in BOOLEAN /\ shut' \in BOOLEAN
      BY <1>1, <2>3 DEF ManagerTypeOK, EntryTypeOK
    <3> QED BY <1>1, <2>3, <3>1, <3>2, MayStopType
  <2> QED BY <2>1, <2>2, <2>3 DEF AnswerQuit
<1>3. CopyTypeOK' BY <1>1, <1>2, OnlyThreads DEF AnswerQuit
<1>4. ManagerTypeOK'
  BY <1>1, <1>2
  DEF AnswerQuit, ManagerTypeOK, EntryTypeOK, DetTypeOK, boundVars
<1> QED BY <1>3, <1>4 DEF TypeOK

LEMMA QuitSyncedType == ASSUME TypeOK, QuitSynced PROVE TypeOK'
<1>1. CopyTypeOK /\ ManagerTypeOK BY DEF TypeOK
<1>2. CopyTypeOK' BY <1>1, CopyUnchanged DEF QuitSynced
<1>3. EntryTypeOK' /\ entry' \in BOOLEAN BY <1>1, EntryUnchanged DEF QuitSynced
<1>4. /\ DetTypeOK' /\ shut' \in BOOLEAN
      /\ quitting' \in {"none", "asking", "removing", "gone", "keeping", "unmounting"}
  BY <1>1, QuitUnlessUnsyncedType DEF QuitSynced
<1>5. ManagerTypeOK'
  BY <1>1, <1>3, <1>4
  DEF QuitSynced, ManagerTypeOK, EntryTypeOK, DetTypeOK, boundVars
<1> QED BY <1>2, <1>5 DEF TypeOK

LEMMA ExitType == ASSUME TypeOK, Exit PROVE TypeOK'
<1>1. CopyTypeOK /\ ManagerTypeOK BY DEF TypeOK
<1>2. CopyTypeOK' BY <1>1, CopyUnchanged DEF Exit
<1>3. EntryTypeOK' /\ entry' \in BOOLEAN BY <1>1, EntryUnchanged DEF Exit
<1>4. /\ DetTypeOK' /\ shut' \in BOOLEAN
      /\ quitting' \in {"removing", "gone", "keeping", "unmounting"}
  BY <1>1, BeginShutdownType DEF Exit
<1>5. ManagerTypeOK'
  BY <1>1, <1>3, <1>4
  DEF Exit, ManagerTypeOK, EntryTypeOK, DetTypeOK, boundVars
<1> QED BY <1>2, <1>5 DEF TypeOK

LEMMA ShutdownDoneType == ASSUME TypeOK, ShutdownDone PROVE TypeOK'
<1>1. CopyTypeOK /\ ManagerTypeOK BY DEF TypeOK
<1>2. /\ entry' \in BOOLEAN /\ quitting' \in {"none", "gone"}
      /\ local' \in Contents \cup {NoContent}
  BY <1>1 DEF ShutdownDone, EndProgram, ManagerTypeOK, CopyTypeOK
<1>3. ThreadsOK' BY <1>1, ThreadsUnchanged DEF ShutdownDone
<1>4. CopyTypeOK' BY <1>1, <1>2, <1>3 DEF ShutdownDone, CopyTypeOK
<1>5. DetTypeOK' BY <1>1, MayStopType DEF ShutdownDone
<1>6. EntryTypeOK' BY <1>1 DEF ShutdownDone, ManagerTypeOK, EntryTypeOK
<1>7. ManagerTypeOK'
  BY <1>1, <1>2, <1>5, <1>6
  DEF ShutdownDone, ManagerTypeOK, EntryTypeOK, DetTypeOK, boundVars
<1> QED BY <1>4, <1>7 DEF TypeOK

\* The world.

LEMMA LocalFileType == ASSUME TypeOK, Save \/ RemoveLocalFile PROVE TypeOK'
<1>1. CopyTypeOK /\ ManagerTypeOK BY DEF TypeOK
<1>2. local' \in Contents \cup {NoContent} BY DEF Save, RemoveLocalFile
<1>3. ThreadsOK' BY <1>1, ThreadsUnchanged DEF Save, RemoveLocalFile
<1>4. CopyTypeOK' BY <1>1, <1>2, <1>3 DEF Save, RemoveLocalFile, CopyTypeOK
<1>5. EntryTypeOK' /\ entry' \in BOOLEAN
  BY <1>1, EntryUnchanged DEF Save, RemoveLocalFile
<1>6. /\ saves' = saves + 1 /\ dirty' = (det = "on")
      /\ UNCHANGED <<det, detBase, seen, opVars, skipped, ops>>
  BY DEF Save, RemoveLocalFile
<1>7. ManagerTypeOK'
  BY <1>1, <1>5, <1>6 DEF ManagerTypeOK, EntryTypeOK, opVars
<1> QED BY <1>4, <1>7 DEF TypeOK

LEMMA ChangeSourceType == ASSUME TypeOK, ChangeSource PROVE TypeOK'
<1>1. CopyTypeOK /\ ManagerTypeOK BY DEF TypeOK
<1>2. PICK c \in Contents :
        history' = Append(history, [data |-> c, by |-> "others",
                                    raced |-> \E t \in Threads : Replacing(t)])
  BY DEF ChangeSource, OthersWrite
<1>3. [data |-> c, by |-> "others", raced |-> \E t \in Threads : Replacing(t)]
        \in Version
  BY DEF Version
<1>4. /\ history' \in Seq(Version) /\ history' # <<>>
      /\ Source' = Source + 1
  BY <1>1, <1>2, <1>3, AppendType
<1>5. UNCHANGED <<local, base, basis, thr>> BY DEF ChangeSource, OthersWrite
<1>6. ThreadsOK'
  BY <1>1, <1>4, <1>5, SourceIsNat
  DEF CopyTypeOK, ThreadsOK, Usable, ThreadRecord
<1>7. CopyTypeOK' BY <1>1, <1>4, <1>5, <1>6 DEF CopyTypeOK
<1>8. EntryTypeOK' /\ entry' \in BOOLEAN /\ DetTypeOK'
  BY <1>1, EntryUnchanged, MayStopType DEF ChangeSource
<1>9. ManagerTypeOK'
  BY <1>1, <1>8
  DEF ChangeSource, ManagerTypeOK, EntryTypeOK, DetTypeOK, opVars, boundVars
<1> QED BY <1>7, <1>9 DEF TypeOK

LEMMA NextType == TypeOK /\ [Next]_vars => TypeOK'
<1>1. SUFFICES ASSUME TypeOK, [Next]_vars PROVE TypeOK' OBVIOUS
<1>2. CASE GuiStep
  BY <1>1, <1>2, SyncJobDoneType, OpenJobDoneType, DetectorReportType,
     StrayEndsType, DialogDoneType, ReleaseWaitedType, ReleaseDoneType,
     QuitSyncedType, ShutdownDoneType
  DEF GuiStep
<1>3. CASE DetectorSample BY <1>1, <1>3, DetectorSampleType
<1>4. CASE UserStep
  BY <1>1, <1>4, OpenType, ReopenType, SyncNowType, CloseType, DiscardType,
     InterruptType, ReleaseType, CheckNowType, RequestQuitType,
     AnswerQuitType, ExitType, ThreadActionType
  DEF UserStep
<1>5. CASE WorldStep
  BY <1>1, <1>5, LocalFileType, ChangeSourceType DEF WorldStep
<1>6. CASE \E t \in Threads : RunThread(t)
  BY <1>1, <1>6, ThreadActionType
<1>7. CASE UNCHANGED vars
  <2>1. CopyTypeOK' BY <1>1, <1>7, CopyUnchanged DEF vars, TypeOK
  <2>2. EntryTypeOK' /\ entry' \in BOOLEAN /\ DetTypeOK'
    BY <1>1, <1>7, EntryUnchanged, MayStopType DEF vars, TypeOK
  <2>3. ManagerTypeOK'
    BY <1>1, <1>7, <2>2
    DEF vars, TypeOK, ManagerTypeOK, EntryTypeOK, DetTypeOK, opVars, boundVars
  <2> QED BY <2>1, <2>3 DEF TypeOK
<1> QED BY <1>1, <1>2, <1>3, <1>4, <1>5, <1>6, <1>7 DEF Next

\* Every variable keeps its type, and every worker thread is at a step of its
\* own task with what that step needs (StartJob, Publish, Fetch, Place).
THEOREM TypeCorrect == Spec => []TypeOK
<1>1. Init => TypeOK BY InitType
<1>2. TypeOK /\ [Next]_vars => TypeOK' BY NextType
<1> QED BY <1>1, <1>2, PTL DEF Spec

-----------------------------------------------------------------------------
\* A read-only copy.

OnlyOthers == \A v \in DOMAIN history : history[v].by = "others"

\* Nothing of a read-only copy is under way that would write, and its entry
\* never claims to have something unsynced: that is what keeps the quit prompt,
\* the dialog and release() from scheduling a sync.
NothingWrites ==
  /\ task = "none" /\ det = "off" /\ seen = NoContent
  /\ status \in {"synced", "read-only"} /\ (entry => status = "read-only")
  /\ dlg \in {"none", "discard"} /\ editor # "sync"
  /\ quitting \notin {"asking", "syncing"}
  /\ thr["sync"].pc = "idle" /\ thr["stray"].pc = "idle"
  /\ thr["open"].pc \notin {"publish", "stamp"}
  /\ OnlyOthers

LEMMA ReadOnlyInit == Init => NothingWrites
BY DEF Init, CopyInit, NothingWrites, OnlyOthers, Idle, Threads

\* The worker threads: write_back() refuses before anything is read.
LEMMA ReadOnlyThread ==
  ASSUME ReadOnly, CopyTypeOK, NothingWrites, NEW t \in Threads,
         ThreadStep(t) \/ Answer(t)
  PROVE  /\ UNCHANGED history
         /\ thr'["sync"].pc = "idle" /\ thr'["stray"].pc = "idle"
         /\ thr'["open"].pc \notin {"publish", "stamp"}
<1>1. thr[t] \in ThreadRecord /\ thr \in [Threads -> ThreadRecord]
  BY DEF CopyTypeOK, ThreadsOK
<1>2. t = "open"
  BY DEF NothingWrites, Threads, ThreadStep, Answer, Check, Read, Publish, Stamp,
         Decide, Begin, Fetch, Place, Digest, AnswerSync, AnswerOpen
<1>3. /\ UNCHANGED history
      /\ \E r : r.pc \notin {"publish", "stamp"} /\ Goto(t, r)
  <2>1. CASE Answer(t)
    BY <1>1, <2>1 DEF Answer, AnswerSync, AnswerOpen, EnterWriteBack, Finish, ThreadRecord
  <2>2. CASE Check(t)
    BY <1>1, <2>2 DEF Check, EnterWriteBack, Finish, ThreadRecord
  <2>3. CASE Read(t)
    BY <1>1, <2>3 DEF Read, Readable, Finish, ThreadRecord
  <2>4. CASE Decide(t)
    BY <1>1, <2>4 DEF Decide, Finish, ThreadRecord
  <2>5. CASE Begin(t) \/ Fetch(t) \/ Place(t) \/ Digest(t)
    BY <1>1, <2>5 DEF Begin, Fetch, Place, Digest, Finish, ThreadRecord
  <2> QED BY <1>2, <2>1, <2>2, <2>3, <2>4, <2>5
          DEF ThreadStep, NothingWrites, Publish, Stamp
<1> QED BY <1>1, <1>2, <1>3 DEF Goto, NothingWrites, Threads

LEMMA ReadOnlyNext ==
  ASSUME ReadOnly, TypeOK, NothingWrites, [Next]_vars PROVE NothingWrites'
<1>1. CopyTypeOK /\ thr \in [Threads -> ThreadRecord]
  BY DEF TypeOK, CopyTypeOK, ThreadsOK
<1>2. CASE \E t \in Threads : RunThread(t) \/ AnswerQuestion(t)
  BY <1>1, <1>2, ReadOnlyThread
  DEF RunThread, AnswerQuestion, NothingWrites, OnlyOthers, entryVars, detVars, opVars
<1>3. CASE ChangeSource
  <2>1. PICK w \in [data : Contents, by : {"others"}, raced : BOOLEAN] :
          history' = Append(history, w)
    BY <1>3 DEF ChangeSource, OthersWrite
  <2>2. OnlyOthers' BY <1>1, <2>1 DEF CopyTypeOK, NothingWrites, OnlyOthers
  <2> QED BY <1>3, <2>2
          DEF ChangeSource, OthersWrite, NothingWrites, entryVars, detVars, opVars
<1>4. CASE OpenJobDone
  BY <1>1, <1>4
  DEF OpenJobDone, Watched, ThreadOver, Idle, NothingWrites, OnlyOthers,
      entryVars, detVars, Threads
<1>5. CASE Open \/ Reopen
  BY <1>1, <1>5
  DEF Open, Reopen, Idle, NothingWrites, OnlyOthers, entryVars, detVars, Threads
<1>6. CASE DetectorSample \/ DetectorReport \/ SyncNow \/ Interrupt
             \/ SyncJobDone \/ StrayEnds \/ CheckNow
  BY <1>6 DEF DetectorSample, DetectorReport, SyncNow, Interrupt, SyncJobDone,
              StrayEnds, CheckNow, NothingWrites
<1>7. CASE Close \/ Discard \/ Release
  BY <1>7 DEF Close, Discard, Release, StopDetector, NothingWrites, OnlyOthers,
              copyVars, entryVars
<1>8. CASE DialogDone
  <2>1. \A t \in Threads : thr'[t].pc = thr[t].pc
    <3>1. \A t \in Threads : thr[t] \in ThreadRecord
      BY DEF TypeOK, CopyTypeOK, ThreadsOK
    <3>2. \/ thr' = [t \in Threads |-> [thr[t] EXCEPT !.own = FALSE]]
          \/ thr' = thr
      BY <1>8 DEF DialogDone
    <3> QED BY <3>1, <3>2 DEF ThreadRecord
  <2>2. UNCHANGED history /\ task' = "none" /\ det' = "off" /\ seen' = NoContent
    BY <1>8 DEF DialogDone, StopDetector, NothingWrites, detVars
  <2>3. UNCHANGED <<status, editor, quitting>> /\ dlg' = "none"
        /\ (entry' => entry)
    BY <1>8 DEF DialogDone
  <2> QED BY <2>1, <2>2, <2>3 DEF NothingWrites, OnlyOthers, Threads
<1>9. CASE ReleaseWaited \/ ReleaseDone
  BY <1>9 DEF ReleaseWaited, ReleaseDone, NothingWrites, OnlyOthers, copyVars,
              entryVars, detVars
<1>10. CASE RequestQuit \/ AnswerQuit \/ QuitSynced \/ Exit
  BY <1>10 DEF RequestQuit, AnswerQuit, QuitSynced, Exit, QuitUnlessUnsynced,
               BeginShutdown, StopDetector, Unsynced, HasUnsyncedChanges,
               NothingWrites, OnlyOthers, copyVars, entryVars, detVars
<1>11. CASE ShutdownDone
  BY <1>11 DEF ShutdownDone, EndProgram, NothingWrites, OnlyOthers, detVars
<1>12. CASE Save \/ RemoveLocalFile
  BY <1>12 DEF Save, RemoveLocalFile, NothingWrites, OnlyOthers, entryVars, opVars
<1>13. CASE UNCHANGED vars
  BY <1>13 DEF vars, copyVars, entryVars, detVars, opVars, NothingWrites, OnlyOthers
<1> QED BY <1>2, <1>3, <1>4, <1>5, <1>6, <1>7, <1>8, <1>9, <1>10, <1>11, <1>12, <1>13
        DEF Next, GuiStep, UserStep, WorldStep

\* A read-only copy is never written back and no sync of it begins, whatever the
\* user does and whoever changes its local file (open, reopen, close, release,
\* request_quit).
THEOREM ReadOnlyNeverSynced == Spec => []ReadOnlyIsNeverSynced
<1>1. Init => (ReadOnly => NothingWrites) BY ReadOnlyInit
<1>2. TypeOK /\ (ReadOnly => NothingWrites) /\ [Next]_vars
        => (ReadOnly => NothingWrites)'
  BY ReadOnlyNext
<1>3. (ReadOnly => NothingWrites) => ReadOnlyIsNeverSynced
  BY DEF NothingWrites, OnlyOthers, ReadOnlyIsNeverSynced
<1> QED BY <1>1, <1>2, <1>3, TypeCorrect, PTL DEF Spec

-----------------------------------------------------------------------------
(***************************************************************************)
(* NoSilentOverwrite, for every set of contents, every bound and every     *)
(* habit of the user: WriteGuard is inductive relative to TypeOK, and it   *)
(* is what a thread needs when it publishes.                               *)
(***************************************************************************)

\* What a version of the source can be unseen by.

LEMMA NothingUnseenNow ==
  ASSUME CopyTypeOK PROVE ~UnseenSince(Source)
BY SourceIsNat DEF UnseenSince, UnseenIn, Source, CopyTypeOK

LEMMA UnseenIsMonotone ==
  ASSUME CopyTypeOK, NEW v \in Nat, ~UnseenSince(0) PROVE ~UnseenSince(v)
BY DEF UnseenSince, UnseenIn, CopyTypeOK

\* Our own version hides what came before it.
LEMMA NothingUnseenAfterOurs ==
  ASSUME CopyTypeOK, NEW d, NEW r, NEW v \in Nat
  PROVE  ~UnseenIn(Append(history, [data |-> d, by |-> "us", raced |-> r]), v)
<1> DEFINE h == Append(history, [data |-> d, by |-> "us", raced |-> r])
<1>1. Len(h) = Source + 1 /\ Len(h) \in Nat /\ h[Len(h)].by = "us"
  BY SourceIsNat DEF CopyTypeOK, Source
<1>2. \A w \in v + 1 .. Len(h) : Len(h) \in w .. Len(h)
  BY <1>1
<1> HIDE DEF h
<1> SUFFICES ~UnseenIn(h, v) BY DEF h
<1> QED BY <1>1, <1>2 DEF UnseenIn

\* A version written during a replacement does not count.
LEMMA RacedIsNotUnseen ==
  ASSUME CopyTypeOK, NEW d, NEW v \in Nat,
         UnseenIn(Append(history, [data |-> d, by |-> "others", raced |-> TRUE]), v)
  PROVE  UnseenSince(v)
<1> DEFINE h == Append(history, [data |-> d, by |-> "others", raced |-> TRUE])
<1>1. /\ Len(h) = Source + 1 /\ Source \in Nat
      /\ h[Source + 1].raced
      /\ \A x \in 1 .. Source : h[x] = history[x]
  BY SourceIsNat DEF CopyTypeOK, Source
<1> HIDE DEF h
<1>2. PICK w \in v + 1 .. Len(h) :
        ~h[w].raced /\ \A x \in w .. Len(h) : h[x].by = "others"
  BY DEF UnseenIn, h
<1>3. w \in v + 1 .. Source BY <1>1, <1>2
<1>4. ~history[w].raced /\ \A x \in w .. Source : history[x].by = "others"
  BY <1>1, <1>2, <1>3
<1> QED BY <1>3, <1>4 DEF UnseenSince, UnseenIn, Source

-----------------------------------------------------------------------------
\* Steps that leave the source and the baseline alone.

\* The steps of a thread that the invariants speak about.
Armed == {"read", "publish", "stamp", "fetch", "place", "digest"}

\* Every thread is at a step they do not speak about, or is where some thread
\* was, with what that one had.
Quiet ==
  \A t \in Threads :
    \/ thr'[t].pc \notin Armed
    \/ \E u \in Threads :
         /\ thr'[t].pc = thr[u].pc /\ thr'[t].consent = thr[u].consent
         /\ thr'[t].blind = thr[u].blind /\ thr'[t].ver = thr[u].ver
         /\ thr'[t].data = thr[u].data

LEMMA QuietStep ==
  ASSUME WriteGuard, UNCHANGED <<history, base, basis>>, Quiet
  PROVE  WriteGuard'
<1>1. /\ Source' = Source /\ base' = base /\ UnseenSince(basis)' = UnseenSince(basis)
      /\ UnseenSince(0)' = UnseenSince(0)
  BY DEF Source, UnseenSince
<1>2. ASSUME NEW t \in Threads, NEW u \in Threads,
             thr'[t].pc = thr[u].pc, thr'[t].consent = thr[u].consent,
             thr'[t].blind = thr[u].blind, thr'[t].ver = thr[u].ver
      PROVE  /\ Unasked(t)' = Unasked(u)
             /\ UnseenSince(thr[t].ver)' = UnseenSince(thr[u].ver)
  BY <1>2 DEF Unasked, UnseenSince
<1>3. BaselineGuard' BY <1>1 DEF WriteGuard, BaselineGuard
<1>4. ASSUME NEW t \in Threads PROVE (WriterGuard(t) /\ ReaderGuard(t))'
  <2>1. CASE thr'[t].pc \notin Armed
    BY <2>1 DEF Armed, WriterGuard, ReaderGuard, Unasked
  <2>2. ASSUME NEW u \in Threads,
               thr'[t].pc = thr[u].pc, thr'[t].consent = thr[u].consent,
               thr'[t].blind = thr[u].blind, thr'[t].ver = thr[u].ver
        PROVE  (WriterGuard(t) /\ ReaderGuard(t))'
    <3>1. WriterGuard(u) /\ ReaderGuard(u) BY DEF WriteGuard
    <3> QED BY <1>1, <1>2, <2>2, <3>1 DEF WriterGuard, ReaderGuard
  <2> QED BY <2>1, <2>2 DEF Quiet
<1>5. ASSUME NEW t \in Threads, NEW v \in Threads PROVE PairGuard(t, v)'
  <2>1. CASE thr'[t].pc \notin Armed \/ thr'[v].pc \notin Armed
    BY <2>1 DEF Armed, PairGuard, Unasked
  <2>2. CASE thr'[t].pc \in Armed /\ thr'[v].pc \in Armed
    <3>1. PICK u \in Threads :
            /\ thr'[t].pc = thr[u].pc /\ thr'[t].consent = thr[u].consent
            /\ thr'[t].blind = thr[u].blind /\ thr'[t].ver = thr[u].ver
      BY <2>2 DEF Quiet
    <3>2. PICK w \in Threads :
            /\ thr'[v].pc = thr[w].pc /\ thr'[v].consent = thr[w].consent
            /\ thr'[v].blind = thr[w].blind /\ thr'[v].ver = thr[w].ver
      BY <2>2 DEF Quiet
    <3>3. PairGuard(u, w) BY DEF WriteGuard
    <3>4. Unasked(t)' = Unasked(u) BY <1>2, <3>1
    <3>5. UnseenSince(thr[v].ver)' = UnseenSince(thr[w].ver) BY <1>2, <3>2
    <3> QED BY <3>2, <3>3, <3>4, <3>5 DEF PairGuard
  <2> QED BY <2>1, <2>2
<1> QED BY <1>3, <1>4, <1>5 DEF WriteGuard

\* A thread that goes to a step WriteGuard does not speak about.
LEMMA DisarmIsQuiet ==
  ASSUME CopyTypeOK, NEW t \in Threads, NEW r, r.pc \notin Armed, Goto(t, r)
  PROVE  Quiet
<1>1. thr \in [Threads -> ThreadRecord] BY DEF CopyTypeOK, ThreadsOK
<1>2. thr'[t] = r /\ \A u \in Threads \ {t} : thr'[u] = thr[u]
  BY <1>1 DEF Goto
<1> QED BY <1>2 DEF Quiet

LEMMA ThreadsUnchangedIsQuiet == UNCHANGED thr => Quiet
BY DEF Quiet

\* A thread whose next step is to read the local file, or to publish.
LEMMA GoWrite ==
  ASSUME CopyTypeOK, WriteGuard, UNCHANGED <<history, base, basis>>,
         NEW t \in Threads, NEW r, Goto(t, r), r.pc \in {"read", "publish"},
         ~r.consent /\ ~r.blind =>
           /\ ~UnseenSince(basis)
           /\ \A u \in Threads : thr[u].pc = "place" => ~UnseenSince(thr[u].ver)
  PROVE  WriteGuard'
<1>1. thr'[t] = r /\ \A u \in Threads \ {t} : thr'[u] = thr[u]
  BY DEF Goto, CopyTypeOK, ThreadsOK
<1>2. /\ Source' = Source /\ UnseenSince(basis)' = UnseenSince(basis)
      /\ UnseenSince(0)' = UnseenSince(0)
  BY DEF Source, UnseenSince
<1>3. \A u \in Threads \ {t} :
        /\ Unasked(u)' = Unasked(u)
        /\ UnseenSince(thr[u].ver)' = UnseenSince(thr[u].ver)
  BY <1>1 DEF Unasked, UnseenSince
<1>4. Unasked(t)' =>
        /\ ~UnseenSince(basis)
        /\ \A u \in Threads : thr[u].pc = "place" => ~UnseenSince(thr[u].ver)
  BY <1>1 DEF Unasked
<1>5. BaselineGuard' BY <1>2 DEF WriteGuard, BaselineGuard
<1>6. ASSUME NEW u \in Threads PROVE (WriterGuard(u) /\ ReaderGuard(u))'
  <2>1. CASE u = t BY <1>1, <1>2, <1>4, <2>1 DEF WriterGuard, ReaderGuard
  <2>2. CASE u # t
    BY <1>1, <1>2, <1>3, <2>2 DEF WriteGuard, WriterGuard, ReaderGuard
  <2> QED BY <2>1, <2>2
<1>7. ASSUME NEW u \in Threads, NEW v \in Threads PROVE PairGuard(u, v)'
  <2>1. CASE v = t BY <1>1, <2>1 DEF PairGuard
  <2>2. CASE v # t /\ u = t BY <1>1, <1>3, <1>4, <2>2 DEF PairGuard
  <2>3. CASE v # t /\ u # t BY <1>1, <1>3, <2>3 DEF WriteGuard, PairGuard
  <2> QED BY <2>1, <2>2, <2>3
<1> QED BY <1>5, <1>6, <1>7 DEF WriteGuard

LEMMA FinishIsQuiet ==
  ASSUME CopyTypeOK, NEW t \in Threads, NEW o, Finish(t, o) PROVE Quiet
<1>1. [thr[t] EXCEPT !.pc = "done", !.outcome = o].pc = "done"
  BY DEF CopyTypeOK, ThreadsOK, ThreadRecord
<1> QED BY <1>1, DisarmIsQuiet DEF Finish, Armed

-----------------------------------------------------------------------------
\* Writing back.

LEMMA CheckGuard ==
  ASSUME CopyTypeOK, WriteGuard, NEW t \in Threads, Check(t) PROVE WriteGuard'
<1>1. thr[t] \in ThreadRecord BY DEF CopyTypeOK, ThreadsOK
<1>2. UNCHANGED <<history, base, basis>> BY DEF Check
<1>3. CASE thr[t].consent /\ EnterWriteBack(t, thr[t])
  BY <1>1, <1>2, <1>3, GoWrite DEF EnterWriteBack, ThreadRecord
<1>4. CASE Goto(t, [thr[t] EXCEPT !.pc = "askSync"])
  <2>1. [thr[t] EXCEPT !.pc = "askSync"].pc \notin Armed
    BY <1>1 DEF ThreadRecord, Armed
  <2> QED BY <1>2, <1>4, <2>1, DisarmIsQuiet, QuietStep
<1>5. CASE /\ ~SourceChanged
           /\ EnterWriteBack(t, [thr[t] EXCEPT !.blind = base.digest = NoContent])
  <2> DEFINE r == [thr[t] EXCEPT !.blind = base.digest = NoContent,
                                 !.pc = "read"]
  <2>1. Goto(t, r) /\ r.pc = "read" /\ r.blind = (base.digest = NoContent)
    BY <1>1, <1>5 DEF EnterWriteBack, ThreadRecord
  <2> HIDE DEF r
  <2>2. base.ver = Source BY <1>5 DEF SourceChanged
  <2>3. \A u \in Threads : thr[u].pc = "place" => ~UnseenSince(thr[u].ver)
    BY <2>2 DEF WriteGuard, ReaderGuard
  <2>4. base.digest # NoContent => ~UnseenSince(basis)
    BY <2>2 DEF WriteGuard, BaselineGuard
  <2> QED BY <1>2, <2>1, <2>3, <2>4, GoWrite
<1>6. CASE Finish(t, "failed") BY <1>2, <1>6, FinishIsQuiet, QuietStep
<1> QED BY <1>3, <1>4, <1>5, <1>6 DEF Check

LEMMA AnswerGuard ==
  ASSUME CopyTypeOK, WriteGuard, NEW t \in Threads, Answer(t) PROVE WriteGuard'
<1>1. thr[t] \in ThreadRecord BY DEF CopyTypeOK, ThreadsOK
<1>2. UNCHANGED <<history, base, basis>> BY DEF Answer, AnswerSync, AnswerOpen
<1>3. CASE EnterWriteBack(t, [thr[t] EXCEPT !.consent = TRUE])
  BY <1>1, <1>2, <1>3, GoWrite DEF EnterWriteBack, ThreadRecord
<1>4. CASE Finish(t, "conflict") \/ Finish(t, "declined")
  BY <1>2, <1>4, FinishIsQuiet, QuietStep
<1>5. CASE Goto(t, [thr[t] EXCEPT !.pc = "begin", !.data = local, !.consent = TRUE])
  <2>1. [thr[t] EXCEPT !.pc = "begin", !.data = local, !.consent = TRUE].pc
          \notin Armed
    BY <1>1 DEF ThreadRecord, Armed
  <2> QED BY <1>2, <1>5, <2>1, DisarmIsQuiet, QuietStep
<1> QED BY <1>3, <1>4, <1>5 DEF Answer, AnswerSync, AnswerOpen

LEMMA ReadGuard ==
  ASSUME CopyTypeOK, WriteGuard, NEW t \in Threads, Read(t) PROVE WriteGuard'
<1>1. thr[t] \in ThreadRecord BY DEF CopyTypeOK, ThreadsOK
<1>2. UNCHANGED <<history, base, basis>> BY DEF Read
<1>3. ASSUME Goto(t, [thr[t] EXCEPT !.pc = "publish", !.data = local])
      PROVE  WriteGuard'
  <2> DEFINE r == [thr[t] EXCEPT !.pc = "publish", !.data = local]
  <2>1. /\ Goto(t, r) /\ r.pc = "publish"
        /\ r.consent = thr[t].consent /\ r.blind = thr[t].blind
    BY <1>1, <1>3 DEF ThreadRecord
  <2> HIDE DEF r
  <2>2. ~thr[t].consent /\ ~thr[t].blind =>
          /\ ~UnseenSince(basis)
          /\ \A u \in Threads : thr[u].pc = "place" => ~UnseenSince(thr[u].ver)
    BY DEF Read, Unasked, WriteGuard, WriterGuard, PairGuard
  <2> QED BY <1>2, <2>1, <2>2, GoWrite
<1>4. CASE Finish(t, "failed") BY <1>2, <1>4, FinishIsQuiet, QuietStep
<1> QED BY <1>3, <1>4 DEF Read

LEMMA PublishGuard ==
  ASSUME CopyTypeOK, WriteGuard, NEW t \in Threads, Publish(t) PROVE WriteGuard'
<1>1. CASE history' = Append(history, [data |-> thr[t].data, by |-> "us",
                                       raced |-> FALSE])
           /\ basis' = IF thr[t].own THEN Source + 1 ELSE basis
  <2>1. CopyTypeOK' BY WriteBackType
  <2>3. ASSUME NEW v \in Nat PROVE ~UnseenIn(history', v)
    BY <1>1, NothingUnseenAfterOurs
  <2>4. basis' \in Nat /\ \A u \in Threads : thr'[u].ver \in Nat
    BY <2>1 DEF CopyTypeOK, ThreadsOK, ThreadRecord
  <2>5. Source' = Source + 1 /\ Source \in Nat
    BY <1>1, SourceIsNat DEF Source, CopyTypeOK
  <2>6. BaselineGuard'
    BY <2>3, <2>4, <2>5
    DEF WriteGuard, BaselineGuard, UnseenSince, Publish, CopyTypeOK
  <2>7. \A u \in Threads : (WriterGuard(u) /\ ReaderGuard(u))'
    BY <2>3, <2>4 DEF WriterGuard, ReaderGuard, UnseenSince
  <2>8. \A u, w \in Threads : PairGuard(u, w)'
    BY <2>3, <2>4 DEF PairGuard, UnseenSince
  <2> QED BY <2>6, <2>7, <2>8 DEF WriteGuard
<1>2. CASE Finish(t, "failed") /\ UNCHANGED <<history, basis>>
  BY <1>2, FinishIsQuiet, QuietStep DEF Publish
<1> QED BY <1>1, <1>2 DEF Publish

LEMMA StampGuard ==
  ASSUME CopyTypeOK, WriteGuard, NEW t \in Threads, Stamp(t) PROVE WriteGuard'
<1>1. thr \in [Threads -> ThreadRecord] BY DEF CopyTypeOK, ThreadsOK
<1>2. UNCHANGED <<history, basis>> BY DEF Stamp
<1>3. Quiet BY FinishIsQuiet DEF Stamp
<1>4. CASE base' = [ver |-> Source, digest |-> WrittenDigest(t)]
  <2>1. ~UnseenSince(0) BY DEF Stamp, WriteGuard, WriterGuard
  <2>2. \A v \in Nat : ~UnseenSince(v) BY <2>1, UnseenIsMonotone
  <2>3. Source' = Source /\ base'.ver = Source /\ Source \in Nat
    BY <1>2, <1>4, SourceIsNat DEF Source
  <2>4. \A v \in Nat : ~UnseenIn(history', v) BY <1>2, <2>2 DEF UnseenSince
  <2>5. basis' \in Nat /\ \A u \in Threads : thr'[u].ver \in Nat
    <3>1. CopyTypeOK' BY WriteBackType
    <3> QED BY <3>1 DEF CopyTypeOK, ThreadsOK, ThreadRecord
  <2>6. BaselineGuard' BY <2>3, <2>4, <2>5 DEF BaselineGuard, UnseenSince
  <2>7. \A u \in Threads : (WriterGuard(u) /\ ReaderGuard(u))'
    BY <2>4, <2>5 DEF WriterGuard, ReaderGuard, UnseenSince
  <2>8. \A u, w \in Threads : PairGuard(u, w)'
    BY <2>4, <2>5 DEF PairGuard, UnseenSince
  <2> QED BY <2>6, <2>7, <2>8 DEF WriteGuard
<1>5. CASE UNCHANGED base BY <1>2, <1>3, <1>5, QuietStep
<1> QED BY <1>4, <1>5 DEF Stamp

-----------------------------------------------------------------------------
\* Downloading.  Only the thread of open() downloads.

LEMMA OnlyOpenDownloads ==
  ASSUME CopyTypeOK, NEW t \in Threads,
         thr[t].pc \in {"decide", "begin", "fetch", "place", "digest"}
  PROVE  t = "open"
BY DEF CopyTypeOK, ThreadsOK, SyncPcs, Threads

LEMMA DecideGuard ==
  ASSUME CopyTypeOK, WriteGuard, NEW t \in Threads, Decide(t) PROVE WriteGuard'
<1>1. thr[t] \in ThreadRecord BY DEF CopyTypeOK, ThreadsOK
<1>2. UNCHANGED <<history, base, basis>> BY DEF Decide
<1>3. \A o : Finish(t, o) => Quiet BY FinishIsQuiet
<1>4. /\ [thr[t] EXCEPT !.pc = "askOpen"].pc \notin Armed
      /\ [thr[t] EXCEPT !.pc = "begin", !.data = local].pc \notin Armed
  BY <1>1 DEF ThreadRecord, Armed
<1>5. Quiet BY <1>3, <1>4, DisarmIsQuiet DEF Decide
<1> QED BY <1>2, <1>5, QuietStep

LEMMA BeginGuard ==
  ASSUME CopyTypeOK, WriteGuard, NEW t \in Threads, Begin(t) PROVE WriteGuard'
<1>1. thr \in [Threads -> ThreadRecord] /\ thr[t] \in ThreadRecord
  BY DEF CopyTypeOK, ThreadsOK
<1>2. UNCHANGED <<history, basis>> BY DEF Begin
<1>3. CASE /\ base' = [ver |-> Source, digest |-> NoContent]
           /\ Goto(t, [thr[t] EXCEPT !.pc = "fetch"])
  <2>1. thr'[t].pc = "fetch" /\ \A u \in Threads \ {t} : thr'[u] = thr[u]
    BY <1>1, <1>3 DEF Goto, ThreadRecord
  <2>2. /\ Source' = Source /\ Source \in Nat
        /\ UnseenSince(basis)' = UnseenSince(basis)
        /\ UnseenSince(0)' = UnseenSince(0)
    BY <1>2, SourceIsNat DEF Source, UnseenSince
  <2>3. t = "open" BY OnlyOpenDownloads DEF Begin
  <2>4. \A u \in Threads : thr'[u].pc \notin {"place", "digest"}
    BY <2>1, <2>3, OnlyOpenDownloads
  <2>5. \A u \in Threads \ {t} : Unasked(u)' = Unasked(u) BY <2>1 DEF Unasked
  <2>6. BaselineGuard' BY <1>3, <2>2 DEF BaselineGuard
  <2>7. \A u \in Threads : (WriterGuard(u) /\ ReaderGuard(u))'
    BY <2>1, <2>2, <2>4, <2>5 DEF WriteGuard, WriterGuard, ReaderGuard, Unasked
  <2>8. \A u, w \in Threads : PairGuard(u, w)' BY <2>4 DEF PairGuard
  <2> QED BY <2>6, <2>7, <2>8 DEF WriteGuard
<1>4. CASE Finish(t, "failed") /\ UNCHANGED base
  BY <1>2, <1>4, FinishIsQuiet, QuietStep
<1> QED BY <1>3, <1>4 DEF Begin

LEMMA FetchGuard ==
  ASSUME CopyTypeOK, WriteGuard, NEW t \in Threads, Fetch(t) PROVE WriteGuard'
<1>1. thr \in [Threads -> ThreadRecord] /\ thr[t] \in ThreadRecord
  BY DEF CopyTypeOK, ThreadsOK
<1>2. UNCHANGED <<history, base, basis>> BY DEF Fetch
<1>3. ASSUME Goto(t, [thr[t] EXCEPT !.pc = "place", !.ver = Source])
      PROVE  WriteGuard'
  <2>1. /\ thr'[t].pc = "place" /\ thr'[t].ver = Source
        /\ \A u \in Threads \ {t} : thr'[u] = thr[u]
    BY <1>1, <1>3 DEF Goto, ThreadRecord
  <2>2. /\ Source' = Source /\ UnseenSince(basis)' = UnseenSince(basis)
        /\ UnseenSince(0)' = UnseenSince(0)
        /\ ~UnseenIn(history', Source)
    BY <1>2, NothingUnseenNow DEF Source, UnseenSince
  <2>3. ~UnseenSince(thr[t].ver)' BY <2>1, <2>2 DEF UnseenSince
  <2>4. \A u \in Threads \ {t} :
          /\ Unasked(u)' = Unasked(u)
          /\ UnseenSince(thr[u].ver)' = UnseenSince(thr[u].ver)
    BY <1>2, <2>1 DEF Unasked, UnseenSince
  <2>5. ~Unasked(t)' BY <2>1 DEF Unasked
  <2>6. BaselineGuard' BY <1>2, <2>2 DEF WriteGuard, BaselineGuard
  <2>7. ASSUME NEW u \in Threads PROVE (WriterGuard(u) /\ ReaderGuard(u))'
    <3>1. CASE u = t BY <2>1, <2>3, <2>5, <3>1 DEF WriterGuard, ReaderGuard
    <3>2. CASE u # t
      BY <1>2, <2>1, <2>2, <2>4, <3>2 DEF WriteGuard, WriterGuard, ReaderGuard
    <3> QED BY <3>1, <3>2
  <2>8. ASSUME NEW u \in Threads, NEW w \in Threads PROVE PairGuard(u, w)'
    <3>1. CASE w = t BY <2>3, <3>1 DEF PairGuard
    <3>2. CASE u = t BY <2>5, <3>2 DEF PairGuard
    <3>3. CASE u # t /\ w # t BY <2>1, <2>4, <3>3 DEF WriteGuard, PairGuard
    <3> QED BY <3>1, <3>2, <3>3
  <2> QED BY <2>6, <2>7, <2>8 DEF WriteGuard
<1>4. CASE Finish(t, "failed") BY <1>2, <1>4, FinishIsQuiet, QuietStep
<1> QED BY <1>3, <1>4 DEF Fetch

LEMMA PlaceGuard ==
  ASSUME CopyTypeOK, WriteGuard, NEW t \in Threads, Place(t) PROVE WriteGuard'
<1>1. thr \in [Threads -> ThreadRecord] /\ thr[t] \in ThreadRecord
  BY DEF CopyTypeOK, ThreadsOK
<1>2. /\ UNCHANGED <<history, base>> /\ basis' = thr[t].ver
      /\ thr[t].pc = "place" /\ Goto(t, [thr[t] EXCEPT !.pc = "digest"])
  BY DEF Place
<1>3. thr'[t].pc = "digest" /\ \A u \in Threads \ {t} : thr'[u] = thr[u]
  BY <1>1, <1>2 DEF Goto, ThreadRecord
<1>4. \A u \in Threads \ {t} : thr'[u].pc \notin {"place", "digest"}
  BY <1>2, <1>3, OnlyOpenDownloads
<1>5. /\ Source' = Source /\ UnseenSince(basis)' = UnseenSince(thr[t].ver)
      /\ UnseenSince(0)' = UnseenSince(0)
  BY <1>2 DEF Source, UnseenSince
<1>6. \A u \in Threads \ {t} : Unasked(u)' = Unasked(u) BY <1>3 DEF Unasked
<1>7. base.ver = Source => ~UnseenSince(thr[t].ver)
  BY <1>2 DEF WriteGuard, ReaderGuard
<1>8. BaselineGuard' BY <1>2, <1>5, <1>7 DEF WriteGuard, BaselineGuard
<1>9. ASSUME NEW u \in Threads PROVE (WriterGuard(u) /\ ReaderGuard(u))'
  <2>1. CASE u = t
    BY <1>2, <1>3, <1>5, <1>7, <2>1 DEF WriterGuard, ReaderGuard, Unasked
  <2>2. CASE u # t
    <3>1. PairGuard(u, t) /\ WriterGuard(u) BY DEF WriteGuard
    <3> QED BY <1>2, <1>3, <1>4, <1>5, <1>6, <2>2, <3>1
            DEF WriterGuard, ReaderGuard, PairGuard
  <2> QED BY <2>1, <2>2
<1>10. \A u, w \in Threads : PairGuard(u, w)' BY <1>3, <1>4 DEF PairGuard
<1> QED BY <1>8, <1>9, <1>10 DEF WriteGuard

LEMMA DigestGuard ==
  ASSUME CopyTypeOK, WriteGuard, NEW t \in Threads, Digest(t) PROVE WriteGuard'
<1>1. Quiet BY FinishIsQuiet DEF Digest
<1>2. UNCHANGED <<history, basis>> /\ thr[t].pc = "digest" BY DEF Digest
<1>3. base'.ver = base.ver BY DEF Digest, Downloaded, CopyTypeOK
<1>4. base.ver = Source => ~UnseenSince(basis)
  BY <1>2 DEF WriteGuard, ReaderGuard
<1>5. /\ Source' = Source /\ UnseenSince(basis)' = UnseenSince(basis)
  BY <1>2 DEF Source, UnseenSince
<1>6. BaselineGuard' BY <1>3, <1>4, <1>5 DEF WriteGuard, BaselineGuard
<1>7. thr \in [Threads -> ThreadRecord] /\ thr[t] \in ThreadRecord
  BY DEF CopyTypeOK, ThreadsOK
<1>8. thr'[t].pc = "done" /\ \A u \in Threads \ {t} : thr'[u] = thr[u]
  BY <1>7 DEF Digest, Finish, Goto, ThreadRecord
<1>9. \A u \in Threads \ {t} :
        /\ Unasked(u)' = Unasked(u)
        /\ UnseenSince(thr[u].ver)' = UnseenSince(thr[u].ver)
  BY <1>2, <1>8 DEF Unasked, UnseenSince
<1>10. ASSUME NEW u \in Threads PROVE (WriterGuard(u) /\ ReaderGuard(u))'
  <2>1. CASE u = t BY <1>8, <2>1 DEF WriterGuard, ReaderGuard, Unasked
  <2>2. CASE u # t
    BY <1>2, <1>3, <1>5, <1>8, <1>9, <2>2
    DEF WriteGuard, WriterGuard, ReaderGuard, UnseenSince
  <2> QED BY <2>1, <2>2
<1>11. ASSUME NEW u \in Threads, NEW w \in Threads PROVE PairGuard(u, w)'
  <2>1. CASE u = t \/ w = t BY <1>8, <2>1 DEF PairGuard, Unasked
  <2>2. CASE u # t /\ w # t BY <1>8, <1>9, <2>2 DEF WriteGuard, PairGuard
  <2> QED BY <2>1, <2>2
<1> QED BY <1>6, <1>10, <1>11 DEF WriteGuard

LEMMA ThreadStepGuard ==
  ASSUME CopyTypeOK, WriteGuard, NEW t \in Threads, ThreadStep(t)
  PROVE  WriteGuard'
BY CheckGuard, ReadGuard, PublishGuard, StampGuard, DecideGuard, BeginGuard,
   FetchGuard, PlaceGuard, DigestGuard
DEF ThreadStep

LEMMA OthersWriteGuard ==
  ASSUME CopyTypeOK, WriteGuard, OthersWrite PROVE WriteGuard'
<1>1. PICK c \in Contents :
        history' = Append(history, [data |-> c, by |-> "others",
                                    raced |-> \E t \in Threads : Replacing(t)])
  BY DEF OthersWrite
<1>2. UNCHANGED <<base, basis, thr>> BY DEF OthersWrite
<1>3. /\ Source' = Source + 1 /\ Source \in Nat
      /\ basis \in Nat /\ base.ver \in Nat
      /\ \A u \in Threads : thr[u].ver \in Nat
  BY <1>1, SourceIsNat DEF Source, CopyTypeOK, ThreadsOK, ThreadRecord
<1>4. base'.ver # Source' /\ base'.ver <= Source'
  BY <1>2, <1>3 DEF WriteGuard, BaselineGuard
<1>5. ASSUME NEW t \in Threads, Replacing(t), NEW v \in Nat, ~UnseenSince(v)
      PROVE  ~UnseenIn(history', v)
  <2>1. history' = Append(history, [data |-> c, by |-> "others", raced |-> TRUE])
    BY <1>1, <1>5
  <2> QED BY <1>5, <2>1, RacedIsNotUnseen
<1>6. \A t \in Threads : Unasked(t)' = Unasked(t) /\ (Unasked(t) => Replacing(t))
  BY <1>2 DEF Unasked, Replacing
<1>7. BaselineGuard' BY <1>4 DEF BaselineGuard
<1>8. ASSUME NEW t \in Threads PROVE (WriterGuard(t) /\ ReaderGuard(t))'
  <2>1. WriterGuard(t) BY DEF WriteGuard
  <2>2. Unasked(t)' => ~UnseenSince(basis)'
    BY <1>2, <1>3, <1>5, <1>6, <2>1 DEF WriterGuard, UnseenSince
  <2>3. thr'[t].pc = "stamp" => ~UnseenSince(0)'
    BY <1>2, <1>5, <2>1 DEF WriterGuard, UnseenSince, Replacing
  <2> QED BY <1>4, <2>2, <2>3 DEF WriterGuard, ReaderGuard
<1>9. ASSUME NEW t \in Threads, NEW u \in Threads PROVE PairGuard(t, u)'
  <2>1. PairGuard(t, u) BY DEF WriteGuard
  <2> QED BY <1>2, <1>3, <1>5, <1>6, <2>1 DEF PairGuard, UnseenSince
<1> QED BY <1>7, <1>8, <1>9 DEF WriteGuard

-----------------------------------------------------------------------------
\* The manager starts, forgets and disowns threads; it writes nothing.

LEMMA StartJobIsQuiet ==
  ASSUME CopyTypeOK, NEW force, StartJob(force) PROVE Quiet
<1> DEFINE r == [Idle EXCEPT !.pc = "check", !.consent = force]
<1>1. Goto("sync", r) /\ r.pc \notin Armed
  BY DEF StartJob, Goto, Idle, Armed
<1> HIDE DEF r
<1> QED BY <1>1, DisarmIsQuiet DEF Threads

LEMMA ThreadOverIsQuiet ==
  ASSUME CopyTypeOK, NEW t \in Threads, ThreadOver(t) PROVE Quiet
<1>1. Goto(t, Idle) /\ Idle.pc \notin Armed BY DEF ThreadOver, Goto, Idle, Armed
<1> QED BY <1>1, DisarmIsQuiet

LEMMA ScheduleIsQuiet ==
  ASSUME CopyTypeOK, NEW force, Schedule(force) PROVE Quiet
BY StartJobIsQuiet, ThreadsUnchangedIsQuiet DEF Schedule

LEMMA ScheduleNowIsQuiet == ASSUME CopyTypeOK, ScheduleNow PROVE Quiet
BY ScheduleIsQuiet, ThreadsUnchangedIsQuiet DEF ScheduleNow

LEMMA GuiStepIsQuiet ==
  ASSUME CopyTypeOK, GuiStep PROVE Quiet /\ UNCHANGED <<history, base, basis>>
<1>1. UNCHANGED <<history, base, basis>>
  BY DEF GuiStep, SyncJobDone, OpenJobDone, DetectorReport, StrayEnds,
         DialogDone, ReleaseWaited, ReleaseDone, QuitSynced, ShutdownDone, copyVars
<1>2. Quiet
  <2>1. CASE SyncJobDone
    BY <2>1, StartJobIsQuiet, ThreadOverIsQuiet
    DEF SyncJobDone, Pause, Again, Settle, Threads
  <2>2. CASE OpenJobDone BY <2>2, ThreadOverIsQuiet DEF OpenJobDone, Threads
  <2>3. CASE DetectorReport
    BY <2>3, ScheduleIsQuiet, ThreadsUnchangedIsQuiet DEF DetectorReport
  <2>4. CASE StrayEnds BY <2>4, ThreadOverIsQuiet DEF StrayEnds, Threads
  <2>5. CASE DialogDone
    <3>1. CASE thr' = [t \in Threads |-> [thr[t] EXCEPT !.own = FALSE]]
      BY <3>1 DEF Quiet, CopyTypeOK, ThreadsOK, ThreadRecord
    <3> QED BY <2>5, <3>1, ThreadsUnchangedIsQuiet DEF DialogDone
  <2>6. CASE ReleaseWaited
    BY <2>6, ScheduleNowIsQuiet, ThreadsUnchangedIsQuiet DEF ReleaseWaited
  <2>7. CASE ReleaseDone \/ QuitSynced \/ ShutdownDone
    BY <2>7, ThreadsUnchangedIsQuiet DEF ReleaseDone, QuitSynced, ShutdownDone, copyVars
  <2> QED BY <2>1, <2>2, <2>3, <2>4, <2>5, <2>6, <2>7 DEF GuiStep
<1> QED BY <1>1, <1>2

LEMMA OpenIsQuiet ==
  ASSUME CopyTypeOK, Open \/ Reopen PROVE Quiet
<1> DEFINE c == [Idle EXCEPT !.pc = "begin"]
           d == [Idle EXCEPT !.pc = "decide"]
<1>1. Goto("open", c) \/ Goto("open", d) BY DEF Open, Reopen, Goto
<1>2. c.pc \notin Armed /\ d.pc \notin Armed BY DEF Idle, Armed
<1> HIDE DEF c, d
<1> QED BY <1>1, <1>2, DisarmIsQuiet DEF Threads

LEMMA InterruptIsQuiet == ASSUME CopyTypeOK, Interrupt PROVE Quiet
<1>1. thr' = [thr EXCEPT !["stray"] = thr["sync"], !["sync"] = Idle]
  BY DEF Interrupt
<1>2. /\ thr'["sync"].pc \notin Armed /\ thr'["stray"] = thr["sync"]
      /\ thr'["open"] = thr["open"]
  BY <1>1 DEF CopyTypeOK, ThreadsOK, Threads, Idle, Armed
<1> QED BY <1>2 DEF Quiet, Threads

LEMMA UserStepIsQuiet ==
  ASSUME CopyTypeOK, UserStep, ~\E t \in Threads : AnswerQuestion(t)
  PROVE  Quiet /\ UNCHANGED <<history, base, basis>>
<1>1. UNCHANGED <<history, base, basis>>
  BY DEF UserStep, Open, Reopen, SyncNow, Close, Discard, Interrupt, Release,
         CheckNow, RequestQuit, AnswerQuit, Exit, copyVars
<1>2. CASE Open \/ Reopen BY <1>1, <1>2, OpenIsQuiet
<1>3. CASE SyncNow \/ Close \/ AnswerQuit
  BY <1>1, <1>3, ScheduleNowIsQuiet, ThreadsUnchangedIsQuiet
  DEF SyncNow, Close, AnswerQuit
<1>4. CASE Interrupt BY <1>1, <1>4, InterruptIsQuiet
<1>5. CASE Discard \/ Release \/ CheckNow \/ RequestQuit \/ Exit
  BY <1>1, <1>5, ThreadsUnchangedIsQuiet
  DEF Discard, Release, CheckNow, RequestQuit, Exit, copyVars
<1> QED BY <1>2, <1>3, <1>4, <1>5 DEF UserStep

LEMMA NextGuard == TypeOK /\ WriteGuard /\ [Next]_vars => WriteGuard'
<1> SUFFICES ASSUME CopyTypeOK, WriteGuard, [Next]_vars PROVE WriteGuard'
  BY DEF TypeOK
<1>1. CASE GuiStep BY <1>1, GuiStepIsQuiet, QuietStep
<1>2. CASE UserStep
  <2>1. CASE \E t \in Threads : AnswerQuestion(t)
    BY <2>1, AnswerGuard DEF AnswerQuestion
  <2> QED BY <1>2, <2>1, UserStepIsQuiet, QuietStep
<1>3. CASE \E t \in Threads : RunThread(t)
  BY <1>3, ThreadStepGuard DEF RunThread
<1>4. CASE ChangeSource BY <1>4, OthersWriteGuard DEF ChangeSource
<1>5. CASE DetectorSample \/ Save \/ RemoveLocalFile \/ UNCHANGED vars
  BY <1>5, ThreadsUnchangedIsQuiet, QuietStep
  DEF DetectorSample, Save, RemoveLocalFile, vars, copyVars
<1> QED BY <1>1, <1>2, <1>3, <1>4, <1>5 DEF Next, WorldStep

LEMMA InitGuard == Init => WriteGuard
<1> SUFFICES ASSUME Init PROVE WriteGuard OBVIOUS
<1>1. /\ \A t \in Threads : thr[t].pc = "idle"
      /\ base = [ver |-> 0, digest |-> NoContent]
  BY DEF Init, CopyInit, Idle
<1>2. Source = 1 BY DEF Init, CopyInit, Source
<1> QED BY <1>1, <1>2
        DEF WriteGuard, BaselineGuard, WriterGuard, ReaderGuard, PairGuard, Unasked

\* The inductive invariant holds for every instance.
THEOREM GuardHolds == Spec => []WriteGuard
<1>1. Init => WriteGuard BY InitGuard
<1>2. TypeOK /\ WriteGuard /\ [Next]_vars => WriteGuard' BY NextGuard
<1> QED BY <1>1, <1>2, TypeCorrect, PTL DEF Spec

\* No thread replaces a version of the source its local bytes do not descend
\* from without having asked, if its check had a complete baseline
\* (sync_copy_task, write_back, refresh, create).
THEOREM NeverSilentlyOverwritten == Spec => NoSilentOverwrite
<1>1. WriteGuard =>
        [\A t \in Threads :
           Publishes(t) /\ ~thr[t].consent /\ ~thr[t].blind
             => ~UnseenSince(basis)]_vars
  BY DEF WriteGuard, WriterGuard, Unasked, Publishes
<1> QED BY <1>1, GuardHolds, PTL DEF NoSilentOverwrite

-----------------------------------------------------------------------------
\* The queued follow-up.

\* A change that arrives during a sync is never left behind by the loop that
\* was to take it, whatever the user overlaps, reverts or quits, as long as
\* nobody cancels the loop (_schedule_sync, _run_sync).
THEOREM FollowUpIsServed ==
  "interrupts" \notin Habits => (Spec => []QueuedIsServed)
<1> SUFFICES ASSUME "interrupts" \notin Habits PROVE Spec => []QueuedIsServed
  OBVIOUS
<1>1. Init => QueuedIsServed BY DEF Init, QueuedIsServed
<1>2. QueuedIsServed /\ [Next]_vars => QueuedIsServed'
  <2> SUFFICES ASSUME QueuedIsServed, [Next]_vars PROVE QueuedIsServed'
    OBVIOUS
  <2>1. CASE SyncJobDone
    BY <2>1 DEF SyncJobDone, Pause, Again, Settle, QueuedIsServed
  <2>2. CASE OpenJobDone
    BY <2>2 DEF OpenJobDone, entryVars, QueuedIsServed
  <2>3. CASE DetectorReport \/ SyncNow \/ Close \/ ReleaseWaited \/ AnswerQuit
    BY <2>3 DEF DetectorReport, SyncNow, Close, ReleaseWaited, AnswerQuit,
                ScheduleNow, Schedule, FollowUp, TaskOver, QueuedIsServed
  <2>4. CASE UNCHANGED <<queued, task>>
    BY <2>4 DEF QueuedIsServed
  <2>5. CASE Interrupt BY <2>5 DEF Interrupt
  <2>6. CASE StrayEnds \/ DialogDone \/ ReleaseDone \/ QuitSynced \/ ShutdownDone
               \/ Open \/ Reopen \/ Discard \/ Release \/ CheckNow \/ RequestQuit
               \/ Exit \/ DetectorSample \/ WorldStep \/ UNCHANGED vars
               \/ \E t \in Threads : RunThread(t) \/ AnswerQuestion(t)
    <3>1. UNCHANGED <<queued, task>>
      BY <2>6 DEF StrayEnds, DialogDone, ReleaseDone, QuitSynced, ShutdownDone,
                  Open, Reopen, Discard, Release, CheckNow, RequestQuit, Exit,
                  DetectorSample, WorldStep, Save, RemoveLocalFile, ChangeSource,
                  RunThread, AnswerQuestion, vars, entryVars
    <3> QED BY <2>4, <3>1
  <2> QED BY <2>1, <2>2, <2>3, <2>5, <2>6 DEF Next, GuiStep, UserStep
<1> QED BY <1>1, <1>2, PTL DEF Spec

-----------------------------------------------------------------------------
(***************************************************************************)
(* What a user who lets each operation end can rely on: SyncedOnlyWhen-    *)
(* LoopDone and SkippedIsQuiet.  Neither is inductive: what the manager    *)
(* does depends on who else is under way, so the invariant says which      *)
(* operations exclude each other and which of them own a thread.           *)
(***************************************************************************)

\* The user lets each operation end and does not reopen during a sync.
OneByOne == "interrupts" \notin Habits /\ "overlaps" \notin Habits

\* The sync task and open() own their threads; nobody else has one.
ThreadsAreOwned ==
  /\ thr["stray"].pc = "idle" /\ task # "cancelled"
  /\ task = "running" <=> thr["sync"].pc # "idle"
  /\ opening # "none" <=> thr["open"].pc # "idle"
  /\ \A t \in Threads : thr[t].pc # "done" => thr[t].outcome = "none"

Prompted == {"asking", "syncing", "removing", "keeping"}

Unwatched == det = "off" /\ seen = NoContent

\* open() runs alone, and the dialog, the end of an editor session and the quit
\* prompt exclude each other; without an entry nothing is under way but open().
Turns ==
  /\ opening # "none" =>
       /\ dlg = "none" /\ editor = "none" /\ quitting \notin Prompted
       /\ task = "none" /\ seen = NoContent
  /\ editor # "none" => dlg = "none"
  /\ editor # "none" \/ dlg # "none" => quitting \notin Prompted
  /\ opening = "create" => ~entry
  /\ dlg = "discard" => Unwatched
  /\ det = "off" => Unwatched
  /\ ~entry =>
       \/ quitting = "gone"
       \/ /\ Unwatched /\ task = "none" /\ dlg = "none" /\ editor = "none"
          /\ quitting \notin {"asking", "syncing"}

\* Skip ends the job in a conflict, and the conflict stays the status.
SkipHolds ==
  skipped =>
    /\ opening = "none"
    /\ \/ thr["sync"].pc = "done" /\ thr["sync"].outcome = "conflict"
       \/ thr["sync"].pc = "idle" /\ status = "conflict"

Orderly == ThreadsAreOwned /\ Turns /\ SkipHolds /\ SyncedOnlyWhenLoopDone

LEMMA OrderlyInit == Init => Orderly
BY DEF Init, CopyInit, Idle, Threads, Orderly, ThreadsAreOwned, Turns, SkipHolds,
       SyncedOnlyWhenLoopDone, Unwatched, Prompted

LEMMA IdleRecord == Idle.pc = "idle" /\ Idle.outcome = "none"
BY DEF Idle

\* A thread that takes a step is neither idle before nor afterwards.
LEMMA StepOfThread ==
  ASSUME CopyTypeOK, NEW t \in Threads, ThreadStep(t) \/ Answer(t),
         thr[t].pc # "done" => thr[t].outcome = "none"
  PROVE  /\ thr[t].pc \notin {"idle", "done"}
         /\ thr'[t].pc # "idle"
         /\ thr'[t].pc # "done" => thr'[t].outcome = "none"
         /\ thr'[t].outcome = "conflict" => thr[t].pc = "askSync" /\ thr'[t].pc = "done"
         /\ \A u \in Threads \ {t} : thr'[u] = thr[u]
<1>1. thr[t] \in ThreadRecord /\ thr \in [Threads -> ThreadRecord]
  BY DEF CopyTypeOK, ThreadsOK
<1>2. thr[t].pc \notin {"idle", "done"}
  BY DEF ThreadStep, Answer, Check, Read, Publish, Stamp, Decide, Begin, Fetch,
         Place, Digest, AnswerSync, AnswerOpen
<1> DEFINE Kept == \A u \in Threads \ {t} : thr'[u] = thr[u]
           Moved ==
             /\ thr'[t].pc # "idle"
             /\ thr'[t].pc # "done" => thr'[t].outcome = "none"
             /\ thr'[t].outcome = "conflict" =>
                  thr[t].pc = "askSync" /\ thr'[t].pc = "done"
<1>3. Kept /\ Moved
  <2> DEFINE Went(p) == thr' = [thr EXCEPT ![t] = [@ EXCEPT !.pc = p]]
             Ended(o) == thr' = [thr EXCEPT ![t] = [@ EXCEPT !.pc = "done", !.outcome = o]]
  <2>12. ASSUME NEW p \in {"read", "askSync", "askOpen"}, Went(p) PROVE Kept /\ Moved
    BY <1>1, <1>2, <2>12 DEF ThreadRecord
  <2>13. ASSUME NEW o \in Outcomes \ {"conflict"}, Ended(o) PROVE Kept /\ Moved
    BY <1>1, <1>2, <2>13 DEF ThreadRecord
  <2>1. CASE Check(t)
    <3>1. CASE thr[t].consent \/ Finish(t, "failed") \/ Went("askSync")
      <4>1. Went("read") \/ Ended("failed") \/ Went("askSync")
        BY <1>1, <2>1, <3>1 DEF Check, EnterWriteBack, Goto, Finish
      <4> QED BY <2>12, <2>13, <4>1 DEF Outcomes
    <3>2. CASE ~thr[t].consent /\ EnterWriteBack(t, [thr[t] EXCEPT !.blind = base.digest = NoContent])
      BY <1>1, <1>2, <3>2 DEF EnterWriteBack, Goto, ThreadRecord
    <3> QED BY <2>1, <3>1, <3>2 DEF Check, Goto
  <2>2. CASE AnswerSync(t)
    BY <1>1, <1>2, <2>2 DEF AnswerSync, EnterWriteBack, Goto, Finish, ThreadRecord
  <2>3. CASE AnswerOpen(t)
    <3>1. CASE EnterWriteBack(t, [thr[t] EXCEPT !.consent = TRUE])
      BY <1>1, <1>2, <3>1 DEF EnterWriteBack, Goto, ThreadRecord
    <3>2. CASE Goto(t, [thr[t] EXCEPT !.pc = "begin", !.data = local, !.consent = TRUE])
      BY <1>1, <1>2, <3>2 DEF Goto, ThreadRecord
    <3>3. CASE Finish(t, "declined") BY <2>13, <3>3 DEF Finish, Goto, Outcomes
    <3> QED BY <2>3, <3>1, <3>2, <3>3 DEF AnswerOpen
  <2>4. CASE Read(t) BY <1>1, <1>2, <2>4 DEF Read, Goto, Finish, ThreadRecord
  <2>5. CASE Publish(t) BY <1>1, <1>2, <2>5 DEF Publish, Goto, Finish, ThreadRecord
  <2>6. CASE Stamp(t) BY <1>1, <1>2, <2>6 DEF Stamp, Goto, Finish, ThreadRecord
  <2>7. CASE Decide(t)
    <3>1. CASE Goto(t, [thr[t] EXCEPT !.pc = "begin", !.data = local])
      BY <1>1, <1>2, <3>1 DEF Goto, ThreadRecord
    <3>2. Went("askOpen") => Kept /\ Moved BY <2>12
    <3>3. Ended("ok") \/ Ended("failed") => Kept /\ Moved BY <2>13 DEF Outcomes
    <3> QED BY <2>7, <3>1, <3>2, <3>3 DEF Decide, Goto, Finish
  <2>8. CASE Begin(t) BY <1>1, <1>2, <2>8 DEF Begin, Goto, Finish, ThreadRecord
  <2>9. CASE Fetch(t) BY <1>1, <1>2, <2>9 DEF Fetch, Goto, Finish, ThreadRecord
  <2>10. CASE Place(t) BY <1>1, <1>2, <2>10 DEF Place, Goto, Finish, ThreadRecord
  <2>11. CASE Digest(t) BY <1>1, <1>2, <2>11 DEF Digest, Goto, Finish, ThreadRecord
  <2> QED BY <2>1, <2>2, <2>3, <2>4, <2>5, <2>6, <2>7, <2>8, <2>9, <2>10, <2>11
          DEF ThreadStep, Answer
<1> QED BY <1>2, <1>3

LEMMA RunThreadOrderly ==
  ASSUME TypeOK, Orderly, NEW t \in Threads, RunThread(t) PROVE Orderly'
<1>1. CopyTypeOK /\ t # "stray" /\ UNCHANGED <<entryVars, det, seen, opVars, skipped>>
  BY StepOfThread DEF TypeOK, RunThread, Orderly, ThreadsAreOwned
<1>2. ~(thr[t].pc = "askSync")
  BY DEF RunThread, ThreadStep, Check, Read, Publish, Stamp, Decide, Begin, Fetch,
         Place, Digest
<1>3. /\ thr[t].pc \notin {"idle", "done"} /\ thr'[t].pc # "idle"
      /\ thr'[t].pc # "done" => thr'[t].outcome = "none"
      /\ thr'[t].outcome # "conflict"
      /\ \A u \in Threads \ {t} : thr'[u] = thr[u]
  BY <1>1, <1>2, StepOfThread DEF RunThread, Orderly, ThreadsAreOwned
<1>4. ThreadsAreOwned'
  BY <1>1, <1>3 DEF Orderly, ThreadsAreOwned, Threads, entryVars, opVars
<1>5. (Turns /\ SyncedOnlyWhenLoopDone)'
  BY <1>1 DEF Orderly, Turns, Unwatched, SyncedOnlyWhenLoopDone, entryVars, opVars
<1>6. SkipHolds'
  BY <1>1, <1>3 DEF Orderly, ThreadsAreOwned, SkipHolds, Threads, entryVars, opVars
<1> QED BY <1>4, <1>5, <1>6 DEF Orderly

LEMMA AnswerOrderly ==
  ASSUME TypeOK, Orderly, NEW t \in Threads, AnswerQuestion(t) PROVE Orderly'
<1>1. /\ CopyTypeOK /\ UNCHANGED <<entryVars, detVars, opVars>> /\ Answer(t)
      /\ skipped' <=> thr'[t].outcome = "conflict"
  BY DEF TypeOK, AnswerQuestion
<1>2. /\ thr[t].pc \notin {"idle", "done"} /\ thr'[t].pc # "idle"
      /\ thr'[t].pc # "done" => thr'[t].outcome = "none"
      /\ thr'[t].outcome = "conflict" => thr[t].pc = "askSync" /\ thr'[t].pc = "done"
      /\ \A u \in Threads \ {t} : thr'[u] = thr[u]
  BY <1>1, StepOfThread DEF Orderly, ThreadsAreOwned
<1>3. t # "stray" /\ (thr[t].pc = "askSync" => t = "sync")
  BY <1>1, <1>2 DEF Orderly, ThreadsAreOwned, CopyTypeOK, ThreadsOK, OpenPcs, Threads
<1>4. ThreadsAreOwned'
  BY <1>1, <1>2, <1>3 DEF Orderly, ThreadsAreOwned, Threads, entryVars, opVars
<1>5. (Turns /\ SyncedOnlyWhenLoopDone)'
  BY <1>1 DEF Orderly, Turns, Unwatched, SyncedOnlyWhenLoopDone, entryVars, detVars, opVars
<1>6. t = "sync" => opening = "none"
  BY <1>2 DEF Orderly, ThreadsAreOwned, Turns
<1>7. SkipHolds'
  BY <1>1, <1>2, <1>3, <1>6 DEF SkipHolds, opVars
<1> QED BY <1>4, <1>5, <1>7 DEF Orderly

-----------------------------------------------------------------------------
\* The sync loop.

\* Whoever schedules a sync finds it running afterwards, and the status of the
\* entry says so.
LEMMA ScheduleStarts ==
  ASSUME CopyTypeOK, ThreadsAreOwned, UNCHANGED opening, NEW f,
         \/ Schedule(f)
         \/ ScheduleNow /\ (task = "running" => status # "synced")
  PROVE  /\ ThreadsAreOwned' /\ task' = "running" /\ status' # "synced"
         /\ task = "running" => UNCHANGED thr
<1>1. thr \in [Threads -> ThreadRecord] BY DEF CopyTypeOK, ThreadsOK
<1>2. CASE TaskOver
  <2>1. \E g : StartJob(g) /\ task' = "running" /\ status' = "syncing"
    BY <1>2 DEF Schedule, ScheduleNow
  <2>2. /\ thr'["sync"].pc = "check" /\ thr'["sync"].outcome = "none"
        /\ \A t \in Threads \ {"sync"} : thr'[t] = thr[t]
    BY <1>1, <2>1 DEF StartJob, Idle, Threads
  <2> QED BY <1>2, <2>1, <2>2 DEF ThreadsAreOwned, Threads, TaskOver
<1>3. CASE ~TaskOver
  BY <1>3 DEF Schedule, ScheduleNow, TaskOver, ThreadsAreOwned, Threads
<1> QED BY <1>2, <1>3

LEMMA SyncJobDoneOrderly ==
  ASSUME TypeOK, Orderly, SyncJobDone PROVE Orderly'
<1>1. /\ thr \in [Threads -> ThreadRecord] /\ task = "running"
      /\ UNCHANGED <<entry, det, seen, dlg, editor, opening, quitting, skipped>>
  BY DEF TypeOK, CopyTypeOK, ThreadsOK, SyncJobDone, opVars
<1>2. thr["sync"].pc = "done" /\ opening = "none"
  BY <1>1 DEF SyncJobDone, Orderly, Turns
<1>3. Turns'
  BY <1>1, <1>2 DEF Orderly, Turns, Unwatched
<1>4. CASE ThreadOver("sync") /\ task' = "none"
  <2>1. thr'["sync"] = Idle /\ \A t \in Threads \ {"sync"} : thr'[t] = thr[t]
    BY <1>1, <1>4 DEF ThreadOver, Threads
  <2>2. ThreadsAreOwned'
    BY <1>1, <1>4, <2>1, IdleRecord DEF Orderly, ThreadsAreOwned, Threads
  <2>3. skipped => Pause BY <1>2 DEF SyncJobDone, Orderly, SkipHolds
  <2>4. SkipHolds' BY <1>1, <1>2, <2>1, <2>3, IdleRecord DEF SkipHolds, Pause
  <2>5. SyncedOnlyWhenLoopDone' BY <1>4 DEF SyncedOnlyWhenLoopDone
  <2> QED BY <1>3, <2>2, <2>4, <2>5 DEF Orderly
<1>5. CASE Again /\ thr["sync"].outcome # "conflict"
  <2>1. /\ thr'["sync"].pc = "check" /\ thr'["sync"].outcome = "none"
        /\ \A t \in Threads \ {"sync"} : thr'[t] = thr[t]
    BY <1>1, <1>5 DEF Again, StartJob, Idle, Threads
  <2>2. ThreadsAreOwned'
    BY <1>1, <1>5, <2>1 DEF Again, Orderly, ThreadsAreOwned, Threads
  <2>3. ~skipped BY <1>2, <1>5 DEF Orderly, SkipHolds
  <2> QED BY <1>1, <1>3, <1>5, <2>2, <2>3
          DEF Again, Orderly, SkipHolds, SyncedOnlyWhenLoopDone
<1> QED BY <1>4, <1>5 DEF SyncJobDone, Pause, Settle

LEMMA DetectorOrderly ==
  ASSUME OneByOne, Orderly, DetectorSample \/ CheckNow PROVE Orderly'
BY DEF OneByOne, MayTouch, DetectorSample, CheckNow, copyVars, entryVars, opVars,
       Orderly, ThreadsAreOwned, Turns, Unwatched, SkipHolds, SyncedOnlyWhenLoopDone

LEMMA DetectorReportOrderly ==
  ASSUME TypeOK, Orderly, quitting # "gone", DetectorReport PROVE Orderly'
<1>1. /\ CopyTypeOK /\ entry /\ opening = "none" /\ seen # NoContent
      /\ dlg # "discard"
      /\ UNCHANGED <<entry, det, dlg, editor, opening, quitting, skipped>>
      /\ seen' = NoContent
  BY DEF TypeOK, DetectorReport, Orderly, Turns, Unwatched, opVars
<1>2. CASE Reported /\ Schedule(FALSE)
  <2>1. /\ ThreadsAreOwned' /\ task' = "running" /\ status' # "synced"
        /\ task = "running" => UNCHANGED thr
    BY <1>1, <1>2, ScheduleStarts DEF Orderly
  <2>2. Turns' BY <1>1, <2>1 DEF Orderly, Turns, Unwatched
  <2>3. SkipHolds'
    BY <1>1, <1>2, <2>1 DEF Orderly, SkipHolds, ThreadsAreOwned, Reported
  <2> QED BY <1>1, <2>1, <2>2, <2>3 DEF Orderly, SyncedOnlyWhenLoopDone
<1>3. CASE UNCHANGED <<status, queued, task, thr>>
  BY <1>1, <1>3 DEF Orderly, ThreadsAreOwned, Turns, Unwatched, SkipHolds,
                    SyncedOnlyWhenLoopDone
<1> QED BY <1>2, <1>3 DEF DetectorReport

\* The dialog, the end of a session and the quit prompt schedule a sync when
\* nobody else is under way.
LEMMA ScheduleNowOrderly ==
  ASSUME TypeOK, Orderly, ScheduleNow, ~skipped', entry, opening = "none",
         UNCHANGED <<entry, det, seen, opening>>,
         dlg' \in {"none", "sync", "close"},
         editor' # "none" => dlg' = "none",
         editor' # "none" \/ dlg' # "none" => quitting' \notin Prompted
  PROVE  Orderly'
<1>1. task = "running" => status # "synced"
  BY DEF Orderly, SyncedOnlyWhenLoopDone
<1>2. ThreadsAreOwned' /\ task' = "running" /\ status' # "synced"
  BY <1>1, ScheduleStarts DEF TypeOK, Orderly
<1>3. Turns' BY DEF Orderly, Turns, Unwatched
<1> QED BY <1>2, <1>3 DEF Orderly, SkipHolds, SyncedOnlyWhenLoopDone

LEMMA ReleaseWaitedOrderly ==
  ASSUME TypeOK, Orderly, quitting # "gone", ReleaseWaited PROVE Orderly'
<1>1. /\ entry /\ opening = "none" /\ dlg = "none"
      /\ UNCHANGED <<entry, det, seen, dlg, opening, quitting, skipped>>
      /\ quitting \notin Prompted
  BY DEF ReleaseWaited, detVars, Orderly, Turns
<1>2. CASE ScheduleNow /\ editor' = "sync"
  <2>1. ~skipped
    BY <1>1, <1>2 DEF ReleaseWaited, Orderly, SkipHolds, ThreadsAreOwned, TaskOver
  <2> QED BY <1>1, <1>2, <2>1, ScheduleNowOrderly
<1>3. CASE editor' = "none" /\ UNCHANGED <<status, queued, task, thr>>
  BY <1>1, <1>3 DEF Orderly, ThreadsAreOwned, Turns, Unwatched, SkipHolds,
                    SyncedOnlyWhenLoopDone
<1> QED BY <1>2, <1>3 DEF ReleaseWaited

-----------------------------------------------------------------------------
\* open(), and the operations of the user.

LEMMA OpenOrderly ==
  ASSUME TypeOK, OneByOne, Orderly, Open \/ Reopen PROVE Orderly'
<1>1. /\ thr \in [Threads -> ThreadRecord]
      /\ dlg = "none" /\ editor = "none" /\ opening = "none"
      /\ quitting \notin Prompted
      /\ UNCHANGED <<entryVars, detVars, dlg, editor, quitting>> /\ ~skipped'
  BY DEF TypeOK, CopyTypeOK, ThreadsOK, Open, Reopen, MayStart, Waited, OneByOne,
         Prompted
<1>2. /\ opening' # "none"
      /\ opening' = "create" => ~entry
      /\ seen = NoContent /\ task = "none"
  <2>1. CASE Open /\ quitting # "gone"
    BY <2>1 DEF Open, Orderly, Turns, Unwatched
  <2>2. CASE Reopen
    BY <2>2 DEF Reopen, OneByOne, TaskOver, TypeOK, ManagerTypeOK, Orderly,
                ThreadsAreOwned
  <2>3. quitting # "gone" BY DEF Open, Reopen, MayStart
  <2> QED BY <2>1, <2>2, <2>3
<1>3. /\ thr'["open"].pc # "idle"
      /\ thr'["open"].outcome = "none"
      /\ \A t \in Threads \ {"open"} : thr'[t] = thr[t]
  BY <1>1 DEF Open, Reopen, Idle, Threads
<1>4. ThreadsAreOwned'
  BY <1>1, <1>2, <1>3 DEF Orderly, ThreadsAreOwned, Threads, entryVars
<1>5. Turns'
  BY <1>1, <1>2 DEF Orderly, Turns, Unwatched, entryVars, detVars
<1> QED BY <1>1, <1>4, <1>5 DEF Orderly, SkipHolds, SyncedOnlyWhenLoopDone, entryVars

LEMMA OpenJobDoneOrderly ==
  ASSUME TypeOK, Orderly, OpenJobDone PROVE Orderly'
<1>1. /\ thr \in [Threads -> ThreadRecord] /\ opening # "none"
      /\ dlg = "none" /\ editor = "none" /\ quitting \notin Prompted
      /\ task = "none" /\ seen = NoContent
      /\ UNCHANGED <<dlg, editor, quitting, skipped>> /\ opening' = "none"
  BY DEF TypeOK, CopyTypeOK, ThreadsOK, OpenJobDone, Orderly, ThreadsAreOwned, Turns
<1>2. thr'["open"] = Idle /\ \A t \in Threads \ {"open"} : thr'[t] = thr[t]
  BY <1>1 DEF OpenJobDone, ThreadOver, Threads
<1>3. task' = "none" /\ seen' = NoContent /\ (det' = "off" => det = "off")
  BY <1>1 DEF OpenJobDone, entryVars, detVars
<1>4. entry' \/ UNCHANGED <<entryVars, detVars>>
  BY DEF OpenJobDone
<1>5. ThreadsAreOwned'
  BY <1>1, <1>2, <1>3, IdleRecord DEF Orderly, ThreadsAreOwned, Threads
<1>6. Turns'
  BY <1>1, <1>3, <1>4 DEF Orderly, Turns, Unwatched, entryVars, detVars
<1>7. SkipHolds' /\ SyncedOnlyWhenLoopDone'
  BY <1>1, <1>3 DEF Orderly, SkipHolds, SyncedOnlyWhenLoopDone
<1> QED BY <1>5, <1>6, <1>7 DEF Orderly

\* Everything the manager does without a thread, an entry or a status.
LEMMA StopsOrderly ==
  ASSUME Orderly, UNCHANGED <<thr, entry, status, task, opening, skipped>>,
         StopDetector \/ UNCHANGED <<det, seen>>,
         Turns'
  PROVE  Orderly'
BY DEF Orderly, ThreadsAreOwned, SkipHolds, SyncedOnlyWhenLoopDone

LEMMA SyncNowOrderly ==
  ASSUME TypeOK, OneByOne, Orderly, SyncNow PROVE Orderly'
<1>1. /\ ScheduleNow /\ ~skipped' /\ entry /\ opening = "none" /\ editor = "none"
      /\ dlg = "none" /\ dlg' = "sync" /\ editor' = "none"
      /\ quitting' \notin Prompted
      /\ UNCHANGED <<entry, det, seen, opening>>
  BY DEF SyncNow, MayStart, Waited, OneByOne, Prompted, detVars
<1> QED BY <1>1, ScheduleNowOrderly

LEMMA CloseOrderly ==
  ASSUME TypeOK, OneByOne, Orderly, Close PROVE Orderly'
<1>1. /\ ~skipped' /\ entry /\ opening = "none" /\ editor = "none" /\ dlg = "none"
      /\ editor' = "none" /\ quitting' \notin Prompted
      /\ UNCHANGED <<entry, opening, quitting>>
  BY DEF Close, MayStart, Waited, OneByOne, Prompted
<1>2. CASE ScheduleNow /\ dlg' = "close" /\ UNCHANGED detVars
  BY <1>1, <1>2, ScheduleNowOrderly DEF detVars
<1>3. CASE StopDetector /\ UNCHANGED <<status, queued, task, thr, dlg>>
  BY <1>1, <1>3 DEF StopDetector, Orderly, ThreadsAreOwned, Turns, Unwatched,
                    SkipHolds, SyncedOnlyWhenLoopDone
<1> QED BY <1>2, <1>3 DEF Close

LEMMA DiscardOrderly ==
  ASSUME OneByOne, Orderly, Discard \/ Release PROVE Orderly'
<1>1. Turns'
  BY DEF Discard, Release, MayStart, Waited, OneByOne, StopDetector, entryVars,
         Prompted, Orderly, Turns, Unwatched
<1> QED BY <1>1, StopsOrderly DEF Discard, Release, copyVars, entryVars

LEMMA DialogDoneOrderly ==
  ASSUME TypeOK, Orderly, DialogDone PROVE Orderly'
<1>1. /\ \A t \in Threads : thr[t] \in ThreadRecord
      /\ UNCHANGED <<status, task, editor, opening, quitting, skipped>>
      /\ dlg' = "none"
      /\ editor = "none" /\ opening = "none" /\ quitting \notin Prompted
  BY DEF TypeOK, CopyTypeOK, ThreadsOK, DialogDone, Orderly, Turns
<1>2. \/ thr' = [t \in Threads |-> [thr[t] EXCEPT !.own = FALSE]]
      \/ thr' = thr
  BY DEF DialogDone
<1>3. \A t \in Threads : thr'[t].pc = thr[t].pc /\ thr'[t].outcome = thr[t].outcome
  BY <1>1, <1>2 DEF ThreadRecord
<1>4. \/ UNCHANGED entry
      \/ ~entry' /\ dlg = "discard" /\ task = "none" /\ UNCHANGED detVars
  BY DEF DialogDone
<1>5. Unwatched' \/ UNCHANGED detVars
  BY DEF DialogDone, StopDetector, Unwatched
<1>6. Turns' BY <1>1, <1>4, <1>5 DEF Orderly, Turns, Unwatched, detVars, Prompted
<1>7. ThreadsAreOwned' /\ SkipHolds'
  BY <1>1, <1>3 DEF Orderly, ThreadsAreOwned, SkipHolds, Threads
<1>8. SyncedOnlyWhenLoopDone'
  BY <1>1, <1>4 DEF Orderly, SyncedOnlyWhenLoopDone
<1> QED BY <1>6, <1>7, <1>8 DEF Orderly

LEMMA ReleaseDoneOrderly ==
  ASSUME Orderly, ReleaseDone PROVE Orderly'
<1>1. Turns' BY DEF ReleaseDone, entryVars, detVars, Orderly, Turns, Unwatched
<1> QED BY <1>1, StopsOrderly DEF ReleaseDone, copyVars, entryVars, detVars

-----------------------------------------------------------------------------
\* Quitting.

LEMMA QuitOrderly ==
  ASSUME OneByOne, Orderly, RequestQuit \/ QuitSynced \/ Exit PROVE Orderly'
<1>1. /\ UNCHANGED <<thr, entry, status, task, dlg, editor, opening, skipped>>
      /\ quitting # "gone"
  BY DEF RequestQuit, QuitSynced, Exit, MayStart, copyVars, entryVars
<1>2. Unwatched' \/ UNCHANGED detVars
  BY DEF RequestQuit, QuitSynced, Exit, QuitUnlessUnsynced, BeginShutdown,
         StopDetector, Unwatched
<1>3. \/ quitting' \in {"none", "unmounting", "gone"}
      \/ /\ dlg = "none" /\ editor = "none" /\ opening = "none"
         /\ quitting' \in {"asking", "syncing"} => entry
  BY DEF RequestQuit, QuitSynced, Exit, QuitUnlessUnsynced, BeginShutdown,
         MayStart, Waited, OneByOne, Orderly, Turns, Prompted
<1>4. Turns'
  BY <1>1, <1>2, <1>3 DEF Orderly, Turns, Unwatched, detVars, Prompted
<1>5. StopDetector \/ UNCHANGED <<det, seen>>
  BY DEF RequestQuit, QuitSynced, Exit, QuitUnlessUnsynced, BeginShutdown, detVars
<1> QED BY <1>1, <1>4, <1>5, StopsOrderly

LEMMA AnswerQuitOrderly ==
  ASSUME TypeOK, Orderly, AnswerQuit PROVE Orderly'
<1>1. /\ entry /\ opening = "none" /\ editor = "none" /\ dlg = "none"
      /\ UNCHANGED <<entry, dlg, editor, opening>>
  BY DEF AnswerQuit, Orderly, Turns, Prompted
<1>2. CASE /\ quitting' = "syncing" /\ ScheduleNow /\ ~skipped'
           /\ UNCHANGED <<detVars, shut>>
  BY <1>1, <1>2, ScheduleNowOrderly DEF detVars
<1>3. CASE /\ \/ BeginShutdown("keeping")
              \/ quitting' = "none" /\ UNCHANGED <<detVars, shut>>
           /\ UNCHANGED <<status, queued, task, thr, skipped>>
  <2>1. StopDetector \/ UNCHANGED detVars BY <1>3 DEF BeginShutdown
  <2>2. Turns'
    BY <1>1, <1>3, <2>1 DEF StopDetector, detVars, Orderly, Turns, Unwatched
  <2> QED BY <1>1, <1>3, <2>1, <2>2, StopsOrderly DEF detVars
<1> QED BY <1>2, <1>3 DEF AnswerQuit

LEMMA ShutdownDoneOrderly ==
  ASSUME Orderly, ShutdownDone PROVE Orderly'
<1>1. /\ UNCHANGED <<thr, status, task, detVars, dlg, editor, opening, skipped>>
      /\ quitting' = "gone" /\ ~entry'
  BY DEF ShutdownDone, EndProgram, Orderly, ThreadsAreOwned
<1>2. (ThreadsAreOwned /\ SkipHolds /\ SyncedOnlyWhenLoopDone)'
  BY <1>1 DEF Orderly, ThreadsAreOwned, SkipHolds, SyncedOnlyWhenLoopDone
<1>3. Turns'
  BY <1>1 DEF Orderly, Turns, Unwatched, detVars, Prompted
<1> QED BY <1>2, <1>3 DEF Orderly

LEMMA WorldOrderly ==
  ASSUME Orderly, WorldStep \/ UNCHANGED vars PROVE Orderly'
BY DEF WorldStep, Save, RemoveLocalFile, ChangeSource, OthersWrite, vars, copyVars,
       entryVars, detVars, opVars, Orderly, ThreadsAreOwned, Turns, Unwatched,
       SkipHolds, SyncedOnlyWhenLoopDone

LEMMA NextOrderly ==
  ASSUME TypeOK, OneByOne, Orderly, [Next]_vars PROVE Orderly'
<1>1. CASE UNCHANGED vars BY <1>1, WorldOrderly
<1>2. CASE Next /\ GuiStep
  <2>1. ~StrayEnds BY DEF StrayEnds, Orderly, ThreadsAreOwned
  <2> QED BY <1>2, <2>1, SyncJobDoneOrderly, OpenJobDoneOrderly,
             DetectorReportOrderly, DialogDoneOrderly, ReleaseWaitedOrderly,
             ReleaseDoneOrderly, QuitOrderly, ShutdownDoneOrderly DEF Next, GuiStep
<1>3. CASE Next /\ UserStep
  <2>1. ~Interrupt BY DEF Interrupt, OneByOne
  <2> QED BY <1>3, <2>1, OpenOrderly, SyncNowOrderly, CloseOrderly, DiscardOrderly,
             DetectorOrderly, QuitOrderly, AnswerQuitOrderly, AnswerOrderly
          DEF UserStep
<1>4. CASE DetectorSample BY <1>4, DetectorOrderly
<1>5. CASE WorldStep BY <1>5, WorldOrderly
<1>6. CASE \E t \in Threads : RunThread(t) BY <1>6, RunThreadOrderly
<1> QED BY <1>1, <1>2, <1>3, <1>4, <1>5, <1>6 DEF Next

LEMMA OrderlyAlways == OneByOne => (Spec => []Orderly)
<1> SUFFICES ASSUME OneByOne PROVE Spec => []Orderly OBVIOUS
<1>1. Init => Orderly BY OrderlyInit
<1>2. TypeOK /\ Orderly /\ [Next]_vars => Orderly' BY NextOrderly
<1> QED BY <1>1, <1>2, TypeCorrect, PTL DEF Spec

\* The status says synced only when no sync loop is running, if the user lets
\* each operation end (_run_sync, _schedule_sync, _reopen).
THEOREM SyncedMeansLoopDone ==
  OneByOne => (Spec => []SyncedOnlyWhenLoopDone)
<1>1. Orderly => SyncedOnlyWhenLoopDone BY DEF Orderly
<1> QED BY <1>1, OrderlyAlways, PTL

\* After Skip the manager starts and asks nothing until the user acts, if the
\* user lets each operation end (_on_change, _run_sync, release).
THEOREM SkipIsRespected == OneByOne => (Spec => []SkippedIsQuiet)
<1>1. Orderly => SkippedIsQuiet BY DEF Orderly, SkipHolds, SkippedIsQuiet
<1> QED BY <1>1, OrderlyAlways, PTL

-----------------------------------------------------------------------------
(***************************************************************************)
(* UnsyncedIsComplete and RemovalIsSafe.  The quit prompt believes that a  *)
(* file whose digest is the one of the baseline is on the source.  That    *)
(* breaks when a replacement that was not recorded is followed by a save   *)
(* of what the baseline names, so the user must not restore old contents;  *)
(* then the baseline of an unrecorded replacement names a content that the *)
(* local file no longer has.                                               *)
(***************************************************************************)

\* Each operation to its end, and every save a new content.
NothingTwice == OneByOne /\ "reverts" \notin Habits

\* Only others have written since version v.
OnlyOthersSince(v) == \A w \in v + 1 .. Source : history[w].by = "others"

\* The local file is the one the baseline was taken of.
AtBaseline == base.digest # NoContent /\ local = base.digest

\* What a thread holds, or has put on the source, or has read from it.
ThreadKnows(t) ==
  /\ thr[t].pc = "publish" /\ AtBaseline => thr[t].data = base.digest
  /\ thr[t].pc = "stamp" => OnSource(thr[t].data)
  /\ thr[t].pc \in {"fetch", "place", "digest"} => base.digest = NoContent
  /\ thr[t].pc \in {"place", "digest"} => OnlyOthersSince(thr[t].ver)

BaselineIsOnSource ==
  /\ AtBaseline => OnSource(local)
  /\ \A t \in Threads : ThreadKnows(t)

\* A step that leaves the source and the baseline alone, and the local file too
\* or at least does not bring it to the baseline.
LEMMA QuietKeepsBaseline ==
  ASSUME BaselineIsOnSource, UNCHANGED <<history, base>>, Quiet,
         AtBaseline' => UNCHANGED local
  PROVE  BaselineIsOnSource'
<1>1. /\ Source' = Source
      /\ AtBaseline' => AtBaseline
      /\ \A c : OnSource(c)' <=> OnSource(c)
  BY DEF Source, AtBaseline, OnSource
<1>2. ASSUME NEW t \in Threads PROVE ThreadKnows(t)'
  <2>1. CASE thr'[t].pc \notin Armed BY <2>1 DEF Armed, ThreadKnows
  <2>2. ASSUME NEW u \in Threads, thr'[t].pc = thr[u].pc,
               thr'[t].data = thr[u].data, thr'[t].ver = thr[u].ver
        PROVE  ThreadKnows(t)'
    <3>1. ThreadKnows(u) BY DEF BaselineIsOnSource
    <3>2. OnSource(thr[t].data)' <=> OnSource(thr[u].data)
      BY <1>1, <2>2 DEF OnSource
    <3>3. OnlyOthersSince(thr[t].ver)' <=> OnlyOthersSince(thr[u].ver)
      BY <1>1, <2>2 DEF OnlyOthersSince
    <3> QED BY <1>1, <2>2, <3>1, <3>2, <3>3 DEF ThreadKnows
  <2> QED BY <2>1, <2>2 DEF Quiet
<1> QED BY <1>1, <1>2 DEF BaselineIsOnSource

\* While a thread runs, no other one does.
LEMMA OneThreadRuns ==
  ASSUME Orderly, NEW t \in Threads, thr[t].pc # "idle"
  PROVE  \A u \in Threads \ {t} : thr[u].pc = "idle"
BY DEF Orderly, ThreadsAreOwned, Turns, Threads

\* So only what the running one knows, and the baseline, can be disturbed.
LEMMA StepOfOneThread ==
  ASSUME Orderly, NEW t \in Threads, thr[t].pc # "idle",
         \A u \in Threads \ {t} : thr'[u] = thr[u],
         (AtBaseline => OnSource(local))', ThreadKnows(t)'
  PROVE  BaselineIsOnSource'
<1>1. \A u \in Threads \ {t} : ThreadKnows(u)' BY OneThreadRuns DEF ThreadKnows
<1> QED BY <1>1 DEF BaselineIsOnSource

\* The steps ThreadKnows speaks about.
Knowing == {"publish", "stamp", "fetch", "place", "digest"}

LEMMA AtOtherSteps ==
  ASSUME BaselineIsOnSource, UNCHANGED <<history, local, base>>,
         NEW t \in Threads, thr'[t].pc \notin Knowing
  PROVE  (AtBaseline => OnSource(local))' /\ ThreadKnows(t)'
<1>1. Source' = Source BY DEF Source
<1> QED BY <1>1 DEF BaselineIsOnSource, AtBaseline, OnSource, ThreadKnows, Knowing

LEMMA Finished ==
  ASSUME CopyTypeOK, NEW t \in Threads, NEW o, Finish(t, o)
  PROVE  thr'[t].pc = "done"
BY DEF Finish, Goto, CopyTypeOK, ThreadsOK, ThreadRecord

\* The steps after which a thread has nothing yet.
LEMMA KnowsNothing ==
  ASSUME CopyTypeOK, NEW t \in Threads, Check(t) \/ Decide(t) \/ Answer(t)
  PROVE  thr'[t].pc \notin Knowing
<1>1. thr[t] \in ThreadRecord /\ thr \in [Threads -> ThreadRecord]
  BY DEF CopyTypeOK, ThreadsOK
<1>2. CASE \E o : Finish(t, o) BY <1>2, Finished DEF Knowing
<1>3. CASE Goto(t, [thr[t] EXCEPT !.pc = "askSync"])
             \/ Goto(t, [thr[t] EXCEPT !.pc = "askOpen"])
  BY <1>1, <1>3 DEF Goto, ThreadRecord, Knowing
<1>4. ASSUME NEW r \in ThreadRecord, EnterWriteBack(t, r)
      PROVE  thr'[t].pc \notin Knowing
  BY <1>1, <1>4 DEF EnterWriteBack, Goto, ThreadRecord, Knowing
<1>5. CASE Goto(t, [thr[t] EXCEPT !.pc = "begin", !.data = local])
  BY <1>1, <1>5 DEF Goto, ThreadRecord, Knowing
<1>6. CASE Goto(t, [thr[t] EXCEPT !.pc = "begin", !.data = local, !.consent = TRUE])
  BY <1>1, <1>6 DEF Goto, ThreadRecord, Knowing
<1>7. /\ [thr[t] EXCEPT !.consent = TRUE] \in ThreadRecord
      /\ [thr[t] EXCEPT !.blind = base.digest = NoContent] \in ThreadRecord
  BY <1>1 DEF ThreadRecord
<1>8. CASE Check(t) BY <1>1, <1>2, <1>3, <1>4, <1>7, <1>8 DEF Check
<1>9. CASE Decide(t) BY <1>2, <1>3, <1>5, <1>9 DEF Decide
<1>10. CASE Answer(t)
  BY <1>2, <1>4, <1>6, <1>7, <1>10 DEF Answer, AnswerSync, AnswerOpen
<1> QED BY <1>8, <1>9, <1>10

\* write_back(): what is read from the local file is what gets published, and
\* what the baseline then names.
LEMMA WriteBackKnows ==
  ASSUME CopyTypeOK, BaselineIsOnSource, NEW t \in Threads,
         Read(t) \/ Publish(t) \/ Stamp(t)
  PROVE  (AtBaseline => OnSource(local))' /\ ThreadKnows(t)'
<1>1. thr[t] \in ThreadRecord /\ thr \in [Threads -> ThreadRecord]
  BY DEF CopyTypeOK, ThreadsOK
<1>2. ThreadKnows(t) /\ (AtBaseline => OnSource(local)) BY DEF BaselineIsOnSource
<1>3. CASE (\E o : Finish(t, o)) /\ UNCHANGED <<history, local, base>>
  BY <1>3, Finished, AtOtherSteps DEF Knowing
<1>4. CASE Read(t) /\ Goto(t, [thr[t] EXCEPT !.pc = "publish", !.data = local])
  <2>1. thr'[t].pc = "publish" /\ thr'[t].data = local
    BY <1>1, <1>4 DEF Goto, ThreadRecord
  <2>2. UNCHANGED <<history, local, base>> /\ Source' = Source
    BY <1>4 DEF Read, Source
  <2> QED BY <1>2, <2>1, <2>2 DEF ThreadKnows, AtBaseline, OnSource
<1>5. CASE /\ history' = Append(history, [data |-> thr[t].data, by |-> "us",
                                          raced |-> FALSE])
           /\ Goto(t, [thr[t] EXCEPT !.pc = "stamp"])
           /\ thr[t].pc = "publish" /\ UNCHANGED <<local, base>>
  <2>1. thr'[t].pc = "stamp" /\ thr'[t].data = thr[t].data
    BY <1>1, <1>5 DEF Goto, ThreadRecord
  <2>2. /\ Source \in Nat /\ Source' = Source + 1 /\ Source' \in DOMAIN history'
        /\ history'[Source'].data = thr[t].data
    BY <1>5, SourceIsNat DEF Source, CopyTypeOK
  <2>3. \E v \in DOMAIN history' :
          history'[v].data = thr[t].data /\ v + 1 .. Source' = {}
    BY <2>2
  <2>4. OnSource(thr[t].data)' BY <2>1, <2>3 DEF OnSource
  <2>5. AtBaseline' => local' = thr'[t].data
    BY <1>2, <1>5, <2>1 DEF AtBaseline, ThreadKnows, Publish
  <2> QED BY <2>1, <2>4, <2>5 DEF ThreadKnows, OnSource
<1>6. CASE Stamp(t) /\ Finish(t, "ok")
  <2>1. thr'[t].pc = "done" BY <1>6, Finished
  <2>2. UNCHANGED <<history, local>> /\ Source' = Source /\ OnSource(thr[t].data)
    BY <1>2, <1>6 DEF Stamp, Source, ThreadKnows
  <2>3. base'.digest = base.digest \/ base'.digest = thr[t].data
    BY <1>6 DEF Stamp, WrittenDigest
  <2> QED BY <1>2, <2>1, <2>2, <2>3 DEF ThreadKnows, AtBaseline, OnSource
<1> QED BY <1>3, <1>4, <1>5, <1>6 DEF Read, Publish, Stamp

\* refresh() and create(): the baseline has no digest until the download is
\* complete, and nothing of ours is written meanwhile.
LEMMA DownloadKnows ==
  ASSUME CopyTypeOK, BaselineIsOnSource, NEW t \in Threads,
         Begin(t) \/ Fetch(t) \/ Place(t) \/ Digest(t)
  PROVE  (AtBaseline => OnSource(local))' /\ ThreadKnows(t)'
<1>1. /\ thr[t] \in ThreadRecord /\ thr \in [Threads -> ThreadRecord]
      /\ Usable(thr[t])
      /\ base \in [ver : Nat, digest : Contents \cup {NoContent}]
  BY DEF CopyTypeOK, ThreadsOK
<1>2. ThreadKnows(t) BY DEF BaselineIsOnSource
<1>3. Source' = Source /\ Source \in Nat /\ UNCHANGED history
  BY SourceIsNat DEF Begin, Fetch, Place, Digest, Source
<1>4. CASE (\E o : Finish(t, o)) /\ UNCHANGED <<history, local, base>>
  BY <1>4, Finished, AtOtherSteps DEF Knowing
<1>5. CASE /\ base' = [ver |-> Source, digest |-> NoContent]
           /\ Goto(t, [thr[t] EXCEPT !.pc = "fetch"])
  <2>1. thr'[t].pc = "fetch" /\ base'.digest = NoContent
    BY <1>1, <1>5 DEF Goto, ThreadRecord
  <2> QED BY <2>1 DEF ThreadKnows, AtBaseline
<1>6. CASE Fetch(t) /\ Goto(t, [thr[t] EXCEPT !.pc = "place", !.ver = Source])
  <2>1. thr'[t].pc = "place" /\ thr'[t].ver = Source
    BY <1>1, <1>6 DEF Goto, ThreadRecord
  <2>2. base'.digest = NoContent BY <1>2, <1>6 DEF Fetch, ThreadKnows
  <2>3. OnlyOthersSince(thr[t].ver)' BY <1>3, <2>1 DEF OnlyOthersSince
  <2> QED BY <2>1, <2>2, <2>3 DEF ThreadKnows, AtBaseline
<1>7. CASE Place(t)
  <2>1. thr'[t].pc = "digest" /\ thr'[t].ver = thr[t].ver
    BY <1>1, <1>7 DEF Place, Goto, ThreadRecord
  <2>2. base'.digest = NoContent BY <1>2, <1>7 DEF Place, ThreadKnows
  <2>3. OnlyOthersSince(thr[t].ver)'
    BY <1>2, <1>3, <1>7, <2>1 DEF Place, ThreadKnows, OnlyOthersSince
  <2> QED BY <2>1, <2>2, <2>3 DEF ThreadKnows, AtBaseline
<1>8. CASE Digest(t)
  <2>1. thr'[t].pc = "done" BY <1>8, Finished DEF Digest
  <2>2. base'.digest = history[thr[t].ver].data
    BY <1>1, <1>8 DEF Digest, Downloaded
  <2>3. thr[t].ver \in DOMAIN history /\ OnlyOthersSince(thr[t].ver)
    BY <1>1, <1>2, <1>8 DEF Digest, Usable, Source, ThreadKnows, CopyTypeOK
  <2>4. OnSource(base.digest)'
    BY <1>3, <2>2, <2>3 DEF OnSource, OnlyOthersSince
  <2> QED BY <2>1, <2>4 DEF ThreadKnows, AtBaseline, OnSource
<1> QED BY <1>4, <1>5, <1>6, <1>7, <1>8 DEF Begin, Fetch

LEMMA ThreadKeepsBaseline ==
  ASSUME TypeOK, Orderly, BaselineIsOnSource, NEW t \in Threads,
         RunThread(t) \/ AnswerQuestion(t)
  PROVE  BaselineIsOnSource'
<1>1. CopyTypeOK /\ (ThreadStep(t) \/ Answer(t))
  BY DEF TypeOK, RunThread, AnswerQuestion
<1>2. thr[t].pc # "idle" /\ \A u \in Threads \ {t} : thr'[u] = thr[u]
  BY <1>1, StepOfThread DEF Orderly, ThreadsAreOwned
<1>3. (AtBaseline => OnSource(local))' /\ ThreadKnows(t)'
  <2>1. CASE Check(t) \/ Decide(t) \/ Answer(t)
    BY <1>1, <2>1, KnowsNothing, AtOtherSteps
    DEF Check, Decide, Answer, AnswerSync, AnswerOpen
  <2>2. CASE Read(t) \/ Publish(t) \/ Stamp(t) BY <1>1, <2>2, WriteBackKnows
  <2>3. CASE Begin(t) \/ Fetch(t) \/ Place(t) \/ Digest(t)
    BY <1>1, <2>3, DownloadKnows
  <2> QED BY <1>1, <2>1, <2>2, <2>3 DEF ThreadStep
<1> QED BY <1>2, <1>3, StepOfOneThread

\* What others write hides nothing that was on the source.
LEMMA OthersKeepBaseline ==
  ASSUME CopyTypeOK, BaselineIsOnSource, OthersWrite PROVE BaselineIsOnSource'
<1>1. PICK d, b : history' = Append(history, [data |-> d, by |-> "others", raced |-> b])
  BY DEF OthersWrite
<1>2. /\ Source \in Nat /\ Source' = Source + 1
      /\ DOMAIN history = 1 .. Source /\ DOMAIN history' = 1 .. Source + 1
      /\ \A v \in 1 .. Source : history'[v] = history[v]
      /\ history'[Source + 1].by = "others"
  BY <1>1, SourceIsNat DEF Source, CopyTypeOK
<1>3. UNCHANGED <<local, base, thr>> BY DEF OthersWrite
<1>4. ASSUME NEW c, OnSource(c)
      PROVE  \E v \in DOMAIN history' :
               /\ history'[v].data = c
               /\ \A w \in v + 1 .. Source' : history'[w].by = "others"
  <2>1. PICK v \in 1 .. Source :
          history[v].data = c /\ \A w \in v + 1 .. Source : history[w].by = "others"
    BY <1>2, <1>4 DEF OnSource
  <2>2. \A w \in v + 1 .. Source' : w \in v + 1 .. Source \/ w = Source + 1
    BY <1>2
  <2>3. \A w \in v + 1 .. Source' : history'[w].by = "others"
    BY <1>2, <2>1, <2>2
  <2> QED BY <1>2, <2>1, <2>3
<1>5. ASSUME NEW t \in Threads PROVE ThreadKnows(t)'
  <2>1. ThreadKnows(t) /\ thr'[t] = thr[t] /\ thr[t].ver \in Nat
    BY <1>3 DEF BaselineIsOnSource, CopyTypeOK, ThreadsOK, ThreadRecord
  <2>2. OnSource(thr[t].data) => OnSource(thr[t].data)'
    BY <1>4, <2>1 DEF OnSource
  <2>3. OnlyOthersSince(thr[t].ver) => OnlyOthersSince(thr[t].ver)'
    <3>1. \A w \in thr[t].ver + 1 .. Source' :
            (w \in thr[t].ver + 1 .. Source /\ w \in 1 .. Source) \/ w = Source + 1
      BY <1>2, <2>1
    <3> QED BY <1>2, <2>1, <3>1 DEF OnlyOthersSince
  <2> QED BY <1>3, <2>1, <2>2, <2>3 DEF ThreadKnows, AtBaseline
<1>6. AtBaseline' => OnSource(local)'
  BY <1>3, <1>4 DEF BaselineIsOnSource, AtBaseline, OnSource
<1> QED BY <1>5, <1>6 DEF BaselineIsOnSource

LEMMA BaselineNext ==
  ASSUME TypeOK, NothingTwice, Orderly, BaselineIsOnSource, [Next]_vars
  PROVE  BaselineIsOnSource'
<1> CopyTypeOK BY DEF TypeOK
<1>1. CASE \E t \in Threads : RunThread(t) \/ AnswerQuestion(t)
  BY <1>1, ThreadKeepsBaseline
<1>2. CASE ChangeSource BY <1>2, OthersKeepBaseline DEF ChangeSource
<1>3. CASE GuiStep \/ (UserStep /\ ~\E t \in Threads : AnswerQuestion(t))
  <2>1. Quiet /\ UNCHANGED <<history, base>>
    BY <1>3, GuiStepIsQuiet, UserStepIsQuiet
  <2>2. UNCHANGED local \/ local' = NoContent
    BY <1>3 DEF GuiStep, SyncJobDone, OpenJobDone, DetectorReport, StrayEnds,
                DialogDone, ReleaseWaited, ReleaseDone, QuitSynced, ShutdownDone,
                EndProgram, UserStep, Open, Reopen, SyncNow, Close, Discard,
                Interrupt, Release, CheckNow, RequestQuit, AnswerQuit, Exit, copyVars
  <2> QED BY <2>1, <2>2, QuietKeepsBaseline DEF AtBaseline
<1>4. CASE Save \/ RemoveLocalFile
  <2>1. UNCHANGED <<history, base, thr>> BY <1>4 DEF Save, RemoveLocalFile
  <2>2. ~AtBaseline'
    BY <1>4, <2>1 DEF Save, RemoveLocalFile, Remembered, NothingTwice, AtBaseline
  <2> QED BY <2>1, <2>2, ThreadsUnchangedIsQuiet, QuietKeepsBaseline
<1>5. CASE DetectorSample \/ UNCHANGED vars
  BY <1>5, ThreadsUnchangedIsQuiet, QuietKeepsBaseline
  DEF DetectorSample, vars, copyVars
<1> QED BY <1>1, <1>2, <1>3, <1>4, <1>5 DEF Next, WorldStep

LEMMA BaselineAlways == NothingTwice => (Spec => [](Orderly /\ BaselineIsOnSource))
<1> SUFFICES ASSUME NothingTwice
             PROVE  Spec => [](Orderly /\ BaselineIsOnSource)
  OBVIOUS
<1> OneByOne BY DEF NothingTwice
<1>1. Init => Orderly /\ BaselineIsOnSource
  <2> SUFFICES ASSUME Init PROVE BaselineIsOnSource BY OrderlyInit
  <2>1. /\ \A t \in Threads : thr[t].pc = "idle"
        /\ base.digest = NoContent
    BY DEF Init, CopyInit, Idle
  <2> QED BY <2>1 DEF BaselineIsOnSource, AtBaseline, ThreadKnows
<1>2. TypeOK /\ (Orderly /\ BaselineIsOnSource) /\ [Next]_vars
        => (Orderly /\ BaselineIsOnSource)'
  BY NextOrderly, BaselineNext
<1> QED BY <1>1, <1>2, TypeCorrect, PTL DEF Spec

\* A copy the quit prompt would not mention is on the source, if the user lets
\* each operation end and does not restore old contents (unsynced, request_quit).
THEOREM UnsyncedMissesNothing == NothingTwice => (Spec => []UnsyncedIsComplete)
<1>1. BaselineIsOnSource => UnsyncedIsComplete
  BY DEF BaselineIsOnSource, AtBaseline, UnsyncedIsComplete, Unsynced, Modified, FileThere
<1> QED BY <1>1, BaselineAlways, PTL

\* Unless another quit key ends the application, a shutdown that removes the
\* local files begins only when they are on the source (request_quit, shutdown).
THEOREM RemovalLosesNothing == Habits = {} => (Spec => RemovalIsSafe)
<1> SUFFICES ASSUME Habits = {} PROVE Spec => RemovalIsSafe OBVIOUS
<1>1. NothingTwice BY DEF NothingTwice, OneByOne
<1>2. BaselineIsOnSource => UnsyncedIsComplete
  BY DEF BaselineIsOnSource, AtBaseline, UnsyncedIsComplete, Unsynced, Modified, FileThere
<1>3. UnsyncedIsComplete /\ [Next]_vars
        => [~shut /\ shut' /\ quitting' # "keeping" /\ entry /\ ~ReadOnly /\ FileThere
              => OnSource(local)]_vars
  <2> SUFFICES ASSUME UnsyncedIsComplete, Next, ~shut, shut', quitting' # "keeping",
                      entry, ~ReadOnly, FileThere
               PROVE  OnSource(local)
    OBVIOUS
  <2>1. shut' = shut \/ RequestQuit \/ AnswerQuit \/ QuitSynced
    BY DEF Next, GuiStep, SyncJobDone, OpenJobDone, DetectorReport, StrayEnds,
           DialogDone, ReleaseWaited, ReleaseDone, ShutdownDone, UserStep, Open,
           Reopen, SyncNow, Close, Discard, Interrupt, Release, CheckNow, Exit,
           AnswerQuestion, DetectorSample, WorldStep, Save, RemoveLocalFile,
           ChangeSource, RunThread, opVars
  <2>2. ~AnswerQuit BY DEF AnswerQuit, BeginShutdown
  <2>3. ~(entry /\ Unsynced)
    BY <2>1, <2>2 DEF RequestQuit, QuitSynced, QuitUnlessUnsynced, CanTell
  <2> QED BY <2>3 DEF UnsyncedIsComplete
<1> QED BY <1>1, <1>2, <1>3, BaselineAlways, PTL DEF Spec, RemovalIsSafe

=============================================================================
