----------------------------- MODULE ArchiveCopies ----------------------------
(***************************************************************************)
(* Local copies of members of one mounted archive (vfs/local_copy.py,      *)
(* local_copies/manager.py, local_copies/tasks.py): what the copies share. *)
(* The fingerprint of a member has two halves, its own stat, which the     *)
(* mount's reader answers, and that of the archive, which is asked anew;   *)
(* a sync of one member changes the second half for all of them, and       *)
(* _rebase_siblings() lets the others absorb it.                           *)
(*                                                                         *)
(* LocalCopyManager has the operations on one copy in full; here a user    *)
(* opens and saves members, presses Sync now and enters the archive.       *)
(***************************************************************************)
EXTENDS Archive

CONSTANT MaxEvents  \* bound: saves, operations of the user, versions by others

ASSUME EventsAssumption == MaxEvents \in Nat

VARIABLES
  local,    \* revision in the local file of a member
  base,     \* LocalCopy._baseline of a member
  basis,    \* (history variable) the revision that file descends from
  shown,    \* (history variable) how the mount showed the member when that was
            \* downloaded
  made,     \* (history variable) the version of the archive when it was made
  status,   \* CopyEntry.status, "closed" without an entry
  queued,   \* CopyEntry.sync_queued
  marked,   \* the detector has a change to look at
  detBase,  \* ChangeDetector._baseline
  events

mountVars == <<remote, revs, copied, known, reader, locked>>
copyVars == <<local, base, basis, shown, made>>
entryVars == <<status, queued, marked, detBase>>
vars == <<archiveVars, copyVars, entryVars, events>>

\* The empty digest of a download that is not finished.
NoDigest == 0

CopiesTypeOK ==
  /\ local \in Revisions /\ basis \in Revisions
  /\ base \in [Members -> [own : Nat, ver : 0 .. Latest, digest : Nat]]
  /\ shown \in [Members -> {"level", "behind", "ahead"}] /\ made \in [Members -> 0 .. Latest]
  /\ status \in [Members -> {"closed", "synced", "modified", "syncing", "failed",
                             "conflict"}]
  /\ queued \in [Members -> BOOLEAN] /\ marked \in [Members -> BOOLEAN]
  /\ detBase \in [Members -> Nat]
  /\ events \in Nat

\* Everything is of its type, and the lock is held exactly by the thread that
\* is inside a commit or a refresh.
TypeOK == ArchiveTypeOK /\ CopiesTypeOK

\* The archive is mounted, and some of its members have been opened.
Init ==
  /\ ArchiveInit
  /\ \E opened \in SUBSET Members \ {{}} :
       /\ local = [m \in Members |-> IF m \in opened THEN 1 ELSE 0]
       /\ base = [m \in Members |->
                    IF m \in opened THEN [own |-> 1, ver |-> 1, digest |-> 1]
                    ELSE [own |-> 0, ver |-> 0, digest |-> NoDigest]]
       /\ status = [m \in Members |-> IF m \in opened THEN "synced" ELSE "closed"]
  /\ basis = local /\ detBase = local /\ made = local
  /\ shown = [m \in Members |-> "level"]
  /\ queued = [m \in Members |-> FALSE] /\ marked = [m \in Members |-> FALSE]
  /\ events = 0

Sync(m) == <<m, "sync">>
Open(m) == <<m, "open">>
Running(m) == thr[Sync(m)].pc # "idle"
Opening(m) == thr[Open(m)].pc # "idle"

-----------------------------------------------------------------------------
\* LocalCopy of a member.

\* SourceFingerprint.of(): the stat of the mount, the version of the source.
SourceChanged(m) == base[m].own # reader[m] \/ base[m].ver # Latest

Modified(m) == local[m] # base[m].digest

\* The two halves of the fingerprint come from different archives: version ver
\* holds another revision of the member than the one its stat names.
Torn(m) == Content(base[m].ver)[m] # base[m].own

Doubt(m) == IF base[m].digest = NoDigest THEN "unread"
            ELSE IF Torn(m) THEN "torn" ELSE shown[m]

\* The task enters write_back(), which copies the local file to the spool of a
\* _MemberWriter; nothing looks at that file between the check and this.
EnterWriteBack(t, consent) ==
  Goto(t, [Idle EXCEPT !.pc = "lock", !.consent = consent, !.data = local[Member(t)],
                       !.ver = IF consent THEN 0 ELSE Latest,
                       !.doubt = IF consent THEN "level" ELSE Doubt(Member(t))])

\* sync_copy_task: ask about a changed source, unless forced.
Check(m) ==
  LET t == Sync(m) IN
  /\ thr[t].pc = "check"
  /\ \/ /\ thr[t].consent \/ ~SourceChanged(m)
        /\ EnterWriteBack(t, thr[t].consent)
     \/ /\ ~thr[t].consent /\ SourceChanged(m)
        /\ At(t, "askSync")
     \/ Fail(t)
  /\ UNCHANGED <<mountVars, copyVars, entryVars, events>>

AnswerSync(m) ==
  LET t == Sync(m) IN
  /\ thr[t].pc = "askSync"
  /\ EnterWriteBack(t, TRUE) \/ Finish(t, "conflict")
  /\ UNCHANGED <<mountVars, copyVars, entryVars, events>>

WrittenOfFile(t) == local[Member(t)]
Written(t) == thr[t].data

\* write_back: the new baseline, when the archive is committed.  What others
\* wrote after the check counts as seen: nothing prevents another writer from
\* racing the replacement (docs/local_copies.md, Limits).
Stamp(t) ==
  LET m == Member(t) IN
  /\ thr[t].pc = "stamp"
  /\ \/ /\ base' = [base EXCEPT ![m] = [own |-> reader[m], ver |-> Latest,
                                        digest |-> Written(t)]]
        /\ basis' = [basis EXCEPT ![m] = reader[m]]
        /\ shown' = [shown EXCEPT ![m] = "level"]
        /\ Finish(t, "ok")
     \/ Fail(t) /\ UNCHANGED <<base, basis, shown>>
  /\ UNCHANGED <<mountVars, local, made, entryVars, events>>

\* reopen_copy_task: apply reuse_action().
Decide(m) ==
  LET t == Open(m) IN
  /\ thr[t].pc = "decide"
  /\ \/ Modified(m) /\ SourceChanged(m) /\ At(t, "askOpen")
     \/ ~Modified(m) /\ SourceChanged(m) /\ At(t, "start")
     \/ ~SourceChanged(m) /\ Finish(t, "ok")
     \/ Fail(t)
  /\ UNCHANGED <<mountVars, copyVars, entryVars, events>>

AnswerOpen(m) ==
  LET t == Open(m) IN
  /\ thr[t].pc = "askOpen"
  /\ EnterWriteBack(t, TRUE) \/ At(t, "start") \/ Finish(t, "declined")
  /\ UNCHANGED <<mountVars, copyVars, entryVars, events>>

\* create() and refresh(): the fingerprint before the download.
StartDownload(m) ==
  LET t == Open(m) IN
  /\ thr[t].pc = "start"
  /\ \/ /\ base' = [base EXCEPT ![m] = [own |-> reader[m], ver |-> Latest,
                                        digest |-> NoDigest]]
        /\ made' = IF status[m] = "closed" THEN [made EXCEPT ![m] = Latest] ELSE made
        /\ At(t, "fetch")
     \/ Fail(t) /\ UNCHANGED <<base, made>>
  /\ UNCHANGED <<mountVars, local, basis, shown, entryVars, events>>

\* What the mount shows of a member is level with the archive and with the local
\* file that the next version is rebuilt from, or ahead of one of them.
Showing(m) ==
  IF reader[m] > Content(Latest)[m] \/ reader[m] > copied[m] THEN "ahead"
  ELSE IF reader[m] = Content(Latest)[m] /\ reader[m] = copied[m] THEN "level"
  ELSE "behind"

\* _download: the member as the mount shows it.
Fetch(m) ==
  LET t == Open(m) IN
  /\ thr[t].pc = "fetch"
  /\ \/ /\ local' = [local EXCEPT ![m] = reader[m]]
        /\ basis' = [basis EXCEPT ![m] = reader[m]]
        /\ shown' = [shown EXCEPT ![m] = Showing(m)]
        /\ base' = [base EXCEPT ![m].digest = reader[m]]
        /\ Finish(t, "ok")
     \/ Fail(t) /\ UNCHANGED <<local, basis, shown, base>>
  /\ UNCHANGED <<mountVars, made, entryVars, events>>

\* A commit inside a write_back; the published revision is the new basis.
Commit(t) ==
  /\ ArchiveStep(t)
  /\ basis' = IF thr[t].pc = "publish" /\ remote' # remote
              THEN [basis EXCEPT ![Member(t)] = thr[t].data] ELSE basis
  /\ UNCHANGED <<local, base, shown, made, entryVars, events>>

-----------------------------------------------------------------------------
\* LocalCopyManager.

Counted == events < MaxEvents /\ events' = events + 1

\* _schedule_sync(): a new task ...
StartSync(m, force) ==
  /\ ~Running(m)
  /\ Goto(Sync(m), [Idle EXCEPT !.pc = "check", !.consent = force])
  /\ status' = [status EXCEPT ![m] = "syncing"]
  /\ UNCHANGED queued

\* ... or one follow-up of the running one.
QueueSync(m) ==
  /\ Running(m)
  /\ queued' = [queued EXCEPT ![m] = TRUE]
  /\ UNCHANGED <<thr, faults>>

\* open(): create a copy, or reopen the registered one.  The user does not
\* reopen a copy that is being synced (LocalCopyManager has that).
OpenMember(m) ==
  /\ ~Opening(m) /\ ~Running(m)
  /\ Goto(Open(m), [Idle EXCEPT !.pc = IF status[m] = "closed" THEN "start"
                                       ELSE "decide"])
  /\ Counted
  /\ UNCHANGED <<mountVars, copyVars, entryVars>>

OpenDone(m) ==
  LET t == Open(m) IN
  /\ thr[t].pc = "done"
  /\ Goto(t, Idle)
  /\ IF thr[t].outcome = "ok"
     THEN /\ status' = [status EXCEPT ![m] = "synced"]
          /\ detBase' = [detBase EXCEPT ![m] = base[m].digest]
     ELSE UNCHANGED <<status, detBase>>
  /\ UNCHANGED <<mountVars, copyVars, queued, marked, events>>

\* An editor saves the local file of an open copy.
Save(m) ==
  /\ status[m] # "closed" /\ ~Opening(m)
  /\ Counted
  /\ revs' = revs + 1
  /\ local' = [local EXCEPT ![m] = revs + 1]
  /\ marked' = [marked EXCEPT ![m] = TRUE]
  /\ UNCHANGED <<remote, copied, known, reader, locked, thr, faults, base, basis,
                 shown, made, status, queued, detBase>>

\* The detector reports a settled change: _on_change().  Not while the member is
\* being reopened: a sync beside a reopen is LocalCopyManager's.
Report(m) ==
  /\ marked[m] /\ ~Opening(m)
  /\ marked' = [marked EXCEPT ![m] = FALSE]
  /\ detBase' = [detBase EXCEPT ![m] = local[m]]
  /\ \/ /\ local[m] = detBase[m] \/ status[m] = "conflict"
        /\ UNCHANGED <<thr, faults, status, queued>>
     \/ /\ local[m] # detBase[m] /\ status[m] # "conflict"
        /\ \/ StartSync(m, FALSE)
           \/ /\ QueueSync(m)
              /\ status' = [status EXCEPT ![m] = IF @ = "syncing" THEN @ ELSE "modified"]
  /\ UNCHANGED <<mountVars, copyVars, events>>

SyncNow(m) ==
  /\ status[m] # "closed" /\ ~Opening(m)
  /\ \/ StartSync(m, status[m] = "conflict")
     \/ QueueSync(m) /\ UNCHANGED status
  /\ Counted
  /\ UNCHANGED <<mountVars, copyVars, marked, detBase>>

\* _run_sync(): the end of the loop, or its next turn.
Again(m, r) ==
  IF queued[m]
  THEN /\ Goto(Sync(m), [Idle EXCEPT !.pc = "check"])
       /\ queued' = [queued EXCEPT ![m] = FALSE]
       /\ status' = [status EXCEPT ![m] = "syncing"]
  ELSE /\ Goto(Sync(m), Idle)
       /\ status' = [status EXCEPT ![m] = IF r = "ok" THEN "synced" ELSE "failed"]
       /\ UNCHANGED queued

Siblings(m) == {n \in Members \ {m} : status[n] # "closed"}

\* _run_sync(): the awaited job has ended.
SyncDone(m) ==
  LET t == Sync(m) IN
  /\ thr[t].pc = "done"
  /\ \/ /\ thr[t].outcome = "conflict"
        /\ Goto(t, Idle)
        /\ status' = [status EXCEPT ![m] = "conflict"]
        /\ queued' = [queued EXCEPT ![m] = FALSE]
        /\ UNCHANGED detBase
     \/ /\ thr[t].outcome = "ok"
        /\ detBase' = [detBase EXCEPT ![m] = base[m].digest]
        /\ Goto(t, [thr[t] EXCEPT !.pc = "rebase", !.todo = Siblings(m)])
        /\ UNCHANGED <<status, queued>>
     \/ /\ thr[t].outcome = "failed"
        /\ Again(m, "failed")
        /\ UNCHANGED detBase
  /\ UNCHANGED <<mountVars, copyVars, marked, events>>

SameMemberAnyway(n) == TRUE

\* The member's own stat is that of its baseline.
SameMember(n) == reader[n] = base[n].own

\* rebase_container() of a sibling, up to its decision; an error is logged.
RebaseSibling(m) ==
  LET t == Sync(m) IN
  /\ thr[t].pc = "rebase"
  /\ \E n \in thr[t].todo :
       \/ /\ SameMember(n)
          /\ Goto(t, [thr[t] EXCEPT !.pc = "rebasePut",
                        !.found = [who |-> n, own |-> reader[n], ver |-> Latest]])
       \/ ~SameMember(n) /\ Goto(t, [thr[t] EXCEPT !.todo = @ \ {n}])
       \/ Faulty /\ thr' = [thr EXCEPT ![t].todo = @ \ {n}]
  /\ UNCHANGED <<mountVars, copyVars, entryVars, events>>

\* ... and its last statement, which keeps the digest the baseline has by now.
RebasePut(m) ==
  LET t == Sync(m)
      f == thr[t].found IN
  /\ thr[t].pc = "rebasePut"
  /\ base' = [base EXCEPT ![f.who] = [own |-> f.own, ver |-> f.ver, digest |-> @.digest]]
  /\ Goto(t, [thr[t] EXCEPT !.pc = "rebase", !.todo = @ \ {f.who}])
  /\ UNCHANGED <<mountVars, local, basis, shown, made, entryVars, events>>

RebaseDone(m) ==
  /\ thr[Sync(m)].pc = "rebase" /\ thr[Sync(m)].todo = {}
  /\ Again(m, "ok")
  /\ UNCHANGED <<mountVars, copyVars, marked, detBase, events>>

\* mount_archive() of the mounted archive, when the user enters it again.
EnterArchive ==
  /\ thr[MountThread].pc = "idle"
  /\ At(MountThread, "lock")
  /\ Counted
  /\ UNCHANGED <<mountVars, copyVars, entryVars>>

Others ==
  /\ OthersWrite
  /\ Counted
  /\ UNCHANGED <<copyVars, entryVars>>

-----------------------------------------------------------------------------
Next ==
  \/ \E t \in Threads : Commit(t)
  \/ \E t \in Threads \ {MountThread} : Stamp(t)
  \/ \E m \in Members :
       \/ Check(m) \/ AnswerSync(m) \/ Decide(m) \/ AnswerOpen(m)
       \/ StartDownload(m) \/ Fetch(m)
       \/ OpenMember(m) \/ OpenDone(m) \/ Save(m) \/ Report(m) \/ SyncNow(m)
       \/ SyncDone(m) \/ RebaseSibling(m) \/ RebasePut(m) \/ RebaseDone(m)
  \/ EnterArchive \/ Others

Spec == Init /\ [][Next]_vars

-----------------------------------------------------------------------------
(***************************************************************************)
(* Properties                                                              *)
(***************************************************************************)

Published(t) == thr[t].pc = "publish" /\ thr'[t].pc = "record"

\* Somebody else replaced the archive after this commit had looked at it, which
\* the documentation names as a limit.
Raced(t) == \E v \in thr[t].upto + 1 .. Latest : remote[v].by = "others"

\* Publishing one member takes no other member back to an older revision,
\* whether it came from a sibling's save or from somebody else, if the archive
\* it was rebuilt from was whole: no commit and no download had failed half-way
\* (_commit_member, refresh_from_source, prepare_write).
NoMemberGoesBack ==
  [][\A t \in Threads : Published(t) /\ ~Raced(t) /\ Whole =>
       \A n \in Members \ {Member(t)} :
         remote'[Latest + 1].members[n] >= Content(Latest)[n]]_vars

\* A copy that counts as unmodified is on the archive, or was replaced there by
\* something newer: no commit of a sibling takes it back, and nothing is taken
\* for written that was not (write_back, _commit_member, _rebase_siblings); unless
\* it was downloaded from a mount that a failed commit had left ahead of the archive
\* or of the file it is rebuilt from.
UnmodifiedIsKept ==
  \A m \in Members :
    status[m] # "closed" /\ ~Opening(m) /\ ~Modified(m) /\ shown[m] # "ahead"
      => Content(Latest)[m] >= local[m]

\* What the check of a write-back could see of the member is what the local file
\* descends from.
Seen(t) == Content(thr[t].ver)[Member(t)] <= basis[Member(t)]

\* No member is replaced unasked that somebody else had changed before the
\* check, provided the baseline named one archive and the mount was level with it
\* when the file was downloaded (sync_copy_task, of, rebase_container).
MembersAreAsked ==
  [][\A t \in Threads :
       Published(t) /\ ~thr[t].consent /\ thr[t].doubt = "level" => Seen(t)]_vars

\* The same whatever archive the mount shows, for what changed after the copy was
\* made (docs/local_copies.md:61): "a background sync notices the source changed
\* since the local copy was made (or downloaded) and asks".
ChangedMembersAreAsked ==
  [][\A t \in Threads :
       Published(t) /\ ~thr[t].consent /\ thr[t].doubt # "unread"
         /\ Content(thr[t].ver)[Member(t)] > Content(made[Member(t)])[Member(t)]
       => Seen(t)]_vars

=============================================================================
