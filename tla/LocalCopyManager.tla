--------------------------- MODULE LocalCopyManager ---------------------------
(***************************************************************************)
(* LocalCopyManager (local_copies/manager.py) for one source: the registry *)
(* entry and its status, the sync task with its queued follow-up, the      *)
(* change detector as the manager sees it, and the operations of the user: *)
(* open and reopen, Sync now, Close copy and Discard of the Local Copies   *)
(* dialog, the end of a built-in editor session (release) and quitting.    *)
(*                                                                         *)
(* All of it runs on the GUI event loop: what happens between two awaits   *)
(* is one action, and the jobs it starts run as threads of LocalCopy.      *)
(***************************************************************************)
EXTENDS LocalCopy

CONSTANTS Habits,     \* what the user does beyond waiting for each operation
          MaxSaves,   \* bound: saves of the local file
          MaxOps      \* bound: operations of the user

\* "interrupts": starts an operation while another one runs, or cancels it;
\* "overlaps": reopens during a sync or a save of the same copy;
\* "reverts": saves what the file held before;
\* "exits": presses Textual's own quit key in a dialog.
ASSUME HabitsAssumption ==
  Habits \subseteq {"interrupts", "overlaps", "reverts", "exits"}
ASSUME BoundsAssumption == MaxSaves \in Nat /\ MaxOps \in Nat

VARIABLES
  entry,    \* the source has a CopyEntry in _entries
  status,   \* CopyEntry.status
  queued,   \* CopyEntry.sync_queued
  task,     \* CopyEntry.sync_task: "none", "running", or done by cancellation
  det,      \* CopyEntry.detector: "off" (None) or "on"
  detBase,  \* ChangeDetector._baseline
  dirty,    \* ChangeDetector._dirty: the file may have changed
  seen,     \* digest computed by the settle loop and not compared yet
  dlg,      \* operation of the Local Copies dialog that awaits something
  editor,   \* progress of release() at the end of an editor session
  opening,  \* open() or _reopen() awaiting its job
  quitting, \* progress of request_quit()
  shut,     \* _shutdown_started
  skipped,  \* (history variable) the user answered Skip and did nothing since
  saves, ops

entryVars == <<entry, status, queued, task>>
detVars == <<det, detBase, dirty, seen>>
opVars == <<dlg, editor, opening, quitting, shut>>
boundVars == <<saves, ops>>
vars == <<copyVars, entryVars, detVars, opVars, skipped, boundVars>>

Statuses == {"synced", "modified", "syncing", "failed", "conflict", "read-only"}

ManagerTypeOK ==
  /\ entry \in BOOLEAN /\ status \in Statuses /\ queued \in BOOLEAN
  /\ task \in {"none", "running", "cancelled"}
  /\ det \in {"off", "on"}
  /\ detBase \in Contents \cup {NoContent}
  /\ dirty \in BOOLEAN
  /\ seen \in Contents \cup {NoContent}
  /\ dlg \in {"none", "sync", "close", "discard"}
  /\ editor \in {"none", "wait", "sync"}
  /\ opening \in {"none", "create", "reopen"}
  /\ quitting \in {"none", "asking", "syncing", "removing", "keeping",
                   "unmounting", "gone"}
  /\ shut \in BOOLEAN
  /\ skipped \in BOOLEAN
  /\ saves \in Nat /\ ops \in Nat

\* Every variable has its type, and every thread is at a step of its own task
\* with what that step needs.
TypeOK == CopyTypeOK /\ ManagerTypeOK

Init ==
  /\ CopyInit
  /\ entry = FALSE /\ status = "synced" /\ queued = FALSE /\ task = "none"
  /\ det = "off" /\ detBase = NoContent /\ dirty = FALSE /\ seen = NoContent
  /\ dlg = "none" /\ editor = "none" /\ opening = "none" /\ quitting = "none"
  /\ shut = FALSE /\ skipped = FALSE /\ saves = 0 /\ ops = 0

-----------------------------------------------------------------------------
\* What the manager and its callers look at.

\* CopyEntry.has_unsynced_changes
HasUnsyncedChanges == status \in {"modified", "failed", "conflict", "syncing"}

UnsyncedByStatus == HasUnsyncedChanges

\* The entry is in unsynced().
Unsynced == HasUnsyncedChanges \/ (~ReadOnly /\ Modified)

\* is_modified(), and with it unsynced(), raises when the local file is gone.
FileThere == local # NoContent

TaskOver == task # "running"

Forced == status = "conflict"

\* Unless the user overlaps, the local file is left alone while open() runs its
\* job, and the job ends within settle_time of the replacement it makes.
MayTouch == opening = "none" \/ "overlaps" \in Habits

-----------------------------------------------------------------------------
\* Sync: _schedule_sync, _run_sync and the change detector's callback.

StartJob(force) ==
  thr' = [thr EXCEPT !["sync"] =
            [Idle EXCEPT !.pc = "check", !.consent = force]]

FollowUpDropped == queued' = queued

\* At most one follow-up is remembered.
FollowUp == queued' = TRUE

\* _schedule_sync, with the status _on_change sets first when it calls it.
\* The new task's first step, up to the job's start, belongs to it.
Schedule(force) ==
  IF TaskOver
  THEN /\ task' = "running" /\ status' = "syncing"
       /\ StartJob(force)
       /\ UNCHANGED queued
  ELSE /\ FollowUp
       /\ status' = IF status = "syncing" THEN status ELSE "modified"
       /\ UNCHANGED <<task, thr>>

\* sync_now: unlike _on_change it leaves the status alone.
ScheduleNow ==
  IF TaskOver
  THEN Schedule(Forced)
  ELSE /\ FollowUp
       /\ UNCHANGED <<task, status, thr>>

ThreadOver(t) == thr' = [thr EXCEPT ![t] = Idle]

PauseKeepsQueue ==
  status' = "conflict" /\ task' = "none" /\ ThreadOver("sync") /\ UNCHANGED queued

\* _run_sync, the ways on from a job that has ended: a conflict pauses and
\* drops what was queued, ...
Pause == status' = "conflict" /\ queued' = FALSE /\ task' = "none" /\ ThreadOver("sync")

AgainReported == status' = "synced" /\ queued' = FALSE /\ StartJob(FALSE) /\ UNCHANGED task
AgainKeepsQueue == status' = "syncing" /\ StartJob(FALSE) /\ UNCHANGED <<queued, task>>

\* ... a queued change goes round once more, never forced, ...
Again == status' = "syncing" /\ queued' = FALSE /\ StartJob(FALSE) /\ UNCHANGED task

\* ... and otherwise the loop is done.
Settle(outcome) ==
  /\ status' = IF outcome = "ok" THEN "synced" ELSE "failed"
  /\ task' = "none"
  /\ ThreadOver("sync")
  /\ UNCHANGED queued

SyncJobDone ==
  /\ task = "running" /\ thr["sync"].pc = "done"
  /\ LET outcome == thr["sync"].outcome
     IN /\ detBase' = IF outcome = "ok" /\ det = "on" THEN base.digest ELSE detBase
        /\ \/ outcome = "conflict" /\ Pause
           \/ outcome # "conflict" /\ queued /\ Again
           \/ outcome # "conflict" /\ ~queued /\ Settle(outcome)
  /\ UNCHANGED <<history, local, base, basis, entry, det, dirty, seen, opVars,
                 skipped, boundVars>>

\* The settle loop: the fingerprint held steady for settle_time, the digest
\* is computed in a thread ...
DetectorSample ==
  /\ MayTouch
  /\ det = "on" /\ dirty /\ seen = NoContent /\ FileThere
  /\ seen' = local /\ dirty' = FALSE
  /\ UNCHANGED <<copyVars, entryVars, det, detBase, opVars, skipped, boundVars>>

ReportedInConflict == seen # detBase

\* A digest that differs from the baseline is reported; _on_change ignores it
\* while the entry is in conflict.
Reported == seen # detBase /\ status # "conflict"

\* ... and compared with the baseline afterwards.
DetectorReport ==
  /\ seen # NoContent
  /\ seen' = NoContent /\ detBase' = seen
  /\ IF Reported
     THEN Schedule(FALSE)
     ELSE UNCHANGED <<status, queued, task, thr>>
  /\ UNCHANGED <<history, local, base, basis, entry, det, dirty, opVars,
                 skipped, boundVars>>

StopDetector == det' = "off" /\ dirty' = FALSE /\ seen' = NoContent /\ UNCHANGED detBase

-----------------------------------------------------------------------------
\* Worker threads, and the local file events they cause.

RunThread(t) ==
  /\ ThreadStep(t)
  /\ dirty' = (dirty \/ (det = "on" /\ thr[t].pc = "place"))
  /\ UNCHANGED <<entryVars, det, detBase, seen, opVars, skipped, boundVars>>

AnswerQuestion(t) ==
  /\ Answer(t)
  /\ skipped' = (thr'[t].outcome = "conflict")
  /\ UNCHANGED <<entryVars, detVars, opVars, boundVars>>

StrayEnds ==
  /\ thr["stray"].pc = "done"
  /\ ThreadOver("stray")
  /\ UNCHANGED <<history, local, base, basis, entryVars, detVars, opVars,
                 skipped, boundVars>>

-----------------------------------------------------------------------------
\* The user.  A question of a job is modal; nothing else can be started.

NoQuestion == \A t \in Threads : thr[t].pc \notin {"askSync", "askOpen"}

\* The Local Copies dialog is modal as well.
Waited == editor = "none" /\ opening = "none" /\ quitting = "none"

MayStart ==
  /\ ops < MaxOps /\ ops' = ops + 1 /\ UNCHANGED saves
  /\ NoQuestion /\ dlg = "none"
  /\ quitting \in {"none", "syncing"}
  /\ Waited \/ "interrupts" \in Habits

\* open() of a source that has no entry.
Open ==
  /\ MayStart /\ ~entry /\ opening = "none"
  /\ opening' = "create"
  /\ thr' = [thr EXCEPT !["open"] = [Idle EXCEPT !.pc = "begin"]]
  /\ skipped' = FALSE
  /\ UNCHANGED <<history, local, base, basis, entryVars, detVars, dlg, editor,
                 quitting, shut>>

\* open() of a source that has one.
Reopen ==
  /\ MayStart /\ entry /\ opening = "none"
  /\ "overlaps" \in Habits \/ (TaskOver /\ ~dirty /\ seen = NoContent)
  /\ opening' = "reopen"
  /\ thr' = [thr EXCEPT !["open"] = [Idle EXCEPT !.pc = "decide"]]
  /\ skipped' = FALSE
  /\ UNCHANGED <<history, local, base, basis, entryVars, detVars, dlg, editor,
                 quitting, shut>>

\* Only a copy that is written back gets a change detector.
Watched == ~ReadOnly

\* open() and _reopen() after their job.
OpenJobDone ==
  /\ thr["open"].pc = "done"
  /\ ThreadOver("open")
  /\ opening' = "none"
  /\ IF thr["open"].outcome = "ok"
     THEN /\ entry' = TRUE
          /\ status' = IF ReadOnly THEN "read-only" ELSE "synced"
          /\ IF Watched
             THEN /\ det' = "on" /\ detBase' = base.digest
                  /\ dirty' = (det = "on" /\ dirty)
                  /\ UNCHANGED seen
             ELSE UNCHANGED detVars
          /\ IF opening = "create"
             THEN queued' = FALSE /\ task' = "none"
             ELSE UNCHANGED <<queued, task>>
     ELSE UNCHANGED <<entryVars, detVars>>
  /\ UNCHANGED <<history, local, base, basis, dlg, editor, quitting, shut,
                 skipped, boundVars>>

\* Sync now: sync_now() by the dialog's worker.
SyncNow ==
  /\ MayStart /\ entry /\ status # "read-only"
  /\ ScheduleNow
  /\ dlg' = "sync" /\ skipped' = FALSE
  /\ UNCHANGED <<history, local, base, basis, entry, detVars, editor, opening,
                 quitting, shut>>

\* Close copy: close() up to its first await.
Close ==
  /\ MayStart /\ entry /\ FileThere
  /\ skipped' = FALSE
  /\ IF ~ReadOnly /\ Modified
     THEN ScheduleNow /\ dlg' = "close" /\ UNCHANGED detVars
     ELSE StopDetector /\ UNCHANGED <<status, queued, task, thr, dlg>>
  /\ UNCHANGED <<history, local, base, basis, entry, editor, opening, quitting, shut>>

\* Discard, after the user confirmed a loss: stop watching, then wait.
Discard ==
  /\ MayStart /\ entry /\ opening = "none" /\ editor = "none"
  /\ StopDetector
  /\ dlg' = "discard"
  /\ UNCHANGED <<copyVars, entryVars, editor, opening, quitting, shut, skipped>>

\* The dialog's operation once the sync task it awaits is over.  discard()
\* awaits even a task that was cancelled before, and stops there.
DialogDone ==
  /\ dlg # "none" /\ TaskOver
  /\ dlg' = "none"
  /\ IF dlg = "close" THEN StopDetector ELSE UNCHANGED detVars
  /\ IF dlg = "discard" /\ task = "none"
     THEN /\ entry' = FALSE
          /\ local' = NoContent
          /\ thr' = [t \in Threads |-> [thr[t] EXCEPT !.own = FALSE]]
     ELSE UNCHANGED <<entry, local, thr>>
  /\ UNCHANGED <<history, base, basis, status, queued, task, editor, opening,
                 quitting, shut, skipped, boundVars>>

\* Another button of the dialog, its dismissal, or the quit key once more: the
\* workers are exclusive, so the operation in progress is cancelled, and with it
\* the sync task it awaits.  The thread of the job runs on.  Whoever else awaits
\* the task is cancelled with it.
Interrupt ==
  /\ "interrupts" \in Habits /\ NoQuestion
  /\ \/ dlg # "none" /\ quitting \in {"none", "syncing"}
     \/ dlg = "none" /\ quitting \in {"syncing", "removing", "keeping"}
  /\ task = "running" /\ thr["stray"].pc = "idle"
  /\ dlg' = "none" /\ task' = "cancelled"
  /\ thr' = [thr EXCEPT !["stray"] = thr["sync"], !["sync"] = Idle]
  /\ editor' = IF editor = "sync" THEN "none" ELSE editor
  /\ quitting' = "none"
  /\ UNCHANGED <<history, local, base, basis, entry, status, queued, detVars,
                 opening, shut, skipped, boundVars>>

\* The end of an editor session: release() up to the wait for a running sync.
Release ==
  /\ MayStart /\ entry /\ editor = "none"
  /\ StopDetector
  /\ editor' = "wait"
  /\ UNCHANGED <<copyVars, entryVars, dlg, opening, quitting, shut, skipped>>

\* release(), continued: one final sync of a modified copy.
ReleaseWaited ==
  /\ editor = "wait" /\ TaskOver
  /\ IF ~ReadOnly /\ status # "conflict" /\ FileThere /\ Modified
     THEN ScheduleNow /\ editor' = "sync"
     ELSE editor' = "none" /\ UNCHANGED <<status, queued, task, thr>>
  /\ UNCHANGED <<history, local, base, basis, entry, detVars, dlg, opening,
                 quitting, shut, skipped, boundVars>>

ReleaseDone ==
  /\ editor = "sync" /\ TaskOver
  /\ editor' = "none"
  /\ UNCHANGED <<copyVars, entryVars, detVars, dlg, opening, quitting, shut,
                 skipped, boundVars>>

\* open_path: the external command has exited, check_now().
CheckNow ==
  /\ MayTouch /\ det = "on" /\ ~dirty
  /\ dirty' = TRUE
  /\ UNCHANGED <<copyVars, entryVars, det, detBase, seen, opVars, skipped, boundVars>>

-----------------------------------------------------------------------------
\* Quitting: request_quit() and shutdown().

\* shutdown() up to its first await: it stops the detector.  A second call does
\* nothing, and the application exits.
BeginShutdown(files) ==
  IF shut
  THEN quitting' = "gone" /\ UNCHANGED <<detVars, shut>>
  ELSE quitting' = files /\ shut' = TRUE /\ StopDetector

\* unsynced() can be evaluated: is_modified() finds a file.
CanTell == entry => HasUnsyncedChanges \/ ReadOnly \/ FileThere

\* request_quit() up to its next await.  If unsynced() raises, the worker that
\* runs it ends the application.
QuitUnlessUnsynced(next) ==
  \/ ~CanTell /\ BeginShutdown("unmounting")
  \/ CanTell /\ ~(entry /\ Unsynced) /\ BeginShutdown("removing")
  \/ /\ CanTell /\ entry /\ Unsynced
     /\ quitting' = next /\ UNCHANGED <<detVars, shut>>

RequestQuit ==
  /\ MayStart /\ quitting = "none" /\ opening = "none"
  /\ QuitUnlessUnsynced("asking")
  /\ UNCHANGED <<copyVars, entryVars, dlg, editor, opening, skipped>>

\* Sync and quit, Quit and keep files, or Cancel.
AnswerQuit ==
  /\ quitting = "asking" /\ NoQuestion
  /\ \/ /\ quitting' = "syncing"
        /\ ScheduleNow /\ skipped' = FALSE
        /\ UNCHANGED <<detVars, shut>>
     \/ /\ BeginShutdown("keeping")
        /\ UNCHANGED <<status, queued, task, thr, skipped>>
     \/ /\ quitting' = "none"
        /\ UNCHANGED <<status, queued, task, thr, detVars, shut, skipped>>
  /\ UNCHANGED <<history, local, base, basis, entry, dlg, editor, opening, boundVars>>

\* Stay open when something is still unsynced.
QuitSynced ==
  /\ quitting = "syncing" /\ TaskOver
  /\ QuitUnlessUnsynced("none")
  /\ UNCHANGED <<copyVars, entryVars, dlg, editor, opening, skipped, boundVars>>

\* Textual's own quit key, which acts in every dialog: the application exits,
\* and on_unmount() calls shutdown() with its default, to remove the files.
Exit ==
  /\ "exits" \in Habits /\ quitting \in {"none", "asking", "syncing"}
  /\ BeginShutdown("unmounting")
  /\ UNCHANGED <<copyVars, entryVars, dlg, editor, opening, skipped, boundVars>>

EndProgram(files) ==
  /\ quitting' = "gone"
  /\ entry' = FALSE
  /\ local' = files

\* shutdown() once the sync task is over: the entries are cleared and the local
\* copies removed or kept.  Awaiting a task that was cancelled before ends the
\* request to quit instead; on_unmount() also gives up after a timeout.
ShutdownDone ==
  /\ \/ /\ quitting \in {"removing", "keeping"} /\ TaskOver
        /\ entry /\ task = "cancelled"
        /\ quitting' = "none" /\ UNCHANGED <<entry, local>>
     \/ /\ quitting = "removing" /\ TaskOver /\ ~(entry /\ task = "cancelled")
        /\ EndProgram(NoContent)
     \/ /\ quitting = "keeping" /\ TaskOver /\ ~(entry /\ task = "cancelled")
        /\ EndProgram(local)
     \/ /\ quitting = "unmounting" /\ task = "none"
        /\ EndProgram(NoContent)
     \/ /\ quitting = "unmounting" /\ entry /\ task # "none"
        /\ EndProgram(local)
  /\ UNCHANGED <<history, base, basis, thr, status, queued, task, detVars, dlg,
                 editor, opening, shut, skipped, boundVars>>

-----------------------------------------------------------------------------
\* Outside the program.

\* Every content the program remembers.
Remembered ==
  {history[v].data : v \in DOMAIN history} \cup {thr[t].data : t \in Threads}
    \cup {base.digest, detBase, seen}

\* An editor saves the local file.
Save ==
  /\ MayTouch
  /\ saves < MaxSaves /\ saves' = saves + 1
  /\ entry
  /\ \E c \in Contents \ {local} :
       /\ "reverts" \in Habits \/ c \notin Remembered
       /\ local' = c
  /\ dirty' = (det = "on")
  /\ UNCHANGED <<history, base, basis, thr, entryVars, det, detBase, seen,
                 opVars, skipped, ops>>

\* Someone removes it from the temporary directory.
RemoveLocalFile ==
  /\ MayTouch
  /\ saves < MaxSaves /\ saves' = saves + 1
  /\ entry /\ FileThere
  /\ local' = NoContent /\ dirty' = (det = "on")
  /\ UNCHANGED <<history, base, basis, thr, entryVars, det, detBase, seen,
                 opVars, skipped, ops>>

ChangeSource ==
  /\ OthersWrite
  /\ UNCHANGED <<entryVars, detVars, opVars, skipped, boundVars>>

-----------------------------------------------------------------------------
GuiStep ==
  \/ SyncJobDone \/ OpenJobDone \/ DetectorReport \/ StrayEnds
  \/ DialogDone \/ ReleaseWaited \/ ReleaseDone \/ QuitSynced
  \/ ShutdownDone

UserStep ==
  \/ Open \/ Reopen \/ SyncNow \/ Close \/ Discard \/ Interrupt
  \/ Release \/ CheckNow \/ RequestQuit \/ AnswerQuit \/ Exit
  \/ \E t \in Threads : AnswerQuestion(t)

WorldStep == Save \/ RemoveLocalFile \/ ChangeSource

Next ==
  /\ quitting # "gone"
  /\ \/ GuiStep \/ DetectorSample \/ UserStep \/ WorldStep
     \/ \E t \in Threads : RunThread(t)

Alive(A) == quitting # "gone" /\ A

\* The event loop and the worker threads keep running; nobody has to save, to
\* answer a question or to quit.
Fairness ==
  /\ WF_vars(Alive(SyncJobDone)) /\ WF_vars(Alive(OpenJobDone))
  /\ WF_vars(Alive(DetectorSample)) /\ WF_vars(Alive(DetectorReport))
  /\ WF_vars(Alive(ShutdownDone))
  /\ \A t \in Threads : WF_vars(Alive(RunThread(t)))

Spec == Init /\ [][Next]_vars
FairSpec == Spec /\ Fairness

-----------------------------------------------------------------------------
(***************************************************************************)
(* Properties                                                              *)
(***************************************************************************)

\* A thread replaces the source.
Publishes(t) == thr[t].pc = "publish" /\ thr'[t].pc = "stamp"

\* The source holds what others wrote, and among it a version that came after
\* version v and outside the window of a running replacement, in which nothing
\* can protect it.
UnseenIn(h, v) ==
  \E w \in v + 1 .. Len(h) :
    /\ ~h[w].raced
    /\ \A x \in w .. Len(h) : h[x].by = "others"

UnseenSince(v) == UnseenIn(history, v)

\* A replacement nobody agreed to never destroys a version of the source that
\* the local bytes do not descend from, if the check it passed had a complete
\* baseline to go by (sync_copy_task, LocalCopy.write_back, refresh, create).
NoSilentOverwrite ==
  [][\A t \in Threads :
       Publishes(t) /\ ~thr[t].consent /\ ~thr[t].blind
         => ~UnseenSince(basis)]_vars

\* The inductive invariant behind it: a baseline that has a digest and names the
\* current version has seen everything its local file is to replace, and so has
\* a thread between its check and its replacement; a download in progress keeps
\* that up because the baseline never names a version younger than the one read
\* (write_back, refresh, _download).
Unasked(t) ==
  thr[t].pc \in {"read", "publish"} /\ ~thr[t].consent /\ ~thr[t].blind

BaselineGuard ==
  /\ base.ver <= Source
  /\ base.ver = Source /\ base.digest # NoContent => ~UnseenSince(basis)

WriterGuard(t) ==
  /\ Unasked(t) => ~UnseenSince(basis)
  /\ thr[t].pc = "stamp" => ~UnseenSince(0)

ReaderGuard(t) ==
  /\ thr[t].pc = "place" /\ base.ver = Source => ~UnseenSince(thr[t].ver)
  /\ thr[t].pc = "digest" /\ base.ver = Source => ~UnseenSince(basis)

PairGuard(t, u) ==
  Unasked(t) /\ thr[u].pc = "place" => ~UnseenSince(thr[u].ver)

WriteGuard ==
  /\ BaselineGuard
  /\ \A t \in Threads : WriterGuard(t) /\ ReaderGuard(t)
  /\ \A t, u \in Threads : PairGuard(t, u)

\* A copy that the quit prompt would not mention is safe: what the local file
\* holds has been on the source, and only others have written there since
\* (unsynced, request_quit, the baselines of LocalCopy).
UnsyncedIsComplete ==
  entry /\ ~ReadOnly /\ FileThere /\ ~Unsynced => OnSource(local)

\* A shutdown that will remove the files begins only when the local file is
\* safe: nothing is deleted that the quit prompt should have mentioned
\* (request_quit, unsynced, on_unmount).
RemovalIsSafe ==
  [][~shut /\ shut' /\ quitting' # "keeping" /\ entry /\ ~ReadOnly /\ FileThere
       => OnSource(local)]_vars

\* After Skip no sync job is started, and nothing is asked again, until the
\* user syncs, closes, reopens or quits (_on_change, _run_sync, release).
SkippedIsQuiet == skipped => thr["sync"].pc \in {"idle", "done"}

\* A queued follow-up always has a running sync loop that will take it
\* (_schedule_sync, _run_sync).
QueuedIsServed == queued => task = "running"

\* Nothing is ever written for a read-only copy, and no sync of it begins, even
\* if its local file was changed (open, reopen, close, release, request_quit).
ReadOnlyIsNeverSynced ==
  ReadOnly => /\ task = "none" /\ det = "off" /\ thr["sync"].pc = "idle"
              /\ \A v \in DOMAIN history : history[v].by = "others"

\* The status says synced only when no sync loop is running (_run_sync).
SyncedOnlyWhenLoopDone == entry /\ status = "synced" => task # "running"

\* A save that the detector was told of ends on the source, or in a status
\* that says it is not there, or in front of the user (ChangeDetector,
\* _on_change, _run_sync).
Settled ==
  \/ ~FileThere \/ OnSource(local)
  \/ status \in {"failed", "conflict"}
  \/ det = "off"
  \/ ~NoQuestion

SavesSettle ==
  entry /\ det = "on" /\ dirty /\ FileThere /\ Modified ~> Settled

\* Once the user's answers allow it, the application exits, unless a running
\* sync has a question (request_quit, shutdown).
QuitEnds ==
  quitting \in {"removing", "keeping"} ~> (quitting = "gone" \/ ~NoQuestion)

=============================================================================
