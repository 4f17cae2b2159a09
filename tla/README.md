# A TLA+ model of Nova Navigator

Nova Navigator is a two-panel file manager for the terminal (Python, Textual).  Its panels browse local disks, SSH hosts, Azure containers and archives; long operations run as jobs in worker threads; a file that is not local is opened and edited through a *local copy* that is written back to its source behind the user's back.  The modules here cover the parts where a mistake loses somebody's work without a trace, and the protocols between event loops, threads and other programs on which they rest: local copies and the archives behind them, the change detector, the jobs of the file manager and their questions, the terminal that follows the panels, and the editor with its saves.

All paths below are relative to `src/` of the repository, `nn/` stands for `src/nova_navigator/`.

## 1. Inventory

| Component | Code | State | Operations | Hard behaviour | Correct when |
|---|---|---|---|---|---|
| Local copy of one source | `nn/vfs/local_copy.py` | source fingerprint and local digest at the last download or write-back (`_baseline`), local file | `create`, `refresh`, `write_back`, `reuse_action`, `rebase_container`, `discard` | runs in worker threads; every call can fail half-way; editors and other machines write meanwhile | no unseen version of the source is overwritten unasked; "unmodified" implies "on the source" |
| Local copy manager | `nn/local_copies/manager.py`, `tasks.py`, `editor_session.py`, `nn/dialogs/local_copies_dialog.py` | registry of `CopyEntry` (status, detector, `sync_queued`, `sync_task`), `_archive_mounts`, `_shutdown_started` | `open`, `sync_now`, `check_now`, `release`, `close`, `discard`, `unsynced`, `shutdown`, `mount_archive` | coroutines on the GUI loop interleave at every `await`; exclusive workers cancel each other; questions stay open for minutes | every save ends on the source or is visibly not there; Skip pauses; quitting deletes nothing that is unsynced |
| Change detector | `nn/vfs/change_detector.py` | dirty flag, baseline digest, last fingerprint, two tasks, an observer thread | `start`, `stop`, `set_baseline`, `check_now`, poll loop, settle loop | watchdog thread, polling and settling race the writer and each other; `set_baseline` moves the baseline during a digest | a settled change is reported once, an own download never |
| Quit prompt | `nn/nova_navigator.py` (`request_quit`, `action_quit`, `on_unmount`) | prompt, pending copies | Sync and quit, Quit and keep files, Cancel, exit | saves and syncs go on while it asks | asks whenever something would be lost; exits once decided |
| Job scheduler | `nn/scheduler/*`, `nn/dialogs/job_registry.py`, `nn/dialogs/response_dialog.py` | job state, progress counters, request lock, to-all answers, subtask counter | `Job.start`, `cancel`, `request_response`, `subtask`, `JobRegistry.update` | two event loops and a thread per job; a state derived from counters; questions from concurrent subtasks | one question at a time, an answer to all silences the rest, a job is finished only when its thread is |
| File manager jobs | `nn/filemanager/*` | destination tree, progress | copy, move, erase | concurrent subtasks, cancellation between chunks, first failure ends the job while others wait | a move never leaves zero complete files; a declined overwrite leaves the destination |
| Archives | `nn/vfs/filesystems/archive.py`, `nn/archive/*` | mounted reader, write lock, backing copy | member read, member commit, `refresh_from_source`, rebuild | rebuild, publish and reopen can each fail; sibling members share one container fingerprint | a commit loses no other member and no newer archive |
| Terminal | `nn/terminal/terminal.py`, `terminal_pool.py`, PTY back ends | shell state, stashed input, hidden navigation and its timer | `request_cd`, `run_command`, prompt and pre-command hooks | shell output, user input and timers in any order | typed input survives a hidden command; directory and panel agree |
| VFS shell, command runner, user menu | `nn/terminal/vfs_shell`, `nn/commands`, `nn/usermenu` | a line, a template | parse, evaluate, launch | little: sequential | expansion as documented |
| File systems | `nn/vfs` | caches, connections | `stat`, `read`, `write`, `write_atomic`, `iterdir` | remote failures | replacement is atomic, `stat` is fresh |
| Directory browser, dialogs, widgets | `nn/widgets`, `nn/dialogs`, `src/nova_widgets` | lists, selection | load, refresh, select | a cancelled load answering late | the list shows the directory named above it |
| Remotes, configuration, clipboard | `nn/remotes`, `nn/config`, `nn/clipboard.py` | settings | load, save, connect | I/O | round trip |
| Nova editor | `src/nova_editor` | piece table, history, save state | edit, undo, search, save | external changes while edited | undo restores, save is atomic |
| Developer tools | `src/tools` | | | not part of the program | |

How they interact.  The GUI event loop owns the manager's registry.  `open()` and the sync loop start *jobs*: `start_job` registers the job and runs its task function in a worker thread with an event loop of its own; a task touches only the `LocalCopy` it was given and a result object, and the manager looks at the result when the awaited job ends.  A task that must ask the user sends the question to the GUI loop and polls for the answer.  The detector of an entry calls `_on_change` on the GUI loop.  The Local Copies dialog, the end of an editor session and the quit prompt call the manager as coroutines of their own, some of them as *exclusive workers*: starting the next one cancels the previous one at its `await`.

`PROJECT.json` lists the hazards of this code line by line, covered and not.

## 2. Modules

| Module | Models |
|---|---|
| `LocalCopy` | one source, its local file, the baseline, and the worker threads of `sync_copy_task`, `reopen_copy_task`, `create_copy_task` |
| `LocalCopyManager` | extends it with the registry entry, the sync loop, the change detector as the manager sees it, the dialog, `release`, quitting and unmounting |
| `Archive` | a mounted remote archive: the versions of its source, the copy behind the mount, the open reader, the write lock, commit and refresh |
| `ArchiveCopies` | extends it with the local copies of its members, their sync loops, the rebasing of siblings, the user and other writers |
| `DetectorContract` | what a change detector promises the manager: marks, readings, comparisons |
| `ChangeDetector` | the detector: watcher events, poll loop, settle loop, `start`, `stop`; shown to implement `DetectorContract` |
| `Questions` | what the questions of a job promise: one at a time, and an answer to all stands for the rest |
| `Scheduler` | one job: worker loop, request lock and cache, progress counters, state, cancellation, the Processes dialog |
| `FileJobs` | extends it with copy, move and erase of a tree, other writers at the destination; shown to implement `Questions` |
| `Shell` | the shell behind the pseudo terminal: line editor, hook, commands |
| `Terminal` | extends it with the widget: typed input, hidden navigation, watchdog, repair, `run_command`, precmd handler, respawn |
| `Panels` | extends it with the main screen: two panels, the terminal that follows them, the user |
| `EditHistory` | the undo history of the editor, with a specification of its own |
| `SaveJob` | files on disk, other programs, the thread of a save |
| `TextArea` | the editor widget: document, history, stale view, polls, save, reload; every step implements `EditHistory` |
| `EditorScreen` | the screen around it: commands, flows, dialogs, messages |
| `MC...` | the TLC instance of each: small sets, symmetry |
| `..._proofs` | the theorems of section 4 |

Each of `LocalCopyManager`, `ArchiveCopies`, `ChangeDetector`, `FileJobs`, `Panels` and `EditorScreen` is a complete specification with its properties at the end; the modules it extends have no `Next` of their own (but `EditHistory`, which is a specification by itself).

### Local copies

* `history` is the source as the sequence of its versions; the fingerprint the code compares (size, modification time, tag) is its length.  So two fingerprints are equal exactly when nothing was written in between: the model gives the code the benefit of that doubt.  `base` is `LocalCopy._baseline`; a digest is the content itself, the empty string is `NoContent`.  Both can be observed by no one but the code that owns them.
* `thr` holds one record per worker thread.  A step is the code between two calls that block, fail or can be overtaken: the check, the question, reading the local file, `writer.close()`, the fingerprint afterwards; the reuse decision, the fingerprint before a download, reading the source, `os.replace`, the digest.  Each may fail at that place.  Reading a file is one step: a read torn by a concurrent writer is not modelled.  A job whose task returns is `COMPLETED` whatever its counters say, because `set_current_item` at the start of each task sets that state while all counters are zero, and nothing but an exception takes it back.
* A job of a sync task that was cancelled runs on as the thread `"stray"`.  There is at most one (a bound): another interruption waits until it has ended.  When a copy is discarded, its threads keep running on an orphan (`own = FALSE`): they still publish, but no longer touch the baseline of the registered copy.
* `entry`, `status`, `queued`, `task`, `det`, `detBase` are the fields of `CopyEntry` and its detector.  `task = "cancelled"` is a `sync_task` that is done but was never set to `None`, because `_run_sync` was cancelled before its last line.
* The detector is `dirty` (an event, a poll difference or `check_now`), then `DetectorSample` (the fingerprint held steady, the digest is computed in a thread), then `DetectorReport` (compared with the baseline, which `set_baseline` may have moved in between).
  These three steps are the actions of `DetectorContract` that the manager needs; `ChangeDetector` is what really happens underneath.
* `Discard` is offered when no `open()` and no `release()` is in progress (a bound).
* `dlg`, `editor`, `opening`, `quitting` are the coroutines that await something: an action starts each, another one continues it when what it awaits is over.
* `basis` and `skipped` are history variables.  `basis` is the version the local bytes descend from; only properties read it.
* The user starts operations, answers each question in each possible way, saves, or removes the local file; someone else replaces the source.  What a user may do beyond waiting for one operation to finish is the constant `Habits`: `"interrupts"` (press another button, leave the dialog or quit while something is awaited), `"overlaps"` (reopen during a sync, save during a reopen), `"reverts"` (save a content the program has seen before), `"exits"` (Textual's own quit key, which works in dialogs).  The theorems and the run *restless* are for every subset; *patient* shows what holds without any.

### Change detector

* In `ChangeDetector` the fingerprint (inode, size, modification time) is the number of writes so far, 0 without a file: two fingerprints are equal exactly when the file was not touched in between.  `pc` is the `await` at which the settle loop stands (`wait`: the dirty event, `window`: the sleep, `digest`: the thread, `compare`: the thread is done and the loop not yet resumed, `report`: `on_change`).  `event` is one watchdog event on its way to the event loop; it may arrive late, even after `stop()`, or not at all (`MissEvent`), which is also what `use_watcher=False` amounts to.  A turn of the poll loop that finds no difference changes nothing and is not a step.  Reading the file is one step.
* `WillRead` is the refinement mapping: the contract's mark is the dirty flag, or a settle loop on its way to the digest, or a difference that the poll loop has still to find.  The contract's reading is `pc = "digest"`: a mark goes when the reading begins, and the reading ends in a sample, in a failure (`DigestErrors`) or in a file that is not there.

### Archives

* A version of the source maps each member to a revision; revisions are numbered in the order in which they are made, so "older" is `<`, and no two have the same content.  `known` is the version in the baseline of the archive's own copy, `copied` the file of that copy, `reader` what the mount shows.  `Whole` says that file and baseline belong together.
* `thr` holds a record for the sync task and the `open()` of each member, and for the refresh of the mount.  A commit is `Acquire` (the lock, `prepare_write()` and the fingerprint with which a refresh begins), `Download`, `Publish` (rebuild, validation, the rename onto the local copy, and `write_back()` up to the replacement of the source), `Record` (the fingerprint after it), `Reopen`.  Each may fail, and leaves what the code leaves: a failed `write_back()` has already replaced the local archive, a failed download has already moved the baseline.
* The fingerprint of a member is `own`, the stat that the open reader answers, and `ver`, the archive as it is now.  A baseline is *torn* when the two halves come from different archives.  `RebaseSibling` and `RebasePut` are the two halves of `rebase_container()`.
* `Init` is a mount that was just made, with some members opened.  The check and the spooling of the local file are one step, for nothing but the member's own task moves what it looks at.  The stat of the member and of the container are one step.  A sync and a reopen of one member do not overlap, neither when the user reopens a member that is being synced, nor when the detector reports (`_on_change`) or the user saves or presses Sync now while it is being reopened: the guards `~Opening` and `~Running`.  `LocalCopyManager` has these overlaps for one copy.  Here `MemberInv` rests on the one thread at work on a member.  Without the guard of `Report`, three events violate nothing; with four, `UnmodifiedIsKept` fails in the window after the check of a sync that section 5 names: a foreign version arrives there, the reopen reloads it, and the sync, which has waited for the lock, replaces it.
* `basis`, `made` and `shown` are history variables: the revision the local file descends from, the version of the archive when the copy was made, and whether the mount, when it was downloaded from it, was *level* with the archive and the local archive, *behind* one of them, or *ahead* of one: a failed commit leaves a reader that shows what was never published, a failed download a local archive without what the reader shows.  The fields `ver`, `upto` and `doubt` of a thread are only read by properties.

### Jobs of the file manager

* The worker's loop runs one task at a time and changes over at an `await`: `cur` is the task that has not reached its next one, `LoopFree` says there is none.  `holder` and `queue` are the request lock, `future` the answer that the worker polls, `dialog` the box in the other loop.
* `state` is derived from the counters as `TaskStatus` does it: `completed` as soon as they agree and no step is open, and never taken back.
* Every node of the tree is a task; what a node holds at source and destination is absent, whole, somebody else's, or cut short.  A file is looked at, asked about, opened (which truncates), written, and for a move removed; a move on one device renames.  `is_same_device` answers no for a destination that does not exist (`nn/vfs/filesystems/local.py:180`), so a move to a new name on the same disk copies and removes, although the docstrings of `tasks.py` call it atomic; `Init` chooses `sameDevice` and the guard of `Rename` follows the code.
* `CallFails` is a call of the file system that raises; `gather()` then leaves the other tasks where they wait, and the loop ends with them.  `ShowDialog` may leave the future pending for ever: a dialog that raises is not noticed by the worker (`scheduler.py:19`).
* The file systems are local on both sides.

### Terminal and panels

* The shell reads `pty` in order, one command at a time, and reports on `out`: its directory before a prompt, the echo of the line, its end.  A line is the number of its characters; what matters is whether the typed ones are still there when they should be, and never run together with a command of the program (`spoilt`).
* The attributes of the widget are the record `term`; a handler of the event loop is one action.  What the user types goes through `send_queue` (`Forward`), what the program writes does not.
* A panel moves when the listing of its new directory begins (`Load`); its `PathChanged` is handled later.
* The user is patient (`Habits = {}`): he waits until the panels are loaded and the shell has answered what he typed.  `"hurried"` drops that; no run has it, because then typed characters are run with an internal command, contrary to `docs/terminal.md:308`.

### Editor

* `EditHistory` gives each batch the pair `(branch, number)` of the state it leads to and the state it came from; texts are model values.  The rest of the document (piece table, line index, decoding) is the text it stands for.
* `SaveJob` has the thread in seven steps, each of which may fail or notice the cancellation; the replacement is one of them.  Others write a file in place or replace it, always with new content: a file never comes back.
* `TextArea` is the widget as a record `w` (document and path, the file it holds, locks, saving, staleness) with polls that begin, read the disk, and are applied later, perhaps to another document.  One poll is in flight at a time; its "unchanged" is applied without effect.
* A flow of `EditorScreen` is a coroutine that asks; flows run one at a time.  Messages of the widget wait in `posted`.  The user is slower than the messages already posted (`Attentive`), but his answer may come at any time.  `"overlaps"` lets him start Save As while a save runs.  Save and Save As may begin while a flow is open.
* `FailsAfterSwap` leaves the view stale or not: the code reaches either.


## 3. Runs

| Run | Instance | Checks |
|---|---|---|
| `patient` | no habits; 3 contents, 2 saves, 3 operations, 3 versions, symmetry | `TypeOK`, `UnsyncedIsComplete`, `SkippedIsQuiet`, `QueuedIsServed`, `SyncedOnlyWhenLoopDone`, `RemovalIsSafe` |
| `restless` | all habits; 3, 1, 2, 3, symmetry | `WriteGuard`, `NoSilentOverwrite` |
| `live` | no habits; 3, 2, 2, 2 | `SavesSettle`, `QuitEnds` |
| `quit_stuck` | interrupts; 2, 1, 4, 1 | `QuitEnds` fails |
| `detector` | 2 contents, 5 writes, 2 starts, reading may fail | `TypeOK`, `ImplementsContract`, `FollowsUp` |
| `files` | a directory that holds a directory that holds a file, and a file beside it (the module and its proofs take any depth); nothing or the second file filtered out; one file of somebody else's | `TypeOK`, `CompletedMeansDone`, `NothingLost`, `ImplementsQuestions`, `OnlyWithConsent`, `JobIsFiled` |
| `onto_itself` | two files, the destination is where they are | `NothingLost` fails |
| `terminal` | three directories, one of which cannot be entered; 4 operations, 1 typed character, 2 lost hooks, 3 attempts | `TypeOK`, `TypedIsKept`, `TerminalFollowsPanel`, `SilentNavigation`, `RunAwaits`, `NavigationEnds` |
| `editor` | 2 paths, 2 texts, 2 edits, 1 command besides undoing, closing and answering, one foreign version, a history that holds one batch | `TypeOK`, `SaveIsAtomic`, `UnmodifiedIsOnDisk`, `UndoIsExact`, `UnmodifiedIsSaved`, `ImplementsHistory`, `StaleIsReal`, `NothingOverwrittenUnseen`, `EditsAreNotDropped`, `SaveEnds`, `ChangeIsAnnounced` |
| `deferred_lost` | 1 path, 1 edit, 2 commands, overlaps | `ChangeIsAnnounced` fails |
| `archive` | 2 interchangeable members, 3 events (saves, foreign writes, openings, refreshes), 2 failing calls | `TypeOK`, `UnmodifiedIsKept`, `NoMemberGoesBack`, `MembersAreAsked` |
| `stale_mount` | the same, no failing call | `ChangedMembersAreAsked` fails |

Why the bounds are enough.

* *Local copies.*  Three contents are what the downloaded file, the user's save and somebody else's write need to be told apart; three versions allow a foreign write before *and* after a decision; two saves allow one to be queued behind the sync of another; three operations allow open, something, and quit.
* *Detector.*  Five writes allow one before `start()`, one in the window, one between window and digest, one between digest and comparison and one after it; two starts allow leftovers of a stopped detector to meet the next one.
* *File jobs.*  The tree has a task whose subtask has a subtask, and a task at the top beside it that asks at the same time.  That is what the lock, the answer to all, the counters that grow while others finish, and the order of "children first" need.  Every call may fail and the job may be cancelled at every step.
* *Terminal.*  Four operations allow the panel to move twice while the first change of directory is under way and a command to be submitted meanwhile; a hook that is lost twice allows one during the repair of the other; three attempts is the number in the code.
* *Editor.*  Two paths are needed for Save As; a history of one batch makes the second edit drop the first, and two texts make a text come back under another pair.  One foreign version can arrive before, in or after each window of a save.  The bound on commands leaves out typing, redo, cancelling, closing and answering, so these go on.
* *Archives.*  Two members are the smallest number of siblings.  Three events allow two saves and a foreign write, which is what a sibling's rebase can get wrong; two faults allow a commit to fail and its retry too.  Four events with one fault were explored as well (9.8 million states).  The proofs went further: earlier forms of `UnmodifiedIsKept` and `MembersAreAsked` took no notice of the difference between the reader and the local archive, held in every run, and are false with five events and one fault, or nine and two; no bound that TLC can search had shown it.  The excuse `shown` is what the proofs need, and they need no bound.

The mutants below all die inside these bounds, and the theorems need none.  `CHECK_DEADLOCK FALSE` stands where the program may stop: the manager's ends (`quitting = "gone"`), the job is filed, the editor is closed, and bounds on events, operations and versions end a behaviour; that nobody waits for ever before that is what `SavesSettle`, `QuitEnds`, `JobIsFiled`, `NavigationEnds` and `SaveEnds` are for.  The detector, whose loops never end, is checked for deadlock.

What the passing runs show.

* `UnsyncedIsComplete`: what `unsynced()` does not list can be deleted; in particular a save that arrives during a write-back is never taken for what was written, whichever step fails.  `RemovalIsSafe`: the same at the moment `shutdown(remove_files=True)` begins, which is later than the moment the prompt was decided.
* `SkippedIsQuiet`, `QueuedIsServed`, `SyncedOnlyWhenLoopDone`: a conflict really pauses, a follow-up is never left without a loop, and the status does not say `synced` before the follow-up is done.
* `NoSilentOverwrite`, through `WriteGuard`: the check-then-replace of a sync is protected by the baseline protocol (the fingerprint is taken *before* a download and *after* a write-back, and completed by the digest only when it is done) against every interleaving with foreign writes, reopens, interrupted syncs and discards, outside the window of a running replacement, which the documentation names as a limit (`docs/local_copies.md`, Limits).
* `SavesSettle`, `QuitEnds`: a detected save ends on the source, in a status that says it is not there, or in front of the user; a decided quit exits.
* `ImplementsContract`: whatever the watcher misses, a change of a readable file stays marked until the file is read, and a mark is taken away by reading only, also when reading fails.  The order of the code matters: `_last_seen` is moved before the digest; moved after it (the mutant), a write during the digest that the watcher missed would be lost.
* `FollowsUp`: a mark is followed up although polling and `check_now` keep setting the flag in the window; the comment at `change_detector.py:194` explains why the flag is not asked, and the mutant that asks it never settles.
* `ImplementsQuestions`: over the lock, the cache and the two loops at most one question is open, and nobody asks what an answer to all has settled, also those that already waited for the lock.
* `CompletedMeansDone`, `JobIsFiled`: the state of a job is arithmetic on counters that concurrent subtasks grow and fill.  It agrees exactly when the work is done, and it always agrees in the end, so a job never shows as running for ever.
* `NothingLost`: copying and moving leave at least one whole copy of every file at every instant, whichever call fails, whatever is cancelled and whatever is answered, unless the destination is the source itself (`onto_itself`).  `OnlyWithConsent`: what was there when the job looked is not replaced, and a directory that is not empty not erased, without a yes to it or to all; what appears between the look and the write is replaced, which is the reason for `exists`.
* `TypedIsKept`: the kill of the line, the hidden command and the restoring of what was typed always pair up, whatever the shell, the watchdog, a submitted command and a second request do in between.  `TerminalFollowsPanel`: requests that overtake each other end where the last one wanted to go.
* `SilentNavigation`: the precmd handler tells its own changes of directory from the user's, although both arrive as the same report; `RunAwaits`: so does it with the end of the command it was asked to run.  `NavigationEnds`: no lost report leaves the widget busy, or who waits for it waiting.
* `SaveIsAtomic`: the outcome that the thread reports is the outcome on the disk, at every failure and every point of cancellation; a crash at any instant leaves the old or the whole new file.
* `UnmodifiedIsOnDisk`: what the editor closes without asking is on the disk byte for byte, after any order of edits, undos, saves and reloads; `UnmodifiedIsSaved`, `UndoIsExact`, `ImplementsHistory` are the same question inside the history and between history and widget.
* `StaleIsReal`, `NothingOverwrittenUnseen`, `EditsAreNotDropped`: a poll that is late does not lock a document it did not look at; a save replaces only what was held, what was saved here, or what the user was told of; edits go only with the answer to a question that was put when there were some.
* `SaveEnds`, `ChangeIsAnnounced`: no failure leaves the widget saving; no stale view goes unannounced, also when the change was noticed during a save.
* `NoMemberGoesBack`: a commit rebuilds the archive from the version it has just downloaded, so neither a sibling's save nor a foreign one is undone; the excuses are a foreign write after the download (a documented limit) and `Whole` (section 5).  `UnmodifiedIsKept`: what a member's copy takes for written is there or was replaced by something newer.  `MembersAreAsked`: rebasing the baseline of a sibling after a commit does not hide a foreign change of that sibling.

What the failing runs show is in section 5.

### Fairness

Fairness is weak, and it is assumed of nothing but the program's own threads and event loops: callbacks of asyncio and threads of the operating system, enabled until they run.  Nothing is assumed of the user or of other machines: nobody has to save, to answer or to quit, and a question that is never answered stops the job that asks it (the properties say so: `~NoQuestion`, `Unasked`, `dialog = "asking"`).  A call that hangs for ever (an unreachable host without a timeout) is outside the assumption.

* Local copies: a running thread takes its next step, a finished job is noticed, a dirty file is sampled and reported, a shutdown continues.
* Detector: the two loops and the return of `on_change`, which awaits nothing but the start of a sync; the watcher is assumed to do nothing at all.  `FollowsUp` says itself that the file must be left alone eventually (`LeftAlone`), so it does not lean on the bound on writes.
* File jobs: the loop of the worker thread (`Worker`) and the GUI loop (`Gui`), each as a whole, because each runs whichever callback is ready.
* Terminal: the shell reads its input and reports (`Shells`), the widget and its timers run (`Widget`), the screen loads panels and handles messages (`Host`).  A command that never ends is outside it, a hook that never reports inside: that is what the watchdog is for.
* Editor: the thread of a save and its end, the handling of posted messages, and the start and continuation of flows.  Polling is not assumed.
* Archives have no liveness property and no fairness.

### Mutants

A definition that nothing uses and whose name prolongs that of another is the mistake a programmer could plausibly have made there: a digest of the file instead of the written bytes (`WrittenDigestOfFile`, `WrittenOfFile`), a fingerprint taken after the download (`DownloadedAnew`), a queue that is not cleared (`PauseKeepsQueue`), a lock that is taken without looking (`LockIgnored`), a cancellation that is still obeyed after the replacement (`CommitOrCancel`), an edit that joins a batch without being added to it (`RecordKeepsTo`), a deferred change forgotten (`OnSaveCancelledForgets`), a commit that does not look whether its copy is outdated (`OutdatedNever`).  Put in the other's place, it violates the property that `PROJECT.json` pairs it with.

## 4. Proofs

Eight modules hold theorems; all hold for every value of the constants that satisfies the assumptions the modules name (there is a content and `NoContent` is none; the tree of a job is one, of any depth: `RootedAssumption`; paths are finitely many and no file is the absent one; there are two panels and a home directory that can be entered; the mount is not a member; the types of bounds and habits).  Where a theorem is for some users only, the habits stand in it as a hypothesis, and TLC finds the property violated under each habit that is excluded.

**Local copies.**  `TypeCorrect` (`Spec => []TypeOK`): by induction, one lemma per action.  `TypeOK` carries more than types: each thread is at a step of its own task (`SyncPcs`, `OpenPcs`) and holds what its next step needs (`Usable`: a content to publish, a version that exists).

`GuardHolds` (`Spec => []WriteGuard`) is the argument for the whole conflict check.  `NoSilentOverwrite` alone is not inductive: it speaks of the moment of a replacement, but the decision was taken at the check.  `WriteGuard` says what has to be true in between:

* `BaselineGuard`: a complete baseline that names the current version has seen everything the local bytes do not descend from;
* `WriterGuard`: so has a thread between its unasked check and its replacement, and after a replacement the program's own version separates old from new;
* `ReaderGuard`: a download about to be placed or recorded restores that for the version it read, as long as the baseline still names the newest version, because the fingerprint is never younger than the bytes;
* `PairGuard`: the two kinds of thread do not spoil each other, which is where overlapping reopens and stray syncs come in.

Everything else is framing: `QuietStep` says that a step which moves no file, no baseline and arms no thread preserves it, and every action of the manager is shown to be quiet.  `NeverSilentlyOverwritten` (`Spec => NoSilentOverwrite`) follows from the guard by one step of the replacing thread.  All this is for every set of habits.

The properties of the run *patient* need less patience than the run gives:

* `FollowUpIsServed` (`[]QueuedIsServed`), without `"interrupts"`: the property is inductive by itself.
* `SyncedMeansLoopDone` and `SkipIsRespected`, without `"interrupts"` and `"overlaps"` (`OneByOne`).  The invariant is `Orderly`: the sync task and `open()` own their threads and no thread strays (`ThreadsAreOwned`), the coroutines of dialog, editor, quit prompt and `open()` take turns (`Turns`), and a skipped conflict is the outcome of the job or the status (`SkipHolds`).
* `UnsyncedMissesNothing` (`[]UnsyncedIsComplete`), without `"reverts"` as well (`NothingTwice`): on top of `Orderly`, `BaselineIsOnSource` says that a local file equal to its baseline has been on the source with only others after it, and so has what a thread is about to record.  A save of a content that was there before would make the two equal without a sync; every other save makes them differ.
* `RemovalLosesNothing` (`RemovalIsSafe`), without any habit: by then `unsynced()` is empty, or the user chose to keep the files.

`ReadOnlyNeverSynced`: for a read-only copy none of the paths that can reach `write_back` does.  Only proved, no run has it.  The strengthening, `NothingWrites`, says that no sync thread runs, no detector watches, and the status never asks anybody to start a sync.

**Detector.**  `DetectorImplementsContract` (`Spec => ImplementsContract`, whether or not the file can be read): the refinement of `DetectorContract` by `ChangeDetector`.  `TypeOK` is invariant enough, because `WillRead` already collects every place a change can wait in; each action maps to one action of the contract or to a stutter (`WindowEnds` for example takes the flag away but leaves the loop on its way to the digest).

**File jobs.**  `JobsTypeCorrect`.  `QuestionsImplemented` (`Spec => Q!Spec`): from `TypeOK`, whose part `LockTypeOK` says that the holder of the lock is asking and not queued, and `NothingStands`, that a holder whose question has an answer to all did not open it.  `NothingIsLost` (`Spec => []NothingLost`): the strengthening `FilesSafe` says that the source of each file is whole until its task is done, when the target is, and that the target is whole (`CopiedWhole`) where the task is about to remove the source.  `NothingWithoutConsent` (`Spec => OnlyWithConsent`): the yes was given long before the replacement, and before an erasure to another task, the selected node.  `Agreement` carries it along: a task that was told has an answer (`Told`); a file that is being replaced was not there or was agreed to (`FileAgreed`); nothing below a selected node is touched before the answer (`EraseAgreed`); and `AnswersRemain`, no answer is taken back.

`CompletedIsDone` (`[]CompletedMeansDone`, unless files are moved onto themselves) is about two numbers that many tasks change, and a state that follows them at once and is not taken back.  The numbers are turned into sets: `completed` is the size of `Counted`, the nodes that are done with or entered, and `total` is at least the size of `Announced`, which holds the selection, whatever is under way and what is in the directories that were opened (`Adds`).  It is *at least*, because a directory that fails leaves its total behind; then the two never meet again.  Every step of a task is one `Moves`: an announced task that has not counted itself goes on, and adds what it opens before any of that can be counted.  When the numbers meet, everything announced is counted (`AllCounted`), and then nothing can run; that this is the whole tree, but for what lies below a directory the user keeps, is `AllAreCounted`, an induction from any node up to the selected one by way of the definition of `Path`.  A task that is done has its file where it belongs (`Worked`), which needs `FilesSafe`.

**Terminal and panels.**  `PanelsTypeCorrect`, for every set of habits; its invariant `TypeInv` also says that a handler leaves nothing behind that it should have written or posted.  The other three, `TypedTextIsKept`, `RunComesBackWhenDone` and `NavigationIsSilent`, are for the patient user, which is what the properties are true of, and any number of attempts, keys, operations and lost hooks, as long as no hook was repaired.  Their invariant is `Orderly`, an inventory of all that can be under way between widget and shell: nothing (`Idle`), one key (`KeyComing`), the yank that brings stashed text back (`YankComing`), one command with at most a yank and a kill before it (`Outstanding`), or its report (`Reported`).  Each says where the typed text is at that time, on the line, in the ring (`Stashed`) or nowhere because there is none, and whose command it is (`Owned`).  `AtThePrompt` says when `has_input()` may be believed and `Moved` that the shell is where it last said, unless the widget knows of the command that moves it.

`ShellFollowsPanel` (`Spec /\ [](~term.repaired) => []TerminalFollowsPanel`) is for the same sessions and adds `Follows` to that inventory.  On the side of the shell (`WireFollows`): whoever is not at the prompt has a command or a report to wait for (`Awaited`), everything in flight during a transaction goes where it was last sent (`Bound`), and a shell that has not reported is where it started (`Starting`).  On the side of the panels (`PanesFollow`): the terminal belongs to the active panel (`Attentive`), nothing moves a panel while a command of a panel is out (`Commanded`), and either something on its way will point the terminal again (`Coming`: a message, a directory being loaded, a change of focus), or it points where the active panel is (`Pointed`).  With nothing in flight only the last is left.

**Editor.**  `UndoIsExactAlways` and `UnmodifiedIsSavedAlways` are about `EditHistory` alone.  `PairsNameTexts` is the invariant: a pair `(branch, number)` names one text among all that the undo and redo stacks, the current and the saved state mention, because a number is given out once per branch and a new branch begins whenever the past is rewritten.  `HistoryImplemented` (`Spec => ImplementsHistory`) carries this over to the widget: `EditorUndoIsExact`.  `EditorTypeCorrect` and `SavesAreAtomic` use one invariant, `EditorInv`: `PairsNameTexts`, what a job in each of its steps has done (`JobOK`), `SaveIsAtomic`, what widget and job have to do with each other (`WidgetOK`, `CheckOK`).  There is one lemma per step of the widget (`StepOK`) and one per action of the screen, which is a step of the widget with a flow around it.

`UnmodifiedIsTheFile` and `NoEditsDropped` add `DocumentInv`: `HeldMatches`, the saved text is what the held file shows; `SaveMatches`, the lock of a save keeps the text what the thread has written; `Warned`, a question which can drop edits was put knowing of them.

`StaleViewIsReal` (`Spec => StaleIsReal`) and `NothingUnseenOverwritten` (`Spec => NothingOverwrittenUnseen`) hold for any number of foreign versions; the run has one.  For the first, `StaleInv` says that other programs' contents are new (`Aged`), that no thread is left once nobody waits for a save (`IdleThread`), and that what a poll found of the document the widget still holds is a difference still there (`Polled`): others do not bring a file back, and a save in between makes the poll one of another document.  For the second, `FrontInv` follows a question from the moment it is put to its answer (`Asked`, `UserOK`), and `TargetKnown` follows a save from there to its rename: the target is absent, the held file, or the user was told.

**Archives.**  `ArchiveTypeCorrect`.  `NoMemberTakenBack` (`Spec => NoMemberGoesBack`): `CommitInv` says that between its refresh and its write-back a commit holds the lock, only others publish, and the local archive or the baseline is of the version the refresh saw.  Without a race that is the newest one, and if the copy is whole, the archive it rebuilds from is its content.  Every step of the registry around it is a `QuietStep`.

`UnmodifiedStaysKept` (`Spec => []UnmodifiedIsKept`) and `MembersAreAskedFirst` (`Spec => MembersAreAsked`) have one invariant, `MemberInv` for each member.  `Carried` and `Kept`: what a thread carries is the local file unless that was saved since, and an unmodified copy is not newer than the archive and the file that the next version is rebuilt from.  The heart is `Based`: the revision that a baseline names is part of what the local file descends from, or has gone from every place it could be published from again (`Covered`, `Gone`); where it is neither, the baseline is one in doubt under which no commit of the member has published (`Doubted`, `Landed`); and it never names what was saved after a running commit had read the file (`Overtaken`).  `Found` says the same of a baseline that a rebase holds in its hands.  `Asked` carries it from the check to the replacement.

**Not proved.**  Every invariant and every action property that a run checks is stated by a theorem, with three restrictions.  `NothingLost` and `CompletedMeansDone` are proved for destinations other than the source itself; the run *onto_itself* shows the former violated there, and the latter speaks of targets that are files of their own.  Of the properties of the terminal, three are for sessions without a repaired hook by their own definition, and `TerminalFollowsPanel` is proved for them only: in a session with a repair it is false for `MaxAttempts = 1`, and for `MaxAttempts >= 2` and the patient user TLC finds no violation with up to six operations and three lost hooks, among them the bounds of the run *terminal*.  The properties of patient users are false for the others, and their habits stand in the theorems.

Out of the prover's reach and only model-checked: liveness under fairness (`SavesSettle`, `QuitEnds`, `FollowsUp`, `JobIsFiled`, `NavigationEnds`, `SaveEnds`, `ChangeIsAnnounced`), ENABLED, and induction over data.

## 5. Where the code and its documentation disagree

With a run:

1. `quit_stuck`: the dialog's workers are exclusive, so another button cancels the sync task the first one awaits.  After such a cancellation `shutdown()` awaits the cancelled task; `suppress(Exception)` lets `CancelledError` pass, and the program does not exit.
2. `onto_itself`: a file copied or moved onto itself is truncated as the destination before it is read as the source, once the overwrite is confirmed (`nn/filemanager/tasks.py:362`).
3. `deferred_lost`: a save runs, Save As is opened, the save fails and its box waits behind the dialog; the answer to Save As starts a second save, and the box comes up.  A change noticed now is deferred.  OK on the box runs `_recheck_deferred_change`, which clears the mark and returns because a save is running.  When that save fails or is cancelled, nothing is left to announce the change.
4. `stale_mount`: a local copy of a member that is reopened unmodified takes the fingerprint of the replaced archive with the bytes of the old reader.  The next save is written over the foreign change without a question, against `docs/local_copies.md:61`.

Without a run of their own, visible in the model (the first group with the habit named, or where a guard or an excuse of a property points to it):

* Local copies.  `refresh()` writes the new fingerprint into the baseline before the download (`nn/vfs/local_copy.py:205`); if the download fails, the next save is written over the new source unasked.  A save between the reuse decision and `os.replace` (line 265) is replaced by the download (`"overlaps"`).  A save that brings back the content the detector last took for its baseline is dropped as unchanged although a sync of another content is under way (`"reverts"`).  Textual's own quit binding works in dialogs, bypasses `request_quit`, and `on_unmount` removes the files (`"exits"`).  A reopen during a sync sets the status to `synced` while the loop runs (`nn/local_copies/manager.py:133`).  The job of a cancelled sync task runs on beside the next one.  `unsynced()` raises when the local file is gone.
* Detector.  An error other than `FileNotFoundError` while digesting (`nn/vfs/change_detector.py:212`) drops the change: only another write, event or `check_now` brings it back.  The digest is computed after the settle window without another look at the fingerprint (line 208), so a file that is being written may be reported.
* File jobs.  `is_same_device` is false while the destination does not exist, so moves are not the atomic renames of the docstrings (`nn/filemanager/tasks.py:316`, `386`).  A file that appears between the look and the write is replaced without a question (`exists`).  A question that is pending when its job is cancelled can still be answered Yes, and then the destination is truncated and removed; the dialog of a job that is over stays open.  `writer.close()` that fails leaves a partial destination.  A job without counted items is `COMPLETED` at once and cannot be cancelled (`nn/scheduler/job.py:43`): the jobs of local copies.  A dialog that raises leaves the worker polling for ever (`scheduler.py:19`).  `docs/scheduler.md:94` lists the states without `FAILED`.
* Terminal.  `_handle_pre_cmd` (`nn/terminal/terminal.py:1013`) counts attempts for the target that was sent; a newer request is dropped together with it after the third attempt, against `docs/terminal.md:393` (`lost`).  After a repair of the hook one stray report remains, which is taken for the end of something else: `TypedIsKept`, `SilentNavigation` and `RunAwaits` are for sessions without a repair.  After a respawn `_cwd` is that of the old shell, so the first report of the new one moves the active panel, contrary to the comment at line 1007.  A bracketed paste with a newline counts as submitting (line 636).  A hook wiped by the user's command leaves a stored target where it is.  The screen reads a panel's path before it awaits the terminal (`nn/nova_navigator.py:527`, `534`).  What a hurried user types while a hidden command is under way can be run with it, against `docs/terminal.md:308`.
* Editor.  A change that arrives after the check of `save()`, while the thread writes or the overwrite question is open, is replaced (`TooLate`), and a change that was deferred during a save is dropped when the save succeeds; `docs/editor.md:22` says "never overwritten silently".  `undo()` and `redo()` catch only `RowUnavailable`: `SourceChanged` escapes after the batch was popped.  `docs/editor.md:1250` has cached blocks served where `PreadSource` checks first.  `load_text` leaves `_stale_kind`.  A posted `"confirm"` that is handled after its question was answered asks again.
* Archives.  `prepare_write()` sets the new baseline before it downloads; if that fails, the next commit rebuilds from the old copy and publishes it over the newer archive (`Whole`).  A commit that replaces the local archive and then fails to write it back leaves a mount that shows what is not published; a copy taken from it counts as unmodified (`shown`), and a sibling's commit publishes it.  Of two members saved nearly at once, the second asks about a conflict though nobody else wrote, against `docs/local_copies.md:147`.  A rebase after a foreign write makes a baseline of two archives, under which that write is replaced silently (`doubt`).  A foreign version that arrives after the check of a sync is replaced, also when a reopen has just reloaded it (`Raced`, `Seen`; the documentation names the window, not the reload).  Two `mount_archive()` in flight make two file systems, each with a lock of its own, over one local archive.

## 6. Plan

1. *Done:* local copies and the write guard; the detector and its contract.
2. *Done:* the scheduler, `Questions`, and copy, move and erase on top; nothing lost, proved.
3. *Done:* terminal, shell and panels.
4. *Done:* the editor's history, saves, widget and screen; its safety properties proved.
5. *Done:* archives: commit, refresh, sibling rebasing; the safety properties proved.
6. *Done:* the invariants of the patient user of local copies, the consent and the counters of the file jobs, and what the terminal promises a patient user, proved.
7. Left: the registry with two `open()` or two `mount_archive()` of one source in flight; the terminal pool; directory loading by cancellable workers and the browsing history.
8. Left, proofs: `TerminalFollowsPanel` in sessions with a repaired hook and more than one attempt, which needs an inventory like `Orderly` of what the stray report can meet.
9. Left: an abstract write-back contract (a copy is *clean*, *dirty* or *lost by consent*) that manager and archives implement for the patient user.

## 7. Not modelled

* Everywhere: reads torn by concurrent writes; calls that never return; fingerprints that agree although the file changed (a limit the documentation names).
* Local copies: pass-through copies, which have no steps; two `open()` of one source in flight.
* Archives: local archives (`LocalArchiveBacking`), where nothing is downloaded or published; the first mount; the formats themselves; two mounts of one archive.
* File jobs: the policies skip and overwrite given beforehand, a target that is a directory where the source is a file, empty files, several jobs at once and the limit of the list of finished ones.
* Terminal: the drivers without hooks, shells without line editing, the editor protocol, remote shells and the pool, a `cd` that outlasts the watchdog; every directory can be listed.
* Editor: documents that are new or fail to load, files that cannot be read for other reasons than absence, rendering, search and clipboard, the piece table and the line index below the text, several polls in flight, rows that are not resolved except as refusals, temporary files left until the exit hook.
* File systems, rendering, configuration, key dispatch, the VFS shell and the developer tools are I/O, sequential or layout, and are left out for the reasons in `PROJECT.json`.
