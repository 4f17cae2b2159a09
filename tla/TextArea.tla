------------------------------- MODULE TextArea -------------------------------
(***************************************************************************)
(* The editor widget and its document (nova_editor/widget/_text_area.py,   *)
(* document/_lazy_document.py): edits and their locks, saving on a thread, *)
(* the checks for a change of the file, the stale view and reloading.  The *)
(* UI thread runs one handler at a time; the save thread, the poll and     *)
(* other programs run in between.  A document is the file it was read from *)
(* ("base") with the edits of the history ("text").                        *)
(***************************************************************************)
EXTENDS EditHistory, SaveJob

CONSTANTS Pristine,  \* the text of a file nobody edited here
          Start,     \* the path opened first
          Large,     \* files are over SMALL_FILE_LIMIT: held open, read on demand
          MaxEdits   \* bound: edits and branches of the history

ASSUME StartAssumption == Start \in Paths /\ Pristine \in Texts
ASSUME LargeAssumption == Large \in BOOLEAN /\ MaxEdits \in Nat
\* What a file holds: the file the text was read from, by the number of the change
\* that put it there, and the text.
ASSUME ContentsAssumption == Contents = [base : 0 .. MaxForeign, text : Texts]

VARIABLES w,       \* the widget
          check,   \* the external check of a poll in flight
          posted   \* messages of the widget that the screen has not handled

NoCheck == [on |-> FALSE]

Stale == "file changed on disk"  \* STALE_REASON

Shows == [base |-> w.base, text |-> text]

Msg(type, kind, path) == [type |-> type, kind |-> kind, path |-> path, view |-> w.view]

\* NovaTextArea.open() of the file at a path.
Opened(path, file, view, doc) ==
  [path |-> path, held |-> file, base |-> file.content.base, large |-> Large, view |-> view,
   doc |-> doc, stale |-> "unchanged", locks |-> {}, saving |-> FALSE, epoch |-> 0, closed |-> FALSE]

WidgetInit ==
  /\ HistoryInit /\ text = Pristine
  /\ DiskInit([p \in Paths |->
       IF p = Start THEN [ino |-> 1, content |-> [base |-> 0, text |-> Pristine], flushed |-> TRUE]
                    ELSE Absent])
  /\ w = Opened(Start, disk[Start], 0, 0)
  /\ check = NoCheck
  /\ posted = <<>>

-------------------------------------------------------------------------------
\* _fail_source(): the stale view.  It locks edits and posts SourceChanged once;
\* a later report may only make the kind worse.
Worse(kind, than) == than = "modified" /\ kind \in {"replaced", "deleted"}

FailSource(v, kind) ==
  IF v.stale = "unchanged" THEN [v EXCEPT !.stale = kind, !.locks = @ \cup {Stale}]
  ELSE IF Worse(kind, v.stale) THEN [v EXCEPT !.stale = kind] ELSE v

SourceChanged(v, kind) ==
  IF v.stale = "unchanged" THEN <<Msg("changed", kind, v.path)>> ELSE <<>>

\* check_external_change()
ExternalKind == IF w.stale # "unchanged" THEN w.stale
                ELSE IF w.saving \/ w.closed THEN "unchanged" ELSE KindOf(disk[w.path], w.held)

\* What FailSource and SourceChanged make of a kind that may be "unchanged".
WithKind(kind) == IF kind = "unchanged" THEN w ELSE FailSource(w, kind)

PostedOf(kind) == IF kind = "unchanged" THEN <<>> ELSE SourceChanged(w, kind)

ForSave == <<hist, text, savedText, job, temp>>

\* A row that is not cached is read to draw it, and the descriptor says that the
\* file was written in place (_guard_source, _render_line_guarded).
Render ==
  /\ w.large /\ ~w.closed
  /\ disk[w.path] # Absent
  /\ KindOf(disk[w.path], w.held) = "modified"
  /\ w' = FailSource(w, "modified")
  /\ posted' = posted \o SourceChanged(w, "modified")
  /\ UNCHANGED <<check, diskVars, jobVars, historyVars>>

\* begin_external_check()
PollBegins ==
  /\ ~check.on
  /\ ~w.closed /\ ~w.saving /\ w.stale = "unchanged"
  /\ check' = [on |-> TRUE, epoch |-> w.epoch, doc |-> w.doc, path |-> w.path,
               held |-> w.held, kind |-> "pending"]
  /\ UNCHANGED <<w, posted, diskVars, jobVars, historyVars>>

\* ExternalCheck.run(), on a worker thread; "unchanged" is applied without effect.
PollRuns ==
  /\ check.on /\ check.kind = "pending"
  /\ LET kind == KindOf(disk[check.path], check.held)
     IN  check' = IF kind = "unchanged" THEN NoCheck ELSE [check EXCEPT !.kind = kind]
  /\ UNCHANGED <<w, posted, diskVars, jobVars, historyVars>>

AppliesToDocument(c) ==
  w.stale = "unchanged" /\ ~w.closed /\ ~w.saving /\ c.doc = w.doc

\* Whether apply_external_check() takes a result.
Applies(c) ==
  /\ w.stale = "unchanged" /\ ~w.closed /\ ~w.saving
  /\ c.epoch = w.epoch /\ c.doc = w.doc

PollApplied ==
  /\ check.on /\ check.kind # "pending"
  /\ LET kind == IF Applies(check) THEN check.kind ELSE "unchanged"
     IN  w' = WithKind(kind) /\ posted' = posted \o PostedOf(kind)
  /\ check' = NoCheck
  /\ UNCHANGED <<diskVars, jobVars, historyVars>>

-------------------------------------------------------------------------------
\* Edits: refused while a lock is held.

Type ==
  /\ w.locks = {}
  /\ hist.at[1] + hist.next <= MaxEdits
  /\ \E t \in Texts \ {text}, size \in Sizes : Edit(t, size)

\* A batch whose rows are not resolved is refused whatever the locks.
Undoes == UndoRefused \/ (w.locks = {} /\ Undo)

Redoes == RedoRefused \/ (w.locks = {} /\ Redo)

WidgetStays == UNCHANGED <<w, check, posted, diskVars, jobVars>>

-------------------------------------------------------------------------------
\* Saving

OriginLastSeen == w.stale

\* The comparison of save() with the file held.  The file may look unchanged
\* again after a read that found it changed.
Origin ==
  LET kind == KindOf(disk[w.path], w.held)
  IN  IF kind = "unchanged" THEN w.stale ELSE kind

\* What a save to a path needs consent for.
ConsentFor(path) ==
  IF path = w.path THEN Origin
  ELSE IF disk[path] # Absent THEN "exists" ELSE "unchanged"

\* Marks the text as saved before it is.
StartSaveMarksSaved(path) ==
  /\ w' = [WithKind(Origin) EXCEPT !.saving = TRUE, !.locks = @ \cup {"saving"}, !.epoch = @ + 1]
  /\ posted' = posted \o PostedOf(Origin)
  /\ job' = [NoJob EXCEPT !.pc = "prepare", !.target = path, !.unverified = (Origin = "modified")]
  /\ temp' = "none"
  /\ hist' = MarkSaved(hist)
  /\ UNCHANGED <<text, savedText>>

\* _start_save(), after what save() found about the origin
StartSave(path) ==
  /\ w' = [WithKind(Origin) EXCEPT !.saving = TRUE, !.locks = @ \cup {"saving"}, !.epoch = @ + 1]
  /\ posted' = posted \o PostedOf(Origin)
  /\ job' = [NoJob EXCEPT !.pc = "prepare", !.target = path, !.unverified = (Origin = "modified")]
  /\ temp' = "none"
  /\ hist' = Checkpoint(hist)
  /\ UNCHANGED <<text, savedText>>

AskConsent(path) ==
  /\ w' = WithKind(Origin)
  /\ posted' = posted \o PostedOf(Origin) \o <<Msg("confirm", ConsentFor(path), path)>>
  /\ UNCHANGED ForSave

\* The editor does nothing for a save when another runs or nothing changed.
Saves(path) == ~w.saving /\ (path = w.path => Modified(hist))

\* save(path, overwrite)
Save(path, overwrite) ==
  /\ IF ~Saves(path) THEN UNCHANGED <<w, posted, ForSave>>
     ELSE IF ConsentFor(path) # "unchanged" /\ ~overwrite THEN AskConsent(path)
     ELSE StartSave(path)
  /\ UNCHANGED <<check, diskVars>>

\* What plan() and the reads of the save thread give: without verification, the
\* unedited parts of a large file written in place come from the file as it is;
\* with it, the reads fail.
ReadBy(j) ==
  IF w.large /\ j.unverified /\ disk[w.path] # Absent /\ disk[w.path].ino = w.held.ino
    THEN [Shows EXCEPT !.base = disk[w.path].content.base]
    ELSE Shows

Readable(j) == w.large /\ KindOf(disk[w.path], w.held) = "modified" => j.unverified

WriteDocument == Readable(job) /\ WriteChunks(ReadBy(job))

SaveThread ==
  /\ Prepare \/ WriteDocument \/ Flush \/ Replace \/ Commit \/ Finish \/ Failing \/ Stopping
  /\ UNCHANGED <<w, check, posted, historyVars>>

\* _end_save()
Ended(v) == [v EXCEPT !.saving = FALSE, !.epoch = @ + 1, !.locks = @ \ {"saving"}]

RebasedLocked ==
  [Ended(w) EXCEPT !.path = job.target, !.base = job.content.base, !.large = TRUE,
                   !.held = [ino |-> job.ino, content |-> job.content, flushed |-> TRUE],
                   !.stale = "unchanged"]

\* The document stands on the file it wrote, whose descriptor it keeps:
\* apply_rebase() and _lift_stale().  The identity is that of the bytes written,
\* taken before the rename.
Rebased ==
  [Ended(w) EXCEPT !.path = job.target, !.base = job.content.base, !.large = TRUE,
                   !.held = [ino |-> job.ino, content |-> job.content, flushed |-> TRUE],
                   !.stale = "unchanged", !.locks = @ \ {Stale}]

\* _conclude_save() of a file that was written, and the ways it can fail: before
\* the swap of the table the document stays on the old file, after it (and maybe
\* before the stale state is lifted) the history is cleared, as it is when too many
\* old files would have to be kept.
RebaseSucceeds ==
  /\ w' = Rebased
  /\ Saved \/ Loaded(text)
  /\ posted' = Append(posted, Msg("saved", "unchanged", job.target))

FailsBeforeSwapSaved ==
  /\ w' = Ended(w)
  /\ posted' = Append(posted, Msg("failed committed", "unchanged", job.target))
  /\ Saved

FailsBeforeSwap ==
  /\ w' = Ended(w)
  /\ posted' = Append(posted, Msg("failed committed", "unchanged", job.target))
  /\ UNCHANGED historyVars

FailsAfterSwap ==
  /\ w' \in {Rebased, [Rebased EXCEPT !.stale = w.stale, !.locks = Ended(w).locks]}
  /\ Loaded(text)
  /\ posted' = Append(posted, Msg("failed committed", "unchanged", job.target))

NothingWrittenStillSaving ==
  /\ w' = IF job.outcome = "cancelled" THEN w ELSE Ended(w)
  /\ posted' = Append(posted, Msg(IF job.outcome = "cancelled" THEN "cancelled"
                                  ELSE IF job.committed THEN "failed committed" ELSE "failed",
                                  "unchanged", job.target))
  /\ UNCHANGED historyVars

NothingWritten ==
  /\ w' = Ended(w)
  /\ posted' = Append(posted, Msg(IF job.outcome = "cancelled" THEN "cancelled"
                                  ELSE IF job.committed THEN "failed committed" ELSE "failed",
                                  "unchanged", job.target))
  /\ UNCHANGED historyVars

\* _finish_save(), the callback of the thread on the UI thread
FinishSave ==
  /\ w.saving /\ job.pc = "ended"
  /\ IF job.outcome = "saved" THEN RebaseSucceeds \/ FailsBeforeSwap \/ FailsAfterSwap
                              ELSE NothingWritten
  /\ job' = NoJob
  /\ UNCHANGED <<check, diskVars, temp>>

CancelSave == job' = [job EXCEPT !.cancelled = w.saving \/ @]

-------------------------------------------------------------------------------
\* reload(): without the file nothing changes and ReloadFailed is posted.
Reload ==
  /\ IF disk[w.path] = Absent
       THEN /\ posted' = Append(posted, Msg("reload failed", "unchanged", w.path))
            /\ UNCHANGED <<w, historyVars>>
       ELSE /\ w' = [Opened(w.path, disk[w.path], w.view, w.doc + 1) EXCEPT !.epoch = w.epoch]
            /\ Loaded(disk[w.path].content.text)
            /\ UNCHANGED posted
  /\ UNCHANGED <<check, diskVars, jobVars>>

\* The widget of another file takes the place of this one.
OpenInstead(path) ==
  /\ w' = Opened(path, disk[path], w.view + 1, w.doc + 1)
  /\ Loaded(disk[path].content.text)
  /\ UNCHANGED <<check, posted, diskVars, jobVars>>

\* close() and _abandon_save(): the thread goes on, cancelled, and nobody listens.
CloseWidget ==
  /\ w' = [Ended(w) EXCEPT !.closed = TRUE]
  /\ CancelSave
  /\ UNCHANGED <<check, posted, diskVars, temp, historyVars>>

-------------------------------------------------------------------------------
\* Other programs write contents of their own.
Others(p) ==
  /\ LET c == [base |-> foreign + 1, text |-> Pristine]
     IN  WriteInPlace(p, c) \/ PutFile(p, c) \/ Delete(p)
  /\ UNCHANGED <<w, check, posted, jobVars, historyVars>>
================================================================================
