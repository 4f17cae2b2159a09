----------------------------- MODULE EditorScreen -----------------------------
(***************************************************************************)
(* The editor screen (nova_editor/screen.py): commands, and the flows that *)
(* ask the user.  Flows run one at a time, in the order they were started; *)
(* a dialog takes the keyboard, so no command is given while one is open,  *)
(* but messages of the widget, saves, polls and other programs go on.      *)
(***************************************************************************)
EXTENDS TextArea

CONSTANTS MaxOps,  \* bound: commands given, but typing, redo, cancel, close
          Habits   \* "overlaps": Save As while a save is under way

ASSUME OpsAssumption == MaxOps \in Nat /\ Habits \subseteq {"overlaps"}

VARIABLES flows,     \* flows started and not ended; the first holds the lock
          dialog,    \* what the first flow awaits
          asked,     \* DocumentView.change_question
          deferred,  \* DocumentView.deferred_change
          ops,
          user       \* history: whether the question in front was put with edits to
                     \* lose ("warned"); the paths whose file was saved here, was the
                     \* subject of a question, or came too late to be asked about
                     \* ("told"); whether the stale view was announced

screenVars == <<flows, dialog, asked, deferred, ops, user>>
vars == <<historyVars, diskVars, jobVars, w, check, posted, screenVars>>

\* "flag": a change a save found (from_save), a failure of a save (recheck).
Flow(kind) == [kind |-> kind, view |-> w.view, path |-> w.path, flag |-> FALSE, committed |-> FALSE]

\* _start_flow() of some flows; the flow in front goes on.
Starts(started) ==
  /\ flows' = flows \o started
  /\ UNCHANGED <<dialog, asked>>

\* _queue_change(): one question about a change of the file at a time.
ChangeFlow(path, fromSave) ==
  IF asked THEN <<>> ELSE <<[Flow("change") EXCEPT !.path = path, !.flag = fromSave]>>

QueueChange(path, fromSave) ==
  /\ flows' = flows \o ChangeFlow(path, fromSave)
  /\ asked' = TRUE
  /\ UNCHANGED dialog

First == flows[1]

Current == First.view = w.view

\* The flow in front ends, or goes on as another one.
Leaves(more) ==
  /\ flows' = more \o Tail(flows)
  /\ dialog' = "none"
  /\ asked' = (asked /\ (First.kind = "change" => ~Current))

Awaits(what) == dialog' = what /\ UNCHANGED <<flows, asked>>

WidgetIdle == UNCHANGED <<historyVars, diskVars, jobVars, w, check, posted>>

\* A question about the change is open, or the box that says to reload the file.
Announcing ==
  dialog = "asking" /\ Current /\ (First.kind = "change" \/ First.committed)

Heard == w.stale # "unchanged" /\ (user.announced \/ Announcing)

Silent == user' = [user EXCEPT !.announced = Heard]

Says == user' = [user EXCEPT !.warned = FALSE, !.announced = Heard]

Asks == user' = [user EXCEPT !.warned = Modified(hist), !.announced = Heard]

AsksAbout(path) ==
  user' = [user EXCEPT !.warned = Modified(hist), !.told = @ \cup {path}, !.announced = Heard]

ScreenInit ==
  /\ WidgetInit
  /\ flows = <<>> /\ dialog = "none" /\ asked = FALSE /\ deferred = FALSE /\ ops = 0
  /\ user = [warned |-> FALSE, told |-> {}, announced |-> FALSE]

-------------------------------------------------------------------------------
\* Commands

\* The user is slower than the messages posted so far.
Attentive == posted = <<>>

Heeded == ~w.closed /\ dialog # "asking" /\ Attentive /\ Silent /\ UNCHANGED deferred

Given == Heeded /\ ops < MaxOps /\ ops' = ops + 1

ActionSave ==
  /\ Given
  /\ ~w.saving /\ Modified(hist)
  /\ Save(w.path, FALSE)
  /\ Starts(<<>>)

ActionSaveAs ==
  /\ Given
  /\ w.saving => "overlaps" \in Habits
  /\ Starts(<<Flow("save as")>>)
  /\ WidgetIdle

ActionReload ==
  /\ Given
  /\ ~w.saving
  /\ IF Modified(hist) THEN Starts(<<Flow("reload")>>) /\ WidgetIdle
                       ELSE Reload /\ Starts(<<>>)

ActionCancelSave ==
  /\ Heeded
  /\ w.saving /\ CancelSave
  /\ Starts(<<>>) /\ UNCHANGED ops
  /\ UNCHANGED <<historyVars, diskVars, temp, w, check, posted>>

ActionOpen == Given /\ Starts(<<Flow("open")>>) /\ WidgetIdle

\* _request_close(): ignored while a flow is open.
RequestClose ==
  Heeded /\ flows = <<>> /\ Starts(<<Flow("close")>>) /\ WidgetIdle /\ UNCHANGED ops

\* Keys of the widget; a move of the cursor ends a batch of edits.
Keys ==
  /\ \/ Given /\ (Undoes \/ EndBatch)
     \/ Heeded /\ Redoes /\ UNCHANGED ops
  /\ Starts(<<>>) /\ WidgetStays

Commands ==
  \/ ActionSave \/ ActionSaveAs \/ ActionReload \/ ActionCancelSave
  \/ ActionOpen \/ RequestClose \/ Keys

-------------------------------------------------------------------------------
\* The flow in front up to its first await

Close == CloseWidget /\ Leaves(<<>>)

\* The end of _close_flow(): modified is read after the wait for the save.
DecideCloseUnasked == Close /\ Silent

DecideClose ==
  IF Modified(hist) THEN Awaits("asking") /\ Asks /\ WidgetIdle
                    ELSE Close /\ Silent

BeginClose ==
  /\ First.kind = "close"
  /\ IF w.saving
       THEN /\ CancelSave /\ Awaits("saving") /\ Silent
            /\ UNCHANGED <<historyVars, diskVars, temp, w, check, posted>>
       ELSE DecideClose

\* _ask_change(): the view may no longer be stale when the turn of the flow comes.
AskChange(path, kind) ==
  /\ w' = WithKind(kind) /\ posted' = posted \o PostedOf(kind)
  /\ flows' = [flows EXCEPT ![1].path = path] /\ dialog' = "asking" /\ UNCHANGED asked
  /\ AsksAbout(path)
  /\ UNCHANGED <<historyVars, diskVars, jobVars, check>>

BeginChange ==
  /\ First.kind = "change"
  /\ IF Current /\ First.flag THEN AskChange(First.path, "unchanged")
     ELSE IF Current /\ ExternalKind # "unchanged" THEN AskChange(w.path, ExternalKind)
     ELSE Leaves(<<>>) /\ Silent /\ WidgetIdle

BeginOpen ==
  /\ First.kind = "open"
  /\ IF w.saving THEN Leaves(<<>>) /\ Silent ELSE Awaits("asking") /\ Asks
  /\ WidgetIdle

BeginDialog ==
  /\ First.kind \in {"save as", "reload"}
  /\ Awaits("asking") /\ Asks /\ WidgetIdle

BeginOverwrite ==
  /\ First.kind = "overwrite"
  /\ Awaits("asking") /\ AsksAbout(First.path) /\ WidgetIdle

\* "The file was written. Reload to read it again."
BeginFailure ==
  /\ First.kind = "failure"
  /\ Awaits("asking") /\ Silent /\ WidgetIdle

Begin ==
  /\ flows # <<>> /\ dialog = "none" /\ ~w.closed
  /\ BeginClose \/ BeginChange \/ BeginOpen \/ BeginDialog \/ BeginOverwrite \/ BeginFailure
  /\ UNCHANGED <<deferred, ops>>

\* The wait of _close_flow() for a cancelled save, and its end by time.
Waited ==
  /\ dialog = "saving"
  /\ IF w.saving THEN Awaits("asking") /\ Asks /\ WidgetIdle ELSE DecideClose
  /\ UNCHANGED <<deferred, ops>>

-------------------------------------------------------------------------------
\* Answers

Answering(kind) == dialog = "asking" /\ First.kind = kind

\* Escape, Cancel, Keep; also any answer about a document that is not shown now.
Declines ==
  /\ dialog = "asking" /\ First.kind # "failure"
  /\ Leaves(<<>>) /\ Says
  /\ WidgetIdle /\ UNCHANGED deferred

ChoosesTarget ==
  /\ Answering("save as") /\ Current
  /\ \E p \in Paths : Save(p, FALSE)
  /\ Leaves(<<>>) /\ Says /\ UNCHANGED deferred

\* Offered by a question of a save, and when there were edits as it was put.
SaysOverwrite ==
  /\ Answering("overwrite") \/ (Answering("change") /\ (First.flag \/ user.warned))
  /\ Current
  /\ Save(First.path, TRUE)
  /\ Leaves(<<>>) /\ Says /\ UNCHANGED deferred

SaysSaveAs ==
  /\ Answering("overwrite") \/ Answering("change")
  /\ Current
  /\ Leaves(<<Flow("save as")>>) /\ Says
  /\ WidgetIdle /\ UNCHANGED deferred

SaysReload ==
  /\ Answering("reload") \/ Answering("change")
  /\ Current
  /\ IF w.saving THEN WidgetIdle ELSE Reload
  /\ Leaves(<<>>) /\ Says /\ UNCHANGED deferred

SaysClose == Answering("close") /\ Close /\ Says /\ UNCHANGED deferred

\* Picks a file to open; with edits a second question follows at once.
Opens(p) ==
  /\ disk[p] # Absent /\ Current /\ ~w.saving
  /\ OpenInstead(p)
  /\ flows' = Tail(flows) /\ dialog' = "none" /\ asked' = FALSE /\ deferred' = FALSE

CannotOpen(p) ==
  /\ disk[p] = Absent /\ Current /\ ~w.saving
  /\ Leaves(<<Flow("failure")>>) /\ WidgetIdle /\ UNCHANGED deferred

SaysOpen ==
  /\ Answering("open")
  /\ \E p \in Paths : Opens(p) \/ CannotOpen(p)
  /\ Says

\* _recheck_deferred_change(): "left" are the flows left.
Recheck(committed, left, messages) ==
  LET announces == deferred /\ ~committed /\ ~w.saving
      kind == IF announces THEN ExternalKind ELSE "unchanged"
  IN  /\ deferred' = FALSE
      /\ w' = WithKind(kind) /\ posted' = messages \o PostedOf(kind)
      /\ flows' = IF kind = "unchanged" THEN left ELSE left \o ChangeFlow(w.path, FALSE)
      /\ asked' = (asked \/ kind # "unchanged")
      /\ UNCHANGED <<historyVars, diskVars, jobVars, check>>

Acknowledges ==
  /\ Answering("failure")
  /\ IF First.flag /\ Current
       THEN Recheck(First.committed, Tail(flows), posted) /\ dialog' = "none"
       ELSE Leaves(<<>>) /\ WidgetIdle /\ UNCHANGED deferred
  /\ Says

Answers ==
  /\ \/ Declines \/ ChoosesTarget \/ SaysOverwrite \/ SaysSaveAs \/ SaysReload
     \/ SaysClose \/ SaysOpen \/ Acknowledges
  /\ UNCHANGED ops

-------------------------------------------------------------------------------
\* Messages of the widget, in the order it posted them

Message == Head(posted)

Taken ==
  /\ posted' = Tail(posted)
  /\ UNCHANGED <<historyVars, diskVars, jobVars, w, check>>

OnSaved ==
  /\ Message.type = "saved"
  /\ deferred' = FALSE /\ Starts(<<>>) /\ Taken

OnSaveFailed ==
  /\ Message.type \in {"failed", "failed committed"}
  /\ Starts(<<[Flow("failure") EXCEPT !.flag = TRUE, !.committed = Message.type # "failed"]>>)
  /\ UNCHANGED deferred /\ Taken

OnSaveCancelledForgets ==
  /\ Message.type = "cancelled"
  /\ deferred' = FALSE /\ Starts(<<>>) /\ Taken

OnSaveCancelled ==
  /\ Message.type = "cancelled"
  /\ Recheck(FALSE, flows, Tail(posted)) /\ UNCHANGED dialog

OnSaveNeedsConfirmation ==
  /\ Message.type = "confirm"
  /\ IF Message.kind = "exists" THEN Starts(<<[Flow("overwrite") EXCEPT !.path = Message.path]>>)
                                ELSE QueueChange(Message.path, TRUE)
  /\ UNCHANGED deferred /\ Taken

OnSourceChanged ==
  /\ Message.type = "changed"
  /\ IF w.saving THEN deferred' = TRUE /\ Starts(<<>>)
                 ELSE QueueChange(w.path, FALSE) /\ UNCHANGED deferred
  /\ Taken

OnReloadFailed ==
  /\ Message.type = "reload failed"
  /\ Starts(<<Flow("failure")>>) /\ UNCHANGED deferred /\ Taken

\* _is_current(): a message of a widget that was replaced changes nothing.
Ignored ==
  /\ Message.view # w.view
  /\ Starts(<<>>) /\ UNCHANGED deferred /\ Taken

Handle ==
  /\ posted # <<>> /\ ~w.closed
  /\ \/ Ignored
     \/ /\ Message.view = w.view
        /\ \/ OnSaved \/ OnSaveFailed \/ OnSaveCancelled
           \/ OnSaveNeedsConfirmation \/ OnSourceChanged \/ OnReloadFailed
  /\ Silent
  /\ UNCHANGED ops

-------------------------------------------------------------------------------
ScreenIdle == UNCHANGED <<flows, dialog, asked, deferred, ops>>

Types == ~w.closed /\ dialog # "asking" /\ Type /\ WidgetStays /\ Silent /\ ScreenIdle

Thread ==
  /\ SaveThread
  /\ user' = [user EXCEPT !.told = IF job'.pc = "commit" THEN @ \cup {job.target} ELSE @,
                          !.announced = Heard]
  /\ ScreenIdle

ThreadEnds == FinishSave /\ Silent /\ ScreenIdle

Notices == (Render \/ PollBegins \/ PollRuns \/ PollApplied) /\ Silent /\ ScreenIdle

\* Too late to be asked about: a question about a file is open, or the thread runs.
TooLate == w.saving \/ (dialog = "asking" /\ First.kind \in {"change", "overwrite"})

Elsewhere ==
  /\ ~w.closed
  /\ \E p \in Paths :
       /\ Others(p)
       /\ user' = [user EXCEPT !.told = IF TooLate THEN @ \cup {p} ELSE @ \ {p},
                               !.announced = Heard]
  /\ ScreenIdle

Next ==
  \/ Commands \/ Begin \/ Waited \/ Answers \/ Handle
  \/ Types \/ Thread \/ ThreadEnds \/ Notices \/ Elsewhere

Fairness ==
  /\ WF_vars(Thread \/ ThreadEnds)
  /\ WF_vars(Handle)
  /\ WF_vars(Begin \/ Waited)

Spec == ScreenInit /\ [][Next]_vars /\ Fairness

-------------------------------------------------------------------------------
Kind == {"save as", "reload", "open", "close", "change", "overwrite", "failure"}

TypeOK ==
  /\ HistoryTypeOK /\ JobTypeOK
  /\ w.path \in Paths /\ w.held \in File /\ w.stale \in Kinds
  /\ w.locks \subseteq {Stale, "saving"} /\ (Stale \in w.locks <=> w.stale # "unchanged")
  /\ w.saving => job.pc # "none"
  /\ \A i \in DOMAIN flows : flows[i].kind \in Kind /\ flows[i].path \in Paths
  /\ dialog \in {"none", "asking", "saving"} /\ (flows = <<>> => dialog = "none")
  /\ asked \in BOOLEAN /\ deferred \in BOOLEAN /\ ops \in 0..MaxOps

\* A document that the editor calls unmodified is byte for byte the version of the
\* file it holds, after any order of edits, undos, saves that end in any way, and
\* reloads: the editor closes it without asking (_close_flow, EditHistory.modified,
\* _conclude_save).
UnmodifiedIsOnDisk == ~w.closed /\ ~Modified(hist) => w.held.content = Shows

\* Whatever the widget does to its history is what EditHistory describes: no edit
\* comes between the text a save writes and the state it marks as saved.
ImplementsHistory == [][HistoryNext]_historyVars

\* The view turns stale only when the file is not the one held: a poll that began
\* before a save, or on another document, must not lock the new one
\* (apply_external_check).
StaleIsReal ==
  [][w.stale = "unchanged" /\ w'.stale # "unchanged" => KindOf(disk[w.path], w.held) # "unchanged"]_w

\* What a save replaces is nothing, the file that was held, one saved here before,
\* or one the user was asked about, unless it came while the question was open or
\* the save ran (save, _start_save, and the questions of the screen).
NothingOverwrittenUnseen ==
  [][Published' /\ ~Published =>
       disk[job.target] \in {Absent, w.held} \/ job.target \in user.told]_<<job, disk>>

\* Edits that are not saved are dropped, by closing, reloading or opening, only on
\* the answer to a question that was put when there were edits to lose.
EditsAreNotDropped ==
  [][Modified(hist) /\ ~w.closed /\ (w'.closed \/ w'.doc # w.doc)
       => /\ dialog = "asking" /\ user.warned
          /\ First.kind \in {"close", "reload", "open", "change"}]_<<w, user>>

\* The widget is not left saving: whatever fails, is cancelled, or times out.
SaveEnds == []<>~w.saving

\* A view that turned stale is announced by a question, also when a save ran at the
\* time and failed (_recheck_deferred_change), unless some dialog waits for the user.
ChangeIsAnnounced ==
  []<>(w.stale = "unchanged" \/ user.announced \/ w.closed \/ dialog = "asking")
================================================================================
