------------------------- MODULE EditorDocument_proofs -------------------------
(***************************************************************************)
(* What the user relies on in the editor, for any paths, edits, habits and *)
(* interleaving: a document without changes is the file it was read from,  *)
(* edits are not dropped without a question that said so, the view turns   *)
(* stale only when its file changed, and a save replaces no file that the  *)
(* editor or the user did not know of.                                     *)
(***************************************************************************)
EXTENDS Editor_proofs

\* What the user was asked.

\* The record of what the user was asked and told.
UserOK == user \in [warned : BOOLEAN, told : SUBSET Paths, announced : BOOLEAN]

\* A question in front of the user, but a box with one button, was put with the edits
\* there are, and one about a file has told the user of that file; only the flow that
\* closes waits for a save.
Asked ==
  /\ dialog = "asking" /\ First.kind # "failure" /\ Modified(hist) => user.warned
  /\ dialog = "asking" /\ First.kind \in {"change", "overwrite"} => First.path \in user.told
  /\ dialog = "saving" => First.kind = "close"

\* After the widget is closed nobody is asked anything and no save is waited for.
OverWhenClosed == w.closed => dialog = "none" /\ ~w.saving

FrontInv == UserOK /\ Asked /\ OverWhenClosed

HeardType == Heard \in BOOLEAN /\ Modified(hist) \in BOOLEAN

LEMMA HeardIsBoolean == UserOK => HeardType
BY DEF UserOK, HeardType, Heard, Announcing, Modified

LEMMA SilentUser ==
  ASSUME UserOK, Silent
  PROVE  UserOK' /\ user'.warned = user.warned /\ user'.told = user.told
<1> DEFINE h == Heard
<1>1. h \in BOOLEAN /\ user' = [user EXCEPT !.announced = h]
  BY HeardIsBoolean DEF HeardType, Silent
<1> HIDE DEF h
<1> QED BY <1>1 DEF UserOK

LEMMA SaysUser == ASSUME UserOK, Says PROVE UserOK' /\ user'.told = user.told
<1> DEFINE h == Heard
<1>1. h \in BOOLEAN /\ user' = [user EXCEPT !.warned = FALSE, !.announced = h]
  BY HeardIsBoolean DEF HeardType, Says
<1> HIDE DEF h
<1> QED BY <1>1 DEF UserOK

LEMMA AsksUser ==
  ASSUME UserOK, Asks
  PROVE  UserOK' /\ user'.warned = Modified(hist) /\ user'.told = user.told
<1> DEFINE h == Heard
           m == Modified(hist)
<1>1. h \in BOOLEAN /\ m \in BOOLEAN /\ user' = [user EXCEPT !.warned = m, !.announced = h]
  BY HeardIsBoolean DEF HeardType, Asks
<1> HIDE DEF h, m
<1>2. UserOK' /\ user'.warned = m /\ user'.told = user.told BY <1>1 DEF UserOK
<1> QED BY <1>2 DEF m

LEMMA AsksAboutUser ==
  ASSUME UserOK, NEW p \in Paths, AsksAbout(p)
  PROVE  UserOK' /\ user'.warned = Modified(hist) /\ user'.told = user.told \cup {p}
<1> DEFINE h == Heard
           m == Modified(hist)
           t == user.told \cup {p}
<1>1. /\ h \in BOOLEAN /\ m \in BOOLEAN /\ t \in SUBSET Paths
      /\ user' = [user EXCEPT !.warned = m, !.told = t, !.announced = h]
  BY HeardIsBoolean DEF HeardType, AsksAbout, UserOK
<1> HIDE DEF h, m, t
<1>2. UserOK' /\ user'.warned = m /\ user'.told = t BY <1>1 DEF UserOK
<1> QED BY <1>2 DEF m, t

LEMMA OthersUser ==
  ASSUME UserOK, NEW t \in SUBSET Paths,
         user' = [user EXCEPT !.told = t, !.announced = Heard]
  PROVE  UserOK' /\ user'.warned = user.warned /\ user'.told = t
<1> DEFINE h == Heard
<1>1. h \in BOOLEAN /\ user' = [user EXCEPT !.told = t, !.announced = h]
  BY HeardIsBoolean DEF HeardType
<1> HIDE DEF h
<1> QED BY <1>1 DEF UserOK

LEMMA ThreadUser ==
  ASSUME EditorInv, UserOK, Thread
  PROVE  /\ UserOK' /\ user'.warned = user.warned /\ user.told \subseteq user'.told
         /\ job'.pc = "commit" => job.target \in user'.told
<1> DEFINE t == IF job'.pc = "commit" THEN user.told \cup {job.target} ELSE user.told
<1>1. job.pc # "none"
  BY DEF Thread, SaveThread, Prepare, WriteDocument, WriteChunks, Flush, Replace, Commit, Finish,
         Failing, Fails, Stopping, Stops, Steps
<1>2. t \in SUBSET Paths BY <1>1 DEF UserOK, EditorInv, JobOK
<1>3. user' = [user EXCEPT !.told = t, !.announced = Heard] BY DEF Thread, UserOK
<1>4. UserOK' /\ user'.warned = user.warned /\ user'.told = t BY <1>2, <1>3, OthersUser
<1> QED BY <1>4

\* What another program does to a file that nobody is asked about is news.
LEMMA ElsewhereUser ==
  ASSUME UserOK, Elsewhere
  PROVE  /\ UserOK' /\ user'.warned = user.warned
         /\ \E p \in Paths :
              Others(p) /\ user'.told = IF TooLate THEN user.told \cup {p} ELSE user.told \ {p}
<1>1. PICK p \in Paths :
        /\ Others(p)
        /\ user' = [user EXCEPT !.told = IF TooLate THEN @ \cup {p} ELSE @ \ {p},
                                !.announced = Heard]
  BY DEF Elsewhere
<1> DEFINE t == IF TooLate THEN user.told \cup {p} ELSE user.told \ {p}
<1>2. t \in SUBSET Paths /\ user' = [user EXCEPT !.told = t, !.announced = Heard]
  BY <1>1 DEF UserOK
<1> HIDE DEF t
<1>3. UserOK' /\ user'.warned = user.warned /\ user'.told = t BY <1>2, OthersUser
<1> QED BY <1>1, <1>3 DEF t

\* More flows behind the one in front.
LEMMA SameFirst ==
  ASSUME FlowsOK, flows # <<>>, NEW more \in Seq(FlowRecord), flows' = flows \o more
  PROVE  First' = First
<1>1. flows \in Seq(FlowRecord) /\ Len(flows) \in Nat /\ Len(flows) >= 1 BY DEF FlowsOK
<1>2. Len(more) \in Nat OBVIOUS
<1>3. 1 \in 1 .. Len(flows) + Len(more) /\ 1 <= Len(flows) BY <1>1, <1>2
<1>4. (flows \o more)[1] = flows[1] BY <1>1, <1>3, ConcatProperties
<1> QED BY <1>4 DEF First

FrontStays == dialog' = dialog /\ (dialog # "none" => First' = First)

LEMMA MoreBehind ==
  ASSUME EditorInv, NEW more \in Seq(FlowRecord), flows' = flows \o more, dialog' = dialog
  PROVE  FrontStays
BY SameFirst DEF EditorInv, FlowsOK, FrontStays

LEMMA StillAsked ==
  ASSUME Asked, user'.warned = user.warned, hist' = hist, FrontStays,
         dialog = "asking" /\ First.kind \in {"change", "overwrite"} => user.told \subseteq user'.told
  PROVE  Asked'
BY DEF Asked, FrontStays, Modified

LEMMA NothingAsked == dialog' = "none" => Asked'
BY DEF Asked

LEMMA InitAsked == ScreenInit => UserOK /\ Asked
BY DEF ScreenInit, UserOK, Asked

LEMMA CommandsFront == ASSUME EditorInv, Commands PROVE FrontStays
<1>1. WidgetOK /\ flows \in Seq(FlowRecord) BY FlowsParts DEF EditorInv
<1>2. <<>> \in Seq(FlowRecord) /\ \A kind \in Kind : <<Flow(kind)>> \in Seq(FlowRecord)
  BY <1>1, FlowType
<1>3. \E more \in Seq(FlowRecord) : Starts(more)
  BY <1>2 DEF Commands, ActionSave, ActionSaveAs, ActionReload, ActionCancelSave, ActionOpen,
              RequestClose, Keys, Kind
<1> QED BY <1>3, MoreBehind DEF Starts

LEMMA HandleFront == ASSUME EditorInv, Handle PROVE FrontStays /\ hist' = hist
<1>1. /\ WidgetOK /\ FlowsOK /\ w.path \in Paths /\ flows \in Seq(FlowRecord)
  BY WidgetType, FlowsParts DEF EditorInv
<1>5. hist' = hist /\ dialog' = dialog
  BY DEF Handle, Ignored, OnSaved, OnSaveFailed, OnSaveCancelled, OnSaveNeedsConfirmation,
         OnSourceChanged, OnReloadFailed, Taken, Recheck, Starts, QueueChange, historyVars
<1>3. SUFFICES \E more \in Seq(FlowRecord) : flows' = flows \o more
  BY <1>5, MoreBehind
<1>4. ASSUME NEW more, flows' = flows \o more, more \in Seq(FlowRecord)
      PROVE  \E m \in Seq(FlowRecord) : flows' = flows \o m
  BY <1>4
<1>6. \A kind \in Kind : <<Flow(kind)>> \in Seq(FlowRecord) BY <1>1, FlowType
<1>7. Message.path \in Paths
  <2>1. posted # <<>> /\ posted \in Seq(MessageRecord) BY DEF Handle, EditorInv
  <2>2. Message \in MessageRecord BY <2>1 DEF Message
  <2> QED BY <2>2 DEF MessageRecord
<1>8. CASE Starts(<<>>) BY <1>4, <1>8, NothingStarts DEF Starts
<1>9. CASE OnSaveFailed
  <2> DEFINE committed == Message.type # "failed"
  <2>1. "failure" \in Kind /\ committed \in BOOLEAN BY DEF Kind
  <2>2. Starts(<<[Flow("failure") EXCEPT !.flag = TRUE, !.committed = committed]>>)
    BY <1>9 DEF OnSaveFailed
  <2> HIDE DEF committed
  <2>3. <<[Flow("failure") EXCEPT !.flag = TRUE, !.committed = committed]>> \in Seq(FlowRecord)
    BY <1>1, <2>1, OneFlow
  <2> QED BY <1>4, <2>2, <2>3 DEF Starts
<1>10. CASE OnSaveCancelled
  <2>1. flows' = flows \/ flows' = flows \o ChangeFlow(w.path, FALSE)
    BY <1>10 DEF OnSaveCancelled, Recheck
  <2>2. flows \o <<>> = flows BY <1>1
  <2> QED BY <1>1, <2>1, <2>2, NothingStarts, ChangeFlowType
<1>11. CASE OnSaveNeedsConfirmation
  <2>2. "overwrite" \in Kind BY DEF Kind
  <2>3. <<[Flow("overwrite") EXCEPT !.path = Message.path]>> \in Seq(FlowRecord)
    BY <1>1, <1>7, <2>2, OneFlow
  <2> QED
    BY <1>1, <1>7, <1>11, <2>3, ChangeFlowType
    DEF OnSaveNeedsConfirmation, Starts, QueueChange
<1>12. CASE OnSourceChanged
  BY <1>1, <1>8, <1>12, ChangeFlowType DEF OnSourceChanged, QueueChange
<1>13. CASE OnReloadFailed
  BY <1>6, <1>13 DEF OnReloadFailed, Starts, Kind
<1> QED
  BY <1>8, <1>9, <1>10, <1>11, <1>12, <1>13 DEF Handle, Ignored, OnSaved

LEMMA DecideCloseAsked ==
  ASSUME UserOK, DecideClose, First.kind = "close" PROVE UserOK' /\ Asked'
<1>1. CASE Modified(hist)
  <2>1. Asks /\ WidgetIdle /\ Awaits("asking") BY <1>1 DEF DecideClose
  <2>2. hist' = hist /\ First' = First BY <2>1 DEF WidgetIdle, historyVars, Awaits, First
  <2> QED BY <2>1, <2>2, AsksUser DEF Asked, Modified, Awaits
<1>2. CASE ~Modified(hist)
  <2>1. Silent /\ dialog' = "none" BY <1>2 DEF DecideClose, Close, Leaves
  <2> QED BY <2>1, SilentUser, NothingAsked
<1> QED BY <1>1, <1>2

LEMMA AsksAsked ==
  ASSUME UserOK, Asks, WidgetIdle, Awaits("asking"), First.kind \notin {"change", "overwrite"}
  PROVE  UserOK' /\ Asked'
<1>1. hist' = hist /\ First' = First /\ dialog' = "asking"
  BY DEF WidgetIdle, historyVars, Awaits, First
<1> QED BY <1>1, AsksUser DEF Asked, Modified

LEMMA AskChangeAsked ==
  ASSUME EditorInv, UserOK, flows # <<>>, NEW p \in Paths, NEW kind, AskChange(p, kind)
  PROVE  UserOK' /\ Asked'
<1>1. hist' = hist /\ dialog' = "asking" BY DEF AskChange, historyVars
<1>2. First'.path = p
  <2>1. /\ flows \in Seq(FlowRecord) /\ Len(flows) >= 1 /\ flows[1] \in FlowRecord
    BY DEF EditorInv, FlowsOK
  <2> QED BY <2>1 DEF AskChange, First, FlowRecord
<1>3. UserOK' /\ user'.warned = Modified(hist) /\ p \in user'.told
  BY AsksAboutUser DEF AskChange
<1> QED BY <1>1, <1>2, <1>3 DEF Asked, Modified

LEMMA BeginAsked == ASSUME EditorInv, UserOK, Asked, Begin PROVE UserOK' /\ Asked'
<1>1. flows # <<>> /\ First.path \in Paths /\ w.path \in Paths
  BY FlowsParts, WidgetType DEF Begin, EditorInv
<1>2. ASSUME Leaves(<<>>), Silent PROVE UserOK' /\ Asked'
  BY <1>2, SilentUser, NothingAsked DEF Leaves
<1>3. CASE BeginClose
  <2>1. CASE w.saving
    <3>1. Silent /\ Awaits("saving") /\ First.kind = "close" BY <1>3, <2>1 DEF BeginClose
    <3>2. First' = First /\ dialog' = "saving" BY <3>1 DEF Awaits, First
    <3> QED BY <3>1, <3>2, SilentUser DEF Asked
  <2> QED BY <1>3, <2>1, DecideCloseAsked DEF BeginClose
<1>4. CASE BeginChange BY <1>1, <1>2, <1>4, AskChangeAsked DEF BeginChange
<1>5. CASE BeginOpen BY <1>2, <1>5, AsksAsked DEF BeginOpen
<1>6. CASE BeginDialog BY <1>6, AsksAsked DEF BeginDialog
<1>7. CASE BeginOverwrite
  <2>1. hist' = hist /\ First' = First /\ dialog' = "asking" /\ AsksAbout(First.path)
    BY <1>7 DEF BeginOverwrite, WidgetIdle, historyVars, Awaits, First
  <2>2. UserOK' /\ user'.warned = Modified(hist) /\ user'.told = user.told \cup {First.path}
    BY <1>1, <2>1, AsksAboutUser
  <2> QED BY <2>1, <2>2 DEF Asked, Modified
<1>8. CASE BeginFailure
  <2>1. First' = First /\ First.kind = "failure" /\ dialog' = "asking" /\ Silent
    BY <1>8 DEF BeginFailure, Awaits, First
  <2> QED BY <2>1, SilentUser DEF Asked
<1> QED BY <1>3, <1>4, <1>5, <1>6, <1>7, <1>8 DEF Begin

LEMMA AnswersAsked == ASSUME UserOK, Answers PROVE UserOK' /\ Asked' /\ user'.told = user.told
<1>1. dialog' = "none"
  BY DEF Answers, Declines, ChoosesTarget, SaysOverwrite, SaysSaveAs, SaysReload, SaysClose,
         SaysOpen, Opens, CannotOpen, Acknowledges, Close, Leaves
<1>2. Says
  BY DEF Answers, Declines, ChoosesTarget, SaysOverwrite, SaysSaveAs, SaysReload, SaysClose,
         SaysOpen, Acknowledges
<1> QED BY <1>1, <1>2, SaysUser, NothingAsked

LEMMA EndsUnmodified ==
  ASSUME EditorInv, ThreadEnds PROVE hist' = hist \/ ~Modified(hist)'
<1>1. hist' = hist \/ hist' = MarkSaved(hist) \/ hist' = NewHistory
  BY DEF ThreadEnds, FinishSave, RebaseSucceeds, FailsBeforeSwap, FailsAfterSwap,
         NothingWritten, Saved, Loaded, historyVars
<1>2. MarkSaved(hist).at = MarkSaved(hist).saved
  <2>1. hist \in [undo : Seq(Batch), redo : Seq(Batch), at : Nat \X Nat,
                  next : Nat, saved : Nat \X Nat, ended : BOOLEAN]
    BY TextsNamed DEF EditorInv, HistoryTypeOK
  <2> QED BY <2>1 DEF MarkSaved
<1> QED BY <1>1, <1>2 DEF Modified, NewHistory

LEMMA NextAsked == EditorInv /\ UserOK /\ Asked /\ [Next]_vars => UserOK' /\ Asked'
<1> SUFFICES ASSUME EditorInv, UserOK, Asked, [Next]_vars PROVE UserOK' /\ Asked' OBVIOUS
<1>1. ASSUME Silent, hist' = hist, FrontStays PROVE UserOK' /\ Asked'
  BY <1>1, SilentUser, StillAsked
<1>2. ScreenIdle => FrontStays BY DEF ScreenIdle, First, FrontStays
<1>3. CASE Commands
  <2>1. dialog # "asking" /\ Silent
    BY <1>3 DEF Commands, ActionSave, ActionSaveAs, ActionReload, ActionCancelSave, ActionOpen,
                RequestClose, Keys, Given, Heeded
  <2> QED BY <1>3, <2>1, CommandsFront, SilentUser DEF FrontStays, Asked
<1>4. CASE Begin BY <1>4, BeginAsked
<1>5. CASE Waited
  <2>1. First.kind = "close" BY <1>5 DEF Waited, Asked
  <2>2. CASE w.saving BY <1>5, <2>1, <2>2, AsksAsked DEF Waited
  <2> QED BY <1>5, <2>1, <2>2, DecideCloseAsked DEF Waited
<1>6. CASE Answers BY <1>6, AnswersAsked
<1>7. CASE Handle BY <1>1, <1>7, HandleFront DEF Handle
<1>8. CASE Types
  <2>1. dialog # "asking" /\ Silent /\ FrontStays BY <1>2, <1>8 DEF Types
  <2> QED BY <2>1, SilentUser DEF FrontStays, Asked
<1>9. CASE Thread
  <2>1. hist' = hist /\ FrontStays BY <1>2, <1>9 DEF Thread, SaveThread, historyVars
  <2> QED BY <1>9, <2>1, ThreadUser, StillAsked
<1>10. CASE ThreadEnds
  <2>1. FrontStays /\ Silent BY <1>2, <1>10 DEF ThreadEnds
  <2>2. CASE ~Modified(hist)' BY <2>1, <2>2, SilentUser DEF Asked, FrontStays
  <2> QED BY <1>1, <1>10, <2>1, <2>2, EndsUnmodified
<1>11. CASE Notices
  <2>1. hist' = hist
    BY <1>11 DEF Notices, Render, PollBegins, PollRuns, PollApplied, historyVars
  <2> QED BY <1>1, <1>2, <1>11, <2>1 DEF Notices
<1>12. CASE Elsewhere
  <2>1. hist' = hist /\ FrontStays BY <1>2, <1>12 DEF Elsewhere, Others, historyVars
  <2>2. UserOK' /\ user'.warned = user.warned
        /\ (TooLate => user.told \subseteq user'.told)
    BY <1>12, ElsewhereUser
  <2> QED BY <2>1, <2>2, StillAsked DEF TooLate
<1>13. CASE UNCHANGED vars
  BY <1>13 DEF vars, screenVars, historyVars, First, Asked, UserOK, Modified
<1> QED
  BY <1>3, <1>4, <1>5, <1>6, <1>7, <1>8, <1>9, <1>10, <1>11, <1>12, <1>13 DEF Next

-------------------------------------------------------------------------------
\* The steps of the widget.

\* A kind the widget comes to know of is that of the file there is.
Seen(kind) ==
  kind # "unchanged" /\ w.stale = "unchanged" => KindOf(disk[w.path], w.held) # "unchanged"

\* What the steps of the screen come to for the widget.
Finds ==
  \E kind \in Kinds :
    Seen(kind) /\ w' = WithKind(kind) /\ UNCHANGED <<historyVars, jobVars, diskVars, check>>

Polls == PollBegins \/ PollRuns \/ PollApplied

Loads == Reload \/ \E p \in Paths : disk[p] # Absent /\ OpenInstead(p)

SavesTold(p, overwrite) == Save(p, overwrite) /\ (overwrite => p \in user.told)

WidgetNext ==
  \/ Finds \/ Polls
  \/ SaveThread \/ FinishSave
  \/ ~w.saving /\ ~w.closed /\ Loads
  \/ CloseWidget /\ dialog' = "none"
  \/ CancelSave /\ UNCHANGED <<historyVars, w, diskVars, check>>
  \/ (Type \/ Undoes \/ Redoes \/ EndBatch) /\ WidgetStays
  \/ \E p \in Paths, overwrite \in BOOLEAN : SavesTold(p, overwrite)
  \/ Elsewhere

LEMMA Unnoticed == "unchanged" \in Kinds /\ WithKind("unchanged") = w /\ Seen("unchanged")
BY DEF Kinds, WithKind, Seen

LEMMA IdleWidget == WidgetIdle => WidgetNext
BY Unnoticed DEF WidgetIdle, WidgetNext, Finds

LEMMA ExternalSeen == Seen(ExternalKind)
BY DEF Seen, ExternalKind

LEMMA CommandsWidget == ASSUME EditorInv, Commands PROVE WidgetNext
<1>1. w.path \in Paths BY WidgetType DEF EditorInv
<1>2. CASE ActionSave
  BY <1>1, <1>2 DEF ActionSave, Given, Heeded, WidgetNext, SavesTold
<1>3. CASE ActionReload
  BY <1>3, IdleWidget DEF ActionReload, Given, Heeded, WidgetNext, Loads
<1>4. CASE ActionCancelSave BY <1>4 DEF ActionCancelSave, WidgetNext
<1>5. CASE Keys BY <1>5 DEF Keys, WidgetNext
<1> QED
  BY <1>2, <1>3, <1>4, <1>5, IdleWidget
  DEF Commands, ActionSaveAs, ActionOpen, RequestClose

LEMMA DecideCloseWidget == DecideClose => WidgetNext
BY IdleWidget DEF DecideClose, Close, Leaves, WidgetNext

LEMMA AskChangeWidget ==
  ASSUME NEW p, NEW kind \in Kinds, Seen(kind), AskChange(p, kind) PROVE WidgetNext
BY DEF AskChange, WidgetNext, Finds

LEMMA BeginWidget == ASSUME EditorInv, Begin PROVE WidgetNext
<1>1. CASE BeginClose BY <1>1, DecideCloseWidget DEF BeginClose, WidgetNext
<1>2. CASE BeginChange
  <2>1. ExternalKind \in Kinds BY ExternalKindType DEF EditorInv
  <2> QED BY <1>2, <2>1, Unnoticed, ExternalSeen, AskChangeWidget, IdleWidget DEF BeginChange
<1> QED
  BY <1>1, <1>2, IdleWidget DEF Begin, BeginOpen, BeginDialog, BeginOverwrite, BeginFailure

LEMMA RecheckWidget ==
  ASSUME WidgetOK, NEW committed, NEW left, NEW messages, Recheck(committed, left, messages)
  PROVE  WidgetNext
<1> DEFINE kind == IF deferred /\ ~committed /\ ~w.saving THEN ExternalKind ELSE "unchanged"
<1>1. kind \in Kinds /\ Seen(kind) BY ExternalKindType, ExternalSeen, Unnoticed
<1>2. w' = WithKind(kind) /\ UNCHANGED <<historyVars, jobVars, diskVars, check>> BY DEF Recheck
<1> QED BY <1>1, <1>2 DEF WidgetNext, Finds

LEMMA AnswersWidget == ASSUME EditorInv, FrontInv, Answers PROVE WidgetNext
<1>1. dialog = "asking" /\ ~w.closed
  BY DEF Answers, Declines, ChoosesTarget, SaysOverwrite, SaysSaveAs, SaysReload, SaysClose,
         SaysOpen, Acknowledges, Answering, FrontInv, OverWhenClosed
<1>2. CASE ChoosesTarget BY <1>1, <1>2 DEF ChoosesTarget, WidgetNext, SavesTold
<1>3. CASE SaysOverwrite
  <2>1. First.path \in Paths BY <1>1, FlowsParts DEF EditorInv
  <2>2. First.path \in user.told
    BY <1>1, <1>3 DEF SaysOverwrite, Answering, FrontInv, Asked
  <2> QED BY <1>1, <1>3, <2>1, <2>2 DEF SaysOverwrite, WidgetNext, SavesTold
<1>4. CASE SaysReload BY <1>1, <1>4, IdleWidget DEF SaysReload, WidgetNext, Loads
<1>5. CASE SaysClose BY <1>5 DEF SaysClose, Close, Leaves, WidgetNext
<1>6. CASE SaysOpen
  BY <1>1, <1>6, IdleWidget DEF SaysOpen, Opens, CannotOpen, WidgetNext, Loads
<1>7. CASE Acknowledges
  <2>1. WidgetOK BY DEF EditorInv
  <2> QED BY <1>7, <2>1, RecheckWidget, IdleWidget DEF Acknowledges
<1> QED
  BY <1>2, <1>3, <1>4, <1>5, <1>6, <1>7, IdleWidget DEF Answers, Declines, SaysSaveAs

LEMMA HandleWidget == ASSUME EditorInv, Handle PROVE WidgetNext
<1>1. CASE OnSaveCancelled BY <1>1, RecheckWidget DEF OnSaveCancelled, EditorInv
<1>2. CASE Taken BY <1>2, Unnoticed DEF Taken, WidgetNext, Finds
<1> QED
  BY <1>1, <1>2
  DEF Handle, Ignored, OnSaved, OnSaveFailed, OnSaveNeedsConfirmation, OnSourceChanged,
      OnReloadFailed

LEMMA NoticesWidget == ASSUME EditorInv, Notices PROVE WidgetNext
<1>1. CASE Render
  <2>1. "modified" \in Kinds /\ WithKind("modified") = FailSource(w, "modified")
    BY DEF Kinds, WithKind
  <2>2. Seen("modified") BY <1>1 DEF Render, Seen
  <2> QED BY <1>1, <2>1, <2>2 DEF Render, WidgetNext, Finds
<1> QED BY <1>1 DEF Notices, WidgetNext, Polls

LEMMA NextWidget == ASSUME EditorInv, FrontInv, Next PROVE WidgetNext
<1>1. CASE Waited BY <1>1, DecideCloseWidget, IdleWidget DEF Waited
<1>2. CASE Elsewhere BY <1>2 DEF WidgetNext
<1>3. CASE Types \/ Thread \/ ThreadEnds
  BY <1>3 DEF Types, Thread, ThreadEnds, WidgetNext
<1> QED
  BY <1>1, <1>2, <1>3, CommandsWidget, BeginWidget, AnswersWidget, HandleWidget,
     NoticesWidget
  DEF Next

\* Steps that keep the document: all but closing, reloading and opening.
Keeps == w'.closed = w.closed /\ w'.doc = w.doc

LEMMA FoundOutKeeps ==
  ASSUME WidgetOK, NEW kind
  PROVE  LET v == WithKind(kind)
         IN  v.closed = w.closed /\ v.doc = w.doc
BY DEF WidgetOK, WidgetRecord, WithKind, FailSource

LEMMA EndedKeeps ==
  ASSUME WidgetOK PROVE Ended(w).closed = w.closed /\ Ended(w).doc = w.doc
BY DEF WidgetOK, WidgetRecord, Ended

LEMMA RebasedKeeps ==
  ASSUME WidgetOK, NEW v \in {Rebased, [Rebased EXCEPT !.stale = w.stale, !.locks = Ended(w).locks]}
  PROVE  v.closed = w.closed /\ v.doc = w.doc
<1> DEFINE file == [ino |-> job.ino, content |-> job.content, flushed |-> TRUE]
           e == Ended(w)
           r == [e EXCEPT !.path = job.target, !.base = job.content.base, !.large = TRUE,
                          !.held = file, !.stale = "unchanged", !.locks = @ \ {Stale}]
<1>1. e \in WidgetRecord /\ e.closed = w.closed /\ e.doc = w.doc BY EndedType, EndedKeeps
<1>2. v \in {r, [r EXCEPT !.stale = w.stale, !.locks = e.locks]} BY DEF Rebased
<1> HIDE DEF file, e
<1>3. r.closed = e.closed /\ r.doc = e.doc BY <1>1 DEF WidgetRecord
<1>4. v.closed = r.closed /\ v.doc = r.doc BY <1>1, <1>2 DEF WidgetRecord
<1> QED BY <1>1, <1>3, <1>4

LEMMA SaveKeeps ==
  ASSUME WidgetOK, NEW p, NEW overwrite, Save(p, overwrite) PROVE Keeps
<1>1. CASE UNCHANGED w BY <1>1 DEF Keeps
<1>2. CASE AskConsent(p) BY <1>2, FoundOutKeeps DEF AskConsent, Keeps
<1>3. CASE StartSave(p)
  <2> DEFINE v == WithKind(Origin)
  <2>1. v \in WidgetRecord /\ v.closed = w.closed /\ v.doc = w.doc
    BY OriginType, FailSourceType, FoundOutKeeps
  <2>2. w' = [v EXCEPT !.saving = TRUE, !.locks = @ \cup {"saving"}, !.epoch = @ + 1]
    BY <1>3 DEF StartSave
  <2> HIDE DEF v
  <2> QED BY <2>1, <2>2 DEF Keeps, WidgetRecord
<1> QED BY <1>1, <1>2, <1>3 DEF Save

LEMMA FinishKeepsDocument == ASSUME WidgetOK, FinishSave PROVE Keeps
<1>1. w' = Ended(w) \/ w' \in {Rebased, [Rebased EXCEPT !.stale = w.stale, !.locks = Ended(w).locks]}
  BY DEF FinishSave, RebaseSucceeds, FailsBeforeSwap, FailsAfterSwap, NothingWritten
<1> QED BY <1>1, EndedKeeps, RebasedKeeps DEF Keeps

LEMMA PollsKeep == ASSUME WidgetOK, Polls PROVE Keeps
BY FoundOutKeeps DEF Polls, PollBegins, PollRuns, PollApplied, Keeps

LEMMA CloseEnds == ASSUME WidgetOK, CloseWidget PROVE ~w'.saving
<1> DEFINE e == Ended(w)
<1>1. e \in WidgetRecord /\ ~e.saving /\ w' = [e EXCEPT !.closed = TRUE]
  BY EndedType DEF CloseWidget
<1> HIDE DEF e
<1> QED BY <1>1 DEF WidgetRecord

LEMMA LoadsOpen == ASSUME EditorInv, ~w.closed, Loads PROVE ~w'.closed
<1>1. WidgetOK BY DEF EditorInv
<1>2. CASE Reload
  <2>1. CASE disk[w.path] = Absent BY <1>2, <2>1 DEF Reload
  <2>2. CASE disk[w.path] # Absent
    <3> DEFINE v == Opened(w.path, disk[w.path], w.view, w.doc + 1)
    <3>1. w' = [v EXCEPT !.epoch = w.epoch] BY <1>2, <2>2 DEF Reload
    <3>2. w.path \in Paths /\ w.view \in Nat /\ w.doc + 1 \in Nat BY <1>1, WidgetType
    <3>3. disk[w.path] \in File BY <2>2, <3>2, DiskFile DEF EditorInv
    <3>4. v \in WidgetRecord /\ ~v.closed BY <3>2, <3>3, OpenedType DEF Opened
    <3> HIDE DEF v
    <3> QED BY <3>1, <3>4 DEF WidgetRecord
  <2> QED BY <2>1, <2>2
<1> QED BY <1>2 DEF Loads, OpenInstead, Opened

LEMMA NextOver == EditorInv /\ FrontInv /\ [Next]_vars => OverWhenClosed'
<1> SUFFICES ASSUME EditorInv, FrontInv, [Next]_vars PROVE OverWhenClosed' OBVIOUS
<1>1. WidgetOK /\ OverWhenClosed BY DEF EditorInv, FrontInv
<1>2. CASE UNCHANGED vars BY <1>1, <1>2 DEF vars, screenVars, OverWhenClosed
<1>3. CASE Next /\ w.closed
  <2>1. dialog = "none" /\ ~w.saving BY <1>1, <1>3 DEF OverWhenClosed
  <2>2. Thread \/ Notices
    BY <1>3, <2>1
    DEF Next, Commands, ActionSave, ActionSaveAs, ActionReload, ActionCancelSave, ActionOpen,
        RequestClose, Keys, Given, Heeded, Begin, Waited, Answers, Declines, ChoosesTarget,
        SaysOverwrite, SaysSaveAs, SaysReload, SaysClose, SaysOpen, Acknowledges, Answering,
        Handle, Types, ThreadEnds, FinishSave, Elsewhere
  <2>3. dialog' = dialog BY <2>2 DEF Thread, Notices, ScreenIdle
  <2>4. w'.saving = w.saving
    <3>1. CASE PollApplied
      <4> DEFINE kind == IF Applies(check) THEN check.kind ELSE "unchanged"
      <4>1. kind = "unchanged" BY <1>3 DEF Applies
      <4>2. w' = WithKind(kind) BY <3>1 DEF PollApplied
      <4> QED BY <4>1, <4>2, Unnoticed
    <3> QED
      BY <1>3, <2>2, <3>1 DEF Thread, SaveThread, Notices, Render, PollBegins, PollRuns
  <2> QED BY <2>1, <2>3, <2>4 DEF OverWhenClosed
<1>4. CASE Next /\ ~w.closed
  <2> SUFFICES ASSUME w'.closed PROVE CloseWidget /\ dialog' = "none"
    BY <1>1, CloseEnds DEF OverWhenClosed
  <2>1. WidgetNext BY <1>4, NextWidget
  <2>2. ~Keeps BY <1>4 DEF Keeps
  <2>3. ~Finds BY <1>1, <2>2, FoundOutKeeps DEF Finds, Keeps
  <2>4. ~Polls BY <1>1, <2>2, PollsKeep
  <2>5. ~SaveThread /\ ~WidgetStays /\ UNCHANGED w => FALSE BY <2>2 DEF Keeps
  <2>6. ~FinishSave BY <1>1, <2>2, FinishKeepsDocument
  <2>7. ~Loads BY <1>4, LoadsOpen
  <2>8. \A p, overwrite : ~SavesTold(p, overwrite) BY <1>1, <2>2, SaveKeeps DEF SavesTold
  <2> QED
    BY <2>1, <2>2, <2>3, <2>4, <2>6, <2>7, <2>8
    DEF WidgetNext, SaveThread, WidgetStays, Elsewhere, Others, Keeps
<1> QED BY <1>2, <1>3, <1>4

LEMMA InitFront == ScreenInit => FrontInv
BY InitAsked DEF FrontInv, OverWhenClosed, ScreenInit, WidgetInit, Opened

\* What the user was asked and told, and what is left of a widget that was closed.
LEMMA FrontHolds == Spec => []FrontInv
<1>1. EditorInv /\ FrontInv /\ [Next]_vars => FrontInv' BY NextAsked, NextOver DEF FrontInv
<1> QED BY <1>1, InitFront, InvariantHolds, PTL DEF Spec

-------------------------------------------------------------------------------
\* An unmodified document is the file it holds.

\* The file held is the saved text; while a save runs nobody edits, so that the
\* bytes it wrote are those of the text it marks as saved.
HeldMatches == w.held.content.base = w.base /\ w.held.content.text = savedText

Wrote(j) ==
  j.pc \in {"flush", "replace", "commit", "finish"} \/ (j.pc = "ended" /\ j.outcome = "saved")

SaveMatches ==
  w.saving => "saving" \in w.locks /\ (Wrote(job) => job.content.text = text)

DocumentInv == HeldMatches /\ SaveMatches

LEMMA InitDocument == ScreenInit => DocumentInv
<1> SUFFICES ASSUME ScreenInit PROVE DocumentInv OBVIOUS
<1>1. savedText = Pristine BY DEF ScreenInit, WidgetInit, HistoryInit
<1>2. disk[Start] = [ino |-> 1, content |-> [base |-> 0, text |-> Pristine], flushed |-> TRUE]
  BY StartAssumption DEF ScreenInit, WidgetInit, DiskInit
<1>3. w = Opened(Start, disk[Start], 0, 0) BY DEF ScreenInit, WidgetInit
<1> QED BY <1>1, <1>2, <1>3 DEF DocumentInv, HeldMatches, SaveMatches, Opened

\* A widget that only finds out about its file holds the same one.
LEMMA FoundOutHolds ==
  ASSUME WidgetOK, NEW kind \in Kinds
  PROVE  LET v == WithKind(kind)
         IN  v.held = w.held /\ v.base = w.base /\ v.saving = w.saving /\ w.locks \subseteq v.locks
BY DEF WidgetOK, WidgetRecord, WithKind, FailSource

LEMMA FoundOutDocument ==
  ASSUME EditorInv, DocumentInv, NEW kind \in Kinds, w' = WithKind(kind),
         UNCHANGED <<historyVars, jobVars>>
  PROVE  DocumentInv'
BY FoundOutHolds DEF EditorInv, DocumentInv, HeldMatches, SaveMatches, Wrote, historyVars, jobVars

LEMMA EndsWrites ==
  ASSUME job \in JobRecord, NEW outcome, Ends(outcome),
         outcome = "saved" => job.pc = "finish"
  PROVE  job'.content = job.content /\ (Wrote(job') => Wrote(job))
<1>1. job'.content = job.content /\ job'.pc = "ended" /\ job'.outcome = outcome
  BY DEF Ends, JobRecord
<1> QED BY <1>1 DEF Wrote

LEMMA ThreadWrites ==
  ASSUME EditorInv, SaveThread
  PROVE  Wrote(job)' => (Wrote(job) /\ job'.content = job.content) \/ job'.content.text = text
<1>1. job \in JobRecord BY JobRecordType DEF EditorInv
<1>2. CASE WriteDocument
  <2>1. job'.content = ReadBy(job) BY <1>1, <1>2 DEF WriteDocument, WriteChunks, JobRecord
  <2>2. ReadBy(job).text = text
    <3>1. Shows.text = text BY DEF Shows
    <3>2. [Shows EXCEPT !.base = disk[w.path].content.base].text = text BY DEF Shows
    <3> QED BY <3>1, <3>2 DEF ReadBy
  <2> QED BY <2>1, <2>2
<1>3. CASE Prepare BY <1>1, <1>3 DEF Prepare, Steps, Wrote, JobRecord
<1>4. CASE Flush BY <1>1, <1>4 DEF Flush, Steps, Wrote, JobRecord
<1>5. CASE Replace
  <2>1. job.pc = "replace" /\ job'.content = job.content
    BY <1>1, <1>5 DEF Replace, Publishes, JobRecord
  <2> QED BY <2>1 DEF Wrote
<1>6. CASE Commit BY <1>1, <1>6 DEF Commit, Wrote, JobRecord
<1>7. CASE Finish BY <1>1, <1>7, EndsWrites DEF Finish
<1>8. CASE Failing BY <1>1, <1>8, EndsWrites DEF Failing, Fails
<1>9. CASE Stopping BY <1>1, <1>9, EndsWrites DEF Stopping, Stops
<1> QED BY <1>2, <1>3, <1>4, <1>5, <1>6, <1>7, <1>8, <1>9 DEF SaveThread

LEMMA ThreadDocument == ASSUME EditorInv, DocumentInv, SaveThread PROVE DocumentInv'
BY ThreadWrites DEF SaveThread, DocumentInv, HeldMatches, SaveMatches, historyVars

LEMMA EndedHolds ==
  ASSUME WidgetOK
  PROVE  Ended(w).held = w.held /\ Ended(w).base = w.base /\ ~Ended(w).saving
BY DEF WidgetOK, WidgetRecord, Ended

LEMMA RebasedHolds ==
  ASSUME WidgetOK, NEW v \in {Rebased, [Rebased EXCEPT !.stale = w.stale, !.locks = Ended(w).locks]}
  PROVE  v.held.content = job.content /\ v.base = job.content.base /\ ~v.saving
<1> DEFINE file == [ino |-> job.ino, content |-> job.content, flushed |-> TRUE]
           e == Ended(w)
           r == [e EXCEPT !.path = job.target, !.base = job.content.base, !.large = TRUE,
                          !.held = file, !.stale = "unchanged", !.locks = @ \ {Stale}]
<1>1. e \in WidgetRecord /\ ~e.saving BY EndedType
<1>2. v \in {r, [r EXCEPT !.stale = w.stale, !.locks = e.locks]} BY DEF Rebased
<1>3. file.content = job.content OBVIOUS
<1> HIDE DEF file, e
<1>4. r.held = file /\ r.base = job.content.base /\ ~r.saving BY <1>1 DEF WidgetRecord
<1>5. v.held = r.held /\ v.base = r.base /\ v.saving = r.saving BY <1>1, <1>2 DEF WidgetRecord
<1> QED BY <1>3, <1>4, <1>5

LEMMA FinishDocument == ASSUME EditorInv, DocumentInv, FinishSave PROVE DocumentInv'
<1>1. WidgetOK /\ w.saving /\ job.pc = "ended" BY DEF EditorInv, FinishSave
<1>2. ~w'.saving => SaveMatches' BY DEF SaveMatches
<1>3. ASSUME NEW v, w' = v, v.held.content = job.content, v.base = job.content.base, ~v.saving,
             job.outcome = "saved", savedText' = text
      PROVE  DocumentInv'
  <2>1. job.content.text = text BY <1>1, <1>3 DEF DocumentInv, SaveMatches, Wrote
  <2> QED BY <1>2, <1>3, <2>1 DEF DocumentInv, HeldMatches
<1>4. ASSUME w' = Ended(w), UNCHANGED historyVars PROVE DocumentInv'
  BY <1>1, <1>2, <1>4, EndedHolds DEF DocumentInv, HeldMatches, historyVars
<1>5. CASE job.outcome # "saved"
  BY <1>4, <1>5 DEF FinishSave, NothingWritten
<1>6. CASE job.outcome = "saved" /\ FailsBeforeSwap
  BY <1>4, <1>6 DEF FailsBeforeSwap
<1>7. CASE job.outcome = "saved" /\ RebaseSucceeds
  <2>1. w' = Rebased /\ savedText' = text BY <1>7 DEF RebaseSucceeds, Saved, Loaded
  <2> QED BY <1>1, <1>3, <1>7, <2>1, RebasedHolds
<1>8. CASE job.outcome = "saved" /\ FailsAfterSwap
  <2>1. savedText' = text BY <1>8 DEF FailsAfterSwap, Loaded
  <2>2. w' \in {Rebased, [Rebased EXCEPT !.stale = w.stale, !.locks = Ended(w).locks]}
    BY <1>8 DEF FailsAfterSwap
  <2> QED BY <1>1, <1>3, <1>8, <2>1, <2>2, RebasedHolds
<1> QED BY <1>5, <1>6, <1>7, <1>8 DEF FinishSave

LEMMA OpenedMatches ==
  ASSUME NEW p, NEW file, NEW view, NEW doc, savedText' = file.content.text
  PROVE  LET v == Opened(p, file, view, doc)
         IN  /\ v.held.content.base = v.base /\ v.held.content.text = savedText'
             /\ ~v.saving
BY DEF Opened

LEMMA ReloadDocument == ASSUME EditorInv, DocumentInv, Reload PROVE DocumentInv'
<1>1. CASE disk[w.path] = Absent
  <2>1. UNCHANGED <<w, historyVars, jobVars>> BY <1>1 DEF Reload
  <2> QED BY <2>1, Unnoticed, FoundOutDocument
<1>2. CASE disk[w.path] # Absent
  <2> DEFINE v == Opened(w.path, disk[w.path], w.view, w.doc + 1)
  <2>1. /\ w' = [v EXCEPT !.epoch = w.epoch] /\ savedText' = disk[w.path].content.text
    BY <1>2 DEF Reload, Loaded
  <2>2. w.path \in Paths /\ w.view \in Nat /\ w.doc + 1 \in Nat BY WidgetType DEF EditorInv
  <2>3. disk[w.path] \in File BY <1>2, <2>2, DiskFile DEF EditorInv
  <2>4. v \in WidgetRecord BY <2>2, <2>3, OpenedType
  <2>5. v.held.content.base = v.base /\ v.held.content.text = savedText' /\ ~v.saving
    BY <2>1, OpenedMatches
  <2> HIDE DEF v
  <2>6. w'.held = v.held /\ w'.base = v.base /\ w'.saving = v.saving
    BY <2>1, <2>4 DEF WidgetRecord
  <2> QED BY <2>5, <2>6 DEF DocumentInv, HeldMatches, SaveMatches
<1> QED BY <1>1, <1>2

LEMMA OpenInsteadDocument == ASSUME NEW p, OpenInstead(p) PROVE DocumentInv'
<1>1. savedText' = disk[p].content.text BY DEF OpenInstead, Loaded
<1>2. w' = Opened(p, disk[p], w.view + 1, w.doc + 1) BY DEF OpenInstead
<1> QED BY <1>1, <1>2, OpenedMatches DEF DocumentInv, HeldMatches, SaveMatches

LEMMA CloseDocument == ASSUME EditorInv, DocumentInv, CloseWidget PROVE DocumentInv'
<1> DEFINE e == Ended(w)
<1>1. e \in WidgetRecord /\ e.held = w.held /\ e.base = w.base /\ ~e.saving
  BY EndedType, EndedHolds DEF EditorInv
<1>2. w' = [e EXCEPT !.closed = TRUE] BY DEF CloseWidget
<1> HIDE DEF e
<1>3. w'.held = w.held /\ w'.base = w.base /\ ~w'.saving BY <1>1, <1>2 DEF WidgetRecord
<1>4. savedText' = savedText BY DEF CloseWidget, historyVars
<1> QED BY <1>3, <1>4 DEF DocumentInv, HeldMatches, SaveMatches

LEMMA CancelDocument ==
  ASSUME EditorInv, DocumentInv, CancelSave, UNCHANGED <<historyVars, w>> PROVE DocumentInv'
<1>1. job \in JobRecord BY JobRecordType DEF EditorInv
<1>2. job'.pc = job.pc /\ job'.content = job.content /\ job'.outcome = job.outcome
  BY <1>1 DEF CancelSave, JobRecord
<1> QED BY <1>2 DEF DocumentInv, HeldMatches, SaveMatches, Wrote, historyVars

LEMMA EditDocument ==
  ASSUME EditorInv, DocumentInv, Type \/ Undoes \/ Redoes \/ EndBatch, WidgetStays
  PROVE  DocumentInv'
<1>1. UNCHANGED savedText /\ (w.locks = {} \/ UNCHANGED text)
  BY DEF Type, Undoes, Redoes, EndBatch, Edit, Undo, Redo, UndoRefused, RedoRefused
<1> QED BY <1>1 DEF DocumentInv, HeldMatches, SaveMatches, WidgetStays, Wrote, jobVars

LEMMA SaveDocument ==
  ASSUME EditorInv, DocumentInv, NEW p \in Paths, NEW overwrite \in BOOLEAN, Save(p, overwrite)
  PROVE  DocumentInv'
<1>1. Origin \in Kinds BY OriginType DEF EditorInv
<1>2. CASE UNCHANGED <<w, posted, ForSave>>
  BY <1>2, Unnoticed, FoundOutDocument DEF ForSave, historyVars, jobVars
<1>3. CASE AskConsent(p)
  BY <1>1, <1>3, FoundOutDocument DEF AskConsent, ForSave, historyVars, jobVars
<1>4. CASE StartSave(p)
  <2> DEFINE v == WithKind(Origin)
  <2>1. v \in WidgetRecord /\ v.held = w.held /\ v.base = w.base
    BY <1>1, FailSourceType, FoundOutHolds DEF EditorInv
  <2>2. w' = [v EXCEPT !.saving = TRUE, !.locks = @ \cup {"saving"}, !.epoch = @ + 1]
    BY <1>4 DEF StartSave
  <2> HIDE DEF v
  <2>3. w'.held = v.held /\ w'.base = v.base /\ w'.locks = v.locks \cup {"saving"}
    BY <2>1, <2>2 DEF WidgetRecord
  <2>4. job'.pc = "prepare" /\ UNCHANGED savedText BY <1>4 DEF StartSave, NoJob
  <2> QED BY <2>1, <2>3, <2>4 DEF DocumentInv, HeldMatches, SaveMatches, Wrote
<1> QED BY <1>2, <1>3, <1>4 DEF Save

LEMMA NextDocument == EditorInv /\ FrontInv /\ DocumentInv /\ [Next]_vars => DocumentInv'
<1> SUFFICES ASSUME EditorInv, FrontInv, DocumentInv, [Next]_vars PROVE DocumentInv' OBVIOUS
<1>1. CASE UNCHANGED vars
  BY <1>1, Unnoticed, FoundOutDocument DEF vars
<1>2. CASE Next
  <2>1. WidgetNext BY <1>2, NextWidget
  <2>2. CASE Finds BY <2>2, FoundOutDocument DEF Finds
  <2>3. CASE Polls
    <3>1. CASE PollApplied
      <4> DEFINE kind == IF Applies(check) THEN check.kind ELSE "unchanged"
      <4>1. check \in CheckRecord /\ check.kind # "pending"
        BY <3>1 DEF PollApplied, EditorInv, CheckOK, NoCheck
      <4>2. check.kind \in Kinds BY <4>1 DEF CheckRecord
      <4>3. kind \in Kinds BY <4>2, Unnoticed
      <4>4. w' = WithKind(kind) /\ UNCHANGED <<historyVars, jobVars>> BY <3>1 DEF PollApplied
      <4> QED BY <4>3, <4>4, FoundOutDocument
    <3> QED BY <2>3, <3>1, Unnoticed, FoundOutDocument DEF Polls, PollBegins, PollRuns
  <2>4. CASE Elsewhere BY <2>4, Unnoticed, FoundOutDocument DEF Elsewhere, Others
  <2> QED
    BY <2>1, <2>2, <2>3, <2>4, ThreadDocument, FinishDocument, ReloadDocument,
       CloseDocument, CancelDocument, EditDocument, SaveDocument, OpenInsteadDocument
    DEF WidgetNext, Loads, SavesTold
<1> QED BY <1>1, <1>2

LEMMA DocumentHolds == Spec => []DocumentInv
BY InitDocument, NextDocument, FrontHolds, InvariantHolds, PTL DEF Spec

\* A document that counts as unmodified is byte for byte the version of the file it
\* holds, for any size of the history, any paths, and any number of other programs'
\* changes (_close_flow, EditHistory.modified, _conclude_save).
THEOREM UnmodifiedIsTheFile == Spec => []UnmodifiedIsOnDisk
<1>1. EditorInv /\ DocumentInv => UnmodifiedIsOnDisk
  <2> SUFFICES ASSUME EditorInv, DocumentInv, ~Modified(hist) PROVE w.held.content = Shows
    BY DEF UnmodifiedIsOnDisk
  <2>1. text = savedText
    BY DEF EditorInv, PairsNameTexts, Modified
  <2> DEFINE c == w.held.content
  <2>2. c \in Contents BY WidgetType, ContentType DEF EditorInv
  <2>3. c.base = w.base /\ c.text = text BY <2>1 DEF DocumentInv, HeldMatches
  <2>4. c \in [base : {w.base}, text : {text}] BY <2>2, <2>3, ContentsAssumption
  <2>5. Shows \in [base : {w.base}, text : {text}] BY DEF Shows
  <2> HIDE DEF c
  <2>6. c = [base |-> w.base, text |-> text] BY <2>4
  <2> QED BY <2>6 DEF c, Shows
<1> QED BY <1>1, InvariantHolds, DocumentHolds, PTL

-------------------------------------------------------------------------------
\* Edits are dropped on an answer only.

\* What the user answered.
Consented ==
  dialog = "asking" /\ First.kind \in {"close", "reload", "open", "change"}

LEMMA DecideCloseKeeps == ASSUME DecideClose, Modified(hist) PROVE Keeps
BY DEF DecideClose, WidgetIdle, Keeps

LEMMA NextKeeps == ASSUME EditorInv, [Next]_vars, Modified(hist) PROVE Keeps \/ Consented
<1>1. WidgetOK BY DEF EditorInv
<1>2. UNCHANGED w => Keeps BY DEF Keeps
<1>3. CASE Commands
  <2>1. CASE ActionSave BY <1>1, <2>1, SaveKeeps DEF ActionSave
  <2> QED
    BY <1>2, <1>3, <2>1
    DEF Commands, ActionSaveAs, ActionReload, ActionCancelSave, ActionOpen, RequestClose, Keys,
        WidgetIdle, WidgetStays
<1>4. CASE Begin
  <2>1. CASE BeginClose BY <1>2, <2>1, DecideCloseKeeps DEF BeginClose
  <2>2. CASE BeginChange
    BY <1>1, <1>2, <2>2, FoundOutKeeps DEF BeginChange, AskChange, WidgetIdle, Keeps
  <2> QED
    BY <1>2, <1>4, <2>1, <2>2
    DEF Begin, BeginOpen, BeginDialog, BeginOverwrite, BeginFailure, WidgetIdle
<1>5. CASE Waited BY <1>2, <1>5, DecideCloseKeeps DEF Waited, WidgetIdle
<1>6. CASE Answers
  <2>1. CASE ChoosesTarget BY <1>1, <2>1, SaveKeeps DEF ChoosesTarget
  <2>2. CASE SaysOverwrite BY <1>1, <2>2, SaveKeeps DEF SaysOverwrite
  <2>3. CASE SaysReload \/ SaysClose \/ SaysOpen
    BY <2>3 DEF SaysReload, SaysClose, SaysOpen, Answering, Consented
  <2>4. CASE Acknowledges
    BY <1>1, <1>2, <2>4, FoundOutKeeps DEF Acknowledges, Recheck, WidgetIdle, Keeps
  <2> QED
    BY <1>2, <1>6, <2>1, <2>2, <2>3, <2>4 DEF Answers, Declines, SaysSaveAs, WidgetIdle
<1>7. CASE Handle
  <2>1. CASE OnSaveCancelled BY <1>1, <2>1, FoundOutKeeps DEF OnSaveCancelled, Recheck, Keeps
  <2> QED
    BY <1>2, <1>7, <2>1
    DEF Handle, Ignored, OnSaved, OnSaveFailed, OnSaveNeedsConfirmation, OnSourceChanged,
        OnReloadFailed, Taken
<1>8. CASE Types BY <1>2, <1>8 DEF Types, WidgetStays
<1>9. CASE Thread BY <1>2, <1>9 DEF Thread, SaveThread
<1>10. CASE ThreadEnds BY <1>1, <1>10, FinishKeepsDocument DEF ThreadEnds
<1>11. CASE Notices
  <2>1. CASE Render
    <3>1. WithKind("modified") = FailSource(w, "modified") BY DEF WithKind
    <3> QED BY <1>1, <2>1, <3>1, FoundOutKeeps DEF Render, Keeps
  <2>2. CASE PollApplied BY <1>1, <2>2, FoundOutKeeps DEF PollApplied, Keeps
  <2> QED BY <1>2, <1>11, <2>1, <2>2 DEF Notices, PollBegins, PollRuns
<1>12. CASE Elsewhere BY <1>2, <1>12 DEF Elsewhere, Others
<1>13. CASE UNCHANGED vars BY <1>2, <1>13 DEF vars
<1> QED
  BY <1>3, <1>4, <1>5, <1>6, <1>7, <1>8, <1>9, <1>10, <1>11, <1>12, <1>13 DEF Next

\* Edits that are not saved are dropped only on the answer to a question that was put
\* when there were edits to lose, for any habits and any order of the flows
\* (_close_flow, _reload_flow, _open_flow, _change_flow).
THEOREM NoEditsDropped == Spec => EditsAreNotDropped
<1>2. ASSUME EditorInv, FrontInv, [Next]_vars
      PROVE  [Modified(hist) /\ ~w.closed /\ (w'.closed \/ w'.doc # w.doc)
               => /\ dialog = "asking" /\ user.warned
                  /\ First.kind \in {"close", "reload", "open", "change"}]_<<w, user>>
  <2> SUFFICES ASSUME Modified(hist), ~w.closed, w'.closed \/ w'.doc # w.doc
               PROVE  /\ dialog = "asking" /\ user.warned
                      /\ First.kind \in {"close", "reload", "open", "change"}
    OBVIOUS
  <2>1. Consented BY <1>2, NextKeeps DEF Keeps
  <2> QED BY <1>2, <2>1 DEF FrontInv, Asked, Consented
<1> QED BY <1>2, InvariantHolds, FrontHolds, PTL DEF Spec, EditsAreNotDropped

-------------------------------------------------------------------------------
\* What the widget finds out about its file is so.

\* Other programs write contents that were nowhere before.
Aged ==
  /\ \A p \in Paths : disk[p] # Absent => disk[p].content.base <= foreign
  /\ w.base <= foreign
  /\ Wrote(job) => job.content.base <= foreign

\* Once nobody waits for it, and unless the widget was closed, no thread is left.
IdleThread == ~w.saving /\ ~w.closed => job.pc = "none"

\* A poll of the document and the epoch of the widget was begun of the file it holds, with
\* no save since, and a difference that it found is still there.
Timely == check.doc = w.doc /\ check.epoch = w.epoch

Polled ==
  check.on =>
    /\ check.doc <= w.doc /\ (check.doc = w.doc => check.epoch <= w.epoch)
    /\ Timely =>
         /\ ~w.saving /\ ~w.closed /\ check.path = w.path /\ check.held = w.held
         /\ check.kind # "pending" => disk[w.path] # w.held

StaleInv == Aged /\ IdleThread /\ Polled

FileInv == EditorInv /\ FrontInv /\ DocumentInv /\ StaleInv

LEMMA Differs == ASSUME NEW f, NEW g PROVE KindOf(f, g) # "unchanged" <=> f # g
<1>1. CASE f = g BY <1>1 DEF KindOf
<1>2. CASE f # g BY <1>2 DEF KindOf
<1> QED BY <1>1, <1>2

LEMMA InitStale == ScreenInit => StaleInv
<1> SUFFICES ASSUME ScreenInit PROVE StaleInv OBVIOUS
<1> DEFINE file == [ino |-> 1, content |-> [base |-> 0, text |-> Pristine], flushed |-> TRUE]
<1>1. disk = [p \in Paths |-> IF p = Start THEN file ELSE Absent] /\ foreign = 0
      /\ job = NoJob /\ check = NoCheck /\ w = Opened(Start, disk[Start], 0, 0)
  BY DEF ScreenInit, WidgetInit, DiskInit
<1>2. file.content.base = 0 OBVIOUS
<1>3. disk[Start] = file BY <1>1, StartAssumption
<1> HIDE DEF file
<1>4. w.base = 0 BY <1>1, <1>2, <1>3 DEF Opened
<1>5. \A p \in Paths : disk[p] # Absent => disk[p].content.base <= foreign BY <1>1, <1>2
<1> QED
  BY <1>1, <1>4, <1>5
  DEF StaleInv, Aged, IdleThread, Polled, NoCheck, NoJob, Wrote

LEMMA PolledType ==
  ASSUME CheckOK, check.on
  PROVE  check \in CheckRecord
BY DEF CheckOK, NoCheck

\* What stays of the widget when it finds out about its file.
SameDocument(v) ==
  /\ v.path = w.path /\ v.held = w.held /\ v.base = w.base /\ v.saving = w.saving
  /\ v.closed = w.closed /\ v.doc = w.doc /\ v.epoch = w.epoch

LEMMA FoundOutSame ==
  ASSUME WidgetOK, NEW kind PROVE SameDocument(WithKind(kind))
BY DEF WidgetOK, WidgetRecord, WithKind, FailSource, SameDocument

LEMMA SameDocumentStale ==
  ASSUME StaleInv, SameDocument(w'), UNCHANGED <<jobVars, diskVars>>,
         UNCHANGED check \/ check' = NoCheck
  PROVE  StaleInv'
<1>1. CASE UNCHANGED check
  BY <1>1 DEF StaleInv, Aged, IdleThread, Polled, Timely, SameDocument, jobVars, diskVars, Wrote
<1>2. CASE check' = NoCheck
  BY <1>2 DEF StaleInv, Aged, IdleThread, Polled, SameDocument, jobVars, diskVars, Wrote, NoCheck
<1> QED BY <1>1, <1>2

LEMMA SameWidgetStale ==
  ASSUME StaleInv, UNCHANGED <<w, jobVars, diskVars, check>> PROVE StaleInv'
BY SameDocumentStale DEF SameDocument

LEMMA PollsStale == ASSUME EditorInv, StaleInv, Polls PROVE StaleInv'
<1>1. WidgetOK /\ CheckOK BY DEF EditorInv
<1>2. CASE PollApplied
  <2>1. SameDocument(w') BY <1>1, <1>2, FoundOutSame DEF PollApplied
  <2> QED BY <1>2, <2>1, SameDocumentStale DEF PollApplied
<1>3. CASE PollBegins
  <2>1. check' = [on |-> TRUE, epoch |-> w.epoch, doc |-> w.doc, path |-> w.path,
                  held |-> w.held, kind |-> "pending"]
    BY <1>3 DEF PollBegins
  <2>2. w.doc \in Nat /\ w.epoch \in Nat BY <1>1, WidgetType
  <2>3. Polled' BY <1>3, <2>1, <2>2 DEF PollBegins, Polled, Timely
  <2> QED BY <1>3, <2>3 DEF PollBegins, StaleInv, Aged, IdleThread, jobVars, diskVars, Wrote
<1>4. CASE PollRuns
  <2> DEFINE kind == KindOf(disk[check.path], check.held)
  <2>1. check \in CheckRecord BY <1>1, <1>4, PolledType DEF PollRuns
  <2>2. check' = IF kind = "unchanged" THEN NoCheck ELSE [check EXCEPT !.kind = kind]
    BY <1>4 DEF PollRuns
  <2>3. kind # "unchanged" => disk[check.path] # check.held BY Differs
  <2>4. UNCHANGED <<w, jobVars, diskVars>> BY <1>4 DEF PollRuns
  <2>5. CASE kind = "unchanged" BY <2>2, <2>4, <2>5, SameDocumentStale DEF SameDocument
  <2>6. CASE kind # "unchanged"
    <3> HIDE DEF kind
    <3>1. /\ check'.on = check.on /\ check'.doc = check.doc /\ check'.epoch = check.epoch
          /\ check'.path = check.path /\ check'.held = check.held
      BY <2>1, <2>2, <2>6 DEF CheckRecord
    <3>2. Polled' BY <1>4, <2>3, <2>4, <2>6, <3>1 DEF Polled, Timely, StaleInv, PollRuns, diskVars
    <3> QED BY <2>4, <3>2 DEF StaleInv, Aged, IdleThread, jobVars, diskVars, Wrote
  <2> QED BY <2>5, <2>6
<1> QED BY <1>2, <1>3, <1>4 DEF Polls

LEMMA FilesAreOld ==
  ASSUME EditorInv, StaleInv, NEW p \in Paths, disk[p] # Absent
  PROVE  disk[p].content.base <= foreign
BY DEF StaleInv, Aged

\* The bytes that the thread writes are of the document, or of the file as it is.
LEMMA ThreadBase ==
  ASSUME EditorInv, StaleInv, SaveThread
  PROVE  Wrote(job)' => job'.content.base <= foreign
<1>1. job \in JobRecord BY JobRecordType DEF EditorInv
<1>2. Wrote(job) => job.content.base <= foreign BY DEF StaleInv, Aged
<1>3. CASE WriteDocument
  <2>1. job'.content = ReadBy(job) BY <1>1, <1>3 DEF WriteDocument, WriteChunks, JobRecord
  <2>2. w.path \in Paths /\ w.base <= foreign BY WidgetType DEF EditorInv, StaleInv, Aged
  <2>3. ReadBy(job).base <= foreign
    <3> DEFINE base == disk[w.path].content.base
    <3>1. disk[w.path] # Absent => base <= foreign BY <2>2, FilesAreOld
    <3>2. Shows.base = w.base /\ [Shows EXCEPT !.base = base].base = base
      <4> HIDE DEF base
      <4> QED BY DEF Shows
    <3>3. ReadBy(job) = Shows \/ (disk[w.path] # Absent /\ ReadBy(job) = [Shows EXCEPT !.base = base])
      BY DEF ReadBy
    <3> HIDE DEF base
    <3> QED BY <2>2, <3>1, <3>2, <3>3
  <2> QED BY <2>1, <2>3
<1>4. CASE ~WriteDocument
  <2>1. Wrote(job)' => Wrote(job) /\ job'.content = job.content
    <3>1. CASE Prepare BY <1>1, <3>1 DEF Prepare, Steps, Wrote, JobRecord
    <3>2. CASE Flush BY <1>1, <3>2 DEF Flush, Steps, Wrote, JobRecord
    <3>3. CASE Replace
      <4>1. job.pc = "replace" /\ job'.content = job.content
        BY <1>1, <3>3 DEF Replace, Publishes, JobRecord
      <4> QED BY <4>1 DEF Wrote
    <3>4. CASE Commit BY <1>1, <3>4 DEF Commit, Wrote, JobRecord
    <3>5. CASE Finish BY <1>1, <3>5, EndsWrites DEF Finish
    <3>6. CASE Failing BY <1>1, <3>6, EndsWrites DEF Failing, Fails
    <3>7. CASE Stopping BY <1>1, <3>7, EndsWrites DEF Stopping, Stops
    <3> QED BY <1>4, <3>1, <3>2, <3>3, <3>4, <3>5, <3>6, <3>7 DEF SaveThread
  <2> QED BY <1>2, <2>1
<1> QED BY <1>3, <1>4

LEMMA Working ==
  SaveThread => job.pc # "none"
BY DEF SaveThread, Prepare, WriteDocument, WriteChunks, Flush, Replace, Commit, Finish,
       Failing, Fails, Stopping, Stops, Steps

LEMMA ThreadDisk ==
  ASSUME EditorInv, StaleInv, SaveThread
  PROVE  /\ foreign' = foreign
         /\ UNCHANGED disk \/
              (Replace /\ \A p \in Paths : disk'[p] # disk[p] => disk'[p].content = job.content)
<1>1. CASE Replace
  <2> DEFINE file == [ino |-> inodes', content |-> job.content, flushed |-> temp = "flushed"]
  <2>1. disk' = [disk EXCEPT ![job.target] = file] /\ foreign' = foreign
    BY <1>1 DEF Replace, Publishes
  <2>2. file.content = job.content OBVIOUS
  <2> HIDE DEF file
  <2>3. \A p \in Paths : disk'[p] # disk[p] => disk'[p] = file
    BY <2>1 DEF EditorInv, JobTypeOK
  <2> QED BY <1>1, <2>1, <2>2, <2>3
<1> QED
  BY <1>1
  DEF SaveThread, Prepare, WriteDocument, WriteChunks, Flush, Commit, Finish, Failing, Fails,
      Stopping, Stops, diskVars

LEMMA ThreadStale == ASSUME EditorInv, StaleInv, SaveThread PROVE StaleInv'
<1>1. w' = w /\ check' = check /\ job.pc # "none" BY Working DEF SaveThread
<1>2. w.saving \/ w.closed BY <1>1 DEF StaleInv, IdleThread
<1>3. IdleThread' BY <1>1, <1>2 DEF IdleThread
<1>4. Polled' BY <1>1, <1>2 DEF StaleInv, Polled, Timely
<1>5. \A p \in Paths : disk'[p] # Absent => disk'[p].content.base <= foreign
  <2>1. Replace => job.content.base <= foreign BY DEF Replace, StaleInv, Aged, Wrote
  <2> QED BY <2>1, ThreadDisk DEF StaleInv, Aged
<1>6. Aged' BY <1>1, <1>5, ThreadBase, ThreadDisk DEF StaleInv, Aged
<1> QED BY <1>3, <1>4, <1>6 DEF StaleInv

\* A widget in a later epoch, or of a later document, takes no result of an earlier poll.
LEMMA LaterStale ==
  ASSUME EditorInv, StaleInv, UNCHANGED <<check, diskVars>>,
         \/ w'.doc = w.doc /\ w'.epoch = w.epoch + 1
         \/ w'.doc = w.doc + 1,
         w'.base <= foreign, IdleThread', Wrote(job)' => job'.content.base <= foreign
  PROVE  StaleInv'
<1>1. w.doc \in Nat /\ w.epoch \in Nat BY WidgetType DEF EditorInv
<1>2. Polled'
  <2> SUFFICES ASSUME check.on PROVE Polled' BY DEF Polled
  <2>1. check \in CheckRecord BY PolledType DEF EditorInv
  <2>2. check.doc \in Nat /\ check.epoch \in Nat BY <2>1 DEF CheckRecord
  <2>3. check.doc <= w.doc /\ (check.doc = w.doc => check.epoch <= w.epoch)
    BY DEF StaleInv, Polled
  <2>4. CASE w'.doc = w.doc /\ w'.epoch = w.epoch + 1
    BY <1>1, <2>2, <2>3, <2>4 DEF Polled, Timely
  <2>5. CASE w'.doc = w.doc + 1
    BY <1>1, <2>2, <2>3, <2>5 DEF Polled, Timely
  <2> QED BY <2>4, <2>5
<1> QED BY <1>2 DEF StaleInv, Aged, diskVars

LEMMA EndedLater ==
  ASSUME WidgetOK PROVE Ended(w).doc = w.doc /\ Ended(w).epoch = w.epoch + 1
BY DEF WidgetOK, WidgetRecord, Ended

LEMMA RebasedLater ==
  ASSUME WidgetOK, NEW v \in {Rebased, [Rebased EXCEPT !.stale = w.stale, !.locks = Ended(w).locks]}
  PROVE  v.doc = w.doc /\ v.epoch = w.epoch + 1
<1> DEFINE file == [ino |-> job.ino, content |-> job.content, flushed |-> TRUE]
           e == Ended(w)
           r == [e EXCEPT !.path = job.target, !.base = job.content.base, !.large = TRUE,
                          !.held = file, !.stale = "unchanged", !.locks = @ \ {Stale}]
<1>1. e \in WidgetRecord /\ e.doc = w.doc /\ e.epoch = w.epoch + 1 BY EndedType, EndedLater
<1>2. v \in {r, [r EXCEPT !.stale = w.stale, !.locks = e.locks]} BY DEF Rebased
<1> HIDE DEF file, e
<1>3. r.doc = e.doc /\ r.epoch = e.epoch BY <1>1 DEF WidgetRecord
<1>4. v.doc = r.doc /\ v.epoch = r.epoch BY <1>1, <1>2 DEF WidgetRecord
<1> QED BY <1>1, <1>3, <1>4

LEMMA FinishStale == ASSUME EditorInv, StaleInv, FinishSave PROVE StaleInv'
<1>1. WidgetOK /\ w.saving /\ job.pc = "ended" /\ job' = NoJob /\ UNCHANGED <<check, diskVars>>
  BY DEF EditorInv, FinishSave
<1>2. IdleThread' /\ ~Wrote(job)' BY <1>1 DEF IdleThread, NoJob, Wrote
<1>3. w.base <= foreign /\ (job.outcome = "saved" => job.content.base <= foreign)
  BY <1>1 DEF StaleInv, Aged, Wrote
<1>4. CASE w' = Ended(w)
  BY <1>1, <1>2, <1>3, <1>4, EndedHolds, EndedLater, LaterStale
<1>5. CASE /\ job.outcome = "saved"
           /\ w' \in {Rebased, [Rebased EXCEPT !.stale = w.stale, !.locks = Ended(w).locks]}
  BY <1>1, <1>2, <1>3, <1>5, RebasedHolds, RebasedLater, LaterStale
<1> QED
  BY <1>4, <1>5
  DEF FinishSave, RebaseSucceeds, FailsBeforeSwap, FailsAfterSwap, NothingWritten

LEMMA LoadsStale ==
  ASSUME EditorInv, StaleInv, ~w.saving, ~w.closed, Loads PROVE StaleInv'
<1>1. WidgetOK /\ job.pc = "none" BY DEF EditorInv, StaleInv, IdleThread
<1>2. ASSUME UNCHANGED <<jobVars, diskVars, check>>, w'.doc = w.doc + 1, w'.base <= foreign
      PROVE  StaleInv'
  BY <1>1, <1>2, LaterStale DEF jobVars, IdleThread, Wrote
<1>3. CASE Reload
  <2>1. CASE disk[w.path] = Absent
    BY <1>3, <2>1, SameWidgetStale DEF Reload
  <2>2. CASE disk[w.path] # Absent
    <3> DEFINE v == Opened(w.path, disk[w.path], w.view, w.doc + 1)
    <3>1. w' = [v EXCEPT !.epoch = w.epoch] BY <1>3, <2>2 DEF Reload
    <3>2. w.path \in Paths /\ w.view \in Nat /\ w.doc + 1 \in Nat BY <1>1, WidgetType
    <3>3. disk[w.path] \in File BY <2>2, <3>2, DiskFile DEF EditorInv
    <3>4. v \in WidgetRecord BY <3>2, <3>3, OpenedType
    <3>5. v.doc = w.doc + 1 /\ v.base = disk[w.path].content.base BY DEF Opened
    <3> HIDE DEF v
    <3>6. w'.doc = v.doc /\ w'.base = v.base BY <3>1, <3>4 DEF WidgetRecord
    <3> QED BY <1>2, <1>3, <2>2, <3>2, <3>5, <3>6, FilesAreOld DEF Reload
  <2> QED BY <2>1, <2>2
<1>4. ASSUME NEW p \in Paths, disk[p] # Absent, OpenInstead(p) PROVE StaleInv'
  <2>1. w'.doc = w.doc + 1 /\ w'.base = disk[p].content.base
    BY <1>4 DEF OpenInstead, Opened
  <2> QED BY <1>2, <1>4, <2>1, FilesAreOld DEF OpenInstead
<1> QED BY <1>3, <1>4 DEF Loads

LEMMA CloseStale == ASSUME EditorInv, StaleInv, CloseWidget PROVE StaleInv'
<1> DEFINE e == Ended(w)
<1>1. WidgetOK /\ job \in JobRecord BY JobRecordType DEF EditorInv
<1>2. e \in WidgetRecord /\ e.base = w.base /\ e.doc = w.doc /\ e.epoch = w.epoch + 1
  BY <1>1, EndedType, EndedHolds, EndedLater
<1>3. w' = [e EXCEPT !.closed = TRUE] BY DEF CloseWidget
<1> HIDE DEF e
<1>4. w'.base = w.base /\ w'.doc = w.doc /\ w'.epoch = w.epoch + 1 /\ w'.closed
  BY <1>2, <1>3 DEF WidgetRecord
<1>5. job'.pc = job.pc /\ job'.content = job.content /\ job'.outcome = job.outcome
  BY <1>1 DEF CloseWidget, CancelSave, JobRecord
<1>6. UNCHANGED <<check, diskVars>> BY DEF CloseWidget
<1> QED BY <1>4, <1>5, <1>6, LaterStale DEF StaleInv, Aged, IdleThread, Wrote

LEMMA CancelStale ==
  ASSUME EditorInv, StaleInv, CancelSave, UNCHANGED <<w, diskVars, check>> PROVE StaleInv'
<1>1. job \in JobRecord BY JobRecordType DEF EditorInv
<1>2. job'.pc = job.pc /\ job'.content = job.content /\ job'.outcome = job.outcome
  BY <1>1 DEF CancelSave, JobRecord
<1> QED BY <1>2 DEF StaleInv, Aged, IdleThread, Polled, Timely, Wrote, diskVars

LEMMA StartedWidget ==
  ASSUME WidgetOK, NEW p, StartSave(p)
  PROVE  /\ w'.path = w.path /\ w'.held = w.held /\ w'.base = w.base /\ w'.doc = w.doc
         /\ w'.epoch = w.epoch + 1 /\ w'.saving /\ w'.stale = WithKind(Origin).stale
         /\ job'.pc = "prepare" /\ job'.target = p /\ job'.ino = 0
<1> DEFINE v == WithKind(Origin)
<1>1. v \in WidgetRecord /\ SameDocument(v) BY OriginType, FailSourceType, FoundOutSame
<1>2. w' = [v EXCEPT !.saving = TRUE, !.locks = @ \cup {"saving"}, !.epoch = @ + 1]
  BY DEF StartSave
<1> HIDE DEF v
<1>3. /\ w'.path = v.path /\ w'.held = v.held /\ w'.base = v.base /\ w'.doc = v.doc
      /\ w'.epoch = v.epoch + 1 /\ w'.saving /\ w'.stale = v.stale
  BY <1>1, <1>2 DEF WidgetRecord
<1>4. job'.pc = "prepare" /\ job'.target = p /\ job'.ino = 0 BY DEF StartSave, NoJob
<1> QED BY <1>1, <1>3, <1>4 DEF SameDocument, v

LEMMA SaveStale ==
  ASSUME EditorInv, StaleInv, NEW p, NEW overwrite, Save(p, overwrite) PROVE StaleInv'
<1>1. WidgetOK /\ UNCHANGED <<check, diskVars>> BY DEF EditorInv, Save
<1>2. CASE UNCHANGED <<w, posted, ForSave>>
  BY <1>1, <1>2, SameWidgetStale DEF ForSave, jobVars
<1>3. CASE AskConsent(p)
  BY <1>1, <1>3, FoundOutSame, SameDocumentStale DEF AskConsent, ForSave, jobVars
<1>4. CASE StartSave(p)
  <2>1. IdleThread' /\ ~Wrote(job)' BY <1>1, <1>4, StartedWidget DEF IdleThread, Wrote
  <2>2. w.base <= foreign BY DEF StaleInv, Aged
  <2> QED BY <1>1, <1>4, <2>1, <2>2, StartedWidget, LaterStale
<1> QED BY <1>2, <1>3, <1>4 DEF Save

LEMMA OthersDisk ==
  ASSUME EditorInv, NEW p \in Paths, Others(p)
  PROVE  /\ foreign' = foreign + 1 /\ foreign \in Nat /\ UNCHANGED <<w, check, jobVars>>
         /\ \A q \in Paths \ {p} : disk'[q] = disk[q]
         /\ disk'[p] # Absent => disk'[p].content.base = foreign + 1
<1> DEFINE c == [base |-> foreign + 1, text |-> Pristine]
<1>1. c.base = foreign + 1 OBVIOUS
<1>2. /\ disk \in [Paths -> File \cup {Absent}] /\ foreign \in Nat
      /\ WriteInPlace(p, c) \/ PutFile(p, c) \/ Delete(p)
      /\ UNCHANGED <<w, check, jobVars>>
  BY DEF EditorInv, JobTypeOK, Others
<1> HIDE DEF c
<1>3. ASSUME NEW file, Foreign(p, file), file # Absent => file.content = c
      PROVE  /\ foreign' = foreign + 1
             /\ \A q \in Paths \ {p} : disk'[q] = disk[q]
             /\ disk'[p] # Absent => disk'[p].content.base = foreign + 1
  BY <1>1, <1>2, <1>3 DEF Foreign
<1>4. CASE WriteInPlace(p, c)
  <2>1. disk[p] \in File BY <1>2, <1>4 DEF WriteInPlace
  <2> DEFINE file == [disk[p] EXCEPT !.content = c]
  <2>2. file.content = c BY <2>1 DEF File
  <2>3. Foreign(p, file) BY <1>4 DEF WriteInPlace
  <2> HIDE DEF file
  <2> QED BY <1>2, <1>3, <2>2, <2>3
<1>5. CASE PutFile(p, c)
  <2> DEFINE file == [ino |-> inodes', content |-> c, flushed |-> TRUE]
  <2>1. Foreign(p, file) /\ file.content = c BY <1>5 DEF PutFile
  <2> HIDE DEF file
  <2> QED BY <1>2, <1>3, <2>1
<1>6. CASE Delete(p) BY <1>2, <1>3, <1>6 DEF Delete
<1> QED BY <1>2, <1>4, <1>5, <1>6

LEMMA OthersStale ==
  ASSUME EditorInv, DocumentInv, StaleInv, NEW p \in Paths, Others(p) PROVE StaleInv'
<1>1. /\ w.path \in Paths /\ w.held \in File /\ w.base \in Nat /\ w.base <= foreign
      /\ w.held.content.base = w.base /\ job \in JobRecord
  <2>1. WidgetOK /\ job \in JobRecord BY JobRecordType DEF EditorInv
  <2>2. w.base \in 0 .. MaxForeign BY <2>1, WidgetType
  <2> QED
    BY <2>1, <2>2, WidgetType, ForeignAssumption
    DEF DocumentInv, HeldMatches, StaleInv, Aged
<1>2. disk'[w.path] # disk[w.path] => disk'[w.path] # w.held
  <2> SUFFICES ASSUME disk'[w.path] # disk[w.path], disk'[w.path] = w.held PROVE FALSE
    OBVIOUS
  <2>1. w.path = p BY <1>1, OthersDisk
  <2>2. w.held # Absent BY <1>1, AbsentAssumption
  <2>3. w.held.content.base \in Nat /\ w.held.content.base <= foreign BY <1>1
  <2> QED BY <1>1, <2>1, <2>2, OthersDisk
<1>3. IdleThread' BY OthersDisk DEF StaleInv, IdleThread, jobVars
<1>4. Polled' BY <1>2, OthersDisk DEF StaleInv, Polled, Timely
<1>5. Wrote(job)' => job'.content.base <= foreign'
  <2>1. Wrote(job) => job.content \in Contents
    BY DEF EditorInv, JobOK, Wrote
  <2>2. Wrote(job) => job.content.base \in Nat /\ job.content.base <= foreign
    BY <2>1, ContentsAssumption, ForeignAssumption DEF StaleInv, Aged
  <2> QED BY <2>2, OthersDisk DEF Wrote, jobVars
<1>6. \A q \in Paths : disk'[q] # Absent => disk'[q].content.base <= foreign'
  <2> SUFFICES ASSUME NEW q \in Paths, disk'[q] # Absent
               PROVE  disk'[q].content.base <= foreign'
    OBVIOUS
  <2>1. CASE q = p BY <2>1, OthersDisk
  <2>2. CASE q # p
    <3>1. disk'[q] = disk[q] BY <2>2, OthersDisk
    <3>2. disk[q] \in File BY <3>1, DiskFile DEF EditorInv
    <3>3. disk[q].content.base \in Nat BY <3>2, ContentType, ForeignAssumption
    <3>4. disk[q].content.base <= foreign BY <3>1, FilesAreOld
    <3> QED BY <3>1, <3>3, <3>4, OthersDisk
  <2> QED BY <2>1, <2>2
<1> QED BY <1>1, <1>3, <1>4, <1>5, <1>6, OthersDisk DEF StaleInv, Aged

LEMMA NextStale == FileInv /\ [Next]_vars => StaleInv'
<1> SUFFICES ASSUME FileInv, [Next]_vars PROVE StaleInv' OBVIOUS
<1>1. EditorInv /\ FrontInv /\ DocumentInv /\ StaleInv /\ WidgetOK BY DEF FileInv, EditorInv
<1>2. CASE UNCHANGED vars BY <1>1, <1>2, SameWidgetStale DEF vars
<1>3. CASE Next
  <2>1. WidgetNext BY <1>1, <1>3, NextWidget
  <2>2. CASE Finds BY <1>1, <2>2, FoundOutSame, SameDocumentStale DEF Finds
  <2>3. CASE (Type \/ Undoes \/ Redoes \/ EndBatch) /\ WidgetStays
    BY <1>1, <2>3, SameWidgetStale DEF WidgetStays
  <2> QED
    BY <1>1, <2>1, <2>2, <2>3, PollsStale, ThreadStale, FinishStale, LoadsStale, CloseStale,
       CancelStale, SaveStale, OthersStale
    DEF WidgetNext, SavesTold, Elsewhere
<1> QED BY <1>2, <1>3

LEMMA FileHolds == Spec => []FileInv
<1>1. Spec => []StaleInv
  BY InitStale, NextStale, InvariantHolds, FrontHolds, DocumentHolds, PTL DEF Spec, FileInv
<1> QED BY <1>1, InvariantHolds, FrontHolds, DocumentHolds, PTL DEF FileInv

\* A widget that was not stale and finds out: the kind is that of the file.
LEMMA SeenIsReal ==
  ASSUME w.stale = "unchanged", NEW kind, Seen(kind), WithKind(kind).stale # "unchanged"
  PROVE  KindOf(disk[w.path], w.held) # "unchanged"
BY DEF Seen, WithKind

LEMMA EndedStale ==
  ASSUME WidgetOK, w.stale = "unchanged",
         NEW v \in {Ended(w), Rebased, [Rebased EXCEPT !.stale = w.stale, !.locks = Ended(w).locks]}
  PROVE  v.stale = "unchanged"
<1> DEFINE file == [ino |-> job.ino, content |-> job.content, flushed |-> TRUE]
           e == Ended(w)
           r == [e EXCEPT !.path = job.target, !.base = job.content.base, !.large = TRUE,
                          !.held = file, !.stale = "unchanged", !.locks = @ \ {Stale}]
<1>1. e \in WidgetRecord /\ e.stale = "unchanged" BY EndedType
<1>2. v \in {e, r, [r EXCEPT !.stale = w.stale, !.locks = e.locks]} BY DEF Rebased
<1> HIDE DEF file, e
<1>3. r.stale = "unchanged" BY <1>1 DEF WidgetRecord
<1>4. [r EXCEPT !.stale = w.stale, !.locks = e.locks].stale = "unchanged" BY <1>1 DEF WidgetRecord
<1> QED BY <1>1, <1>2, <1>3, <1>4

\* The view turns stale only when the file is not the one held, however often other
\* programs write it, and however polls, saves, reloads and openings overlap
\* (apply_external_check, _fail_source).
THEOREM StaleViewIsReal == Spec => StaleIsReal
<1>1. ASSUME FileInv, [Next]_vars
      PROVE  [w.stale = "unchanged" /\ w'.stale # "unchanged"
               => KindOf(disk[w.path], w.held) # "unchanged"]_w
  <2> SUFFICES ASSUME w.stale = "unchanged", w'.stale # "unchanged"
               PROVE  KindOf(disk[w.path], w.held) # "unchanged"
    OBVIOUS
  <2>1. EditorInv /\ FrontInv /\ StaleInv /\ WidgetOK /\ CheckOK BY <1>1 DEF FileInv, EditorInv
  <2>2. Next BY <1>1 DEF vars
  <2>3. WidgetNext BY <2>1, <2>2, NextWidget
  <2>4. CASE Finds BY <2>4, SeenIsReal DEF Finds
  <2>5. CASE Polls
    <3>1. PollApplied BY <2>5 DEF Polls, PollBegins, PollRuns
    <3>2. Applies(check) /\ check.on /\ check.kind # "pending"
      BY <3>1 DEF PollApplied, WithKind
    <3>3. disk[w.path] # w.held BY <2>1, <3>2 DEF Applies, StaleInv, Polled, Timely
    <3> QED BY <3>3, Differs
  <2>6. CASE FinishSave
    BY <2>1, <2>6, EndedStale
    DEF FinishSave, RebaseSucceeds, FailsBeforeSwap, FailsAfterSwap, NothingWritten
  <2>7. CASE Loads
    <3>1. CASE Reload
      <4>1. CASE disk[w.path] = Absent BY <3>1, <4>1 DEF Reload
      <4>2. CASE disk[w.path] # Absent
        <5> DEFINE v == Opened(w.path, disk[w.path], w.view, w.doc + 1)
        <5>1. w' = [v EXCEPT !.epoch = w.epoch] BY <3>1, <4>2 DEF Reload
        <5>2. w.path \in Paths /\ w.view \in Nat /\ w.doc + 1 \in Nat BY <2>1, WidgetType
        <5>3. disk[w.path] \in File BY <2>1, <4>2, <5>2, DiskFile DEF EditorInv
        <5>4. v \in WidgetRecord BY <5>2, <5>3, OpenedType
        <5>5. v.stale = "unchanged" BY DEF Opened
        <5> HIDE DEF v
        <5> QED BY <5>1, <5>4, <5>5 DEF WidgetRecord
      <4> QED BY <4>1, <4>2
    <3> QED BY <2>7, <3>1 DEF Loads, OpenInstead, Opened
  <2>8. CASE CloseWidget
    <3> DEFINE e == Ended(w)
    <3>1. e \in WidgetRecord /\ e.stale = "unchanged" /\ w' = [e EXCEPT !.closed = TRUE]
      BY <2>1, <2>8, EndedType DEF CloseWidget
    <3> HIDE DEF e
    <3> QED BY <3>1 DEF WidgetRecord
  <2>9. ASSUME NEW p, NEW overwrite, SavesTold(p, overwrite)
        PROVE  KindOf(disk[w.path], w.held) # "unchanged"
    <3>1. Seen(Origin) BY DEF Seen, Origin
    <3>2. w'.stale = WithKind(Origin).stale
      BY <2>1, <2>9, StartedWidget DEF SavesTold, Save, AskConsent
    <3> QED BY <3>1, <3>2, SeenIsReal
  <2> QED
    BY <2>3, <2>4, <2>5, <2>6, <2>7, <2>8, <2>9
    DEF WidgetNext, SaveThread, WidgetStays, Elsewhere, Others
<1> QED BY <1>1, FileHolds, PTL DEF Spec, StaleIsReal

-------------------------------------------------------------------------------
\* What a save replaces.

\* The thread has not renamed its file yet: what is at the target is what the save was
\* allowed to replace.
Unpublished(j) == j.pc \in {"prepare", "write", "flush", "replace"}

MayReplace(p) == disk[p] \in {Absent, w.held} \/ p \in user.told

TargetKnown == Unpublished(job) => MayReplace(job.target)

LEMMA InitTarget == ScreenInit => TargetKnown
BY DEF ScreenInit, WidgetInit, DiskInit, NoJob, TargetKnown, Unpublished

\* What the user was told of a file stays true until another program writes it and
\* there is still time to ask.
LEMMA ToldStays ==
  ASSUME EditorInv, UserOK, Next PROVE user.told \subseteq user'.told \/ (Elsewhere /\ ~TooLate)
<1>1. ASSUME Silent \/ Says \/ Asks PROVE user'.told = user.told
  BY <1>1, SilentUser, SaysUser, AsksUser
<1>2. CASE Commands
  BY <1>1, <1>2 DEF Commands, ActionSave, ActionSaveAs, ActionReload, ActionCancelSave, ActionOpen,
                    RequestClose, Keys, Given, Heeded
<1>3. ASSUME NEW p, AsksAbout(p) PROVE user.told \subseteq user'.told
  BY <1>3 DEF AsksAbout, UserOK
<1>4. CASE Begin
  BY <1>1, <1>3, <1>4
  DEF Begin, BeginClose, DecideClose, BeginChange, AskChange, BeginOpen, BeginDialog,
      BeginOverwrite, BeginFailure
<1>5. CASE Waited BY <1>1, <1>5 DEF Waited, DecideClose
<1>6. CASE Answers BY <1>6, AnswersAsked
<1>7. CASE Handle BY <1>1, <1>7 DEF Handle
<1>8. CASE Types \/ ThreadEnds \/ Notices BY <1>1, <1>8 DEF Types, ThreadEnds, Notices
<1>9. CASE Thread BY <1>9, ThreadUser
<1>10. CASE Elsewhere BY <1>10, ElsewhereUser
<1> QED BY <1>2, <1>4, <1>5, <1>6, <1>7, <1>8, <1>9, <1>10 DEF Next

LEMMA StillKnown ==
  ASSUME TargetKnown, user.told \subseteq user'.told, disk' = disk, w'.held = w.held,
         Unpublished(job)' => Unpublished(job) /\ job'.target = job.target
  PROVE  TargetKnown'
BY DEF TargetKnown, MayReplace

LEMMA SameTarget ==
  ASSUME TargetKnown, user.told \subseteq user'.told, disk' = disk, w'.held = w.held,
         job' = job
  PROVE  TargetKnown'
BY StillKnown

LEMMA ThreadTarget ==
  ASSUME EditorInv, TargetKnown, user.told \subseteq user'.told, SaveThread
  PROVE  TargetKnown'
<1>1. job \in JobRecord /\ w' = w BY JobRecordType DEF EditorInv, SaveThread
<1>2. ASSUME NEW outcome, Ends(outcome) PROVE ~Unpublished(job)'
  <2>1. job'.pc = "ended" BY <1>1, <1>2 DEF Ends, JobRecord
  <2> QED BY <2>1 DEF Unpublished
<1>3. CASE Prepare
  <2>1. job.pc = "prepare" /\ job'.target = job.target /\ disk' = disk
    BY <1>1, <1>3 DEF Prepare, Steps, JobRecord, diskVars
  <2> QED BY <1>1, <2>1, StillKnown DEF Unpublished
<1>4. CASE WriteDocument
  <2>1. job.pc = "write" /\ job'.target = job.target /\ disk' = disk
    BY <1>1, <1>4 DEF WriteDocument, WriteChunks, JobRecord, diskVars
  <2> QED BY <1>1, <2>1, StillKnown DEF Unpublished
<1>5. CASE Flush
  <2>1. job.pc = "flush" /\ job'.target = job.target /\ disk' = disk
    BY <1>1, <1>5 DEF Flush, Steps, JobRecord, diskVars
  <2> QED BY <1>1, <2>1, StillKnown DEF Unpublished
<1>6. CASE Replace
  <2>1. job'.pc = "commit" BY <1>1, <1>6 DEF Replace, Publishes, JobRecord
  <2> QED BY <2>1 DEF TargetKnown, Unpublished
<1>7. CASE Commit
  <2>1. job'.pc = "finish" BY <1>1, <1>7 DEF Commit, JobRecord
  <2> QED BY <2>1 DEF TargetKnown, Unpublished
<1>8. CASE Finish \/ Failing \/ Stopping
  BY <1>2, <1>8 DEF Finish, Failing, Fails, Stopping, Stops, TargetKnown
<1> QED BY <1>3, <1>4, <1>5, <1>6, <1>7, <1>8 DEF SaveThread

\* A save that starts may replace what is there.
LEMMA StartTarget ==
  ASSUME EditorInv, NEW p, NEW overwrite, SavesTold(p, overwrite),
         user.told \subseteq user'.told, StartSave(p),
         ConsentFor(p) = "unchanged" \/ overwrite
  PROVE  TargetKnown'
<1>1. /\ w'.held = w.held /\ job'.target = p /\ disk' = disk
  BY StartedWidget DEF EditorInv, SavesTold, Save, diskVars
<1>2. CASE overwrite BY <1>1, <1>2 DEF SavesTold, TargetKnown, MayReplace
<1>3. CASE ConsentFor(p) = "unchanged"
  <2>1. CASE p = w.path
    <3>1. Origin = "unchanged" BY <1>3, <2>1 DEF ConsentFor
    <3>2. disk[p] = w.held BY <2>1, <3>1, Differs DEF Origin
    <3> QED BY <1>1, <3>2 DEF TargetKnown, MayReplace
  <2>2. CASE p # w.path
    <3>1. disk[p] = Absent BY <1>3, <2>2 DEF ConsentFor
    <3> QED BY <1>1, <3>1 DEF TargetKnown, MayReplace
  <2> QED BY <2>1, <2>2
<1> QED BY <1>2, <1>3

LEMMA SaveTarget ==
  ASSUME EditorInv, TargetKnown, NEW p, NEW overwrite, SavesTold(p, overwrite),
         user.told \subseteq user'.told
  PROVE  TargetKnown'
<1>1. WidgetOK /\ disk' = disk BY DEF EditorInv, SavesTold, Save, diskVars
<1>2. CASE UNCHANGED <<w, posted, ForSave>> BY <1>1, <1>2, SameTarget DEF ForSave
<1>3. CASE AskConsent(p)
  BY <1>1, <1>3, FoundOutSame, SameTarget DEF AskConsent, ForSave, SameDocument
<1>4. CASE StartSave(p) /\ (ConsentFor(p) = "unchanged" \/ overwrite) BY <1>4, StartTarget
<1> QED BY <1>2, <1>3, <1>4 DEF SavesTold, Save

LEMMA OthersTarget ==
  ASSUME FileInv, TargetKnown, Elsewhere PROVE TargetKnown'
<1>1. EditorInv /\ UserOK /\ StaleInv BY DEF FileInv, FrontInv
<1>2. PICK p \in Paths :
        Others(p) /\ user'.told = IF TooLate THEN user.told \cup {p} ELSE user.told \ {p}
  BY <1>1, ElsewhereUser
<1>3. /\ w' = w /\ job' = job /\ \A q \in Paths \ {p} : disk'[q] = disk[q]
  BY <1>1, <1>2, OthersDisk DEF jobVars
<1>4. CASE ~TooLate
  <2>1. job.pc = "none" BY <1>1, <1>4 DEF Elsewhere, TooLate, StaleInv, IdleThread
  <2> QED BY <1>3, <2>1 DEF TargetKnown, Unpublished
<1>5. CASE TooLate
  <2>1. Unpublished(job) => job.target \in Paths BY <1>1 DEF EditorInv, JobOK, Unpublished
  <2> QED BY <1>2, <1>3, <1>5, <2>1 DEF TargetKnown, MayReplace
<1> QED BY <1>4, <1>5

LEMMA NextTarget == FileInv /\ TargetKnown /\ [Next]_vars => TargetKnown'
<1> SUFFICES ASSUME FileInv, TargetKnown, [Next]_vars PROVE TargetKnown' OBVIOUS
<1>1. EditorInv /\ FrontInv /\ UserOK /\ StaleInv /\ WidgetOK BY DEF FileInv, FrontInv, EditorInv
<1>2. CASE UNCHANGED vars
  BY <1>2, SameTarget DEF vars, diskVars, jobVars, screenVars
<1>3. CASE Elsewhere BY <1>3, OthersTarget
<1>4. CASE Next /\ ~Elsewhere
  <2>1. user.told \subseteq user'.told BY <1>1, <1>4, ToldStays
  <2>2. WidgetNext BY <1>1, <1>4, NextWidget
  <2>3. CASE Finds
    BY <1>1, <2>1, <2>3, FoundOutSame, SameTarget DEF Finds, SameDocument, diskVars, jobVars
  <2>4. CASE Polls
    <3>1. disk' = disk /\ job' = job
      BY <2>4 DEF Polls, PollBegins, PollRuns, PollApplied, diskVars, jobVars
    <3>2. w'.held = w.held
      BY <1>1, <2>4, FoundOutSame DEF Polls, PollBegins, PollRuns, PollApplied, SameDocument
    <3> QED BY <2>1, <3>1, <3>2, SameTarget
  <2>5. CASE FinishSave BY <2>5 DEF FinishSave, TargetKnown, Unpublished, NoJob
  <2>6. CASE ~w.saving /\ ~w.closed /\ Loads
    <3>1. job.pc = "none" /\ job' = job
      BY <1>1, <2>6 DEF StaleInv, IdleThread, Loads, Reload, OpenInstead, jobVars
    <3> QED BY <3>1 DEF TargetKnown, Unpublished
  <2>7. CASE CancelSave /\ UNCHANGED diskVars /\ w'.held = w.held
    <3>1. job \in JobRecord BY <1>1, JobRecordType DEF EditorInv
    <3>2. job'.pc = job.pc /\ job'.target = job.target
      BY <2>7, <3>1 DEF CancelSave, JobRecord
    <3> QED BY <2>1, <2>7, <3>2, StillKnown DEF Unpublished, diskVars
  <2>8. CASE CloseWidget
    <3> DEFINE e == Ended(w)
    <3>1. e \in WidgetRecord /\ e.held = w.held /\ w' = [e EXCEPT !.closed = TRUE]
      BY <1>1, <2>8, EndedType, EndedHolds DEF CloseWidget
    <3> HIDE DEF e
    <3>2. w'.held = e.held BY <3>1 DEF WidgetRecord
    <3> QED BY <2>7, <2>8, <3>1, <3>2 DEF CloseWidget, diskVars
  <2>9. CASE (Type \/ Undoes \/ Redoes \/ EndBatch) /\ WidgetStays
    BY <2>1, <2>9, SameTarget DEF WidgetStays, diskVars, jobVars
  <2>10. CASE SaveThread BY <1>1, <2>1, <2>10, ThreadTarget
  <2>11. ASSUME NEW p, NEW overwrite, SavesTold(p, overwrite) PROVE TargetKnown'
    BY <1>1, <2>1, <2>11, SaveTarget
  <2>12. CASE CancelSave /\ UNCHANGED <<historyVars, w, diskVars, check>>
    BY <2>7, <2>12
  <2> QED
    BY <1>4, <2>2, <2>3, <2>4, <2>5, <2>6, <2>8, <2>9, <2>10, <2>11, <2>12 DEF WidgetNext
<1> QED BY <1>2, <1>3, <1>4

LEMMA Publication ==
  ASSUME EditorInv, SaveThread, Published', ~Published PROVE job.pc = "replace"
<1>1. job \in JobRecord BY JobRecordType DEF EditorInv
<1>2. CASE ~Replace
  <2>1. job'.ino = job.ino
    BY <1>1, <1>2
    DEF SaveThread, Prepare, WriteDocument, WriteChunks, Flush, Commit, Finish, Failing, Fails,
        Stopping, Stops, Steps, Ends, JobRecord
  <2> QED BY <2>1 DEF Published
<1> QED BY <1>2 DEF Replace

\* What a save replaces is nothing, the file the editor held, one it wrote itself, or one
\* the user was asked about or could not be asked about in time, for any number of other
\* programs' changes (save, _start_save, and the questions of the screen).
THEOREM NothingUnseenOverwritten == Spec => NothingOverwrittenUnseen
<1>1. Spec => []TargetKnown
  BY InitTarget, NextTarget, FileHolds, PTL DEF Spec
<1>2. ASSUME FileInv, TargetKnown, [Next]_vars
      PROVE  [Published' /\ ~Published =>
                disk[job.target] \in {Absent, w.held} \/ job.target \in user.told]_<<job, disk>>
  <2> SUFFICES ASSUME Published', ~Published PROVE MayReplace(job.target) BY DEF MayReplace
  <2>1. EditorInv /\ FrontInv /\ WidgetOK BY <1>2 DEF FileInv, EditorInv
  <2>2. Next BY <1>2 DEF vars, jobVars, Published
  <2>3. WidgetNext BY <2>1, <2>2, NextWidget
  <2>4. CASE SaveThread
    BY <1>2, <2>1, <2>4, Publication DEF TargetKnown, Unpublished
  <2>5. ASSUME job'.ino = job.ino \/ job'.ino = 0 PROVE FALSE BY <2>5 DEF Published
  <2>6. CASE CancelSave
    <3>1. job \in JobRecord BY <2>1, JobRecordType DEF EditorInv
    <3> QED BY <2>5, <2>6, <3>1 DEF CancelSave, JobRecord
  <2>7. ASSUME NEW p, NEW overwrite, SavesTold(p, overwrite) PROVE FALSE
    BY <2>1, <2>5, <2>7, StartedWidget DEF SavesTold, Save, AskConsent, ForSave
  <2>8. CASE Finds \/ Polls \/ Elsewhere \/ WidgetStays
    BY <2>5, <2>8
    DEF Finds, Polls, PollBegins, PollRuns, PollApplied, Elsewhere, Others, WidgetStays, jobVars
  <2>9. CASE Loads
    <3>1. job' = job BY <2>9 DEF Loads, Reload, OpenInstead, jobVars
    <3> QED BY <2>5, <3>1
  <2>10. CASE FinishSave BY <2>5, <2>10 DEF FinishSave, NoJob
  <2> QED
    BY <2>3, <2>4, <2>6, <2>7, <2>8, <2>9, <2>10 DEF WidgetNext, CloseWidget
<1> QED BY <1>1, <1>2, FileHolds, PTL DEF Spec, NothingOverwrittenUnseen
===============================================================================
