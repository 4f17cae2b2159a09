---------------------------- MODULE FileJobs_proofs ----------------------------
(***************************************************************************)
(* For every tree of files, every filter and every number of titles: the   *)
(* jobs of the file manager are well-typed, their lock, its queue and the  *)
(* places of the tasks agree, the questions they put implement the         *)
(* abstract specification Questions, a whole copy of every file remains,   *)
(* nothing is replaced or erased that the user did not agree to, and a job *)
(* that shows as completed has done all its work.                          *)
(***************************************************************************)
EXTENDS FileJobs, FiniteSetTheorems, TLAPS

AllPcs == Pcs \union FilePcs

\* The lock is only taken for a title without an answer to all.
NothingStands == holder # NoTask => toAll[Title] = NoResponse

Inv == TypeOK /\ NothingStands

LEMMA ConstantTypes ==
  /\ NoTask \notin Tasks
  /\ Dirs \subseteq Tasks /\ Files \subseteq Tasks /\ Tops \subseteq Tasks
  /\ Title \in Titles
  /\ NoResponse \notin Responses /\ ToAll \subseteq Responses
  /\ \A off \in Filters : off \subseteq Files
  /\ MaxForeign \in Nat
  /\ \A d : Cardinality(Inside(d)) \in Nat
  /\ Cardinality(Tops) \in Nat
<1>1. IsFiniteSet(Tasks) BY TreeAssumption
<1>2. Cardinality(Tops) \in Nat
  BY <1>1, FS_Subset, FS_CardinalityType DEF Tops
<1>3. \A d : Cardinality(Inside(d)) \in Nat
  BY <1>1, FS_Subset, FS_CardinalityType DEF Inside
<1> QED
  BY <1>2, <1>3, TasksAssumption, TreeAssumption
  DEF Files, Tops, Title, NoResponse, Responses, ToAll

-----------------------------------------------------------------------------
(* What the parts of the actions do to the parts of the type invariant.      *)

\* A task that is neither in the queue nor in the lock changes its place.
LEMMA PlaceChanges ==
  ASSUME TypeOK, NEW t \in Tasks, NEW where \in AllPcs \ {"poll", "queued"},
         pc[t] \notin {"poll", "queued"},
         pc' = [pc EXCEPT ![t] = where],
         cur \in {t, NoTask}, cur' \in {t, NoTask},
         where \in OnLoop => cur' = t,
         where \in Unanswered => pc[t] \in Unanswered,
         UNCHANGED <<holder, queue, answer>>
  PROVE  LockTypeOK' /\ pc' \in [Tasks -> AllPcs]
<1>1. pc \in [Tasks -> AllPcs] BY DEF TypeOK, SchedulerTypeOK, AllPcs
<1>2. pc' \in [Tasks -> AllPcs] BY <1>1
<1>3. LockTypeOK BY DEF TypeOK
<1>4. \A u \in Tasks : pc'[u] = IF u = t THEN where ELSE pc[u] BY <1>1
<1>5. \A u \in Tasks : pc'[u] = "poll" <=> u = holder'
  BY <1>3, <1>4 DEF LockTypeOK
<1>6. \A u \in Tasks : pc'[u] = "queued" <=> \E i \in 1..Len(queue') : queue'[i] = u
  BY <1>3, <1>4 DEF LockTypeOK
<1>7. \A u \in Tasks : pc'[u] \in Unanswered => answer'[u] = NoResponse
  BY <1>3, <1>4 DEF LockTypeOK
<1>8. \A u \in Tasks : pc'[u] \in OnLoop => cur' = u
  BY <1>3, <1>4, ConstantTypes DEF LockTypeOK
<1>9. \A i, j \in 1..Len(queue') : queue'[i] = queue'[j] => i = j
  BY <1>3 DEF LockTypeOK
<1> QED BY <1>2, <1>5, <1>6, <1>7, <1>8, <1>9 DEF LockTypeOK

LEMMA CountsType ==
  ASSUME TypeOK, NEW done \in Nat, NEW all \in Nat, NEW isOpen \in BOOLEAN,
         Counts(done, all, isOpen)
  PROVE  /\ completed' \in Nat /\ total' \in Nat /\ stepOpen' \in BOOLEAN
         /\ state' \in {"initialized", "running"} \union Terminal
<1>1. /\ completed \in Nat /\ total \in Nat /\ stepOpen \in BOOLEAN
      /\ state \in {"initialized", "running"} \union Terminal
  BY DEF TypeOK, SchedulerTypeOK, JobTypeOK
<1>2. completed' \in Nat /\ total' \in Nat BY <1>1 DEF Counts
<1>3. stepOpen' \in BOOLEAN BY DEF Counts
<1>4. state' = "completed" \/ state' = state BY DEF Counts
<1> QED BY <1>1, <1>2, <1>3, <1>4 DEF Terminal

LEMMA NoProgressType ==
  ASSUME TypeOK, NoProgress
  PROVE  /\ completed' \in Nat /\ total' \in Nat /\ stepOpen' \in BOOLEAN
         /\ state' \in {"initialized", "running"} \union Terminal
BY DEF TypeOK, SchedulerTypeOK, JobTypeOK, NoProgress, progressVars

LEMMA WritesType ==
  ASSUME TypeOK, NEW t, NEW content \in Contents, Writes(t, content)
  PROVE  source' \in [Tasks -> Contents] /\ target' \in [Tasks -> Contents]
BY DEF TypeOK, Writes

LEMMA DropsType ==
  ASSUME TypeOK, NEW t, Drops(t)
  PROVE  source' \in [Tasks -> Contents] /\ target' \in [Tasks -> Contents]
BY DEF TypeOK, Drops, Contents, Absent

LEMMA FilesUnchangedType ==
  ASSUME TypeOK, UNCHANGED fileVars
  PROVE  source' \in [Tasks -> Contents] /\ target' \in [Tasks -> Contents]
BY DEF TypeOK, fileVars

\* Together: a step of a task of the worker that asks nothing.
LEMMA TaskStep ==
  ASSUME TypeOK, NEW t \in Tasks, NEW where \in AllPcs \ {"poll", "queued"},
         pc[t] \notin {"poll", "queued"},
         pc' = [pc EXCEPT ![t] = where],
         cur \in {t, NoTask}, cur' \in {t, NoTask},
         where \in OnLoop => cur' = t,
         where \in Unanswered => pc[t] \in Unanswered,
         OnlyTasks,
         completed' \in Nat, total' \in Nat, stepOpen' \in BOOLEAN,
         state' \in {"initialized", "running"} \union Terminal,
         source' \in [Tasks -> Contents], target' \in [Tasks -> Contents],
         exists' \in [Tasks -> BOOLEAN], way' \in [Tasks -> {"copy", "rename"}]
  PROVE  TypeOK'
<1>1. UNCHANGED <<holder, queue, answer>> BY DEF OnlyTasks, lockVars
<1>2. LockTypeOK' /\ pc' \in [Tasks -> AllPcs] BY <1>1, PlaceChanges
<1>3. cur' \in Tasks \union {NoTask} OBVIOUS
<1>4. JobTypeOK'
  BY DEF TypeOK, SchedulerTypeOK, JobTypeOK, OnlyTasks, rootVars
<1>5. QuestionTypeOK'
  BY DEF TypeOK, SchedulerTypeOK, QuestionTypeOK, OnlyTasks, lockVars
<1>6. SchedulerTypeOK(FilePcs)'
  BY <1>2, <1>3, <1>4, <1>5 DEF SchedulerTypeOK, AllPcs
<1> QED BY <1>2, <1>6 DEF TypeOK, OnlyTasks, choiceVars

-----------------------------------------------------------------------------
(* The steps of one file.                                                    *)

\* What is needed of where a task stands.
LEMMA Places ==
  AllPcs = {"todo", "born", "ask", "queued", "poll", "told", "done", "canceled", "failed",
            "open", "write", "copied", "clear", "rename", "walk", "walking", "entered", "list"}
BY DEF AllPcs, Pcs, FilePcs

LEMMA TypedAlready ==
  ASSUME TypeOK
  PROVE  /\ source \in [Tasks -> Contents] /\ target \in [Tasks -> Contents]
         /\ exists \in [Tasks -> BOOLEAN] /\ way \in [Tasks -> {"copy", "rename"}]
         /\ pc \in [Tasks -> AllPcs] /\ stepOpen \in BOOLEAN
         /\ completed \in Nat /\ total \in Nat
         /\ state \in {"initialized", "running"} \union Terminal
         /\ Absent \in Contents /\ Partial \in Contents /\ Whole \in Contents
BY DEF TypeOK, SchedulerTypeOK, JobTypeOK, AllPcs, Contents, Absent, Partial, Whole

LEMMA CancelSeenType ==
  ASSUME TypeOK, NEW t \in Tasks, CancelSeen(t)
  PROVE  TypeOK'
<1>1. /\ completed' \in Nat /\ total' \in Nat /\ stepOpen' \in BOOLEAN
      /\ state' \in {"initialized", "running"} \union Terminal
  BY NoProgressType DEF CancelSeen, Raises
<1>2. source' \in [Tasks -> Contents] /\ target' \in [Tasks -> Contents]
  BY FilesUnchangedType DEF CancelSeen
<1>3. exists' \in [Tasks -> BOOLEAN] /\ way' \in [Tasks -> {"copy", "rename"}]
  BY TypedAlready DEF CancelSeen, localVars
<1> QED
  BY <1>1, <1>2, <1>3, TaskStep, Places
  DEF CancelSeen, LoopFree, Runs, Rests, Goes, OnLoop, Unanswered, Raises

LEMMA FilteredOutType ==
  ASSUME TypeOK, NEW t \in Tasks, FilteredOut(t)
  PROVE  TypeOK'
<1>1. /\ completed' \in Nat /\ total' \in Nat /\ stepOpen' \in BOOLEAN
      /\ state' \in {"initialized", "running"} \union Terminal
  BY CountsType, TypedAlready DEF FilteredOut
<1>2. source' \in [Tasks -> Contents] /\ target' \in [Tasks -> Contents]
  BY FilesUnchangedType DEF FilteredOut
<1>3. exists' \in [Tasks -> BOOLEAN] /\ way' \in [Tasks -> {"copy", "rename"}]
  BY TypedAlready DEF FilteredOut, localVars
<1> QED
  BY <1>1, <1>2, <1>3, TaskStep, Places
  DEF FilteredOut, LoopFree, Runs, Rests, Goes, OnLoop, Unanswered

LEMMA BeginFileType ==
  ASSUME TypeOK, NEW t \in Tasks, BeginFile(t)
  PROVE  TypeOK'
<1>1. /\ completed' \in Nat /\ total' \in Nat /\ stepOpen' \in BOOLEAN
      /\ state' \in {"initialized", "running"} \union Terminal
  BY CountsType, TypedAlready DEF BeginFile
<1>2. source' \in [Tasks -> Contents] /\ target' \in [Tasks -> Contents]
  BY FilesUnchangedType DEF BeginFile
<1>3. exists' \in [Tasks -> BOOLEAN] /\ way' \in [Tasks -> {"copy", "rename"}]
  BY TypedAlready DEF BeginFile, localVars
<1> QED
  BY <1>1, <1>2, <1>3, TaskStep, Places
  DEF BeginFile, LoopFree, Runs, Rests, Goes, OnLoop, Unanswered

LEMMA DeclinedType ==
  ASSUME TypeOK, NEW t \in Tasks, Declined(t)
  PROVE  TypeOK'
<1>1. /\ completed' \in Nat /\ total' \in Nat /\ stepOpen' \in BOOLEAN
      /\ state' \in {"initialized", "running"} \union Terminal
  BY CountsType, TypedAlready DEF Declined
<1>2. source' \in [Tasks -> Contents] /\ target' \in [Tasks -> Contents]
  BY FilesUnchangedType DEF Declined
<1>3. exists' \in [Tasks -> BOOLEAN] /\ way' \in [Tasks -> {"copy", "rename"}]
  BY TypedAlready DEF Declined, localVars
<1> QED
  BY <1>1, <1>2, <1>3, TaskStep, Places
  DEF Declined, LoopFree, Runs, Rests, Goes, OnLoop, Unanswered

LEMMA AgreedType ==
  ASSUME TypeOK, NEW t \in Tasks, Agreed(t)
  PROVE  TypeOK'
<1>1. /\ completed' \in Nat /\ total' \in Nat /\ stepOpen' \in BOOLEAN
      /\ state' \in {"initialized", "running"} \union Terminal
  BY NoProgressType DEF Agreed
<1>2. source' \in [Tasks -> Contents] /\ target' \in [Tasks -> Contents]
  BY FilesUnchangedType DEF Agreed
<1>3. exists' \in [Tasks -> BOOLEAN] /\ way' \in [Tasks -> {"copy", "rename"}]
  BY TypedAlready DEF Agreed, localVars
<1> QED
  BY <1>1, <1>2, <1>3, TaskStep, Places
  DEF Agreed, LoopFree, Runs, Rests, Goes, OnLoop, Unanswered

LEMMA OpenType ==
  ASSUME TypeOK, NEW t \in Tasks, Open(t)
  PROVE  TypeOK'
<1>1. /\ completed' \in Nat /\ total' \in Nat /\ stepOpen' \in BOOLEAN
      /\ state' \in {"initialized", "running"} \union Terminal
  BY CountsType, TypedAlready DEF Open
<1>2. source' \in [Tasks -> Contents] /\ target' \in [Tasks -> Contents]
  BY WritesType, TypedAlready DEF Open
<1>3. exists' \in [Tasks -> BOOLEAN] /\ way' \in [Tasks -> {"copy", "rename"}]
  BY TypedAlready DEF Open, localVars
<1> QED
  BY <1>1, <1>2, <1>3, TaskStep, Places
  DEF Open, LoopFree, Runs, Rests, Goes, OnLoop, Unanswered

LEMMA WriteType ==
  ASSUME TypeOK, NEW t \in Tasks, Write(t)
  PROVE  TypeOK'
<1>1. /\ completed' \in Nat /\ total' \in Nat /\ stepOpen' \in BOOLEAN
      /\ state' \in {"initialized", "running"} \union Terminal
  BY CountsType, TypedAlready DEF Write
<1>2. source' \in [Tasks -> Contents] /\ target' \in [Tasks -> Contents]
  BY WritesType, TypedAlready DEF Write
<1>3. exists' \in [Tasks -> BOOLEAN] /\ way' \in [Tasks -> {"copy", "rename"}]
  BY TypedAlready DEF Write, localVars
<1> QED
  BY <1>1, <1>2, <1>3, TaskStep, Places
  DEF Write, LoopFree, Runs, Rests, Goes, OnLoop, Unanswered

LEMMA WriteCanceledType ==
  ASSUME TypeOK, NEW t \in Tasks, WriteCanceled(t)
  PROVE  TypeOK'
<1>1. /\ completed' \in Nat /\ total' \in Nat /\ stepOpen' \in BOOLEAN
      /\ state' \in {"initialized", "running"} \union Terminal
  BY NoProgressType DEF WriteCanceled, Raises
<1>2. source' \in [Tasks -> Contents] /\ target' \in [Tasks -> Contents]
  BY WritesType, TypedAlready DEF WriteCanceled
<1>3. exists' \in [Tasks -> BOOLEAN] /\ way' \in [Tasks -> {"copy", "rename"}]
  BY TypedAlready DEF WriteCanceled, localVars
<1> QED
  BY <1>1, <1>2, <1>3, TaskStep, Places
  DEF WriteCanceled, LoopFree, Runs, Rests, Goes, OnLoop, Unanswered, Raises

LEMMA CopiedType ==
  ASSUME TypeOK, NEW t \in Tasks, Copied(t)
  PROVE  TypeOK'
<1>1. /\ completed' \in Nat /\ total' \in Nat /\ stepOpen' \in BOOLEAN
      /\ state' \in {"initialized", "running"} \union Terminal
  BY CountsType, TypedAlready DEF Copied
<1>2. source' \in [Tasks -> Contents] /\ target' \in [Tasks -> Contents]
  BY DropsType, FilesUnchangedType DEF Copied
<1>3. exists' \in [Tasks -> BOOLEAN] /\ way' \in [Tasks -> {"copy", "rename"}]
  BY TypedAlready DEF Copied, localVars
<1> QED
  BY <1>1, <1>2, <1>3, TaskStep, Places
  DEF Copied, LoopFree, Runs, Rests, Goes, OnLoop, Unanswered

LEMMA ClearType ==
  ASSUME TypeOK, NEW t \in Tasks, Clear(t)
  PROVE  TypeOK'
<1>1. /\ completed' \in Nat /\ total' \in Nat /\ stepOpen' \in BOOLEAN
      /\ state' \in {"initialized", "running"} \union Terminal
  BY NoProgressType DEF Clear
<1>2. source' \in [Tasks -> Contents] /\ target' \in [Tasks -> Contents]
  BY WritesType, TypedAlready DEF Clear
<1>3. exists' \in [Tasks -> BOOLEAN] /\ way' \in [Tasks -> {"copy", "rename"}]
  BY TypedAlready DEF Clear, localVars
<1> QED
  BY <1>1, <1>2, <1>3, TaskStep, Places
  DEF Clear, LoopFree, Runs, Rests, Goes, OnLoop, Unanswered

LEMMA RenameType ==
  ASSUME TypeOK, NEW t \in Tasks, Rename(t)
  PROVE  TypeOK'
<1>1. /\ completed' \in Nat /\ total' \in Nat /\ stepOpen' \in BOOLEAN
      /\ state' \in {"initialized", "running"} \union Terminal
  BY CountsType, TypedAlready DEF Rename
<1>2. source' \in [Tasks -> Contents] /\ target' \in [Tasks -> Contents]
  BY TypedAlready DEF Rename
<1>3. exists' \in [Tasks -> BOOLEAN] /\ way' \in [Tasks -> {"copy", "rename"}]
  BY TypedAlready DEF Rename, localVars
<1> QED
  BY <1>1, <1>2, <1>3, TaskStep, Places
  DEF Rename, LoopFree, Runs, Rests, Goes, OnLoop, Unanswered

LEMMA EraseFileType ==
  ASSUME TypeOK, NEW t \in Tasks, EraseFile(t)
  PROVE  TypeOK'
<1>1. /\ completed' \in Nat /\ total' \in Nat /\ stepOpen' \in BOOLEAN
      /\ state' \in {"initialized", "running"} \union Terminal
  BY CountsType, TypedAlready DEF EraseFile
<1>2. source' \in [Tasks -> Contents] /\ target' \in [Tasks -> Contents]
  BY DropsType DEF EraseFile
<1>3. exists' \in [Tasks -> BOOLEAN] /\ way' \in [Tasks -> {"copy", "rename"}]
  BY TypedAlready DEF EraseFile, localVars
<1> QED
  BY <1>1, <1>2, <1>3, TaskStep, Places
  DEF EraseFile, LoopFree, Runs, Rests, Goes, OnLoop, Unanswered

LEMMA CallFailsType ==
  ASSUME TypeOK, NEW t \in Tasks, CallFails(t)
  PROVE  TypeOK'
<1>1. /\ completed' \in Nat /\ total' \in Nat /\ stepOpen' \in BOOLEAN
      /\ state' \in {"initialized", "running"} \union Terminal
  BY NoProgressType DEF CallFails, Raises
<1>2. source' \in [Tasks -> Contents] /\ target' \in [Tasks -> Contents]
  BY WritesType, FilesUnchangedType, TypedAlready DEF CallFails
<1>3. exists' \in [Tasks -> BOOLEAN] /\ way' \in [Tasks -> {"copy", "rename"}]
  BY TypedAlready DEF CallFails, localVars
<1> QED
  BY <1>1, <1>2, <1>3, TaskStep, Places
  DEF CallFails, LoopFree, Runs, Rests, Goes, OnLoop, Unanswered, Raises, Fallible

-----------------------------------------------------------------------------
(* The steps of one directory.                                               *)

LEMMA BeginDirType ==
  ASSUME TypeOK, NEW d \in Dirs, BeginDir(d)
  PROVE  TypeOK'
<1>1. /\ completed' \in Nat /\ total' \in Nat /\ stepOpen' \in BOOLEAN
      /\ state' \in {"initialized", "running"} \union Terminal
  BY CountsType, TypedAlready DEF BeginDir
<1>2. source' \in [Tasks -> Contents] /\ target' \in [Tasks -> Contents]
  BY FilesUnchangedType, TypedAlready DEF BeginDir, fileVars
<1>3. exists' \in [Tasks -> BOOLEAN] /\ way' \in [Tasks -> {"copy", "rename"}]
  BY TypedAlready DEF BeginDir, localVars
<1> QED
  BY <1>1, <1>2, <1>3, TaskStep, Places, ConstantTypes
  DEF BeginDir, LoopFree, Runs, Rests, Goes, OnLoop, Unanswered

LEMMA WalkCanceledType ==
  ASSUME TypeOK, NEW d \in Dirs, WalkCanceled(d)
  PROVE  TypeOK'
<1>1. /\ completed' \in Nat /\ total' \in Nat /\ stepOpen' \in BOOLEAN
      /\ state' \in {"initialized", "running"} \union Terminal
  BY NoProgressType DEF WalkCanceled, Raises
<1>2. source' \in [Tasks -> Contents] /\ target' \in [Tasks -> Contents]
  BY FilesUnchangedType DEF WalkCanceled
<1>3. exists' \in [Tasks -> BOOLEAN] /\ way' \in [Tasks -> {"copy", "rename"}]
  BY TypedAlready DEF WalkCanceled, localVars
<1> QED
  BY <1>1, <1>2, <1>3, TaskStep, Places, ConstantTypes
  DEF WalkCanceled, LoopFree, Runs, Rests, Goes, OnLoop, Unanswered, Raises

LEMMA FinishDirType ==
  ASSUME TypeOK, NEW d \in Dirs, FinishDir(d)
  PROVE  TypeOK'
<1>1. /\ completed' \in Nat /\ total' \in Nat /\ stepOpen' \in BOOLEAN
      /\ state' \in {"initialized", "running"} \union Terminal
  BY CountsType, TypedAlready DEF FinishDir
<1>2. source' \in [Tasks -> Contents] /\ target' \in [Tasks -> Contents]
  BY TypedAlready DEF FinishDir
<1>3. exists' \in [Tasks -> BOOLEAN] /\ way' \in [Tasks -> {"copy", "rename"}]
  BY TypedAlready DEF FinishDir, localVars
<1> QED
  BY <1>1, <1>2, <1>3, TaskStep, Places, ConstantTypes
  DEF FinishDir, LoopFree, Runs, Rests, Goes, OnLoop, Unanswered

LEMMA ChildRaisesType ==
  ASSUME TypeOK, NEW d \in Dirs, ChildRaises(d)
  PROVE  TypeOK'
<1>1. /\ completed' \in Nat /\ total' \in Nat /\ stepOpen' \in BOOLEAN
      /\ state' \in {"initialized", "running"} \union Terminal
  BY NoProgressType DEF ChildRaises, Raises
<1>2. source' \in [Tasks -> Contents] /\ target' \in [Tasks -> Contents]
  BY FilesUnchangedType DEF ChildRaises
<1>3. exists' \in [Tasks -> BOOLEAN] /\ way' \in [Tasks -> {"copy", "rename"}]
  BY TypedAlready DEF ChildRaises, localVars
<1> QED
  BY <1>1, <1>2, <1>3, TaskStep, Places, ConstantTypes
  DEF ChildRaises, LoopFree, Runs, Rests, Goes, OnLoop, Unanswered, Raises, Raised

LEMMA BeginEraseType ==
  ASSUME TypeOK, NEW d \in Dirs, BeginErase(d)
  PROVE  TypeOK'
<1>1. /\ completed' \in Nat /\ total' \in Nat /\ stepOpen' \in BOOLEAN
      /\ state' \in {"initialized", "running"} \union Terminal
  BY CountsType, TypedAlready DEF BeginErase
<1>2. source' \in [Tasks -> Contents] /\ target' \in [Tasks -> Contents]
  BY FilesUnchangedType DEF BeginErase
<1>3. exists' \in [Tasks -> BOOLEAN] /\ way' \in [Tasks -> {"copy", "rename"}]
  BY TypedAlready DEF BeginErase, localVars
<1> QED
  BY <1>1, <1>2, <1>3, TaskStep, Places, ConstantTypes
  DEF BeginErase, LoopFree, Runs, Rests, Goes, OnLoop, Unanswered

LEMMA EraseChildrenType ==
  ASSUME TypeOK, NEW d \in Dirs, EraseChildren(d)
  PROVE  TypeOK'
<1>1. /\ completed' \in Nat /\ total' \in Nat /\ stepOpen' \in BOOLEAN
      /\ state' \in {"initialized", "running"} \union Terminal
  BY CountsType, TypedAlready, ConstantTypes DEF EraseChildren, Found
<1>2. source' \in [Tasks -> Contents] /\ target' \in [Tasks -> Contents]
  BY FilesUnchangedType DEF EraseChildren
<1>3. exists' \in [Tasks -> BOOLEAN] /\ way' \in [Tasks -> {"copy", "rename"}]
  BY TypedAlready DEF EraseChildren, localVars
<1> QED
  BY <1>1, <1>2, <1>3, TaskStep, Places, ConstantTypes
  DEF EraseChildren, LoopFree, Runs, Rests, Goes, OnLoop, Unanswered

LEMMA FinishEraseType ==
  ASSUME TypeOK, NEW d \in Dirs, FinishErase(d)
  PROVE  TypeOK'
<1>1. /\ completed' \in Nat /\ total' \in Nat /\ stepOpen' \in BOOLEAN
      /\ state' \in {"initialized", "running"} \union Terminal
  BY CountsType, TypedAlready DEF FinishErase
<1>2. source' \in [Tasks -> Contents] /\ target' \in [Tasks -> Contents]
  BY DropsType DEF FinishErase
<1>3. exists' \in [Tasks -> BOOLEAN] /\ way' \in [Tasks -> {"copy", "rename"}]
  BY TypedAlready DEF FinishErase, localVars
<1> QED
  BY <1>1, <1>2, <1>3, TaskStep, Places, ConstantTypes
  DEF FinishErase, LoopFree, Runs, Rests, Goes, OnLoop, Unanswered

LEMMA SpawnFileType ==
  ASSUME TypeOK, NEW d \in Dirs, NEW t \in Tasks, SpawnFile(d, t)
  PROVE  TypeOK'
<1>1. /\ completed' \in Nat /\ total' \in Nat /\ stepOpen' \in BOOLEAN
      /\ state' \in {"initialized", "running"} \union Terminal
  BY NoProgressType DEF SpawnFile
<1>2. source' \in [Tasks -> Contents] /\ target' \in [Tasks -> Contents]
  BY FilesUnchangedType DEF SpawnFile
<1>3. exists' \in [Tasks -> BOOLEAN] /\ way' \in [Tasks -> {"copy", "rename"}]
  BY TypedAlready DEF SpawnFile, localVars
<1> QED
  BY <1>1, <1>2, <1>3, TaskStep, Places
  DEF SpawnFile, LoopFree, Runs, Rests, Goes, OnLoop, Unanswered, Waiting

LEMMA EnterType ==
  ASSUME TypeOK, NEW d \in Dirs, NEW e \in Dirs, Enter(d, e)
  PROVE  TypeOK'
<1>1. completed' \in Nat /\ total' \in Nat /\ stepOpen' \in BOOLEAN
  BY TypedAlready, ConstantTypes DEF Enter, Found
<1>2. state' = "completed" \/ state' = state BY DEF Enter
<1>3. state' \in {"initialized", "running"} \union Terminal
  BY <1>2, TypedAlready DEF Terminal
<1>4. source' \in [Tasks -> Contents] /\ target' \in [Tasks -> Contents]
  BY TypedAlready DEF Enter
<1>5. exists' \in [Tasks -> BOOLEAN] /\ way' \in [Tasks -> {"copy", "rename"}]
  BY TypedAlready DEF Enter, localVars
<1>6. OnlyTasks BY DEF Enter
<1>7. e \in Tasks BY ConstantTypes
<1>8. CASE e = d /\ pc[d] = "walk" /\ Rests(d, "walking")
  BY <1>1, <1>3, <1>4, <1>5, <1>6, <1>7, <1>8, TaskStep, Places
  DEF Enter, LoopFree, Rests, OnLoop, Unanswered
<1>9. CASE pc[e] = "todo" /\ Rests(e, "entered")
  BY <1>1, <1>3, <1>4, <1>5, <1>6, <1>7, <1>9, TaskStep, Places
  DEF Enter, LoopFree, Rests, OnLoop, Unanswered
<1> QED BY <1>8, <1>9 DEF Enter

-----------------------------------------------------------------------------
(* The root task, the registry, the dialog and the others.                   *)

\* A step that leaves the tasks and the files alone.
LEMMA Elsewhere ==
  ASSUME TypeOK, UNCHANGED <<pc, cur, holder, queue, toAll, answer>>, JobOnly, JobTypeOK',
         future' \in Responses \union {NoResponse}, dialog' \in {"none", "coming", "shown"}
  PROVE  TypeOK'
<1>1. QuestionTypeOK'
  BY DEF TypeOK, SchedulerTypeOK, QuestionTypeOK
<1>2. SchedulerTypeOK(FilePcs)'
  BY <1>1 DEF TypeOK, SchedulerTypeOK
<1>3. LockTypeOK' BY DEF TypeOK, LockTypeOK
<1> QED BY <1>2, <1>3 DEF TypeOK, JobOnly, fileVars, choiceVars, localVars

LEMMA SpawnType ==
  ASSUME TypeOK, NEW t \in Tasks, Spawn(t)
  PROVE  TypeOK'
<1>1. thread' \in {"spawn", "gather"} /\ thread = "spawn" BY DEF Spawn
<1>2. LockTypeOK' /\ pc' \in [Tasks -> AllPcs]
  BY PlaceChanges, Places DEF Spawn, LoopFree, OnLoop, Unanswered, lockVars
<1>3. JobTypeOK'
  BY <1>1 DEF Spawn, TypeOK, SchedulerTypeOK, JobTypeOK, progressVars
<1>4. QuestionTypeOK'
  BY DEF Spawn, TypeOK, SchedulerTypeOK, QuestionTypeOK, lockVars
<1>5. cur' \in Tasks \union {NoTask} BY DEF Spawn, TypeOK, SchedulerTypeOK
<1>6. SchedulerTypeOK(FilePcs)'
  BY <1>2, <1>3, <1>4, <1>5 DEF SchedulerTypeOK, AllPcs
<1> QED BY <1>2, <1>6 DEF Spawn, TypeOK, fileVars, choiceVars, localVars

LEMMA RootType ==
  ASSUME TypeOK, SpawnStops \/ Gather
  PROVE  TypeOK'
<1>1. PICK how \in {"ok", "canceled", "failed"} : EndsRoot(how)
  BY DEF SpawnStops, Gather, Raised
<1>2. OnlyRoot BY DEF SpawnStops, Gather
<1>3. JobTypeOK'
  BY <1>1, <1>2 DEF EndsRoot, OnlyRoot, TypeOK, SchedulerTypeOK, JobTypeOK, progressVars
<1> QED
  BY <1>2, <1>3, Elsewhere
  DEF OnlyRoot, TypeOK, SchedulerTypeOK, QuestionTypeOK, JobOnly, lockVars

LEMMA GuiType ==
  ASSUME TypeOK, Gui
  PROVE  TypeOK'
<1>1. JobTypeOK /\ QuestionTypeOK /\ JobOnly BY DEF TypeOK, SchedulerTypeOK, Gui
<1>2. CASE ShowDialog
  <2>1. JobTypeOK' BY <1>1, <1>2 DEF ShowDialog, JobTypeOK, rootVars, progressVars
  <2> QED BY <1>1, <1>2, <2>1, Elsewhere DEF ShowDialog, QuestionTypeOK
<1>3. CASE StartReturns
  <2>1. outcome \in {"ok", "canceled", "failed"}
    BY <1>1, <1>3 DEF StartReturns, JobTypeOK
  <2>2. state' \in {"initialized", "running"} \union Terminal
    BY <1>1, <1>3, <2>1 DEF StartReturns, JobTypeOK, Terminal
  <2>3. JobTypeOK' BY <1>1, <1>3, <2>1, <2>2 DEF StartReturns, JobTypeOK, progressVars
  <2> QED BY <1>1, <1>3, <2>3, Elsewhere DEF StartReturns, QuestionTypeOK, lockVars
<1>4. CASE Tick
  <2>1. JobTypeOK' BY <1>1, <1>4 DEF Tick, JobTypeOK, rootVars, progressVars
  <2> QED BY <1>1, <1>4, <2>1, Elsewhere DEF Tick, QuestionTypeOK, lockVars
<1> QED BY <1>2, <1>3, <1>4 DEF Gui

LEMMA UserType ==
  ASSUME TypeOK, User
  PROVE  TypeOK'
<1>1. JobTypeOK /\ QuestionTypeOK /\ JobOnly BY DEF TypeOK, SchedulerTypeOK, User
<1>2. CASE StartJob(Cardinality(Tops))
  <2>1. JobTypeOK' BY <1>1, <1>2, ConstantTypes DEF StartJob, JobTypeOK
  <2> QED BY <1>1, <1>2, <2>1, Elsewhere DEF StartJob, QuestionTypeOK, lockVars
<1>3. CASE Answer
  <2>1. JobTypeOK' BY <1>1, <1>3 DEF Answer, JobTypeOK, rootVars, progressVars
  <2> QED BY <1>1, <1>3, <2>1, Elsewhere DEF Answer, QuestionTypeOK
<1>4. CASE Cancel
  <2>1. JobTypeOK' BY <1>1, <1>4 DEF Cancel, JobTypeOK, rootVars, progressVars
  <2> QED BY <1>1, <1>4, <2>1, Elsewhere DEF Cancel, QuestionTypeOK, lockVars
<1>5. CASE Dismiss
  <2>1. JobTypeOK' BY <1>1, <1>5 DEF Dismiss, JobTypeOK, rootVars, progressVars
  <2> QED BY <1>1, <1>5, <2>1, Elsewhere DEF Dismiss, QuestionTypeOK, lockVars
<1> QED BY <1>2, <1>3, <1>4, <1>5 DEF User

LEMMA ForeignType ==
  ASSUME TypeOK, NEW t \in Tasks, Foreign(t)
  PROVE  TypeOK'
<1>1. UNCHANGED schedulerVars /\ TypeOK BY DEF Foreign
<1>2. JobTypeOK' /\ QuestionTypeOK'
  <2>1. JobTypeOK /\ QuestionTypeOK BY DEF TypeOK, SchedulerTypeOK
  <2>2. JobTypeOK' BY <1>1, <2>1 DEF JobTypeOK, schedulerVars, rootVars, progressVars
  <2>3. QuestionTypeOK' BY <1>1, <2>1 DEF QuestionTypeOK, schedulerVars, lockVars
  <2> QED BY <2>2, <2>3
<1>3. SchedulerTypeOK(FilePcs)'
  BY <1>1, <1>2 DEF TypeOK, SchedulerTypeOK, schedulerVars
<1>4. LockTypeOK'
  <2>1. UNCHANGED <<pc, cur, answer, holder, queue>>
    BY <1>1 DEF schedulerVars, lockVars
  <2> QED BY <1>1, <2>1 DEF TypeOK, LockTypeOK
<1>5. target' \in [Tasks -> Contents]
  BY TypedAlready DEF Foreign, Contents, Theirs
<1>6. foreign' \in 0..MaxForeign BY ConstantTypes DEF Foreign, TypeOK
<1> QED BY <1>3, <1>4, <1>5, <1>6 DEF Foreign, TypeOK, choiceVars, localVars

-----------------------------------------------------------------------------
(* The questions.                                                            *)

LEMMA TheQueue ==
  ASSUME TypeOK
  PROVE  /\ queue \in Seq(Tasks) /\ Len(queue) \in Nat
         /\ holder \in Tasks \union {NoTask} /\ cur \in Tasks \union {NoTask}
         /\ toAll \in [Titles -> Responses \union {NoResponse}]
         /\ answer \in [Tasks -> Responses \union {NoResponse}]
         /\ future \in Responses \union {NoResponse}
         /\ dialog \in {"none", "coming", "shown"}
<1> QuestionTypeOK /\ cur \in Tasks \union {NoTask} BY DEF TypeOK, SchedulerTypeOK
<1> QED BY DEF QuestionTypeOK

\* The parts of TypeOK that a question leaves alone.
LEMMA AskingType ==
  ASSUME TypeOK, NEW t \in Tasks, JobOnly,
         UNCHANGED <<rootVars, cancel, state, progressVars, registry>>,
         LockTypeOK', pc' \in [Tasks -> AllPcs], cur' \in Tasks \union {NoTask},
         holder' \in Tasks \union {NoTask}, queue' \in Seq(Tasks),
         future' \in Responses \union {NoResponse}, dialog' \in {"none", "coming", "shown"},
         toAll' \in [Titles -> Responses \union {NoResponse}],
         answer' \in [Tasks -> Responses \union {NoResponse}]
  PROVE  TypeOK'
<1>1. JobTypeOK'
  BY DEF TypeOK, SchedulerTypeOK, JobTypeOK, rootVars, progressVars
<1>2. QuestionTypeOK' BY DEF QuestionTypeOK
<1>3. SchedulerTypeOK(FilePcs)' BY <1>1, <1>2 DEF SchedulerTypeOK, AllPcs
<1> QED BY <1>3 DEF TypeOK, JobOnly, fileVars, choiceVars, localVars

LEMMA RequestType ==
  ASSUME TypeOK, NEW t \in Tasks, Request(t, Title), JobOnly
  PROVE  TypeOK'
<1>1. LockTypeOK /\ pc[t] = "ask" /\ cur = t BY DEF TypeOK, Request, Runs
<1>2. CASE toAll[Title] # NoResponse
  <2>1. /\ answer' = [answer EXCEPT ![t] = toAll[Title]]
        /\ pc' = [pc EXCEPT ![t] = "told"] /\ cur' = t /\ UNCHANGED <<queue, holder>>
    BY <1>2 DEF Request, Goes
  <2>2. pc' \in [Tasks -> AllPcs] BY <2>1, TypedAlready, Places
  <2>5. \A u \in Tasks : pc'[u] = IF u = t THEN "told" ELSE pc[u]
    BY <2>1, TypedAlready
  <2>6. \A u \in Tasks : pc'[u] = "poll" <=> u = holder'
    BY <1>1, <2>1, <2>5 DEF LockTypeOK
  <2>7. \A u \in Tasks : pc'[u] = "queued" <=> \E i \in 1..Len(queue') : queue'[i] = u
    BY <1>1, <2>1, <2>5 DEF LockTypeOK
  <2>8. \A u \in Tasks : pc'[u] \in Unanswered => answer'[u] = NoResponse
    BY <1>1, <2>1, <2>5, TheQueue DEF LockTypeOK, Unanswered
  <2>9. \A u \in Tasks : pc'[u] \in OnLoop => cur' = u
    BY <1>1, <2>1, <2>5, ConstantTypes DEF LockTypeOK, OnLoop
  <2>3. LockTypeOK'
    BY <1>1, <2>1, <2>6, <2>7, <2>8, <2>9 DEF LockTypeOK
  <2>4. answer' \in [Tasks -> Responses \union {NoResponse}]
    BY <2>1, TheQueue, ConstantTypes
  <2> QED BY <2>1, <2>2, <2>3, <2>4, AskingType, TheQueue
          DEF Request
<1>3. CASE toAll[Title] = NoResponse
  <2>1. /\ queue' = Append(queue, t)
        /\ pc' = [pc EXCEPT ![t] = "queued"] /\ cur' = NoTask /\ UNCHANGED <<answer, holder>>
    BY <1>3 DEF Request, Rests
  <2>2. pc' \in [Tasks -> AllPcs] BY <2>1, TypedAlready, Places
  <2>3. /\ queue' \in Seq(Tasks) /\ Len(queue') = Len(queue) + 1
        /\ \A i \in 1..Len(queue) : queue'[i] = queue[i]
        /\ queue'[Len(queue) + 1] = t
    BY <2>1, TheQueue
  <2>4. \A u \in Tasks : pc'[u] = IF u = t THEN "queued" ELSE pc[u]
    BY <2>1, TypedAlready
  <2>5. \A u \in Tasks : pc'[u] = "poll" <=> u = holder'
    BY <1>1, <2>1, <2>4 DEF LockTypeOK
  <2>6. \A u \in Tasks : pc'[u] = "queued" <=> \E i \in 1..Len(queue') : queue'[i] = u
    <3>1. TAKE u \in Tasks
    <3>2. CASE u = t BY <2>3, <2>4, <3>2, TheQueue
    <3>3. CASE u # t
      <4>1. pc'[u] = "queued" <=> \E i \in 1..Len(queue) : queue[i] = u
        BY <1>1, <2>4, <3>3 DEF LockTypeOK
      <4>2. (\E i \in 1..Len(queue) : queue[i] = u)
              <=> (\E i \in 1..Len(queue') : queue'[i] = u)
        BY <2>3, <3>3, TheQueue
      <4> QED BY <4>1, <4>2
    <3> QED BY <3>2, <3>3
  <2>7. \A i, j \in 1..Len(queue') : queue'[i] = queue'[j] => i = j
    <3>1. \A i \in 1..Len(queue) : queue[i] # t
      BY <1>1, TheQueue DEF LockTypeOK
    <3> QED BY <1>1, <2>3, <3>1, TheQueue DEF LockTypeOK
  <2>8. \A u \in Tasks : pc'[u] \in Unanswered => answer'[u] = NoResponse
    BY <1>1, <2>1, <2>4 DEF LockTypeOK, Unanswered
  <2>9. \A u \in Tasks : pc'[u] \in OnLoop => cur' = u
    BY <1>1, <2>4 DEF LockTypeOK, OnLoop
  <2>10. LockTypeOK' BY <2>5, <2>6, <2>7, <2>8, <2>9 DEF LockTypeOK
  <2> QED BY <2>1, <2>2, <2>3, <2>10, AskingType, TheQueue
          DEF Request
<1> QED BY <1>2, <1>3

LEMMA TakeLockType ==
  ASSUME TypeOK, NEW t \in Tasks, TakeLock(t, Title), JobOnly
  PROVE  TypeOK'
<1>1. LockTypeOK /\ cur = NoTask /\ holder = NoTask /\ queue # <<>> /\ Head(queue) = t
  BY DEF TypeOK, TakeLock, LoopFree, LockFree
<1>2. /\ queue' = Tail(queue) /\ queue' \in Seq(Tasks) /\ Len(queue) > 0
      /\ Len(queue') = Len(queue) - 1 /\ queue[1] = t
      /\ \A i \in 1..Len(queue') : queue'[i] = queue[i + 1]
  BY <1>1, TheQueue DEF TakeLock
<1>3. pc[t] = "queued" BY <1>1, <1>2, TheQueue DEF LockTypeOK
<1>4. \A i, j \in 1..Len(queue') : queue'[i] = queue'[j] => i = j
  <2> TAKE i, j \in 1..Len(queue')
  <2>1. i + 1 \in 1..Len(queue) /\ j + 1 \in 1..Len(queue) BY <1>2, TheQueue
  <2> QED BY <1>1, <1>2, <2>1 DEF LockTypeOK
<1>5. \A i \in 1..Len(queue') : queue'[i] # t
  <2> TAKE i \in 1..Len(queue')
  <2>1. i + 1 \in 1..Len(queue) /\ 1 \in 1..Len(queue) /\ i + 1 # 1 BY <1>2, TheQueue
  <2> QED BY <1>1, <1>2, <2>1 DEF LockTypeOK
<1>6. \A u \in Tasks \ {t} :
        (\E i \in 1..Len(queue') : queue'[i] = u) <=> (\E i \in 1..Len(queue) : queue[i] = u)
  <2> TAKE u \in Tasks \ {t}
  <2>1. ASSUME NEW i \in 1..Len(queue), queue[i] = u
        PROVE  i - 1 \in 1..Len(queue') /\ queue'[i - 1] = u
    BY <1>2, <2>1, TheQueue
  <2>2. ASSUME NEW i \in 1..Len(queue'), queue'[i] = u
        PROVE  i + 1 \in 1..Len(queue) /\ queue[i + 1] = u
    BY <1>2, <2>2, TheQueue
  <2> QED BY <2>1, <2>2
<1>7. CASE Recheck(Title)
  <2>1. /\ answer' = [answer EXCEPT ![t] = toAll[Title]]
        /\ pc' = [pc EXCEPT ![t] = "told"] /\ cur' = t /\ UNCHANGED <<holder, future, dialog>>
    BY <1>7 DEF TakeLock, Goes
  <2>2. \A u \in Tasks : pc'[u] = IF u = t THEN "told" ELSE pc[u] BY <2>1, TypedAlready
  <2>3. \A u \in Tasks : pc'[u] = "poll" <=> u = holder'
    BY <1>1, <1>3, <2>1, <2>2 DEF LockTypeOK
  <2>4. \A u \in Tasks : pc'[u] = "queued" <=> \E i \in 1..Len(queue') : queue'[i] = u
    BY <1>1, <1>5, <1>6, <2>2 DEF LockTypeOK
  <2>5. \A u \in Tasks : pc'[u] \in Unanswered => answer'[u] = NoResponse
    BY <1>1, <2>1, <2>2, TheQueue DEF LockTypeOK, Unanswered
  <2>6. \A u \in Tasks : pc'[u] \in OnLoop => cur' = u
    BY <1>1, <2>1, <2>2, ConstantTypes DEF LockTypeOK
  <2>7. LockTypeOK' BY <1>4, <2>3, <2>4, <2>5, <2>6 DEF LockTypeOK
  <2>8. answer' \in [Tasks -> Responses \union {NoResponse}]
    BY <2>1, TheQueue, ConstantTypes
  <2>9. pc' \in [Tasks -> AllPcs] BY <2>1, TypedAlready, Places
  <2> QED BY <1>2, <2>1, <2>7, <2>8, <2>9, AskingType, TheQueue
          DEF TakeLock
<1>8. CASE ~Recheck(Title)
  <2>1. /\ holder' = t /\ future' = NoResponse /\ dialog' = "coming" /\ UNCHANGED answer
        /\ pc' = [pc EXCEPT ![t] = "poll"] /\ cur' = NoTask
    BY <1>8 DEF TakeLock, Rests
  <2>2. \A u \in Tasks : pc'[u] = IF u = t THEN "poll" ELSE pc[u] BY <2>1, TypedAlready
  <2>3. \A u \in Tasks : pc'[u] = "poll" <=> u = holder'
    BY <1>1, <2>1, <2>2, ConstantTypes DEF LockTypeOK
  <2>4. \A u \in Tasks : pc'[u] = "queued" <=> \E i \in 1..Len(queue') : queue'[i] = u
    BY <1>1, <1>5, <1>6, <2>2 DEF LockTypeOK
  <2>5. \A u \in Tasks : pc'[u] \in Unanswered => answer'[u] = NoResponse
    BY <1>1, <1>3, <2>1, <2>2 DEF LockTypeOK, Unanswered
  <2>6. \A u \in Tasks : pc'[u] \in OnLoop => cur' = u
    BY <1>1, <2>1, <2>2, ConstantTypes DEF LockTypeOK, OnLoop
  <2>7. LockTypeOK' BY <1>4, <2>3, <2>4, <2>5, <2>6 DEF LockTypeOK
  <2>9. pc' \in [Tasks -> AllPcs] BY <2>1, TypedAlready, Places
  <2> QED BY <1>2, <2>1, <2>7, <2>9, AskingType, TheQueue
          DEF TakeLock
<1> QED BY <1>7, <1>8

LEMMA PollType ==
  ASSUME TypeOK, NEW t \in Tasks, Poll(t, Title), JobOnly
  PROVE  TypeOK'
<1>1. /\ LockTypeOK /\ pc[t] = "poll" /\ holder = t /\ cur = NoTask
      /\ future \in Responses
  BY TheQueue DEF TypeOK, Poll, LoopFree
<1>2. /\ answer' = [answer EXCEPT ![t] = future] /\ holder' = NoTask
      /\ pc' = [pc EXCEPT ![t] = "told"] /\ cur' = t
      /\ toAll' = Kept(Title, future) /\ UNCHANGED <<queue, future, dialog>>
  BY DEF Poll, Goes
<1>3. toAll' \in [Titles -> Responses \union {NoResponse}]
  BY <1>1, <1>2, TheQueue DEF Kept
<1>4. LockTypeOK'
  <2>2. \A u \in Tasks : pc'[u] = IF u = t THEN "told" ELSE pc[u] BY <1>2, TypedAlready
  <2>3. \A u \in Tasks : pc'[u] = "poll" <=> u = holder'
    BY <1>1, <1>2, <2>2, ConstantTypes DEF LockTypeOK
  <2>4. \A u \in Tasks : pc'[u] = "queued" <=> \E i \in 1..Len(queue') : queue'[i] = u
    BY <1>1, <1>2, <2>2 DEF LockTypeOK
  <2>5. \A u \in Tasks : pc'[u] \in Unanswered => answer'[u] = NoResponse
    BY <1>1, <1>2, <2>2, TheQueue DEF LockTypeOK, Unanswered
  <2>6. \A u \in Tasks : pc'[u] \in OnLoop => cur' = u
    BY <1>1, <1>2, <2>2, ConstantTypes DEF LockTypeOK
  <2> QED BY <1>1, <1>2, <2>3, <2>4, <2>5, <2>6 DEF LockTypeOK
<1>5. answer' \in [Tasks -> Responses \union {NoResponse}]
  BY <1>1, <1>2, TheQueue
<1>6. pc' \in [Tasks -> AllPcs] BY <1>2, TypedAlready, Places
<1> QED BY <1>2, <1>3, <1>4, <1>5, <1>6, AskingType, TheQueue
        DEF Poll
-----------------------------------------------------------------------------
(* The theorems.                                                             *)

LEMMA InitTypeOK == Init => TypeOK
<1> SUFFICES ASSUME Init PROVE TypeOK OBVIOUS
<1>1. SchedulerInit BY DEF Init
<1>2. JobTypeOK BY <1>1 DEF SchedulerInit, JobTypeOK
<1>3. QuestionTypeOK
  <2>1. queue = <<>> BY <1>1 DEF SchedulerInit
  <2>2. /\ holder \in Tasks \union {NoTask} /\ future \in Responses \union {NoResponse}
        /\ dialog \in {"none", "coming", "shown"}
    BY <1>1 DEF SchedulerInit
  <2>3. /\ toAll \in [Titles -> Responses \union {NoResponse}]
        /\ answer \in [Tasks -> Responses \union {NoResponse}]
    BY <1>1 DEF SchedulerInit
  <2>4. queue \in Seq(Tasks) BY <2>1
  <2> QED BY <2>2, <2>3, <2>4 DEF QuestionTypeOK
<1>4. SchedulerTypeOK(FilePcs)
  BY <1>1, <1>2, <1>3 DEF SchedulerInit, SchedulerTypeOK, Pcs
<1>5. LockTypeOK
  <2>1. /\ \A t \in Tasks : pc[t] = "todo" /\ answer[t] = NoResponse
        /\ holder = NoTask /\ queue = <<>>
    BY <1>1 DEF SchedulerInit
  <2>2. Len(queue) = 0 BY <2>1
  <2> QED BY <2>1, <2>2, TasksAssumption DEF LockTypeOK, OnLoop
<1>6. /\ source \in [Tasks -> Contents] /\ target \in [Tasks -> Contents]
      /\ exists \in [Tasks -> BOOLEAN] /\ way \in [Tasks -> {"copy", "rename"}]
  BY DEF Init, Contents, Whole, Absent, Theirs
<1>7. /\ op \in {"copy", "move", "erase"} /\ sameDevice \in BOOLEAN
      /\ filtered \subseteq Files /\ foreign \in 0..MaxForeign
  BY ConstantTypes DEF Init
<1> QED BY <1>4, <1>5, <1>6, <1>7 DEF TypeOK

LEMMA StepTypeOK == TypeOK /\ [Next]_vars => TypeOK'
<1> SUFFICES ASSUME TypeOK, [Next]_vars PROVE TypeOK' OBVIOUS
<1>1. ASSUME NEW t \in Tasks, FileStep(t) PROVE TypeOK'
  BY <1>1, CancelSeenType, FilteredOutType, BeginFileType, DeclinedType, AgreedType,
     OpenType, WriteType, WriteCanceledType, CopiedType, ClearType, RenameType,
     EraseFileType, CallFailsType
  DEF FileStep
<1>2. ASSUME NEW d \in Dirs, DirStep(d) PROVE TypeOK'
  BY <1>2, BeginDirType, WalkCanceledType, FinishDirType, ChildRaisesType, BeginEraseType,
     EraseChildrenType, FinishEraseType, EnterType, SpawnFileType
  DEF DirStep
<1>3. ASSUME NEW t \in Tasks, Asking(t) PROVE TypeOK'
  BY <1>3, RequestType, TakeLockType, PollType DEF Asking
<1>4. CASE Worker BY <1>1, <1>2, <1>3, <1>4, RootType, SpawnType DEF Worker
<1>5. CASE UNCHANGED vars
  <2>1. UNCHANGED schedulerVars BY <1>5 DEF vars
  <2>2. JobTypeOK /\ QuestionTypeOK BY DEF TypeOK, SchedulerTypeOK
  <2>3. JobTypeOK' BY <2>1, <2>2 DEF JobTypeOK, schedulerVars, rootVars, progressVars
  <2>4. QuestionTypeOK' BY <2>1, <2>2 DEF QuestionTypeOK, schedulerVars, lockVars
  <2>5. SchedulerTypeOK(FilePcs)'
    BY <2>1, <2>3, <2>4 DEF TypeOK, SchedulerTypeOK, schedulerVars
  <2>6. UNCHANGED <<pc, cur, answer, holder, queue>>
    BY <2>1 DEF schedulerVars, lockVars
  <2>7. LockTypeOK' BY <2>6 DEF TypeOK, LockTypeOK
  <2> QED BY <1>5, <2>5, <2>7 DEF TypeOK, vars, fileVars, choiceVars, localVars
<1> QED BY <1>4, <1>5, GuiType, UserType, ForeignType DEF Next

\* Type correctness of the jobs of the file manager, and the agreement of the
\* lock, its queue and the tasks.
THEOREM JobsTypeCorrect == Spec => []TypeOK
<1>1. Init => TypeOK BY InitTypeOK
<1>2. TypeOK /\ [Next]_vars => TypeOK' BY StepTypeOK
<1> QED BY <1>1, <1>2, PTL DEF Spec

\* What the refinement sees of a step: nothing, unless a task asks.
Unseeing == UNCHANGED <<op, holder, toAll, answer>>

LEMMA OnlyAskingIsSeen ==
  ASSUME TypeOK, [Next]_vars
  PROVE  Unseeing \/ \E t \in Tasks : Asking(t)
<1> USE DEF Unseeing, lockVars, choiceVars
<1>1. ASSUME NEW t \in Tasks, FileStep(t) PROVE Unseeing
  BY <1>1 DEF FileStep, CancelSeen, FilteredOut, BeginFile, Declined, Agreed, Open, Write,
     WriteCanceled, Copied, Clear, Rename, EraseFile, CallFails, OnlyTasks
<1>2. ASSUME NEW d \in Dirs, DirStep(d) PROVE Unseeing
  BY <1>2 DEF DirStep, BeginDir, WalkCanceled, FinishDir, ChildRaises, BeginErase,
     EraseChildren, FinishErase, Enter, SpawnFile, OnlyTasks
<1>3. CASE SpawnStops \/ Gather BY <1>3 DEF SpawnStops, Gather, OnlyRoot
<1>4. ASSUME NEW t \in Tasks, Spawn(t) PROVE Unseeing BY <1>4 DEF Spawn
<1>5. CASE Gui BY <1>5 DEF Gui, ShowDialog, StartReturns, Tick, JobOnly
<1>6. CASE User BY <1>6 DEF User, StartJob, Answer, Cancel, Dismiss, JobOnly
<1>7. ASSUME NEW t \in Tasks, Foreign(t) PROVE Unseeing BY <1>7 DEF Foreign, schedulerVars
<1>8. CASE UNCHANGED vars BY <1>8 DEF vars, schedulerVars
<1> QED BY <1>1, <1>2, <1>3, <1>4, <1>5, <1>6, <1>7, <1>8 DEF Next, Worker

LEMMA TitleUnchanged == ASSUME op' = op PROVE Title' = Title
BY DEF Title

LEMMA StepStands ==
  ASSUME Inv, [Next]_vars
  PROVE  NothingStands'
<1>1. CASE Unseeing
  BY <1>1, TitleUnchanged DEF Unseeing, Inv, NothingStands
<1>2. ASSUME NEW t \in Tasks, Asking(t) PROVE NothingStands'
  <2>1. Title' = Title BY <1>2, TitleUnchanged DEF Asking, JobOnly, choiceVars
  <2>2. CASE Request(t, Title)
    BY <2>1, <2>2 DEF Request, Inv, NothingStands
  <2>3. CASE TakeLock(t, Title)
    BY <2>1, <2>3 DEF TakeLock, Recheck, Inv, NothingStands
  <2>4. CASE Poll(t, Title)
    BY <2>1, <2>4 DEF Poll, NothingStands
  <2> QED BY <1>2, <2>2, <2>3, <2>4 DEF Asking
<1> QED BY <1>1, <1>2, OnlyAskingIsSeen DEF Inv

LEMMA QuestionInit == Init => Q!Init
BY DEF Init, SchedulerInit, Q!Init

LEMMA QuestionStep ==
  ASSUME Inv, [Next]_vars
  PROVE  [Q!Next]_(Q!vars)
<1>0. TypeOK BY DEF Inv
<1>1. CASE Unseeing
  BY <1>1, TitleUnchanged DEF Unseeing, Q!vars
<1>2. ASSUME NEW t \in Tasks, Asking(t) PROVE [Q!Next]_(Q!vars)
  <2>0. /\ Title' = Title /\ Title \in Titles
        /\ \A u \in Tasks : pc[u] \in Unanswered => answer[u] = NoResponse
        /\ LockTypeOK /\ NoTask \notin Tasks
    BY <1>0, <1>2, TitleUnchanged, ConstantTypes
    DEF Asking, JobOnly, choiceVars, TypeOK, LockTypeOK
  <2>1. ASSUME Request(t, Title), toAll[Title] # NoResponse
        PROVE  Q!Spared(t, Title)
    BY <2>0, <2>1 DEF Request, Q!Spared, LockTypeOK, Unanswered
  <2>2. ASSUME Request(t, Title), toAll[Title] = NoResponse
        PROVE  UNCHANGED Q!vars
    BY <2>0, <2>2 DEF Request, Q!vars
  <2>3. ASSUME TakeLock(t, Title)
        PROVE  /\ pc[t] = "queued" /\ holder = NoTask
    <3>1. queue # <<>> /\ Head(queue) = t /\ holder = NoTask
      BY <2>3 DEF TakeLock, LockFree
    <3>2. 1 \in 1..Len(queue) /\ queue[1] = t BY <1>0, <3>1, TheQueue
    <3> QED BY <2>0, <3>1, <3>2 DEF LockTypeOK
  <2>4. ASSUME TakeLock(t, Title), toAll[Title] # NoResponse
        PROVE  Q!Spared(t, Title)
    BY <2>0, <2>3, <2>4 DEF TakeLock, Recheck, Q!Spared, Unanswered
  <2>5. ASSUME TakeLock(t, Title), toAll[Title] = NoResponse
        PROVE  Q!Ask(t, Title)
    <3>1. answer[t] = NoResponse BY <2>0, <2>3, <2>5 DEF Unanswered
    <3>2. holder' = t /\ UNCHANGED <<answer, toAll>> /\ holder = NoTask /\ t # NoTask
      BY <2>0, <2>3, <2>5 DEF TakeLock, Recheck
    <3> QED BY <2>0, <2>5, <3>1, <3>2 DEF Q!Ask
  <2>6. ASSUME Poll(t, Title)
        PROVE  future \in Responses /\ Q!Reply(t, Title, future)
    <3>1. future \in Responses BY <1>0, <2>6, TheQueue DEF Poll
    <3>2. /\ holder = t /\ t # NoTask /\ holder' = NoTask /\ toAll[Title] = NoResponse
          /\ answer' = [answer EXCEPT ![t] = future]
          /\ toAll' = Kept(Title, future)
      BY <2>0, <2>6 DEF Poll, Inv, NothingStands
    <3> QED BY <3>1, <3>2 DEF Q!Reply, Kept
  <2> QED
    BY <1>2, <2>0, <2>1, <2>2, <2>4, <2>5, <2>6 DEF Asking, Q!Next
<1> QED BY <1>0, <1>1, <1>2, OnlyAskingIsSeen

\* The lock, the check before it, the check inside it and the cache of answers
\* to all implement the abstract specification: one question at a time, each
\* request answered once, and none put that an answer to all covers.
THEOREM QuestionsImplemented == Spec => ImplementsQuestions
<1>1. Init => Inv BY InitTypeOK DEF Inv, NothingStands, Init, SchedulerInit
<1>2. Inv /\ [Next]_vars => Inv' BY StepTypeOK, StepStands DEF Inv
<1>3. Init => Q!Init BY QuestionInit
<1>4. Inv /\ [Next]_vars => [Q!Next]_(Q!vars) BY QuestionStep
<1> QED BY <1>1, <1>2, <1>3, <1>4, PTL DEF Spec, ImplementsQuestions, Q!Spec
-----------------------------------------------------------------------------
(* No copy of a file is lost.                                                *)

\* The source is whole until the task is done, and then the target is; what has
\* been copied is whole before the source goes.
Safe(t) == source[t] = Whole \/ (pc[t] = "done" /\ target[t] = Whole)
CopiedWhole(t) == pc[t] = "copied" => target[t] = Whole
FilesSafe == op # "erase" => \A t \in Files : Safe(t) /\ CopiedWhole(t)

\* Nothing happens to the file or to where its task stands.
Alone(t) == source'[t] = source[t] /\ target'[t] = target[t] /\ pc'[t] = pc[t]

LEMMA AloneIsSafe ==
  ASSUME NEW t, Safe(t), CopiedWhole(t), Alone(t)
  PROVE  Safe(t)' /\ CopiedWhole(t)'
BY DEF Safe, CopiedWhole, Alone

LEMMA OthersAlone ==
  ASSUME TypeOK, NEW t \in Tasks, NEW u \in Tasks \ {t}, FileStep(t)
  PROVE  Alone(u)
<1> USE TypedAlready
<1>1. pc'[u] = pc[u]
  BY DEF FileStep, CancelSeen, FilteredOut, BeginFile, Declined, Agreed, Open, Write,
     WriteCanceled, Copied, Clear, Rename, EraseFile, CallFails, Raises, Rests, Goes
<1>2. ASSUME NEW content, Writes(t, content)
      PROVE  source'[u] = source[u] /\ target'[u] = target[u]
  BY <1>2 DEF Writes
<1>3. ASSUME Drops(t) PROVE source'[u] = source[u] /\ target'[u] = target[u]
  BY <1>3 DEF Drops
<1>4. ASSUME UNCHANGED fileVars PROVE source'[u] = source[u] /\ target'[u] = target[u]
  BY <1>4 DEF fileVars
<1>5. CASE Open(t) \/ Write(t) \/ WriteCanceled(t) \/ Clear(t)
  BY <1>1, <1>2, <1>5 DEF Open, Write, WriteCanceled, Clear, Alone
<1>6. CASE CallFails(t) BY <1>1, <1>2, <1>4, <1>6 DEF CallFails, Alone
<1>7. CASE Copied(t) \/ EraseFile(t)
  BY <1>1, <1>3, <1>4, <1>7 DEF Copied, EraseFile, Alone
<1>8. CASE Rename(t) BY <1>1, <1>8 DEF Rename, Alone
<1>9. CASE CancelSeen(t) \/ FilteredOut(t) \/ BeginFile(t) \/ Declined(t) \/ Agreed(t)
  BY <1>1, <1>4, <1>9
  DEF CancelSeen, FilteredOut, BeginFile, Declined, Agreed, Alone
<1> QED BY <1>5, <1>6, <1>7, <1>8, <1>9 DEF FileStep

\* The steps of the file itself.
LEMMA OwnStepIsSafe ==
  ASSUME TypeOK, ~OntoItself, NEW t \in Files, Safe(t), CopiedWhole(t), op # "erase",
         FileStep(t)
  PROVE  Safe(t)' /\ CopiedWhole(t)'
<1> USE TypedAlready, ConstantTypes DEF Safe, CopiedWhole
<1>1. CASE CancelSeen(t)
  BY <1>1 DEF CancelSeen, Raises, Rests, fileVars
<1>2. CASE FilteredOut(t) BY <1>2 DEF FilteredOut, Rests, fileVars
<1>3. CASE BeginFile(t) BY <1>3 DEF BeginFile, Goes, fileVars
<1>4. CASE Declined(t) BY <1>4 DEF Declined, Rests, fileVars
<1>5. CASE Agreed(t) BY <1>5 DEF Agreed, Goes, fileVars
<1>6. CASE Open(t) BY <1>6 DEF Open, Goes, Writes
<1>7. CASE Write(t) BY <1>7 DEF Write, Goes, Writes
<1>8. CASE WriteCanceled(t) BY <1>8 DEF WriteCanceled, Raises, Rests, Writes
<1>9. CASE Copied(t) BY <1>9 DEF Copied, Rests, Drops, fileVars
<1>10. CASE Clear(t) BY <1>10 DEF Clear, Goes, Writes
<1>11. CASE Rename(t) BY <1>11 DEF Rename, Rests
<1>12. CASE EraseFile(t) BY <1>12 DEF EraseFile
<1>13. CASE CallFails(t)
  <2>1. pc[t] # "done" /\ pc'[t] = "failed"
    BY <1>13 DEF CallFails, Fallible, Raises, Rests
  <2>2. source' = source BY <1>13 DEF CallFails, Writes, fileVars
  <2> QED BY <2>1, <2>2
<1> QED
  BY <1>1, <1>2, <1>3, <1>4, <1>5, <1>6, <1>7, <1>8, <1>9, <1>10, <1>11, <1>12, <1>13
  DEF FileStep

LEMMA DirStepIsSafe ==
  ASSUME TypeOK, NEW d \in Dirs, NEW u \in Files, Safe(u), CopiedWhole(u), op # "erase",
         DirStep(d)
  PROVE  Safe(u)' /\ CopiedWhole(u)'
<1> USE TypedAlready, ConstantTypes DEF Alone
<1>0. u \notin Dirs /\ u # d BY DEF Files
<1>1. CASE BeginDir(d) \/ WalkCanceled(d) \/ ChildRaises(d)
  BY <1>0, <1>1, AloneIsSafe
  DEF BeginDir, WalkCanceled, ChildRaises, Raises, Rests, fileVars
<1>2. CASE BeginErase(d) \/ EraseChildren(d) \/ FinishErase(d)
  BY <1>2 DEF BeginErase, EraseChildren, FinishErase
<1>3. CASE FinishDir(d)
  <2>1. u \notin Subdirs(d) \union {d} BY <1>0 DEF Subdirs
  <2>2. Alone(u) BY <1>0, <1>3, <2>1 DEF FinishDir, Rests
  <2> QED BY <2>2, AloneIsSafe
<1>4. ASSUME NEW e \in Dirs, Enter(d, e) PROVE Safe(u)' /\ CopiedWhole(u)'
  <2>1. u # e BY <1>0
  <2>2. Alone(u) BY <1>0, <1>4, <2>1 DEF Enter, Rests
  <2> QED BY <2>2, AloneIsSafe
<1>5. ASSUME NEW t \in Tasks, SpawnFile(d, t) PROVE Safe(u)' /\ CopiedWhole(u)'
  <2>1. source' = source /\ target' = target BY <1>5 DEF SpawnFile, fileVars
  <2>2. pc[t] = "todo" /\ pc' = [pc EXCEPT ![t] = "born"] BY <1>5 DEF SpawnFile, Waiting
  <2>3. CASE u = t BY <2>1, <2>2, <2>3 DEF Safe, CopiedWhole
  <2>4. CASE u # t BY <2>1, <2>2, <2>4, AloneIsSafe
  <2> QED BY <2>3, <2>4
<1> QED BY <1>1, <1>2, <1>3, <1>4, <1>5 DEF DirStep

LEMMA StepIsSafe ==
  ASSUME TypeOK, ~OntoItself, FilesSafe, [Next]_vars
  PROVE  FilesSafe'
<1>0. op' = op
  <2>1. CASE Unseeing BY <2>1 DEF Unseeing
  <2>2. ASSUME NEW t \in Tasks, Asking(t) PROVE op' = op
    BY <2>2 DEF Asking, JobOnly, choiceVars
  <2> QED BY <2>1, <2>2, OnlyAskingIsSeen
<1> SUFFICES ASSUME op # "erase", NEW u \in Files PROVE Safe(u)' /\ CopiedWhole(u)'
  BY <1>0 DEF FilesSafe
<1>1. Safe(u) /\ CopiedWhole(u) /\ u \in Tasks BY ConstantTypes DEF FilesSafe
<1> USE TypedAlready, ConstantTypes DEF Alone
<1>2. ASSUME NEW t \in Tasks, FileStep(t) PROVE Safe(u)' /\ CopiedWhole(u)'
  <2>1. CASE u = t BY <1>1, <1>2, <2>1, OwnStepIsSafe
  <2>2. CASE u # t BY <1>1, <1>2, <2>2, OthersAlone, AloneIsSafe
  <2> QED BY <2>1, <2>2
<1>3. ASSUME NEW d \in Dirs, DirStep(d) PROVE Safe(u)' /\ CopiedWhole(u)'
  BY <1>1, <1>3, DirStepIsSafe
<1>4. ASSUME NEW t \in Tasks, Asking(t) PROVE Safe(u)' /\ CopiedWhole(u)'
  <2>1. source' = source /\ target' = target BY <1>4 DEF Asking, JobOnly, fileVars
  <2>2. \A v \in Tasks : pc'[v] = pc[v] \/ (pc[v] # "done" /\ pc'[v] # "copied")
    BY <1>4 DEF Asking, Request, TakeLock, Poll, Goes, Rests, TypeOK, LockTypeOK
  <2> QED BY <1>1, <2>1, <2>2 DEF Safe, CopiedWhole
<1>5. CASE SpawnStops \/ Gather
  BY <1>1, <1>5, AloneIsSafe DEF SpawnStops, Gather, OnlyRoot, fileVars
<1>6. ASSUME NEW t \in Tasks, Spawn(t) PROVE Safe(u)' /\ CopiedWhole(u)'
  <2>1. source' = source /\ target' = target BY <1>6 DEF Spawn, fileVars
  <2>2. pc[t] = "todo" /\ pc' = [pc EXCEPT ![t] = "born"] BY <1>6 DEF Spawn
  <2> QED BY <1>1, <2>1, <2>2 DEF Safe, CopiedWhole
<1>7. CASE Gui \/ User
  BY <1>1, <1>7, AloneIsSafe
  DEF Gui, ShowDialog, StartReturns, Tick, User, StartJob, Answer, Cancel, Dismiss, JobOnly,
      fileVars
<1>8. ASSUME NEW t \in Tasks, Foreign(t) PROVE Safe(u)' /\ CopiedWhole(u)'
  BY <1>1, <1>8 DEF Foreign, schedulerVars, Safe, CopiedWhole, Absent, Whole
<1>9. CASE UNCHANGED vars
  BY <1>1, <1>9, AloneIsSafe DEF vars, schedulerVars, fileVars
<1> QED
  BY <1>2, <1>3, <1>4, <1>5, <1>6, <1>7, <1>8, <1>9 DEF Next, Worker

\* Unless the files are copied or moved onto themselves, one whole copy of each
\* remains, whatever fails, whatever the user answers and whenever he cancels.
THEOREM NothingIsLost == ASSUME ~OntoItself PROVE Spec => []NothingLost
<1>1. Init => TypeOK /\ FilesSafe
  BY InitTypeOK DEF Init, FilesSafe, Safe, CopiedWhole, SchedulerInit, Files
<1>2. TypeOK /\ FilesSafe /\ [Next]_vars => (TypeOK /\ FilesSafe)'
  BY StepTypeOK, StepIsSafe
<1>3. FilesSafe => NothingLost BY DEF FilesSafe, Safe, NothingLost
<1> QED BY <1>1, <1>2, <1>3, PTL DEF Spec

-----------------------------------------------------------------------------
(* Nothing is replaced or erased without consent.                            *)

\* The selected node is the same all the way down.
LEMMA TopOfInside ==
  ASSUME NEW d \in Tasks, NEW t \in Tasks \ {d}, Parent[t] = d
  PROVE  /\ t \notin Tops
         /\ Top(t) = IF d \in Tops THEN d ELSE Top(d)
<1> DEFINE Closed(S) == \A s \in S : Parent[s] \in S \union {NoTask}
<1> USE ConstantTypes
<1>1. t \notin Tops BY DEF Tops
<1>2. Path[t] = {t} \union Path[d]
  <2>1. ASSUME NEW a \in Path[t], a # t PROVE a \in Path[d]
    <3>1. ASSUME NEW S \in SUBSET Tasks, d \in S, Closed(S) PROVE a \in S
      <4>1. t \in S \union {t} /\ Closed(S \union {t}) /\ S \union {t} \in SUBSET Tasks
        BY <3>1
      <4>2. a \in S \union {t} BY <2>1, <4>1 DEF Path
      <4> QED BY <2>1, <4>2
    <3> QED BY <2>1, <3>1 DEF Path
  <2>2. ASSUME NEW a \in Path[d] PROVE a \in Path[t]
    <3>1. ASSUME NEW S \in SUBSET Tasks, t \in S, Closed(S) PROVE a \in S
      <4>1. d \in S BY <3>1
      <4> QED BY <2>2, <3>1, <4>1 DEF Path
    <3> QED BY <2>2, <3>1 DEF Path
  <2>3. t \in Path[t] BY DEF Path
  <2> QED BY <2>1, <2>2, <2>3
<1>3. CASE d \in Tops
  <2>1. Path[d] = {d}
    <3>1. Parent[d] = NoTask /\ Closed({d}) BY <1>3 DEF Tops
    <3>2. ASSUME NEW a \in Path[d] PROVE a \in {d}
      <4>1. {d} \in SUBSET Tasks /\ d \in {d} OBVIOUS
      <4>2. \A S \in SUBSET Tasks : d \in S /\ Closed(S) => a \in S
        BY <3>2 DEF Path
      <4> HIDE DEF Closed
      <4> QED BY <3>1, <4>1, <4>2
    <3>3. d \in Path[d] BY DEF Path
    <3> QED BY <3>2, <3>3
  <2>2. Tops \intersect Path[t] = {d} BY <1>1, <1>2, <1>3, <2>1
  <2> QED BY <1>1, <1>3, <2>2 DEF Top
<1>4. CASE d \notin Tops
  <2>1. Tops \intersect Path[t] = Tops \intersect Path[d] BY <1>1, <1>2
  <2> QED BY <1>1, <1>4, <2>1 DEF Top
<1> QED BY <1>3, <1>4

\* Where a file is, or may be, replaced.
Replacing == {"open", "write", "copied", "clear", "rename"}

\* A task that was told has an answer; a file gets as far as being replaced only
\* when it was not there or the user agreed; and nothing below a directory is
\* touched, nor a directory with something in it opened up, before he agreed to
\* erase the selected one.
Told(t) == pc[t] = "told" => answer[t] \in Responses
FileAgreed(t) == t \in Files /\ pc[t] \in Replacing => ~exists[t] \/ Consented(t)
EraseAgreed(t) ==
  /\ pc[t] # "walk"
  /\ t \notin Tops /\ pc[t] # "todo" => Consented(Top(t))
  /\ t \in Tops \cap Dirs /\ pc[t] \in {"list", "walking"} => Inside(t) = {} \/ Consented(t)
Agreement ==
  \A t \in Tasks : Told(t) /\ FileAgreed(t) /\ (op = "erase" => EraseAgreed(t))

\* Nobody's answer is taken back.
AnswersStay == \A t \in Tasks : answer[t] # NoResponse => answer'[t] = answer[t]

LEMMA AnswersRemain == ASSUME TypeOK, [Next]_vars PROVE AnswersStay
<1>1. CASE UNCHANGED answer BY <1>1 DEF AnswersStay
<1>2. ASSUME NEW t \in Tasks, Asking(t) PROVE AnswersStay
  <2>1. pc[t] \in {"ask", "queued", "poll"}
    <3>1. CASE Request(t, Title) \/ Poll(t, Title) BY <3>1 DEF Request, Poll
    <3>2. CASE TakeLock(t, Title)
      BY <3>2, TheQueue DEF TakeLock, TypeOK, LockTypeOK
    <3> QED BY <1>2, <3>1, <3>2 DEF Asking
  <2>2. answer[t] = NoResponse BY <2>1 DEF TypeOK, LockTypeOK, Unanswered
  <2>3. \A u \in Tasks \ {t} : answer'[u] = answer[u]
    BY <1>2 DEF Asking, Request, TakeLock, Poll, TypeOK, SchedulerTypeOK, QuestionTypeOK
  <2> QED BY <2>2, <2>3 DEF AnswersStay
<1>3. Unseeing => UNCHANGED answer BY DEF Unseeing
<1> QED BY <1>1, <1>2, <1>3, OnlyAskingIsSeen

LEMMA InitAgreement == Init => Agreement
<1> SUFFICES ASSUME Init PROVE Agreement OBVIOUS
<1>1. \A t \in Tasks : pc[t] = "todo" BY DEF Init, SchedulerInit
<1> QED BY <1>1 DEF Agreement, Told, FileAgreed, EraseAgreed, Replacing

LEMMA TopIsTask == \A t \in Tasks : Top(t) \in Tops
BY RootedAssumption DEF Top

\* What is agreed to once stays so.
LEMMA ConsentStays ==
  ASSUME AnswersStay, NEW t \in Tasks
  PROVE  Consented(t) => Consented(t)'
BY ConstantTypes DEF AnswersStay, Consented, NoResponse

LEMMA TopConsentStays ==
  ASSUME AnswersStay, NEW t \in Tasks
  PROVE  Consented(Top(t)) => Consented(Top(t))'
<1>1. Top(t) \in Tasks BY TopIsTask DEF Tops
<1> QED BY <1>1, ConsentStays

Agrees(t) == Told(t) /\ FileAgreed(t) /\ (op = "erase" => EraseAgreed(t))

\* A task stays where it is, or goes where nothing has to be agreed to, or from
\* one step of a replacement to the next.
Harmless(t) ==
  \/ pc'[t] = pc[t] /\ exists'[t] = exists[t]
  \/ /\ pc'[t] \notin Replacing \union {"told", "walk", "list", "walking"}
     /\ op = "erase" => pc[t] # "todo" \/ t \in Tops
  \/ op # "erase" /\ pc'[t] \notin Replacing \union {"told"}
  \/ pc[t] \in Replacing /\ pc'[t] \in Replacing /\ exists'[t] = exists[t]

LEMMA HarmlessAgrees ==
  ASSUME Agreement, AnswersStay, op' = op, NEW t \in Tasks, Harmless(t)
  PROVE  Agrees(t)'
<1>1. NoResponse \notin Responses BY ConstantTypes
<1>2. Told(t)' BY <1>1 DEF Harmless, Agreement, Told, AnswersStay, Replacing
<1>3. FileAgreed(t)'
  <2>1. FileAgreed(t) BY DEF Agreement
  <2>2. Consented(t) => Consented(t)' BY ConsentStays
  <2>3. CASE pc'[t] \notin Replacing BY <2>3 DEF FileAgreed
  <2>4. CASE pc'[t] \in Replacing
    <3>1. pc[t] \in Replacing /\ exists'[t] = exists[t] BY <2>4 DEF Harmless
    <3> QED BY <2>1, <2>2, <3>1, Zenon DEF FileAgreed
  <2> QED BY <2>3, <2>4
<1>4. ASSUME op' = "erase" PROVE EraseAgreed(t)'
  <2>1. EraseAgreed(t) /\ op = "erase" BY <1>4 DEF Agreement
  <2>2. pc'[t] # "walk" BY <2>1 DEF Harmless, EraseAgreed, Replacing
  <2>3. Consented(Top(t)) => Consented(Top(t))' BY TopConsentStays
  <2>4. Consented(t) => Consented(t)' BY ConsentStays
  <2>5. pc'[t] # "todo" => pc[t] # "todo" \/ t \in Tops
    BY <2>1 DEF Harmless, Replacing
  <2>6. pc'[t] \in {"list", "walking"} => pc[t] = pc'[t]
    BY <2>1 DEF Harmless, Replacing
  <2>7. t \notin Tops /\ pc'[t] # "todo" => Consented(Top(t))'
    BY <2>1, <2>3, <2>5 DEF EraseAgreed
  <2>8. t \in Tops \cap Dirs /\ pc'[t] \in {"list", "walking"}
          => Inside(t) = {} \/ Consented(t)'
    BY <2>1, <2>4, <2>6 DEF EraseAgreed
  <2> QED BY <2>2, <2>7, <2>8 DEF EraseAgreed
<1> QED BY <1>2, <1>3, <1>4 DEF Agrees

LEMMA FileStepAgrees ==
  ASSUME TypeOK, Agreement, AnswersStay, op' = op, NEW t \in Tasks, FileStep(t)
  PROVE  Agreement'
<1> USE TypedAlready
<1>1. ASSUME NEW u \in Tasks \ {t} PROVE Agrees(u)'
  <2>1. pc'[u] = pc[u] BY <1>1, OthersAlone DEF Alone
  <2>2. exists'[u] = exists[u]
    BY DEF FileStep, CancelSeen, FilteredOut, BeginFile, Declined, Agreed, Open, Write,
       WriteCanceled, Copied, Clear, Rename, EraseFile, CallFails, localVars
  <2> QED BY <2>1, <2>2, HarmlessAgrees DEF Harmless
<1>2. Agrees(t)'
  <2>1. CASE BeginFile(t)
    <3>1. op # "erase" /\ exists' = [exists EXCEPT ![t] = At(t) # Absent]
      BY <2>1 DEF BeginFile
    <3>2. exists'[t] <=> At(t) # Absent BY <3>1, Zenon DEF TypeOK
    <3>3. CASE At(t) # Absent
      <4>1. pc'[t] = "ask" BY <2>1, <3>3 DEF BeginFile, Goes
      <4> QED BY <3>1, <4>1 DEF Agrees, Told, FileAgreed, Replacing
    <3>4. CASE At(t) = Absent
      <4>1. pc'[t] # "told" BY <2>1, <3>4 DEF BeginFile, Goes
      <4>2. ~exists'[t] BY <3>2, <3>4
      <4>3. FileAgreed(t)' BY <4>2 DEF FileAgreed
      <4> QED BY <3>1, <4>1, <4>3 DEF Agrees, Told
    <3> QED BY <3>3, <3>4
  <2>2. CASE Agreed(t)
    <3>1. /\ pc[t] = "told" /\ pc'[t] \in Replacing /\ Accepted(t)
      BY <2>2 DEF Agreed, Goes, Replacing
    <3>2. Consented(t)
      BY <3>1 DEF Agreement, Told, Accepted, Consented, Responses, Rejections
    <3>3. Told(t)' BY <3>1 DEF Told, Replacing
    <3>4. FileAgreed(t)' BY <3>2, ConsentStays DEF FileAgreed, Consented
    <3>5. ASSUME op = "erase" PROVE EraseAgreed(t)'
      <4>1. EraseAgreed(t) BY <3>5 DEF Agreement
      <4>2. pc'[t] \notin {"walk", "list", "walking"} BY <3>1 DEF Replacing
      <4>3. t \notin Tops => Consented(Top(t))'
        BY <3>1, <4>1, TopConsentStays DEF EraseAgreed
      <4> QED BY <4>2, <4>3 DEF EraseAgreed
    <3> QED BY <3>3, <3>4, <3>5 DEF Agrees
  <2>3. CASE Open(t) \/ Write(t) \/ Clear(t)
    <3>1. pc[t] \in Replacing /\ pc'[t] \in Replacing /\ exists'[t] = exists[t]
      BY <2>3 DEF Open, Write, Clear, Goes, Replacing, localVars
    <3> QED BY <3>1, HarmlessAgrees DEF Harmless
  <2>4. CASE CancelSeen(t) \/ FilteredOut(t) \/ Declined(t) \/ WriteCanceled(t)
               \/ Copied(t) \/ Rename(t) \/ EraseFile(t) \/ CallFails(t)
    <3>1. pc[t] # "todo" /\ pc'[t] \in {"done", "canceled", "failed"}
      BY <2>4 DEF CancelSeen, FilteredOut, Declined, WriteCanceled, Copied, Rename,
                  EraseFile, CallFails, Fallible, Raises, Rests
    <3> QED BY <3>1, HarmlessAgrees DEF Harmless, Replacing
  <2> QED BY <2>1, <2>2, <2>3, <2>4 DEF FileStep
<1> QED BY <1>1, <1>2 DEF Agreement, Agrees

LEMMA DirStepAgrees ==
  ASSUME TypeOK, Agreement, AnswersStay, op' = op, NEW d \in Dirs, DirStep(d)
  PROVE  Agreement'
<1> USE TypedAlready, ConstantTypes
<1>0. d \notin Files BY DEF Files
<1>1. exists' = exists
  BY DEF DirStep, BeginDir, WalkCanceled, FinishDir, ChildRaises, BeginErase,
         EraseChildren, FinishErase, Enter, SpawnFile, localVars
<1>2. ASSUME NEW t \in Tasks, NEW where \in AllPcs, pc' = [pc EXCEPT ![t] = where],
             Agrees(t)'
      PROVE  Agreement'
  <2>1. ASSUME NEW u \in Tasks \ {t} PROVE Agrees(u)'
    BY <1>1, <1>2, <2>1, HarmlessAgrees DEF Harmless
  <2> QED BY <1>2, <2>1 DEF Agreement, Agrees
<1>3. CASE BeginDir(d)
  <2>1. pc' = [pc EXCEPT ![d] = "walk"] /\ op # "erase"
    BY <1>3 DEF BeginDir, Rests
  <2>2. Agrees(d)' BY <2>1, HarmlessAgrees DEF Harmless, Replacing
  <2> QED BY <1>2, <2>1, <2>2, Places
<1>4. CASE WalkCanceled(d) \/ FinishDir(d) \/ ChildRaises(d) \/ FinishErase(d)
  <2>1. PICK where \in {"done", "canceled", "failed"} : pc' = [pc EXCEPT ![d] = where]
    BY <1>4 DEF WalkCanceled, FinishDir, ChildRaises, FinishErase, Raises, Rests, Raised
  <2>2. pc[d] # "todo"
    BY <1>4 DEF WalkCanceled, FinishDir, ChildRaises, FinishErase
  <2>3. Agrees(d)' BY <2>1, <2>2, HarmlessAgrees DEF Harmless, Replacing
  <2> QED BY <1>2, <2>1, <2>3, Places
<1>5. CASE BeginErase(d)
  <2>1. op = "erase" /\ pc[d] = "born" BY <1>5 DEF BeginErase
  <2>2. CASE AsksFirst(d)
    <3>1. pc' = [pc EXCEPT ![d] = "ask"] BY <1>5, <2>2 DEF BeginErase, Goes
    <3>2. Agrees(d)' BY <2>1, <3>1, HarmlessAgrees DEF Harmless, Replacing
    <3> QED BY <1>2, <3>1, <3>2, Places
  <2>3. CASE ~AsksFirst(d)
    <3>1. pc' = [pc EXCEPT ![d] = "list"] BY <1>5, <2>3 DEF BeginErase, Goes
    <3>2. EraseAgreed(d) BY <2>1 DEF Agreement
    <3>3. EraseAgreed(d)'
      BY <2>1, <2>3, <3>1, <3>2, TopConsentStays DEF EraseAgreed, AsksFirst
    <3>4. Agrees(d)' BY <1>0, <3>1, <3>3 DEF Agrees, Told, FileAgreed
    <3> QED BY <1>2, <3>1, <3>4, Places
  <2> QED BY <2>2, <2>3
<1>6. CASE EraseChildren(d)
  <2>1. pc' = [pc EXCEPT ![d] = "walking"] /\ op = "erase" /\ EraseAgreed(d)
    BY <1>6 DEF EraseChildren, Rests, Agreement
  <2>2. pc[d] = "list" \/ Consented(d)
    BY <1>6 DEF EraseChildren, Agreement, Told, Accepted, Consented, Responses, Rejections
  <2>3. pc[d] \in {"list", "told"} BY <1>6 DEF EraseChildren
  <2>4. d \notin Tops => Consented(Top(d))'
    BY <2>1, <2>3, TopConsentStays DEF EraseAgreed
  <2>5. d \in Tops => Inside(d) = {} \/ Consented(d)'
    BY <2>1, <2>2, ConsentStays DEF EraseAgreed
  <2>6. EraseAgreed(d)' BY <2>1, <2>4, <2>5 DEF EraseAgreed
  <2>7. Agrees(d)' BY <1>0, <2>1, <2>6 DEF Agrees, Told, FileAgreed
  <2> QED BY <1>2, <2>1, <2>7, Places
<1>7. ASSUME NEW e \in Dirs, Enter(d, e) PROVE Agreement'
  <2>1. op # "erase"
    BY <1>7 DEF Enter, Subdirs, Agreement, EraseAgreed
  <2>2. PICK t \in Tasks, where \in {"walking", "entered"} : pc' = [pc EXCEPT ![t] = where]
    BY <1>7 DEF Enter, Rests
  <2>3. Agrees(t)' BY <2>1, <2>2, HarmlessAgrees DEF Harmless, Replacing
  <2> QED BY <1>2, <2>2, <2>3, Places
<1>8. ASSUME NEW t \in Tasks, SpawnFile(d, t) PROVE Agreement'
  <2>1. /\ pc' = [pc EXCEPT ![t] = "born"] /\ pc[d] = "walking"
        /\ t \in Due(d)
    BY <1>8 DEF SpawnFile, Waiting
  <2>2. CASE op = "erase"
    <3>1. t \in Tasks \ {d} /\ Parent[t] = d /\ d \in Tasks
      BY <2>1, <2>2 DEF Due, Owner
    <3>2. Consented(Top(t))
      <4>1. t \in Inside(d) BY <3>1 DEF Inside
      <4>2. EraseAgreed(d) BY <2>2 DEF Agreement
      <4> QED BY <2>1, <3>1, <4>1, <4>2, TopOfInside DEF EraseAgreed
    <3>3. Consented(Top(t))' BY <3>2, TopConsentStays
    <3>4. Agrees(t)'
      BY <2>1, <3>3 DEF Agrees, Told, FileAgreed, EraseAgreed, Replacing
    <3> QED BY <1>2, <2>1, <3>4, Places
  <2>3. CASE op # "erase"
    <3>1. Agrees(t)' BY <2>1, <2>3, HarmlessAgrees DEF Harmless, Replacing
    <3> QED BY <1>2, <2>1, <3>1, Places
  <2> QED BY <2>2, <2>3
<1> QED BY <1>3, <1>4, <1>5, <1>6, <1>7, <1>8 DEF DirStep

LEMMA StepAgrees ==
  ASSUME TypeOK, Agreement, [Next]_vars
  PROVE  Agreement' /\ op' = op
<1> USE TypedAlready, ConstantTypes
<1>1. AnswersStay BY AnswersRemain
<1>2. op' = op
  <2>1. CASE Unseeing BY <2>1 DEF Unseeing
  <2>2. ASSUME NEW t \in Tasks, Asking(t) PROVE op' = op
    BY <2>2 DEF Asking, JobOnly, choiceVars
  <2> QED BY <2>1, <2>2, OnlyAskingIsSeen
<1>3. ASSUME pc' = pc, exists' = exists PROVE Agreement'
  <2>1. \A u \in Tasks : Harmless(u) BY <1>3 DEF Harmless
  <2> QED BY <1>1, <1>2, <2>1, HarmlessAgrees DEF Agreement, Agrees
<1>4. ASSUME NEW t \in Tasks, FileStep(t) PROVE Agreement'
  BY <1>1, <1>2, <1>4, FileStepAgrees
<1>5. ASSUME NEW d \in Dirs, DirStep(d) PROVE Agreement'
  BY <1>1, <1>2, <1>5, DirStepAgrees
<1>6. ASSUME NEW t \in Tasks, Spawn(t) PROVE Agreement'
  <2>1. pc' = [pc EXCEPT ![t] = "born"] /\ t \in Tops /\ exists' = exists
    BY <1>6 DEF Spawn, localVars
  <2>2. \A u \in Tasks : Harmless(u) BY <2>1, Places DEF Harmless, Replacing
  <2> QED BY <1>1, <1>2, <2>2, HarmlessAgrees DEF Agreement, Agrees
<1>7. ASSUME NEW t \in Tasks, Asking(t) PROVE Agreement'
  <2>1. exists' = exists BY <1>7 DEF Asking, JobOnly, localVars
  <2>2. ASSUME NEW u \in Tasks \ {t} PROVE Agrees(u)'
    <3>1. pc'[u] = pc[u] BY <1>7 DEF Asking, Request, TakeLock, Poll, Goes, Rests
    <3> QED BY <1>1, <1>2, <2>1, <3>1, HarmlessAgrees DEF Harmless
  <2>3. pc[t] \in {"ask", "queued", "poll"}
    <3>1. CASE Request(t, Title) \/ Poll(t, Title) BY <3>1 DEF Request, Poll
    <3>2. CASE TakeLock(t, Title)
      BY <3>2, TheQueue DEF TakeLock, TypeOK, LockTypeOK
    <3> QED BY <1>7, <3>1, <3>2 DEF Asking
  <2>4. pc'[t] \in {"queued", "poll", "told"}
    BY <1>7 DEF Asking, Request, TakeLock, Poll, Goes, Rests
  <2>5. pc'[t] = "told" => answer'[t] \in Responses
    <3>1. CASE Request(t, Title)
      BY <3>1 DEF Request, Goes, Rests, TypeOK, SchedulerTypeOK, QuestionTypeOK
    <3>2. CASE TakeLock(t, Title)
      BY <3>2 DEF TakeLock, Recheck, Goes, Rests, TypeOK, SchedulerTypeOK, QuestionTypeOK
    <3>3. CASE Poll(t, Title)
      BY <3>3 DEF Poll, TypeOK, SchedulerTypeOK, QuestionTypeOK
    <3> QED BY <1>7, <3>1, <3>2, <3>3 DEF Asking
  <2>6. ASSUME op = "erase" PROVE EraseAgreed(t)'
    <3>1. EraseAgreed(t) BY <2>6 DEF Agreement
    <3> QED BY <1>1, <2>3, <2>4, <3>1, TopConsentStays DEF EraseAgreed
  <2>7. Agrees(t)' BY <1>2, <2>4, <2>5, <2>6 DEF Agrees, Told, FileAgreed, Replacing
  <2> QED BY <2>2, <2>7 DEF Agreement, Agrees
<1>8. CASE SpawnStops \/ Gather \/ Gui \/ User \/ \E t \in Tasks : Foreign(t)
  <2>1. pc' = pc /\ exists' = exists
    BY <1>8 DEF SpawnStops, Gather, OnlyRoot, Gui, ShowDialog, StartReturns, Tick, User,
       StartJob, Answer, Cancel, Dismiss, JobOnly, Foreign, schedulerVars, localVars
  <2> QED BY <1>2, <1>3, <2>1
<1>9. CASE UNCHANGED vars BY <1>2, <1>3, <1>9 DEF vars, schedulerVars, localVars
<1> QED
  BY <1>2, <1>4, <1>5, <1>6, <1>7, <1>8, <1>9 DEF Next, Worker

\* One step does what the property allows.
LEMMA StepIsAgreedTo ==
  ASSUME TypeOK, Agreement, [Next]_vars, NEW t \in Files
  PROVE  /\ target[t] = Theirs /\ target'[t] # Theirs => ~exists[t] \/ Consented(t)
         /\ op = "erase" /\ source'[t] # source[t] /\ t \notin Tops => Consented(Top(t))
<1> USE TypedAlready, ConstantTypes
<1>1. FileAgreed(t) /\ (op = "erase" => EraseAgreed(t)) BY DEF Agreement
<1>2. CASE source'[t] = source[t] /\ target'[t] = target[t] BY <1>2
<1>3. CASE FileStep(t)
  <2>1. ASSUME target'[t] # target[t] PROVE pc[t] \in Replacing
    BY <1>3, <2>1
    DEF FileStep, CancelSeen, FilteredOut, BeginFile, Declined, Agreed, Open, Write,
        WriteCanceled, Copied, Clear, Rename, EraseFile, CallFails, Drops, Replacing,
        fileVars
  <2>2. pc[t] # "todo"
    BY <1>3 DEF FileStep, CancelSeen, FilteredOut, BeginFile, Declined, Agreed, Open, Write,
        WriteCanceled, Copied, Clear, Rename, EraseFile, CallFails, Fallible
  <2>3. op = "erase" /\ t \notin Tops => Consented(Top(t)) BY <1>1, <2>2 DEF EraseAgreed
  <2>4. target'[t] # target[t] => ~exists[t] \/ Consented(t)
    BY <1>1, <2>1, Zenon DEF FileAgreed
  <2> QED BY <2>3, <2>4
<1>4. ASSUME NEW u \in Tasks \ {t}, FileStep(u) PROVE Alone(t)
  BY <1>4, OthersAlone
<1>5. ASSUME NEW d \in Dirs, DirStep(d)
      PROVE  Alone(t) \/ (source'[t] = source[t] /\ target'[t] = target[t])
  <2>0. t \notin Dirs /\ t # d BY DEF Files
  <2>1. CASE FinishDir(d)
    <3>1. t \notin Subdirs(d) \union {d} BY <2>0 DEF Subdirs
    <3> QED BY <2>1, <3>1 DEF FinishDir
  <2>2. CASE FinishErase(d) BY <2>0, <2>2 DEF FinishErase, Drops
  <2>3. ASSUME NEW e \in Dirs, Enter(d, e) PROVE source'[t] = source[t] /\ target'[t] = target[t]
    <3>1. t # e BY <2>0
    <3> QED BY <2>3, <3>1 DEF Enter
  <2>4. CASE BeginDir(d) \/ WalkCanceled(d) \/ ChildRaises(d) \/ BeginErase(d)
               \/ EraseChildren(d) \/ \E u \in Tasks : SpawnFile(d, u)
    BY <2>4 DEF BeginDir, WalkCanceled, ChildRaises, BeginErase, EraseChildren, SpawnFile,
       fileVars
  <2> QED BY <1>5, <2>1, <2>2, <2>3, <2>4 DEF DirStep
<1>6. ASSUME NEW u \in Tasks, Foreign(u)
      PROVE  source'[t] = source[t] /\ (target[t] = Theirs => target'[t] = Theirs)
  BY <1>6 DEF Foreign
<1>7. CASE SpawnStops \/ Gather \/ Gui \/ User \/ UNCHANGED vars
           \/ \E u \in Tasks : Spawn(u) \/ Asking(u)
  BY <1>7 DEF SpawnStops, Gather, OnlyRoot, Gui, User, JobOnly, Spawn, Asking, vars, fileVars
<1> QED
  BY <1>2, <1>3, <1>4, <1>5, <1>6, <1>7 DEF Next, Worker, Alone

\* Whatever fails and whoever answers what, a file that was found at the
\* destination is replaced, and what is in a selected directory erased, only after
\* the user agreed.
THEOREM NothingWithoutConsent == Spec => OnlyWithConsent
<1>1. Init => TypeOK /\ Agreement BY InitTypeOK, InitAgreement
<1>2. TypeOK /\ Agreement /\ [Next]_vars => (TypeOK /\ Agreement)'
  BY StepTypeOK, StepAgrees
<1>3. TypeOK /\ Agreement /\ [Next]_vars =>
        [\A t \in Files :
           /\ target[t] = Theirs /\ target'[t] # Theirs => ~exists[t] \/ Consented(t)
           /\ op = "erase" /\ source'[t] # source[t] /\ t \notin Tops => Consented(Top(t))]_vars
  BY StepIsAgreedTo
<1> QED BY <1>1, <1>2, <1>3, PTL DEF Spec, OnlyWithConsent

-----------------------------------------------------------------------------
(* A job that shows as completed has done its work.                          *)

\* The counters speak of sets: completed is the number of nodes that are done
\* with or entered, and total covers all that was announced: the selection, what
\* is under way, and what is in the directories that were opened.
Ended == {"done", "entered"}
Counted == {t \in Tasks : pc[t] \in Ended}
Opened(p) ==
  pc[p] \in {"walking", "entered"} \/ (pc[p] = "done" /\ answer[p] \notin Rejections)
Announced ==
  {t \in Tasks : t \in Tops \/ pc[t] # "todo" \/ (Parent[t] \in Dirs /\ Opened(Parent[t]))}

Fresh ==
  thread = "idle" =>
    state = "initialized" /\ completed = 0 /\ \A t \in Tasks : pc[t] = "todo"
Adds ==
  /\ completed = Cardinality(Counted)
  /\ thread # "idle" => Cardinality(Announced) <= total
AllCounted == state = "completed" => Announced \subseteq Counted
Tally == Fresh /\ Adds /\ AllCounted

\* Directories are not opened as files, and asked about only to be erased, when
\* nobody is asked about a file.
Asked == {"ask", "queued", "poll", "told"}
Apt(t) ==
  /\ t \in Files => pc[t] # "entered"
  /\ t \in Dirs \/ op = "erase" =>
       /\ pc[t] \notin Replacing
       /\ pc[t] \in Asked \/ answer[t] # NoResponse => op = "erase" /\ t \in Tops \intersect Dirs
AllApt == \A t \in Tasks : Apt(t)

\* What a task that is done has done to its file.
Worked(t) ==
  pc[t] = "done" => \/ t \in filtered \/ answer[t] \in Rejections
                    \/ /\ op # "erase" => target[t] = Whole
                       /\ op # "copy" => source[t] = Absent
FilesWorked == \A t \in Files : Worked(t)


LEMMA FiniteSubsets ==
  ASSUME NEW S \in SUBSET Tasks
  PROVE  IsFiniteSet(S) /\ Cardinality(S) \in Nat
BY TreeAssumption, FS_Subset, FS_CardinalityType

LEMMA Sizes ==
  ASSUME NEW S \in SUBSET Tasks, NEW T \in SUBSET Tasks
  PROVE  /\ S \subseteq T => Cardinality(S) <= Cardinality(T)
         /\ S \subseteq T /\ Cardinality(T) <= Cardinality(S) => S = T
         /\ Cardinality(S \union T) <= Cardinality(S) + Cardinality(T)
<1>1. /\ IsFiniteSet(S) /\ Cardinality(S) \in Nat
      /\ IsFiniteSet(T) /\ Cardinality(T) \in Nat
  BY FiniteSubsets
<1>2. ASSUME S \subseteq T
      PROVE  /\ Cardinality(S) <= Cardinality(T)
             /\ Cardinality(T) <= Cardinality(S) => S = T
  <2>1. /\ Cardinality(S) <= Cardinality(T)
        /\ Cardinality(T) = Cardinality(S) => T = S
    BY <1>1, <1>2, FS_Subset
  <2> QED BY <1>1, <2>1
<1>3. Cardinality(S \union T) = Cardinality(S) + Cardinality(T) - Cardinality(S \intersect T)
  BY <1>1, FS_Union
<1>4. Cardinality(S \intersect T) \in Nat BY FiniteSubsets
<1> QED BY <1>1, <1>2, <1>3, <1>4

LEMMA CountedAreAnnounced ==
  /\ Counted \in SUBSET Tasks /\ Announced \in SUBSET Tasks
  /\ Counted \subseteq Announced
BY DEF Counted, Announced, Ended

\* A step of the task t: it goes to another place, counts itself when that ends
\* it, and adds what it opens to the total.
Moves(t) ==
  \E where \in AllPcs, new \in SUBSET Tasks :
    /\ pc[t] \notin Ended /\ t \in Announced
    /\ pc' = [pc EXCEPT ![t] = where]
    /\ completed' = completed + (IF where \in Ended THEN 1 ELSE 0)
    /\ total' = total + Cardinality(new)
    /\ Opened(t)' /\ t \in Dirs => Opened(t) \/ Inside(t) \subseteq new
    /\ state' = "completed" => state = "completed" \/ completed' >= total'

LEMMA MovesTally ==
  ASSUME TypeOK, Adds, AllCounted, AnswersStay, thread # "idle", NEW t \in Tasks, Moves(t)
  PROVE  Adds' /\ AllCounted'
<1> USE TypedAlready, ConstantTypes
<1>1. PICK where \in AllPcs, new \in SUBSET Tasks :
        /\ pc[t] \notin Ended /\ t \in Announced
        /\ pc' = [pc EXCEPT ![t] = where]
        /\ completed' = completed + (IF where \in Ended THEN 1 ELSE 0)
        /\ total' = total + Cardinality(new)
        /\ Opened(t)' /\ t \in Dirs => Opened(t) \/ Inside(t) \subseteq new
        /\ state' = "completed" => state = "completed" \/ completed' >= total'
  BY DEF Moves
<1>2. \A u \in Tasks : pc'[u] = IF u = t THEN where ELSE pc[u] BY <1>1
<1>3. Cardinality(new) \in Nat /\ Cardinality(Announced) \in Nat
      /\ Cardinality(Counted) \in Nat
  BY FiniteSubsets, CountedAreAnnounced
<1>4. completed' = Cardinality(Counted')
  <2>1. t \notin Counted BY <1>1 DEF Counted
  <2>2. CASE where \in Ended
    <3>1. Counted' = Counted \union {t} BY <1>2, <2>2 DEF Counted
    <3>2. Cardinality(Counted \union {t}) = Cardinality(Counted) + 1
      BY <2>1, FiniteSubsets, CountedAreAnnounced, FS_AddElement
    <3> QED BY <1>1, <2>2, <3>1, <3>2 DEF Adds
  <2>3. CASE where \notin Ended
    <3>1. Counted' = Counted BY <1>1, <1>2, <2>3 DEF Counted
    <3> QED BY <1>1, <1>3, <2>3, <3>1 DEF Adds
  <2> QED BY <2>2, <2>3
<1>5. Announced' \subseteq Announced \union new
  <2> SUFFICES ASSUME NEW u \in Announced', u # t PROVE u \in Announced \union new
    BY <1>1
  <2>1. u \in Tasks /\ pc'[u] = pc[u] BY <1>2 DEF Announced
  <2>2. CASE u \in Tops \/ pc'[u] # "todo" BY <2>1, <2>2 DEF Announced
  <2>3. ASSUME NEW p \in Dirs, Parent[u] = p, Opened(p)' PROVE u \in Announced \union new
    <3>1. CASE p = t
      <4>1. u \in Inside(t) BY <2>1, <2>3, <3>1 DEF Inside
      <4>2. Opened(t) \/ Inside(t) \subseteq new BY <1>1, <2>3, <3>1
      <4> QED BY <2>1, <2>3, <3>1, <4>1, <4>2 DEF Announced
    <3>2. CASE p # t
      <4>1. pc'[p] = pc[p] BY <1>2, <3>2
      <4>2. answer[p] \in Rejections => answer'[p] = answer[p]
        BY DEF AnswersStay, Rejections, NoResponse
      <4>3. Opened(p) BY <2>3, <4>1, <4>2 DEF Opened
      <4> QED BY <2>1, <2>3, <4>3 DEF Announced
    <3> QED BY <3>1, <3>2
  <2> QED BY <2>2, <2>3 DEF Announced
<1>6. Announced' \in SUBSET Tasks /\ Counted' \in SUBSET Tasks /\ Counted' \subseteq Announced'
  BY DEF Counted, Announced, Ended
<1>7. Cardinality(Announced') \in Nat /\ Cardinality(Counted') \in Nat
  BY <1>6, FiniteSubsets
<1>8. Cardinality(Announced') <= total'
  <2>1. Cardinality(Announced') <= Cardinality(Announced \union new)
    <3>1. Announced \union new \in SUBSET Tasks BY CountedAreAnnounced
    <3>2. \A S, T \in SUBSET Tasks : S \subseteq T => Cardinality(S) <= Cardinality(T)
      BY Sizes
    <3> HIDE TypedAlready, ConstantTypes
    <3> QED BY <1>5, <1>6, <3>1, <3>2
  <2>2. Cardinality(Announced \union new) <= Cardinality(Announced) + Cardinality(new)
    BY CountedAreAnnounced, Sizes
  <2>3. Cardinality(Announced \union new) \in Nat BY CountedAreAnnounced, FiniteSubsets
  <2>4. Cardinality(Announced) <= total BY DEF Adds
  <2> QED BY <1>1, <1>3, <1>7, <2>1, <2>2, <2>3, <2>4
<1>9. ASSUME state' = "completed" PROVE Announced' \subseteq Counted'
  <2>1. state # "completed" BY <1>1 DEF AllCounted, Counted
  <2>2. completed' >= total' BY <1>1, <1>9, <2>1
  <2>3. total' \in Nat BY <1>1, <1>3
  <2>4. Cardinality(Announced') <= Cardinality(Counted')
    BY <1>4, <1>7, <1>8, <2>2, <2>3
  <2> QED BY <1>6, <2>4, Sizes
<1>10. Adds' BY <1>4, <1>8 DEF Adds
<1>11. AllCounted' BY <1>9 DEF AllCounted
<1> QED BY <1>10, <1>11

\* A step that ends nothing and opens nothing.
LEMMA GoingOnMoves ==
  ASSUME TypeOK, NEW t \in Tasks, NEW where \in AllPcs \ (Ended \union {"walking"}),
         pc[t] \notin Ended, t \in Announced, pc' = [pc EXCEPT ![t] = where],
         NoProgress \/ Counts(0, 0, stepOpen) \/ Counts(0, 0, TRUE) \/ Counts(0, 0, FALSE)
  PROVE  Moves(t)
<1> USE TypedAlready
<1>1. completed' = completed /\ total' = total
      /\ (state' = "completed" => state = "completed" \/ completed' >= total')
  BY DEF NoProgress, progressVars, Counts
<1>2. pc'[t] = where OBVIOUS
<1>3. ~Opened(t)' BY <1>2 DEF Opened, Ended
<1>4. where \in AllPcs /\ where \notin Ended /\ {} \in SUBSET Tasks /\ Cardinality({}) = 0
  BY FS_EmptySet
<1>5. completed' = completed + (IF where \in Ended THEN 1 ELSE 0)
      /\ total' = total + Cardinality({})
  BY <1>1, <1>4
<1> QED BY <1>1, <1>3, <1>4, <1>5 DEF Moves

\* A step that ends its task and opens nothing.
LEMMA EndingMoves ==
  ASSUME TypeOK, AnswersStay, NEW t \in Tasks,
         pc[t] \notin Ended, t \in Announced, pc' = [pc EXCEPT ![t] = "done"],
         Counts(1, 0, stepOpen),
         t \in Files \/ pc[t] = "walking" \/ answer[t] \in Rejections
  PROVE  Moves(t)
<1> USE TypedAlready
<1>1. completed' = completed + 1 /\ total' = total
      /\ (state' = "completed" => state = "completed" \/ completed' >= total')
  BY DEF Counts
<1>2. pc'[t] = "done" /\ "done" \in AllPcs BY Places
<1>3. Opened(t)' /\ t \in Dirs => Opened(t)
  <2>1. CASE t \in Files BY <2>1 DEF Files
  <2>2. CASE pc[t] = "walking" BY <2>2 DEF Opened
  <2>3. CASE answer[t] \in Rejections
    <3>1. answer'[t] = answer[t] BY <2>3 DEF AnswersStay, Rejections, NoResponse
    <3> QED BY <1>2, <2>3, <3>1 DEF Opened
  <2> QED BY <2>1, <2>2, <2>3
<1>4. "done" \in Ended /\ {} \in SUBSET Tasks /\ Cardinality({}) = 0
  BY FS_EmptySet DEF Ended
<1>5. completed' = completed + (IF "done" \in Ended THEN 1 ELSE 0)
      /\ total' = total + Cardinality({})
  BY <1>1, <1>4
<1> QED BY <1>1, <1>2, <1>3, <1>4, <1>5 DEF Moves

LEMMA UnderWay ==
  ASSUME NEW t \in Tasks, pc[t] # "todo"
  PROVE  t \in Announced
BY DEF Announced

LEMMA FileStepMoves ==
  ASSUME TypeOK, AllApt, AnswersStay, NEW t \in Tasks, FileStep(t)
  PROVE  Moves(t)
<1> USE Places, UnderWay DEF Ended
<1>1. CASE CancelSeen(t)
  BY <1>1, GoingOnMoves DEF CancelSeen, Raises, Rests
<1>2. CASE FilteredOut(t)
  <2>1. t \in Files BY <1>2 DEF FilteredOut, TypeOK
  <2> QED BY <1>2, <2>1, EndingMoves DEF FilteredOut, Rests
<1>3. CASE BeginFile(t)
  BY <1>3, GoingOnMoves DEF BeginFile, Goes
<1>4. CASE Declined(t)
  BY <1>4, EndingMoves DEF Declined, Accepted, Rests
<1>5. CASE Agreed(t)
  BY <1>5, GoingOnMoves DEF Agreed, Goes
<1>6. CASE Open(t)
  BY <1>6, GoingOnMoves DEF Open, Goes
<1>7. CASE Write(t)
  BY <1>7, GoingOnMoves DEF Write, Goes
<1>8. CASE WriteCanceled(t)
  BY <1>8, GoingOnMoves DEF WriteCanceled, Raises, Rests
<1>9. CASE Copied(t) \/ Rename(t) \/ EraseFile(t)
  <2>1. t \in Files
    BY <1>9 DEF Copied, Rename, EraseFile, AllApt, Apt, Replacing, Files
  <2> QED BY <1>9, <2>1, EndingMoves DEF Copied, Rename, EraseFile, Rests
<1>10. CASE Clear(t)
  BY <1>10, GoingOnMoves DEF Clear, Goes
<1>11. CASE CallFails(t)
  BY <1>11, GoingOnMoves DEF CallFails, Fallible, Raises, Rests
<1> QED
  BY <1>1, <1>2, <1>3, <1>4, <1>5, <1>6, <1>7, <1>8, <1>9, <1>10, <1>11 DEF FileStep

LEMMA AskingMoves ==
  ASSUME TypeOK, NEW t \in Tasks, Asking(t)
  PROVE  Moves(t)
<1> USE Places, UnderWay DEF Ended
<1>1. NoProgress
  BY DEF Asking, Request, TakeLock, Poll, NoProgress, progressVars
<1>2. pc[t] \in {"ask", "queued", "poll"}
  <2>1. CASE Request(t, Title) \/ Poll(t, Title) BY <2>1 DEF Request, Poll
  <2>2. CASE TakeLock(t, Title)
    BY <2>2, TheQueue DEF TakeLock, TypeOK, LockTypeOK
  <2> QED BY <2>1, <2>2 DEF Asking
<1>3. PICK where \in {"told", "queued", "poll"} : pc' = [pc EXCEPT ![t] = where]
  BY DEF Asking, Request, TakeLock, Poll, Goes, Rests
<1> QED BY <1>1, <1>2, <1>3, GoingOnMoves

\* What a directory has found is announced as soon as its own is opened.
LEMMA DueIsAnnounced ==
  ASSUME NEW t \in Tasks, NEW d \in Dirs, pc[d] = "walking",
         Parent[t] = d \/ pc[Parent[t]] = "entered"
  PROVE  t \in Announced
<1>1. CASE t \in Tops BY <1>1 DEF Announced
<1>2. CASE t \notin Tops
  <2>1. Parent[t] \in Dirs BY <1>2, TreeAssumption DEF Tops
  <2>2. Opened(Parent[t]) BY DEF Opened
  <2> QED BY <2>1, <2>2 DEF Announced
<1> QED BY <1>1, <1>2

\* While a directory is walked the job cannot show as completed: it has not
\* counted itself.
LEMMA EnterMoves ==
  ASSUME TypeOK, Adds, thread # "idle", NEW d \in Dirs, NEW e \in Dirs, Enter(d, e)
  PROVE  Moves(e)
<1> USE TypedAlready, ConstantTypes, Places
<1>1. Inside(e) \in SUBSET Tasks BY DEF Inside
<1>2. total' = total + Cardinality(Inside(e)) /\ Cardinality(Inside(e)) \in Nat
  BY <1>1, FiniteSubsets DEF Enter, Found
<1>3. CASE e = d
  <2>1. /\ pc[e] = "walk" /\ pc' = [pc EXCEPT ![e] = "walking"]
        /\ completed' = completed
        /\ state' = "completed" => state = "completed" \/ completed' >= total'
    BY <1>3 DEF Enter, Rests, Subdirs
  <2>2. e \in Announced BY <2>1, UnderWay
  <2>3. pc[e] \notin Ended /\ "walking" \notin Ended /\ "walking" \in AllPcs
    BY <2>1 DEF Ended
  <2>4. completed' = completed + (IF "walking" \in Ended THEN 1 ELSE 0)
    BY <2>1, <2>3
  <2> QED BY <1>1, <1>2, <2>1, <2>2, <2>3, <2>4 DEF Moves
<1>4. CASE e # d
  <2>1. /\ e \in Tasks /\ pc[d] = "walking" /\ pc[e] = "todo"
        /\ Parent[e] = d \/ pc[Parent[e]] = "entered"
        /\ pc' = [pc EXCEPT ![e] = "entered"]
        /\ completed' = completed + 1
        /\ state' = "completed" => state = "completed" \/ completed' >= total
    BY <1>4 DEF Enter, Rests
  <2>2. e \in Announced /\ d \in Announced BY <2>1, DueIsAnnounced, UnderWay
  <2>3. pc[e] \notin Ended /\ pc[d] \notin Ended /\ "entered" \in Ended /\ "entered" \in AllPcs
    BY <2>1 DEF Ended
  <2>4. completed' = completed + (IF "entered" \in Ended THEN 1 ELSE 0)
    BY <2>1, <2>3
  <2>5. completed' < total
    <3> DEFINE S == Counted \union {e}
    <3>1. S \in SUBSET Tasks /\ S \subseteq Announced /\ d \notin S /\ e \notin Counted
      BY <1>4, <2>2, <2>3, CountedAreAnnounced DEF Counted
    <3>2. Cardinality(S) = Cardinality(Counted) + 1
      BY <3>1, CountedAreAnnounced, FiniteSubsets, FS_AddElement
    <3> HIDE DEF S
    <3>3. ~(Cardinality(Announced) <= Cardinality(S))
      BY <2>2, <3>1, CountedAreAnnounced, Sizes
    <3>4. /\ Cardinality(Announced) \in Nat /\ Cardinality(S) \in Nat
          /\ Cardinality(Announced) <= total /\ completed = Cardinality(Counted)
      BY <3>1, CountedAreAnnounced, FiniteSubsets DEF Adds
    <3> QED BY <2>1, <3>2, <3>3, <3>4
  <2>6. state' = "completed" => state = "completed" \/ completed' >= total'
    BY <2>1, <2>5
  <2> QED BY <1>1, <1>2, <2>1, <2>2, <2>3, <2>4, <2>6 DEF Moves
<1> QED BY <1>3, <1>4

LEMMA DirStepMoves ==
  ASSUME TypeOK, Adds, AnswersStay, thread # "idle", NEW d \in Dirs, DirStep(d)
  PROVE  \E t \in Tasks : Moves(t)
<1> USE Places, UnderWay, ConstantTypes DEF Ended
<1>1. CASE BeginDir(d)
  BY <1>1, GoingOnMoves DEF BeginDir, Rests
<1>2. CASE WalkCanceled(d)
  BY <1>2, GoingOnMoves DEF WalkCanceled, Raises, Rests
<1>3. CASE FinishDir(d) \/ FinishErase(d)
  BY <1>3, EndingMoves DEF FinishDir, FinishErase, Rests
<1>4. CASE ChildRaises(d)
  <2>1. PICK how \in Raised : pc' = [pc EXCEPT ![d] = how]
    BY <1>4 DEF ChildRaises, Raises, Rests
  <2> QED BY <1>4, <2>1, GoingOnMoves DEF ChildRaises, Raises, Raised
<1>5. CASE BeginErase(d)
  <2>1. PICK where \in {"ask", "list"} : pc' = [pc EXCEPT ![d] = where]
    BY <1>5 DEF BeginErase, Goes
  <2> QED BY <1>5, <2>1, GoingOnMoves DEF BeginErase
<1>6. CASE EraseChildren(d)
  <2>1. /\ pc[d] \in {"list", "told"} /\ pc' = [pc EXCEPT ![d] = "walking"]
        /\ Counts(0, Found(d), stepOpen)
    BY <1>6 DEF EraseChildren, Rests
  <2>2. Inside(d) \in SUBSET Tasks /\ Cardinality(Inside(d)) \in Nat BY DEF Inside
  <2>3. completed' = completed + (IF "walking" \in {"done", "entered"} THEN 1 ELSE 0)
        /\ total' = total + Cardinality(Inside(d))
        /\ (state' = "completed" => state = "completed" \/ completed' >= total')
    BY <2>1, TypedAlready DEF Counts, Found
  <2>4. d \in Announced BY <2>1
  <2> QED BY <2>1, <2>2, <2>3, <2>4 DEF Moves
<1>7. ASSUME NEW e \in Dirs, Enter(d, e) PROVE \E t \in Tasks : Moves(t)
  BY <1>7, EnterMoves
<1>8. ASSUME NEW t \in Tasks, SpawnFile(d, t) PROVE Moves(t)
  <2>1. /\ pc[d] = "walking" /\ pc[t] = "todo" /\ pc' = [pc EXCEPT ![t] = "born"]
        /\ Parent[t] = d \/ pc[Parent[t]] = "entered"
        /\ NoProgress
    BY <1>8 DEF SpawnFile, Waiting, Due
  <2>2. t \in Announced BY <2>1, DueIsAnnounced
  <2> QED BY <2>1, <2>2, GoingOnMoves
<1> QED
  BY <1>1, <1>2, <1>3, <1>4, <1>5, <1>6, <1>7, <1>8 DEF DirStep

LEMMA SameTally ==
  ASSUME Tally, UNCHANGED <<pc, answer, completed, total>>,
         thread' = "idle" <=> thread = "idle",
         state' = state \/ (state' # "completed" /\ thread # "idle")
  PROVE  Tally'
<1>1. Counted' = Counted BY DEF Counted
<1>2. Announced' = Announced BY DEF Announced, Opened
<1> QED BY <1>1, <1>2 DEF Tally, Fresh, Adds, AllCounted

LEMMA StepTally ==
  ASSUME TypeOK, Tally, AllApt, [Next]_vars
  PROVE  Tally'
<1>0. AnswersStay BY AnswersRemain
<1>1. ASSUME NEW t \in Tasks, Moves(t), Alive, thread' # "idle" PROVE Tally'
  <2>1. thread # "idle" BY <1>1 DEF Alive
  <2> QED BY <1>0, <1>1, <2>1, MovesTally DEF Tally, Fresh
<1>2. ASSUME NEW t \in Tasks, FileStep(t) PROVE Tally'
  <2>1. Alive /\ thread' # "idle"
    BY <1>2 DEF FileStep, CancelSeen, FilteredOut, BeginFile, Declined, Agreed, Open, Write,
       WriteCanceled, Copied, Clear, Rename, EraseFile, CallFails, LoopFree, Runs, Alive,
       OnlyTasks, rootVars
  <2> QED BY <1>0, <1>1, <1>2, <2>1, FileStepMoves
<1>3. ASSUME NEW d \in Dirs, DirStep(d) PROVE Tally'
  <2>1. Alive /\ thread' # "idle"
    BY <1>3 DEF DirStep, BeginDir, WalkCanceled, FinishDir, ChildRaises, BeginErase,
       EraseChildren, FinishErase, Enter, SpawnFile, LoopFree, Runs, Alive, OnlyTasks, rootVars
  <2>2. thread # "idle" BY <2>1 DEF Alive
  <2> QED BY <1>0, <1>1, <1>3, <2>1, <2>2, DirStepMoves DEF Tally
<1>4. ASSUME NEW t \in Tasks, Asking(t) PROVE Tally'
  <2>1. Alive /\ thread' # "idle"
    BY <1>4 DEF Asking, Request, TakeLock, Poll, LoopFree, Runs, Alive, rootVars
  <2> QED BY <1>1, <1>4, <2>1, AskingMoves
<1>5. ASSUME NEW t \in Tasks, Spawn(t) PROVE Tally'
  <2>1. /\ t \in Tops /\ pc[t] = "todo" /\ pc' = [pc EXCEPT ![t] = "born"]
        /\ NoProgress /\ Alive /\ thread' # "idle"
    BY <1>5 DEF Spawn, LoopFree, Alive, NoProgress
  <2>2. Moves(t)
    BY <2>1, GoingOnMoves, Places DEF Announced, Ended
  <2> QED BY <1>1, <2>1, <2>2
<1>6. ASSUME NEW items, StartJob(items), items = Cardinality(Tops) PROVE Tally'
  <2>1. /\ thread = "idle" /\ thread' = "spawn" /\ total' = Cardinality(Tops)
        /\ state' = "running" /\ UNCHANGED <<completed, pc, answer>>
    BY <1>6 DEF StartJob
  <2>2. \A t \in Tasks : pc'[t] = "todo" BY <2>1 DEF Tally, Fresh
  <2>3. Announced' = Tops
    BY <2>2, ConstantTypes DEF Announced, Opened
  <2>4. Counted' = Counted BY <2>1 DEF Counted
  <2>5. Cardinality(Tops) \in Nat BY ConstantTypes
  <2> QED BY <2>1, <2>3, <2>4, <2>5 DEF Tally, Fresh, Adds, AllCounted
<1>7. CASE SpawnStops \/ Gather
  BY <1>7, SameTally
  DEF SpawnStops, Gather, OnlyRoot, LoopFree, Alive, EndsRoot, progressVars
<1>8. CASE Gui \/ ((Answer \/ Cancel \/ Dismiss) /\ JobOnly)
  <2>1. outcome # "completed" BY DEF TypeOK, SchedulerTypeOK, JobTypeOK
  <2> QED
    BY <1>8, <2>1, SameTally
    DEF Gui, ShowDialog, StartReturns, Tick, Answer, Cancel, Dismiss, rootVars, progressVars
<1>9. CASE UNCHANGED vars \/ \E t \in Tasks : Foreign(t)
  BY <1>9, SameTally DEF Foreign, vars, schedulerVars, rootVars, progressVars
<1> QED
  BY <1>2, <1>3, <1>4, <1>5, <1>6, <1>7, <1>8, <1>9 DEF Next, Worker, User

\* A task that stays where it is, or goes where any task may be.
LEMMA AptStays ==
  ASSUME NEW t \in Tasks, Apt(t), op' = op, answer'[t] = answer[t],
         \/ pc'[t] = pc[t]
         \/ pc'[t] \notin {"entered"} \union Replacing \union Asked
         \/ t \in Files /\ op # "erase" /\ pc'[t] # "entered"
         \/ t \in Dirs /\ pc'[t] = "entered"
         \/ pc[t] \in Asked /\ pc'[t] \in Asked
  PROVE  Apt(t)'
BY DEF Apt, Asked, Replacing, Files

LEMMA StepApt ==
  ASSUME TypeOK, AllApt, [Next]_vars
  PROVE  AllApt'
<1> USE TypedAlready, ConstantTypes
<1>0. op' = op
  <2>1. CASE Unseeing BY <2>1 DEF Unseeing
  <2>2. ASSUME NEW t \in Tasks, Asking(t) PROVE op' = op
    BY <2>2 DEF Asking, JobOnly, choiceVars
  <2> QED BY <2>1, <2>2, OnlyAskingIsSeen
<1>1. ASSUME NEW t \in Tasks, NEW where \in AllPcs, pc' = [pc EXCEPT ![t] = where],
             answer' = answer, Apt(t)'
      PROVE  AllApt'
  <2>1. ASSUME NEW u \in Tasks \ {t} PROVE Apt(u)'
    BY <1>0, <1>1, <2>1, AptStays DEF AllApt
  <2> QED BY <1>1, <2>1 DEF AllApt
<1>2. ASSUME NEW t \in Tasks, FileStep(t) PROVE AllApt'
  <2>0. Apt(t) BY DEF AllApt
  <2>1. answer' = answer
    BY <1>2 DEF FileStep, CancelSeen, FilteredOut, BeginFile, Declined, Agreed, Open, Write,
       WriteCanceled, Copied, Clear, Rename, EraseFile, CallFails, OnlyTasks
  <2>2. PICK where \in AllPcs : pc' = [pc EXCEPT ![t] = where]
    BY <1>2, Places
    DEF FileStep, CancelSeen, FilteredOut, BeginFile, Declined, Agreed, Open, Write,
        WriteCanceled, Copied, Clear, Rename, EraseFile, CallFails, Raises, Rests, Goes
  <2>3. \/ where \notin {"entered"} \union Replacing \union Asked
        \/ t \in Files /\ op # "erase" /\ where # "entered"
    <3>1. pc'[t] = where BY <2>2
    <3>2. CASE Open(t) \/ Write(t) \/ Clear(t)
      <4>1. t \in Files /\ op # "erase"
        BY <2>0, <3>2 DEF Open, Write, Clear, Apt, Replacing, Files
      <4> QED BY <3>1, <3>2, <4>1 DEF Open, Write, Clear, Goes
    <3>3. CASE BeginFile(t) \/ Agreed(t)
      BY <2>0, <3>1, <3>3 DEF BeginFile, Agreed, Goes, Apt, Asked, Files
    <3>4. CASE CancelSeen(t) \/ FilteredOut(t) \/ Declined(t) \/ WriteCanceled(t)
               \/ Copied(t) \/ Rename(t) \/ EraseFile(t) \/ CallFails(t)
      BY <3>1, <3>4
      DEF CancelSeen, FilteredOut, Declined, WriteCanceled, Copied, Rename, EraseFile,
          CallFails, Raises, Rests, Replacing, Asked
    <3> QED BY <1>2, <3>2, <3>3, <3>4 DEF FileStep
  <2>4. Apt(t)' BY <1>0, <2>0, <2>1, <2>2, <2>3, AptStays
  <2> QED BY <1>1, <2>1, <2>2, <2>4
<1>3. ASSUME NEW d \in Dirs, DirStep(d) PROVE AllApt'
  <2>0. answer' = answer
    BY <1>3 DEF DirStep, BeginDir, WalkCanceled, FinishDir, ChildRaises, BeginErase,
       EraseChildren, FinishErase, Enter, SpawnFile, OnlyTasks
  <2>1. CASE \/ BeginDir(d) \/ WalkCanceled(d) \/ FinishDir(d) \/ ChildRaises(d)
             \/ EraseChildren(d) \/ FinishErase(d)
    <3>1. PICK where \in {"walk", "canceled", "failed", "done", "walking"} :
            pc' = [pc EXCEPT ![d] = where]
      BY <2>1
      DEF BeginDir, WalkCanceled, FinishDir, ChildRaises, EraseChildren, FinishErase,
          Raises, Raised, Rests
    <3>2. where \in AllPcs BY Places
    <3>3. Apt(d)' BY <1>0, <2>0, <3>1, AptStays DEF AllApt, Asked, Replacing
    <3> QED BY <1>1, <2>0, <3>1, <3>2, <3>3
  <2>2. CASE BeginErase(d)
    <3>1. PICK where \in {"ask", "list"} :
            pc' = [pc EXCEPT ![d] = where] /\ (where = "ask" => d \in Tops) /\ op = "erase"
      BY <2>2 DEF BeginErase, Goes, AsksFirst
    <3>2. where \in AllPcs BY Places
    <3>3. Apt(d)'
      BY <1>0, <2>0, <3>1 DEF AllApt, Apt, Asked, Replacing, Files
    <3> QED BY <1>1, <2>0, <3>1, <3>2, <3>3
  <2>3. ASSUME NEW e \in Dirs, Enter(d, e) PROVE AllApt'
    <3>1. PICK where \in {"walking", "entered"} : pc' = [pc EXCEPT ![e] = where]
      BY <2>3 DEF Enter, Rests
    <3>2. where \in AllPcs BY Places
    <3>3. Apt(e)' BY <1>0, <2>0, <3>1, AptStays DEF AllApt, Asked, Replacing
    <3> QED BY <1>1, <2>0, <3>1, <3>2, <3>3
  <2>4. ASSUME NEW t \in Tasks, SpawnFile(d, t) PROVE AllApt'
    <3>1. pc' = [pc EXCEPT ![t] = "born"] BY <2>4 DEF SpawnFile
    <3>2. "born" \in AllPcs BY Places
    <3>3. Apt(t)' BY <1>0, <2>0, <3>1, AptStays DEF AllApt, Asked, Replacing
    <3> QED BY <1>1, <2>0, <3>1, <3>2, <3>3
  <2> QED BY <1>3, <2>1, <2>2, <2>3, <2>4 DEF DirStep
<1>4. ASSUME NEW t \in Tasks, Spawn(t) PROVE AllApt'
  <2>1. pc' = [pc EXCEPT ![t] = "born"] /\ answer' = answer BY <1>4 DEF Spawn
  <2>2. "born" \in AllPcs BY Places
  <2>3. Apt(t)' BY <1>0, <2>1, AptStays DEF AllApt, Asked, Replacing
  <2> QED BY <1>1, <2>1, <2>2, <2>3
<1>5. ASSUME NEW t \in Tasks, Asking(t) PROVE AllApt'
  <2>1. pc[t] \in {"ask", "queued", "poll"}
    <3>1. CASE Request(t, Title) \/ Poll(t, Title) BY <3>1 DEF Request, Poll
    <3>2. CASE TakeLock(t, Title)
      BY <3>2, TheQueue DEF TakeLock, TypeOK, LockTypeOK
    <3> QED BY <1>5, <3>1, <3>2 DEF Asking
  <2>2. PICK where \in {"told", "queued", "poll"} : pc' = [pc EXCEPT ![t] = where]
    BY <1>5 DEF Asking, Request, TakeLock, Poll, Goes, Rests
  <2>3. pc'[t] = where BY <2>2
  <2>4. Apt(t)'
    BY <1>0, <2>1, <2>3 DEF AllApt, Apt, Asked, Replacing
  <2>5. ASSUME NEW u \in Tasks \ {t} PROVE Apt(u)'
    <3>1. pc'[u] = pc[u] BY <2>2
    <3>2. answer'[u] = answer[u]
      BY <1>5, TheQueue DEF Asking, Request, TakeLock, Poll
    <3> QED BY <1>0, <3>1, <3>2, AptStays DEF AllApt
  <2> QED BY <2>4, <2>5 DEF AllApt
<1>6. ASSUME UNCHANGED <<pc, answer>> PROVE AllApt'
  BY <1>0, <1>6 DEF AllApt, Apt
<1>7. CASE SpawnStops \/ Gather \/ Gui \/ User \/ UNCHANGED vars
           \/ \E t \in Tasks : Foreign(t)
  BY <1>6, <1>7 DEF SpawnStops, Gather, OnlyRoot, Gui, ShowDialog, StartReturns, Tick, User,
     StartJob, Answer, Cancel, Dismiss, Foreign, vars, schedulerVars
<1> QED
  BY <1>2, <1>3, <1>4, <1>5, <1>7 DEF Next, Worker

LEMMA WorkedStays ==
  ASSUME NEW t \in Tasks, Worked(t), AnswersStay, op' = op, filtered' = filtered,
         \/ Alone(t)
         \/ pc'[t] # "done"
         \/ pc'[t] = pc[t] /\ source'[t] = source[t] /\ (target[t] = Whole => target'[t] = Whole)
  PROVE  Worked(t)'
<1>1. answer[t] \in Rejections => answer'[t] = answer[t]
  BY DEF AnswersStay, Rejections, NoResponse
<1> QED BY <1>1 DEF Worked, Alone

\* A task ends well only when its file is where it belongs, or was taken out.
LEMMA OwnStepWorks ==
  ASSUME TypeOK, ~OntoItself, AnswersStay, FilesSafe, op' = op, filtered' = filtered,
         NEW t \in Files, Apt(t), Worked(t), FileStep(t)
  PROVE  Worked(t)'
<1> USE TypedAlready, ConstantTypes
<1>1. CASE FilteredOut(t)
  BY <1>1 DEF FilteredOut, Worked
<1>2. CASE Declined(t)
  <2>1. answer[t] \in Rejections BY <1>2 DEF Declined, Accepted
  <2>2. answer'[t] \in Rejections BY <2>1 DEF AnswersStay, Rejections, NoResponse
  <2> QED BY <2>2 DEF Worked
<1>3. CASE Copied(t)
  <2>1. op # "erase" => target[t] = Whole
    BY <1>3 DEF Copied, FilesSafe, CopiedWhole
  <2>2. target' = target /\ (op = "move" => source'[t] = Absent)
    BY <1>3 DEF Copied, Drops, fileVars
  <2>3. op # "erase" BY <1>3 DEF Copied, Apt, Replacing
  <2> QED BY <2>1, <2>2, <2>3 DEF Worked, TypeOK
<1>4. CASE Rename(t)
  BY <1>4 DEF Rename, Worked, FilesSafe, Safe, Rests
<1>5. CASE EraseFile(t)
  BY <1>5 DEF EraseFile, Worked, Drops
<1>6. CASE CancelSeen(t) \/ BeginFile(t) \/ Agreed(t) \/ Open(t) \/ Write(t)
           \/ WriteCanceled(t) \/ Clear(t) \/ CallFails(t)
  <2>1. pc'[t] # "done"
    BY <1>6 DEF CancelSeen, BeginFile, Agreed, Open, Write, WriteCanceled, Clear, CallFails,
       Raises, Rests, Goes
  <2> QED BY <2>1, WorkedStays
<1> QED BY <1>1, <1>2, <1>3, <1>4, <1>5, <1>6 DEF FileStep

LEMMA StepWorks ==
  ASSUME TypeOK, ~OntoItself, FilesSafe, AllApt, FilesWorked, [Next]_vars
  PROVE  FilesWorked'
<1>0. AnswersStay /\ op' = op /\ filtered' = filtered
  <2>1. AnswersStay BY AnswersRemain
  <2>2. UNCHANGED <<op, filtered>>
    BY DEF Next, Worker, SpawnStops, Gather, OnlyRoot, Spawn, FileStep, CancelSeen, FilteredOut,
       BeginFile, Declined, Agreed, Open, Write, WriteCanceled, Copied, Clear, Rename,
       EraseFile, CallFails, DirStep, BeginDir, WalkCanceled, FinishDir, ChildRaises,
       BeginErase, EraseChildren, FinishErase, Enter, SpawnFile, OnlyTasks, Asking, Gui, User,
       JobOnly, Foreign, choiceVars, vars
  <2> QED BY <2>1, <2>2
<1> SUFFICES ASSUME NEW u \in Files PROVE Worked(u)'
  BY DEF FilesWorked
<1>1. Worked(u) /\ Apt(u) /\ u \in Tasks BY ConstantTypes DEF FilesWorked, AllApt
<1> USE TypedAlready, ConstantTypes DEF Alone
<1>2. ASSUME NEW t \in Tasks, FileStep(t) PROVE Worked(u)'
  <2>1. CASE u = t BY <1>0, <1>1, <1>2, <2>1, OwnStepWorks
  <2>2. CASE u # t
    <3>1. Alone(u) BY <1>1, <1>2, <2>2, OthersAlone
    <3> QED BY <1>0, <1>1, <3>1, WorkedStays
  <2> QED BY <2>1, <2>2
<1>3. ASSUME NEW d \in Dirs, DirStep(d) PROVE Worked(u)'
  <2>0. u \notin Dirs /\ u # d BY DEF Files
  <2>1. CASE BeginDir(d) \/ WalkCanceled(d) \/ ChildRaises(d) \/ BeginErase(d) \/ EraseChildren(d)
    <3>1. Alone(u)
      BY <1>1, <2>0, <2>1
      DEF BeginDir, WalkCanceled, ChildRaises, BeginErase, EraseChildren, Raises, Rests, Goes,
          fileVars
    <3> QED BY <1>0, <1>1, <3>1, WorkedStays
  <2>2. CASE FinishDir(d) \/ FinishErase(d)
    <3>1. u \notin Subdirs(d) \union {d} BY <2>0 DEF Subdirs
    <3>2. Alone(u) BY <1>1, <2>0, <2>2, <3>1 DEF FinishDir, FinishErase, Rests, Drops
    <3> QED BY <1>0, <1>1, <3>2, WorkedStays
  <2>3. ASSUME NEW e \in Dirs, Enter(d, e) PROVE Worked(u)'
    <3>1. Alone(u) BY <1>1, <2>0, <2>3 DEF Enter, Rests
    <3> QED BY <1>0, <1>1, <3>1, WorkedStays
  <2>4. ASSUME NEW t \in Tasks, SpawnFile(d, t) PROVE Worked(u)'
    <3>1. pc' = [pc EXCEPT ![t] = "born"] /\ source' = source /\ target' = target
      BY <2>4 DEF SpawnFile, fileVars
    <3>2. Alone(u) \/ pc'[u] # "done" BY <1>1, <3>1
    <3> QED BY <1>0, <1>1, <3>2, WorkedStays
  <2> QED BY <1>3, <2>1, <2>2, <2>3, <2>4 DEF DirStep
<1>4. ASSUME NEW t \in Tasks, Asking(t) \/ Spawn(t) PROVE Worked(u)'
  <2>1. PICK where \in {"told", "queued", "poll", "born"} : pc' = [pc EXCEPT ![t] = where]
    BY <1>4 DEF Asking, Request, TakeLock, Poll, Goes, Rests, Spawn
  <2>2. source' = source /\ target' = target
    BY <1>4 DEF Asking, JobOnly, Spawn, fileVars
  <2>3. Alone(u) \/ pc'[u] # "done" BY <1>1, <2>1, <2>2
  <2> QED BY <1>0, <1>1, <2>3, WorkedStays
<1>5. CASE SpawnStops \/ Gather \/ Gui \/ User \/ UNCHANGED vars
  <2>1. Alone(u)
    BY <1>5 DEF SpawnStops, Gather, OnlyRoot, Gui, ShowDialog, StartReturns, Tick, User,
       StartJob, Answer, Cancel, Dismiss, JobOnly, fileVars, vars, schedulerVars
  <2> QED BY <1>0, <1>1, <2>1, WorkedStays
<1>6. ASSUME NEW t \in Tasks, Foreign(t) PROVE Worked(u)'
  <2>1. /\ pc'[u] = pc[u] /\ source'[u] = source[u]
        /\ target[u] = Whole => target'[u] = Whole
    BY <1>1, <1>6 DEF Foreign, schedulerVars, Absent, Whole
  <2> QED BY <1>0, <1>1, <2>1, WorkedStays
<1> QED
  BY <1>2, <1>3, <1>4, <1>5, <1>6 DEF Next, Worker

-----------------------------------------------------------------------------
(* From the counters to the tree.                                            *)

LEMMA NotInside == ASSUME NEW t \in Tasks PROVE Parent[t] # t
<1> SUFFICES ASSUME Parent[t] = t PROVE FALSE OBVIOUS
<1>1. t \notin Tops BY TasksAssumption DEF Tops
<1>2. {t} \in SUBSET Tasks /\ t \in {t} /\ \A s \in {t} : Parent[s] \in {t} \union {NoTask}
  OBVIOUS
<1>3. Path[t] \subseteq {t} BY <1>2 DEF Path
<1> QED BY <1>1, <1>3, RootedAssumption

\* The user said no to erasing the selected directory that t lies under.
Spared(t) == op = "erase" /\ answer[Top(t)] \in Rejections

\* When all that was announced is counted, all of the tree is, except below a
\* directory that the user keeps.
LEMMA AllAreCounted ==
  ASSUME AllApt, Announced \subseteq Counted, NEW t \in Tasks
  PROVE  t \in Counted \/ Spared(t)
<1> DEFINE Rest == {u \in Tasks : u \notin Announced /\ ~Spared(u)}
<1>1. ASSUME NEW u \in Rest PROVE Parent[u] \in Rest
  <2>1. u \in Tasks /\ u \notin Tops /\ u \notin Announced /\ ~Spared(u)
    BY <1>1 DEF Announced
  <2>2. PICK d \in Dirs : Parent[u] = d /\ d \in Tasks /\ u # d
    BY <2>1, NotInside, TreeAssumption DEF Tops
  <2>3. Top(u) = IF d \in Tops THEN d ELSE Top(d)
    BY <2>1, <2>2, TopOfInside
  <2>4. ~Opened(d) BY <2>1, <2>2 DEF Announced
  <2>5. ASSUME d \in Announced PROVE FALSE
    <3>1. pc[d] = "done" /\ answer[d] \in Rejections
      BY <2>4, <2>5 DEF Counted, Ended, Opened
    <3>2. op = "erase" /\ d \in Tops
      BY <2>2, <3>1 DEF AllApt, Apt, Rejections, NoResponse
    <3> QED BY <2>1, <2>3, <3>1, <3>2 DEF Spared
  <2>6. d \notin Tops BY <2>5 DEF Announced, Tops
  <2>7. ~Spared(d) BY <2>1, <2>3, <2>6 DEF Spared
  <2> QED BY <2>2, <2>5, <2>7
<1>2. ASSUME t \in Rest PROVE FALSE
  <2>1. Rest \in SUBSET Tasks /\ \A s \in Rest : Parent[s] \in Rest \union {NoTask}
    BY <1>1
  <2>2. \A a \in Path[t] : a \in Rest
    <3> HIDE DEF Rest
    <3> QED BY <1>2, <2>1 DEF Path
  <2>3. PICK top \in Tops : top \in Path[t] BY RootedAssumption
  <2>4. top \in Rest BY <2>2, <2>3
  <2> QED BY <2>4 DEF Announced
<1> QED BY <1>2

TallyInv == TypeOK /\ FilesSafe /\ Tally /\ AllApt /\ FilesWorked

LEMMA TallyIsEnough == TallyInv => CompletedMeansDone
<1> SUFFICES ASSUME TallyInv, state = "completed", NEW t \in Files, ~Excused(t)
             PROVE  /\ pc[t] = "done"
                    /\ op # "erase" => target[t] = Whole
                    /\ op # "copy" => source[t] = Absent
  BY DEF CompletedMeansDone
<1> USE DEF TallyInv
<1>1. t \in Tasks /\ Apt(t) /\ Worked(t) BY ConstantTypes DEF AllApt, FilesWorked
<1>2. Announced \subseteq Counted BY DEF Tally, AllCounted
<1>3. t \in Counted BY <1>1, <1>2, AllAreCounted DEF Spared, Excused
<1>4. pc[t] = "done" BY <1>1, <1>3 DEF Counted, Ended, Apt
<1> QED BY <1>1, <1>4 DEF Worked, Excused

LEMMA InitTally == Init => TallyInv
<1> SUFFICES ASSUME Init PROVE TallyInv OBVIOUS
<1>1. /\ \A t \in Tasks : pc[t] = "todo" /\ answer[t] = NoResponse
      /\ thread = "idle" /\ state = "initialized" /\ completed = 0
  BY DEF Init, SchedulerInit
<1>2. Counted = {} BY <1>1 DEF Counted, Ended
<1>3. Tally BY <1>1, <1>2, FS_EmptySet DEF Tally, Fresh, Adds, AllCounted
<1>4. AllApt BY <1>1 DEF AllApt, Apt, Replacing, Asked
<1>5. FilesWorked BY <1>1, ConstantTypes DEF FilesWorked, Worked
<1>6. FilesSafe BY DEF Init, FilesSafe, Safe, CopiedWhole, SchedulerInit, Files
<1> QED BY <1>3, <1>4, <1>5, <1>6, InitTypeOK DEF TallyInv

\* For a tree of any depth and width, whatever fails and is canceled or answered:
\* a job that shows as completed has done all its work.  The counters are kept by
\* many tasks and the state follows them at once, so this rests on the total
\* being announced before anything that it covers can count itself.
THEOREM CompletedIsDone == ASSUME ~OntoItself PROVE Spec => []CompletedMeansDone
<1>1. Init => TallyInv BY InitTally
<1>2. TallyInv /\ [Next]_vars => TallyInv'
  BY StepTypeOK, StepIsSafe, StepTally, StepApt, StepWorks DEF TallyInv
<1>3. TallyInv => CompletedMeansDone BY TallyIsEnough
<1> QED BY <1>1, <1>2, <1>3, PTL DEF Spec
=============================================================================
