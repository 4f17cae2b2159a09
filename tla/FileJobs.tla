-------------------------------- MODULE FileJobs --------------------------------
(***************************************************************************)
(* The jobs of the file manager (filemanager/tasks.py): copy, move and     *)
(* erase of a tree of files and directories, on top of Scheduler.          *)
(*                                                                         *)
(* Every node of the tree is a task: a file or directory that was selected *)
(* (Tops) and a file found in a copied directory are subtasks of their     *)
(* own; the files of a moved directory are handled by its task, one after  *)
(* the other.  A node exists as a source and, under the destination, as a  *)
(* target.                                                                 *)
(***************************************************************************)
EXTENDS Scheduler, FiniteSets

CONSTANTS Dirs,        \* the directories among the nodes
          Parent,      \* the directory of each node, NoTask for those selected
          OntoItself,  \* the destination is the directory of the sources
          Filters,     \* the sets of files the user may have filtered out
          MaxForeign   \* bound: files that others create in the destination

ASSUME TreeAssumption ==
  /\ Dirs \subseteq Tasks
  /\ Parent \in [Tasks -> Dirs \union {NoTask}]
  /\ OntoItself \in BOOLEAN /\ MaxForeign \in Nat
  /\ IsFiniteSet(Tasks)
  /\ {"Overwrite", "Delete non-empty directory"} \subseteq Titles
  /\ \A off \in Filters : off \subseteq Tasks \ Dirs

Files == Tasks \ Dirs
Tops == {t \in Tasks : Parent[t] = NoTask}
Inside(d) == {t \in Tasks : Parent[t] = d}
\* The nodes from the selected one down to t: they are in every set that holds t
\* and the directory of whatever it holds.
Path == [t \in Tasks |->
  {a \in Tasks : \A S \in SUBSET Tasks :
     t \in S /\ (\A s \in S : Parent[s] \in S \union {NoTask}) => a \in S}]
\* No directory is inside itself: every node lies under a selected one.
ASSUME RootedAssumption == \A t \in Tasks : Tops \intersect Path[t] # {}

\* The selected node that t lies under.
Top(t) == CHOOSE top \in Tops \intersect Path[t] : TRUE

VARIABLES
  op,         \* "copy", "move" or "erase"
  sameDevice, \* source and destination are on one device
  filtered,   \* the files that options.filter does not match
  source,     \* what each node holds at its source
  target,     \* and at its destination
  exists,     \* dst_stat of each file: the target existed when it was looked at
  way,        \* how a node is moved: "copy" (copy and remove) or "rename"
  foreign     \* bound: files created by others so far

fileVars == <<source, target>>
choiceVars == <<op, sameDevice, filtered>>
localVars == <<exists, way>>
vars == <<schedulerVars, fileVars, choiceVars, localVars, foreign>>

\* A file is absent, whole, its own old or somebody else's content, or cut short.
Absent == "absent"
Whole == "whole"
Theirs == "theirs"
Partial == "partial"
Contents == {Absent, Whole, Theirs, Partial}

\* The target is the source itself when a file is moved or copied onto itself.
At(t) == IF OntoItself THEN source[t] ELSE target[t]
Writes(t, content) ==
  IF OntoItself THEN source' = [source EXCEPT ![t] = content] /\ UNCHANGED target
                ELSE target' = [target EXCEPT ![t] = content] /\ UNCHANGED source
Drops(t) == source' = [source EXCEPT ![t] = Absent] /\ UNCHANGED target

Title == IF op = "erase" THEN "Delete non-empty directory" ELSE "Overwrite"

Init ==
  /\ SchedulerInit
  /\ op \in {"copy", "move", "erase"}
  /\ sameDevice \in BOOLEAN
  /\ filtered \in Filters
  /\ source = [t \in Tasks |-> Whole]
  /\ target \in [Tasks -> {Absent, Theirs}]
  /\ \A t \in Tasks : Parent[t] # NoTask /\ target[t] # Absent => target[Parent[t]] # Absent
  /\ exists = [t \in Tasks |-> FALSE]
  /\ way = [t \in Tasks |-> "copy"]
  /\ foreign = 0
  /\ op = "erase" => target = [t \in Tasks |-> Absent] /\ filtered = {} /\ ~sameDevice
  /\ op = "copy" => ~sameDevice
  /\ OntoItself => op # "erase" /\ sameDevice = (op = "move") /\ target = [t \in Tasks |-> Absent]

-------------------------------------------------------------------------------
(* Spawning, gathering, failing *)

\* The task that spawns or drives t: erase_files() goes down one directory at a
\* time, _copy_dir() and _move_dir_contents() walk the whole tree.
Owner(t) == IF op = "erase" THEN Parent[t] ELSE Top(t)

\* The nodes that d has found and hands to tasks.
Due(d) == {t \in Tasks \ {d} : /\ Owner(t) = d
                               /\ op = "erase" \/ t \in Files
                               /\ Parent[t] = d \/ pc[Parent[t]] = "entered"}
Waiting(d) == {t \in Due(d) : pc[t] = "todo"}
Subdirs(d) == {e \in Dirs \ {d} : op # "erase" /\ Top(e) = d}
Walked(d) == Waiting(d) = {} /\ \A e \in Subdirs(d) : pc[e] = "entered"

Raised == {"canceled", "failed"}
Raises(t, how) == Rests(t, how) /\ NoProgress

OnlyRoot == UNCHANGED <<cancel, progressVars, state, pc, cur, lockVars, answer, registry,
                        fileVars, choiceVars, localVars, foreign>>
OnlyTasks == UNCHANGED <<rootVars, cancel, lockVars, answer, registry, choiceVars, foreign>>

\* The loop of copy_files(), move_files() and erase_files() over the selection.
Spawn(t) ==
  /\ thread = "spawn" /\ LoopFree /\ t \in Tops /\ pc[t] = "todo"
  /\ ~cancel
  /\ pc' = [pc EXCEPT ![t] = "born"]
  /\ thread' = IF \A top \in Tops : pc'[top] # "todo" THEN "gather" ELSE thread
  /\ UNCHANGED <<outcome, cancel, progressVars, state, cur, lockVars, answer, registry,
                 fileVars, choiceVars, localVars, foreign>>

\* It is canceled, or a selected path is gone: nothing is gathered.
SpawnStops ==
  /\ thread = "spawn" /\ LoopFree
  /\ \/ cancel /\ EndsRoot("canceled")
     \/ ~cancel /\ op = "copy" /\ EndsRoot("failed")
  /\ OnlyRoot

\* asyncio.gather() raises what the first task raises, and lets the others be;
\* _SubtaskTracker.wait_all() finds nothing left when all went well.
Gather ==
  /\ thread = "gather" /\ LoopFree
  /\ \/ \E t \in Tops : pc[t] \in Raised /\ EndsRoot(pc[t])
     \/ (\A t \in Tops : pc[t] = "done") /\ EndsRoot("ok")
  /\ OnlyRoot

\* The task of a directory raises what a task of its own raised: the gather
\* comes after the walk, a moved directory handles its files itself.
ChildRaises(d) ==
  /\ LoopFree /\ pc[d] = "walking"
  /\ op = "move" \/ Walked(d)
  /\ \E t \in Due(d) : pc[t] \in Raised /\ Raises(d, pc[t])
  /\ OnlyTasks /\ UNCHANGED <<fileVars, localVars>>

\* A call of the file system raises: stat or open of the source, opening,
\* writing or closing the target, its attributes, a removal, a rename.  A target
\* that was being written is removed, unless that or the close fails too.
Fallible == {"born", "open", "write", "copied", "clear", "rename", "walking"}
CallFails(t) ==
  /\ cur = t \/ (cur = NoTask /\ pc[t] \in {"born", "walking"})
  /\ Alive /\ pc[t] \in Fallible
  /\ Raises(t, "failed")
  /\ IF pc[t] = "write"
       THEN \E left \in {Absent, Partial} : Writes(t, left)
       ELSE UNCHANGED fileVars
  /\ OnlyTasks /\ UNCHANGED localVars

-------------------------------------------------------------------------------
(* One file: copy_file(), the same-device branches of _move_path() and         *)
(* _move_dir_contents()                                                        *)

\* is_same_device() is False as long as the target does not exist: a file is
\* renamed only onto an existing one, or with the directory it is in.
Renames(t) ==
  /\ op = "move" /\ sameDevice
  /\ IF t \in Tops THEN At(t) # Absent ELSE way[Top(t)] = "rename"

\* check_cancelled() at the start of _move_path() and _erase_path().
CancelSeen(t) ==
  /\ LoopFree /\ pc[t] = "born" /\ cancel
  /\ op = "erase" \/ (op = "move" /\ t \in Tops)
  /\ Raises(t, "canceled")
  /\ OnlyTasks /\ UNCHANGED <<fileVars, localVars>>
Unseen(t) == cancel => op = "copy" \/ (op = "move" /\ t \notin Tops)

FilteredOut(t) ==
  /\ LoopFree /\ pc[t] = "born" /\ t \in filtered /\ Unseen(t)
  /\ Counts(1, 0, stepOpen)
  /\ Rests(t, "done")
  /\ OnlyTasks /\ UNCHANGED <<fileVars, localVars>>

\* An existing target is asked about, else the copy or the rename begins.
BeginFile(t) ==
  /\ LoopFree /\ t \in Files \ filtered /\ op # "erase" /\ pc[t] = "born" /\ Unseen(t)
  /\ Counts(0, 0, stepOpen)
  /\ way' = [way EXCEPT ![t] = IF Renames(t) THEN "rename" ELSE "copy"]
  /\ exists' = [exists EXCEPT ![t] = At(t) # Absent]
  /\ Goes(t, IF At(t) # Absent THEN "ask" ELSE IF Renames(t) THEN "rename" ELSE "open")
  /\ OnlyTasks /\ UNCHANGED fileVars

\* What a task does with the answer.
AcceptedUnlessNo(t) == answer[t] # "no"
Accepted(t) == answer[t] \notin Rejections

\* The mistakes: a declined file leaves its directory, or is not counted.
DeclinedDropped(t) ==
  /\ Runs(t) /\ pc[t] = "told" /\ ~Accepted(t)
  /\ IF op = "move" THEN Drops(t) ELSE UNCHANGED fileVars
  /\ Counts(1, 0, stepOpen)
  /\ Rests(t, "done")
  /\ OnlyTasks /\ UNCHANGED localVars

DeclinedUncounted(t) ==
  /\ Runs(t) /\ pc[t] = "told" /\ ~Accepted(t)
  /\ Counts(0, 0, stepOpen)
  /\ Rests(t, "done")
  /\ OnlyTasks /\ UNCHANGED <<fileVars, localVars>>

Declined(t) ==
  /\ Runs(t) /\ pc[t] = "told" /\ ~Accepted(t)
  /\ Counts(1, 0, stepOpen)
  /\ Rests(t, "done")
  /\ OnlyTasks /\ UNCHANGED <<fileVars, localVars>>

Agreed(t) ==
  /\ Runs(t) /\ t \in Files /\ pc[t] = "told" /\ Accepted(t)
  /\ Goes(t, IF way[t] = "rename" THEN "clear" ELSE "open")
  /\ NoProgress /\ OnlyTasks /\ UNCHANGED <<fileVars, localVars>>

\* The target is opened, which cuts it to nothing.
Open(t) ==
  /\ Runs(t) /\ pc[t] = "open"
  /\ Writes(t, Partial)
  /\ Counts(0, 0, TRUE)
  /\ Goes(t, "write")
  /\ OnlyTasks /\ UNCHANGED localVars

\* The chunks; the cancel event is looked at before each of them.  A source
\* that is the target has nothing left to read.
Write(t) ==
  /\ Runs(t) /\ pc[t] = "write" /\ ~cancel
  /\ Writes(t, source[t])
  /\ Counts(0, 0, FALSE)
  /\ Goes(t, "copied")
  /\ OnlyTasks /\ UNCHANGED localVars

WriteCanceled(t) ==
  /\ Runs(t) /\ pc[t] = "write" /\ cancel
  /\ \E left \in {Absent, Partial} : Writes(t, left)
  /\ Raises(t, "canceled")
  /\ OnlyTasks /\ UNCHANGED localVars

\* copy_stat(), and for a move the removal of the source.
Copied(t) ==
  /\ Runs(t) /\ pc[t] = "copied"
  /\ IF op = "move" THEN Drops(t) ELSE UNCHANGED fileVars
  /\ Counts(1, 0, stepOpen)
  /\ Rests(t, "done")
  /\ OnlyTasks /\ UNCHANGED localVars

Clear(t) ==
  /\ Runs(t) /\ pc[t] = "clear"
  /\ Writes(t, Absent)
  /\ Goes(t, "rename")
  /\ NoProgress /\ OnlyTasks /\ UNCHANGED localVars

\* A rename of what Clear just removed fails (CallFails).
Rename(t) ==
  /\ Runs(t) /\ pc[t] = "rename" /\ source[t] # Absent
  /\ source' = [source EXCEPT ![t] = Absent]
  /\ target' = [target EXCEPT ![t] = source[t]]
  /\ Counts(1, 0, stepOpen)
  /\ Rests(t, "done")
  /\ OnlyTasks /\ UNCHANGED localVars

-------------------------------------------------------------------------------
(* Directories: _copy_dir() and _move_dir_contents()                           *)

BeginDir(d) ==
  /\ LoopFree /\ d \in Dirs /\ op # "erase" /\ pc[d] = "born" /\ Unseen(d)
  /\ Counts(0, 0, stepOpen)
  /\ way' = [way EXCEPT ![d] = IF Renames(d) THEN "rename" ELSE "copy"]
  /\ Rests(d, "walk")
  /\ OnlyTasks /\ UNCHANGED <<fileVars, exists>>

\* The walk comes to directory e: it is made, counted unless the caller did, and
\* what is in it is added to the total.
FilesFound(e) == Cardinality(Inside(e) \ Dirs)
Found(e) == Cardinality(Inside(e))

Enter(d, e) ==
  /\ LoopFree /\ ~cancel
  /\ \/ e = d /\ pc[d] = "walk" /\ Rests(d, "walking")
     \/ /\ e \in Subdirs(d) /\ pc[d] = "walking" /\ pc[e] = "todo" /\ Waiting(d) = {}
        /\ Parent[e] = d \/ pc[Parent[e]] = "entered"
        /\ op = "move" => \A t \in Due(d) : pc[t] = "done"
        /\ Rests(e, "entered")
  /\ target' = [target EXCEPT ![e] = IF @ = Absent THEN Whole ELSE @]
  /\ completed' = IF e = d THEN completed ELSE completed + 1
  /\ total' = total + Found(e)
  /\ state' = IF ~stepOpen /\ completed' >= (IF e = d THEN total' ELSE total)
                THEN "completed" ELSE state
  /\ UNCHANGED stepOpen
  /\ OnlyTasks /\ UNCHANGED <<source, localVars>>

WalkCanceled(d) ==
  /\ LoopFree /\ cancel
  /\ \/ pc[d] = "walk"
     \/ pc[d] = "walking" /\ ~Walked(d)
  /\ op = "move" => \A t \in Due(d) : pc[t] \in {"todo", "done"}
  /\ Raises(d, "canceled")
  /\ OnlyTasks /\ UNCHANGED <<fileVars, localVars>>

\* The next file of the walk; a moved directory waits until it is done.
SpawnFile(d, t) ==
  /\ LoopFree /\ ~cancel /\ pc[d] = "walking" /\ t \in Waiting(d)
  /\ op = "move" => \A other \in Due(d) : pc[other] \in {"todo", "done"}
  /\ pc' = [pc EXCEPT ![t] = "born"]
  /\ UNCHANGED cur
  /\ NoProgress /\ OnlyTasks /\ UNCHANGED <<fileVars, localVars>>

Below(d) == {t \in Files : d \in Path[t]}

\* A move removes the source directories that are empty by now; the attributes
\* of the target directories come last.
FinishDir(d) ==
  /\ LoopFree /\ pc[d] = "walking" /\ op # "erase" /\ Walked(d)
  /\ \A t \in Due(d) : pc[t] = "done"
  /\ source' = IF op = "copy" THEN source
       ELSE [e \in Tasks |-> IF e \in Subdirs(d) \union {d} /\ \A t \in Below(e) : source[t] = Absent
                             THEN Absent ELSE source[e]]
  /\ Counts(1, 0, stepOpen)
  /\ Rests(d, "done")
  /\ OnlyTasks /\ UNCHANGED <<target, localVars>>

-------------------------------------------------------------------------------
(* Erasing: _erase_path()                                                      *)

EraseFile(t) ==
  /\ LoopFree /\ op = "erase" /\ t \in Files /\ pc[t] = "born" /\ Unseen(t)
  /\ Drops(t)
  /\ Counts(1, 0, stepOpen)
  /\ Rests(t, "done")
  /\ OnlyTasks /\ UNCHANGED localVars

\* Only a selected directory asks, and only when there is something in it.
AsksFirst(d) == d \in Tops /\ Inside(d) # {}

BeginErase(d) ==
  /\ LoopFree /\ op = "erase" /\ d \in Dirs /\ pc[d] = "born" /\ Unseen(d)
  /\ Counts(0, 0, stepOpen)
  /\ Goes(d, IF AsksFirst(d) THEN "ask" ELSE "list")
  /\ OnlyTasks /\ UNCHANGED <<fileVars, localVars>>

\* erase_files() of the children.
EraseChildren(d) ==
  /\ Runs(d) /\ op = "erase" /\ d \in Dirs
  /\ pc[d] = "list" \/ (pc[d] = "told" /\ Accepted(d))
  /\ Counts(0, Found(d), stepOpen)
  /\ Rests(d, "walking")
  /\ OnlyTasks /\ UNCHANGED <<fileVars, localVars>>

FinishErase(d) ==
  /\ LoopFree /\ op = "erase" /\ pc[d] = "walking" /\ \A t \in Due(d) : pc[t] = "done"
  /\ Drops(d)
  /\ Counts(1, 0, stepOpen)
  /\ Rests(d, "done")
  /\ OnlyTasks /\ UNCHANGED localVars

-------------------------------------------------------------------------------
(* The environment: someone creates a file in the destination.                 *)

Foreign(t) ==
  /\ Alive /\ foreign < MaxForeign /\ op # "erase" /\ ~OntoItself
  /\ t \in Files /\ target[t] = Absent
  /\ IF Parent[t] = NoTask THEN TRUE ELSE target[Parent[t]] # Absent
  /\ target' = [target EXCEPT ![t] = Theirs]
  /\ foreign' = foreign + 1
  /\ UNCHANGED <<schedulerVars, source, choiceVars, localVars>>

-------------------------------------------------------------------------------
JobOnly == UNCHANGED <<fileVars, choiceVars, localVars, foreign>>

FileStep(t) ==
  \/ CancelSeen(t) \/ FilteredOut(t) \/ BeginFile(t) \/ Declined(t) \/ Agreed(t)
  \/ Open(t) \/ Write(t) \/ WriteCanceled(t) \/ Copied(t) \/ Clear(t) \/ Rename(t)
  \/ EraseFile(t) \/ CallFails(t)

DirStep(d) ==
  \/ BeginDir(d) \/ WalkCanceled(d) \/ FinishDir(d) \/ ChildRaises(d)
  \/ BeginErase(d) \/ EraseChildren(d) \/ FinishErase(d)
  \/ \E e \in Dirs : Enter(d, e)
  \/ \E t \in Tasks : SpawnFile(d, t)

Asking(t) == (Request(t, Title) \/ TakeLock(t, Title) \/ Poll(t, Title)) /\ JobOnly

Worker ==
  \/ SpawnStops \/ Gather
  \/ \E t \in Tasks : Spawn(t) \/ FileStep(t) \/ Asking(t)
  \/ \E d \in Dirs : DirStep(d)

Gui == (ShowDialog \/ StartReturns \/ Tick) /\ JobOnly
User == (StartJob(Cardinality(Tops)) \/ Answer \/ Cancel \/ Dismiss) /\ JobOnly

Next == Worker \/ Gui \/ User \/ \E t \in Tasks : Foreign(t)

Spec == Init /\ [][Next]_vars

\* The worker and the loop of the GUI go on by themselves; nobody has to answer.
FairSpec == Spec /\ WF_vars(Worker) /\ WF_vars(Gui)

-------------------------------------------------------------------------------
(* Properties *)

FilePcs == {"open", "write", "copied", "clear", "rename", "walk", "walking", "entered", "list"}

TypeOK ==
  /\ SchedulerTypeOK(FilePcs)
  /\ LockTypeOK
  /\ op \in {"copy", "move", "erase"} /\ sameDevice \in BOOLEAN /\ filtered \subseteq Files
  /\ source \in [Tasks -> Contents] /\ target \in [Tasks -> Contents]
  /\ exists \in [Tasks -> BOOLEAN] /\ way \in [Tasks -> {"copy", "rename"}]
  /\ foreign \in 0..MaxForeign

\* The questions of all tasks of a job, across lock, cache and two event loops,
\* are those of the abstract specification.
Q == INSTANCE Questions WITH
  Askers <- Tasks,
  open <- IF holder = NoTask THEN {} ELSE {<<holder, Title>>},
  standing <- toAll
ImplementsQuestions == Q!Spec

\* A job that shows as completed has done all its work, and every file of the
\* selection is where it belongs unless the user took it out.
Excused(t) == t \in filtered \/ answer[t] \in Rejections
              \/ (op = "erase" /\ answer[Top(t)] \in Rejections)
CompletedMeansDone ==
  state = "completed" =>
    \A t \in Files : \/ Excused(t)
                    \/ /\ pc[t] = "done"
                       /\ op # "erase" => target[t] = Whole
                       /\ op # "copy" => source[t] = Absent

\* Copying and moving never leave less than one whole copy of a file, whatever
\* fails and whenever the job is canceled.
NothingLost ==
  op # "erase" => \A t \in Files : source[t] = Whole \/ target[t] = Whole

\* A file that was there when the job looked is replaced, and a directory that
\* is not empty erased, only after the user agreed, to it or to all.
Consented(t) == answer[t] \in {"yes", "all"}
OnlyWithConsent ==
  [][\A t \in Files :
       /\ target[t] = Theirs /\ target'[t] # Theirs => ~exists[t] \/ Consented(t)
       /\ op = "erase" /\ source'[t] # source[t] /\ t \notin Tops => Consented(Top(t))]_vars

\* As long as every question is answered, a started job ends and is filed as
\* finished: one whose counters do not add up would show as running for ever.
Unasked == future # NoResponse \/ holder = NoTask
JobIsFiled == []<>Unasked => (registry = "running" ~> registry # "running")
================================================================================
