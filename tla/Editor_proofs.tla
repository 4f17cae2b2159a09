----------------------------- MODULE Editor_proofs -----------------------------
(***************************************************************************)
(* Theorems about the whole editor, for any number of paths and edits, any *)
(* habit, and any interleaving of the screen, the widget, the save thread, *)
(* the poll and other programs: every step is one of the undo history or   *)
(* leaves it alone, and a save is atomic.                                  *)
(***************************************************************************)
EXTENDS EditorScreen, EditHistory_proofs, FiniteSetTheorems

WidgetRecord ==
  [path : Paths, held : File, base : 0 .. MaxForeign, large : BOOLEAN, view : Nat,
   doc : Nat, stale : Kinds, locks : SUBSET {Stale, "saving"}, saving : BOOLEAN,
   epoch : Nat, closed : BOOLEAN]

CheckRecord ==
  [on : {TRUE}, epoch : Nat, doc : Nat, path : Paths, held : File,
   kind : Kinds \cup {"pending"}]

MessageTypes ==
  {"changed", "confirm", "saved", "failed", "failed committed", "cancelled", "reload failed"}

MessageRecord == [type : MessageTypes, kind : Kinds, path : Paths, view : Nat]

FlowRecord ==
  [kind : Kind, view : Nat, path : Paths, flag : BOOLEAN, committed : BOOLEAN]

LockedWhenStale(v) == Stale \in v.locks <=> v.stale # "unchanged"

WidgetOK == w \in WidgetRecord /\ LockedWhenStale(w)

CheckOK == check \in {NoCheck} \cup CheckRecord

\* The steps of the thread in order: what it has written by then, and whether the
\* rename is behind it.
JobOK ==
  /\ job.pc # "none" => job.target \in Paths
  /\ job.pc \in {"flush", "replace", "commit", "finish"} => job.content \in Contents
  /\ job.pc = "ended" /\ job.outcome = "saved" => job.content \in Contents
  /\ job.pc = "replace" => temp = "flushed"
  /\ job.pc \in {"none", "prepare", "write", "flush", "replace"}
       => ~Published /\ ~job.committed
  /\ job.pc = "commit" => Published /\ ~job.committed
  /\ job.pc = "finish" => Published /\ job.committed

FlowsOK ==
  /\ flows \in Seq(FlowRecord) /\ dialog \in {"none", "asking", "saving"}
  /\ flows = <<>> => dialog = "none"

\* The inductive invariant: the types of everything, the pairs of the history name
\* texts, and the thread is at a step that its record allows.
EditorInv ==
  /\ PairsNameTexts
  /\ JobTypeOK /\ JobOK /\ SaveIsAtomic
  /\ WidgetOK /\ CheckOK /\ posted \in Seq(MessageRecord)
  /\ w.saving => job.pc # "none"
  /\ FlowsOK /\ asked \in BOOLEAN /\ deferred \in BOOLEAN /\ ops \in 0 .. MaxOps

-------------------------------------------------------------------------------
\* What the widget, the messages and the flows are made of.

LEMMA TextsNamed == PairsNameTexts => HistoryTypeOK /\ text \in Texts
BY DEF PairsNameTexts, Sound, HistoryRecord, Pairs, HistoryTypeOK

LEMMA KindOfType == ASSUME NEW f, NEW g PROVE KindOf(f, g) \in Kinds
BY DEF KindOf, Kinds

LEMMA DiskFile ==
  ASSUME JobTypeOK, NEW p \in Paths, disk[p] # Absent PROVE disk[p] \in File
BY DEF JobTypeOK

LEMMA ContentType ==
  ASSUME NEW f \in File
  PROVE  f.content \in Contents /\ f.content.base \in 0 .. MaxForeign /\ f.content.text \in Texts
BY ContentsAssumption DEF File

LEMMA ExternalKindType == WidgetOK => ExternalKind \in Kinds
<1> SUFFICES ASSUME WidgetOK PROVE ExternalKind \in Kinds OBVIOUS
<1>1. w.stale \in Kinds BY DEF WidgetOK, WidgetRecord
<1>2. "unchanged" \in Kinds BY DEF Kinds
<1> QED BY <1>1, <1>2, KindOfType DEF ExternalKind

LEMMA MessageType ==
  ASSUME WidgetOK, NEW type \in MessageTypes, NEW kind \in Kinds, NEW p \in Paths
  PROVE  Msg(type, kind, p) \in MessageRecord
BY DEF WidgetOK, WidgetRecord, Msg, MessageRecord

LEMMA FailSourceType ==
  ASSUME WidgetOK, NEW kind \in Kinds
  PROVE  LET v == WithKind(kind)
         IN  v \in WidgetRecord /\ LockedWhenStale(v) /\ v.saving = w.saving
<1>1. Stale \in {Stale, "saving"} OBVIOUS
<1> QED BY <1>1 DEF WidgetOK, WithKind, FailSource, Worse, LockedWhenStale, WidgetRecord, Kinds

LEMMA PostedOfType ==
  ASSUME WidgetOK, NEW kind \in Kinds PROVE PostedOf(kind) \in Seq(MessageRecord)
<1>1. w.path \in Paths /\ "changed" \in MessageTypes
  BY DEF WidgetOK, WidgetRecord, MessageTypes
<1>2. Msg("changed", kind, w.path) \in MessageRecord BY <1>1, MessageType
<1> QED BY <1>2 DEF PostedOf, SourceChanged

LEMMA Joined ==
  ASSUME NEW S, NEW s \in Seq(S), NEW t \in Seq(S) PROVE s \o t \in Seq(S)
BY ConcatProperties

LEMMA NothingIsJoined ==
  ASSUME NEW S, NEW s \in Seq(S), NEW t \in Seq(S), s \o t = <<>> PROVE s = <<>>
<1>1. Len(s \o t) = Len(s) + Len(t) BY ConcatProperties
<1>2. Len(s) \in Nat /\ Len(t) \in Nat OBVIOUS
<1>3. Len(s \o t) = 0 OBVIOUS
<1>4. Len(s) = 0 BY <1>1, <1>2, <1>3
<1> QED BY <1>4

LEMMA FlowType ==
  ASSUME WidgetOK, NEW kind \in Kind
  PROVE  Flow(kind) \in FlowRecord /\ <<Flow(kind)>> \in Seq(FlowRecord)
BY DEF WidgetOK, WidgetRecord, Flow, FlowRecord

LEMMA OpenedType ==
  ASSUME NEW p \in Paths, NEW f \in File, NEW view \in Nat, NEW doc \in Nat
  PROVE  Opened(p, f, view, doc) \in WidgetRecord /\ LockedWhenStale(Opened(p, f, view, doc))
BY ContentType, LargeAssumption DEF Opened, WidgetRecord, LockedWhenStale, Kinds

-------------------------------------------------------------------------------
\* The start.

LEMMA InitInv == ScreenInit => EditorInv
<1> SUFFICES ASSUME ScreenInit PROVE EditorInv OBVIOUS
<1>1. PairsNameTexts /\ text \in Texts
  BY InitNames DEF ScreenInit, WidgetInit, HistoryInit
<1> DEFINE file == [ino |-> 1, content |-> [base |-> 0, text |-> Pristine], flushed |-> TRUE]
<1>2. file \in File /\ file.flushed
  BY StartAssumption, ContentsAssumption, ForeignAssumption DEF File
<1>3. disk = [p \in Paths |-> IF p = Start THEN file ELSE Absent] /\ foreign = 0
      /\ inodes = Cardinality(Paths) /\ job = NoJob /\ temp = "none"
  BY DEF ScreenInit, WidgetInit, DiskInit
<1>4. inodes \in Nat
  <2>1. IsFiniteSet(Paths) BY PathsAssumption
  <2>2. Cardinality(Paths) \in Nat BY <2>1, FS_CardinalityType
  <2> QED BY <1>3, <2>2
<1>5. disk[Start] = file BY <1>3, StartAssumption
<1> HIDE DEF file
<1>6. JobTypeOK BY <1>2, <1>3, <1>4 DEF JobTypeOK, NoJob
<1>7. JobOK BY <1>3 DEF JobOK, NoJob, Published
<1>8. SaveIsAtomic BY <1>2, <1>3 DEF SaveIsAtomic, NoJob
<1>9. w = Opened(Start, file, 0, 0) /\ check = NoCheck /\ posted = <<>>
  BY <1>5 DEF ScreenInit, WidgetInit
<1>10. WidgetOK BY <1>2, <1>9, OpenedType, StartAssumption DEF WidgetOK
<1>11. ~w.saving BY <1>9 DEF Opened
<1>12. flows = <<>> /\ dialog = "none" /\ asked = FALSE /\ deferred = FALSE /\ ops = 0
  BY DEF ScreenInit
<1>13. <<>> \in Seq(FlowRecord) /\ <<>> \in Seq(MessageRecord) OBVIOUS
<1>14. FlowsOK BY <1>12, <1>13 DEF FlowsOK
<1>15. ops \in 0 .. MaxOps BY <1>12, OpsAssumption
<1> QED
  BY <1>1, <1>6, <1>7, <1>8, <1>9, <1>10, <1>11, <1>12, <1>13, <1>14, <1>15
  DEF EditorInv, CheckOK

-------------------------------------------------------------------------------
\* The disk and the thread.

JobInv == JobTypeOK /\ JobOK /\ SaveIsAtomic

JobRecord ==
  [pc : {"none", "prepare", "write", "flush", "replace", "commit", "finish", "ended"},
   target : Paths \cup {Absent}, content : Contents \cup {Absent},
   unverified : BOOLEAN, cancelled : BOOLEAN, ino : Nat, committed : BOOLEAN,
   outcome : {"none", "saved", "failed", "cancelled"}]

LEMMA JobRecordType == JobTypeOK => job \in JobRecord
BY DEF JobTypeOK, JobRecord

LEMMA EndsKeeps ==
  ASSUME JobInv, NEW outcome \in {"saved", "failed", "cancelled"}, Ends(outcome),
         UNCHANGED diskVars, job.pc # "none",
         Published <=> outcome = "saved" \/ (outcome = "failed" /\ job.committed),
         outcome = "saved" => job.content \in Contents
  PROVE  JobInv' /\ job'.pc # "none"
<1>1. job \in JobRecord BY JobRecordType DEF JobInv
<1>2. job' \in JobRecord BY <1>1 DEF Ends, JobRecord
<1>3. /\ job'.pc = "ended" /\ job'.outcome = outcome /\ job'.ino = job.ino
      /\ job'.committed = job.committed /\ job'.target = job.target
      /\ job'.content = job.content /\ temp' = "none"
  BY <1>1 DEF Ends, JobRecord
<1>4. JobTypeOK' BY <1>2, <1>3 DEF JobInv, JobTypeOK, JobRecord, diskVars
<1>5. JobOK' BY <1>3 DEF JobInv, JobOK
<1>6. SaveIsAtomic' BY <1>3 DEF JobInv, SaveIsAtomic, Published, diskVars
<1> QED BY <1>3, <1>4, <1>5, <1>6 DEF JobInv

LEMMA FailingKeeps == ASSUME JobInv, Failing PROVE JobInv' /\ job'.pc # "none"
<1>1. PICK pc \in {"prepare", "write", "flush", "replace", "finish"} : Fails(pc)
  BY DEF Failing
<1>2. job.pc = pc /\ Ends("failed") /\ UNCHANGED diskVars BY <1>1 DEF Fails
<1>3. Published <=> job.committed BY <1>2 DEF JobInv, JobOK
<1> QED BY <1>2, <1>3, EndsKeeps

LEMMA StoppingKeeps == ASSUME JobInv, Stopping PROVE JobInv' /\ job'.pc # "none"
<1>1. PICK pc \in {"write", "replace"} : Stops(pc) BY DEF Stopping
<1>2. job.pc = pc /\ Ends("cancelled") /\ UNCHANGED diskVars BY <1>1 DEF Stops
<1>3. ~Published BY <1>2 DEF JobInv, JobOK
<1> QED BY <1>2, <1>3, EndsKeeps

LEMMA FinishKeeps == ASSUME JobInv, Finish PROVE JobInv' /\ job'.pc # "none"
BY EndsKeeps DEF Finish, JobInv, JobOK

LEMMA PrepareKeeps == ASSUME JobInv, Prepare PROVE JobInv' /\ job'.pc # "none"
<1>1. job \in JobRecord BY JobRecordType DEF JobInv
<1>2. job' = [job EXCEPT !.pc = "write"] /\ job.pc = "prepare" /\ temp' = "partial"
  BY DEF Prepare, Steps
<1>3. job' \in JobRecord BY <1>1, <1>2 DEF JobRecord
<1>4. /\ job'.pc = "write" /\ job'.ino = job.ino /\ job'.committed = job.committed
      /\ job'.target = job.target
  BY <1>1, <1>2 DEF JobRecord
<1>5. JobTypeOK' BY <1>2, <1>3 DEF Prepare, JobInv, JobTypeOK, JobRecord, diskVars
<1>6. JobOK' BY <1>2, <1>4 DEF JobInv, JobOK, Published
<1>7. SaveIsAtomic' BY <1>4 DEF Prepare, JobInv, SaveIsAtomic, diskVars
<1> QED BY <1>4, <1>5, <1>6, <1>7 DEF JobInv

LEMMA FlushKeeps == ASSUME JobInv, Flush PROVE JobInv' /\ job'.pc # "none"
<1>1. job \in JobRecord BY JobRecordType DEF JobInv
<1>2. job' = [job EXCEPT !.pc = "replace"] /\ job.pc = "flush" /\ temp' = "flushed"
  BY DEF Flush, Steps
<1>3. job' \in JobRecord BY <1>1, <1>2 DEF JobRecord
<1>4. /\ job'.pc = "replace" /\ job'.ino = job.ino /\ job'.committed = job.committed
      /\ job'.target = job.target /\ job'.content = job.content
  BY <1>1, <1>2 DEF JobRecord
<1>5. JobTypeOK' BY <1>2, <1>3 DEF Flush, JobInv, JobTypeOK, JobRecord, diskVars
<1>6. JobOK' BY <1>2, <1>4 DEF JobInv, JobOK, Published
<1>7. SaveIsAtomic' BY <1>4 DEF Flush, JobInv, SaveIsAtomic, diskVars
<1> QED BY <1>4, <1>5, <1>6, <1>7 DEF JobInv

LEMMA CommitKeeps == ASSUME JobInv, Commit PROVE JobInv' /\ job'.pc # "none"
<1>1. job \in JobRecord BY JobRecordType DEF JobInv
<1>2. /\ job' = [job EXCEPT !.pc = "finish", !.committed = TRUE] /\ job.pc = "commit"
      /\ UNCHANGED <<diskVars, temp>>
  BY DEF Commit
<1>3. job' \in JobRecord BY <1>1, <1>2 DEF JobRecord
<1>4. /\ job'.pc = "finish" /\ job'.ino = job.ino /\ job'.committed
      /\ job'.target = job.target /\ job'.content = job.content
  BY <1>1, <1>2 DEF JobRecord
<1>5. JobTypeOK' BY <1>2, <1>3 DEF JobInv, JobTypeOK, JobRecord, diskVars
<1>6. JobOK' BY <1>2, <1>4 DEF JobInv, JobOK, Published
<1>7. SaveIsAtomic' BY <1>2, <1>4 DEF JobInv, SaveIsAtomic, diskVars
<1> QED BY <1>4, <1>5, <1>6, <1>7 DEF JobInv

LEMMA WriteKeeps ==
  ASSUME JobInv, NEW c \in Contents, WriteChunks(c) PROVE JobInv' /\ job'.pc # "none"
<1>1. job \in JobRecord BY JobRecordType DEF JobInv
<1>2. /\ job' = [job EXCEPT !.pc = "flush", !.content = c] /\ job.pc = "write"
      /\ temp' = "whole" /\ UNCHANGED diskVars
  BY DEF WriteChunks
<1>3. job' \in JobRecord BY <1>1, <1>2 DEF JobRecord
<1>4. /\ job'.pc = "flush" /\ job'.ino = job.ino /\ job'.committed = job.committed
      /\ job'.target = job.target /\ job'.content = c
  BY <1>1, <1>2 DEF JobRecord
<1>5. JobTypeOK' BY <1>2, <1>3 DEF JobInv, JobTypeOK, JobRecord, diskVars
<1>6. JobOK' BY <1>2, <1>4 DEF JobInv, JobOK, Published
<1>7. SaveIsAtomic' BY <1>2, <1>4 DEF JobInv, SaveIsAtomic, diskVars
<1> QED BY <1>4, <1>5, <1>6, <1>7 DEF JobInv

LEMMA ReplaceKeeps == ASSUME JobInv, Replace PROVE JobInv' /\ job'.pc # "none"
<1>1. job \in JobRecord /\ job.pc = "replace" /\ Publishes("commit")
  BY JobRecordType DEF JobInv, Replace
<1>2. /\ job.target \in Paths /\ job.content \in Contents /\ temp = "flushed"
      /\ ~job.committed /\ inodes \in Nat /\ foreign' = foreign /\ foreign \in Nat
      /\ inodes' = inodes + 1 /\ temp' = "none"
  BY <1>1 DEF JobInv, JobOK, JobTypeOK, Publishes
<1> DEFINE file == [ino |-> inodes', content |-> job.content, flushed |-> TRUE]
<1>3. file \in File /\ file.flushed BY <1>2 DEF File
<1>4. disk' = [disk EXCEPT ![job.target] = file]
  <2>1. (temp = "flushed") = TRUE BY <1>2
  <2> QED BY <1>1, <2>1 DEF Publishes
<1> HIDE DEF file
<1>5. disk \in [Paths -> File \cup {Absent}] /\ \A p \in Paths : disk[p] # Absent => disk[p].flushed
  BY DEF JobInv, JobTypeOK, SaveIsAtomic
<1>5a. /\ disk' \in [Paths -> File \cup {Absent}]
       /\ \A p \in Paths : disk'[p] = IF p = job.target THEN file ELSE disk[p]
  BY <1>2, <1>3, <1>4, <1>5
<1>5b. \A p \in Paths : disk'[p] # Absent => disk'[p].flushed
  BY <1>3, <1>5, <1>5a
<1>6. job' = [job EXCEPT !.pc = "commit", !.ino = inodes'] BY <1>1 DEF Publishes
<1> DEFINE n == inodes'
<1>6a. n \in Nat /\ n # 0 /\ job' = [job EXCEPT !.pc = "commit", !.ino = n] BY <1>2, <1>6
<1> HIDE DEF n
<1>7. job' \in JobRecord BY <1>1, <1>6a DEF JobRecord
<1>8. /\ job'.pc = "commit" /\ job'.ino # 0 /\ ~job'.committed
      /\ job'.target \in Paths /\ job'.content \in Contents
  BY <1>1, <1>2, <1>6a DEF JobRecord
<1>9. JobTypeOK' BY <1>2, <1>5a, <1>7 DEF JobTypeOK, JobRecord
<1>10. JobOK' BY <1>2, <1>8 DEF JobOK, Published
<1>11. SaveIsAtomic' BY <1>5b, <1>8 DEF SaveIsAtomic
<1> QED BY <1>8, <1>9, <1>10, <1>11 DEF JobInv

LEMMA FreshKeeps ==
  ASSUME JobInv, UNCHANGED diskVars, job' \in JobRecord, job'.pc \in {"none", "prepare"},
         job'.pc = "prepare" => job'.target \in Paths, job'.ino = 0, ~job'.committed,
         temp' \in {"none", "partial", "whole", "flushed"}
  PROVE  JobInv'
<1>1. JobTypeOK' BY DEF JobInv, JobTypeOK, JobRecord, diskVars
<1>2. JobOK' BY DEF JobOK, Published
<1>3. SaveIsAtomic' BY DEF JobInv, SaveIsAtomic, diskVars
<1> QED BY <1>1, <1>2, <1>3 DEF JobInv

LEMMA CancelKeeps ==
  ASSUME JobInv, w.saving \in BOOLEAN, CancelSave, UNCHANGED <<diskVars, temp>>
  PROVE  JobInv' /\ job'.pc = job.pc
<1>1. job \in JobRecord BY JobRecordType DEF JobInv
<1> DEFINE c == w.saving \/ job.cancelled
<1>2. job' = [job EXCEPT !.cancelled = c] BY DEF CancelSave
<1>3. c \in BOOLEAN OBVIOUS
<1> HIDE DEF c
<1>4. job' \in JobRecord BY <1>1, <1>2, <1>3 DEF JobRecord
<1>5. /\ job'.pc = job.pc /\ job'.ino = job.ino /\ job'.committed = job.committed
      /\ job'.target = job.target /\ job'.content = job.content
      /\ job'.outcome = job.outcome
  BY <1>1, <1>2 DEF JobRecord
<1>6. JobTypeOK' BY <1>4 DEF JobInv, JobTypeOK, JobRecord, diskVars
<1>7. JobOK' BY <1>5 DEF JobInv, JobOK, Published
<1>8. SaveIsAtomic' BY <1>5 DEF JobInv, SaveIsAtomic, Published, diskVars
<1> QED BY <1>5, <1>6, <1>7, <1>8 DEF JobInv

LEMMA OthersKeep ==
  ASSUME JobInv, NEW p \in Paths, Others(p) PROVE JobInv'
<1> DEFINE c == [base |-> foreign + 1, text |-> Pristine]
<1>1. /\ disk \in [Paths -> File \cup {Absent}] /\ foreign \in Nat /\ inodes \in Nat
      /\ \A q \in Paths : disk[q] # Absent => disk[q].flushed
      /\ job' = job /\ temp' = temp
  BY DEF Others, JobInv, JobTypeOK, SaveIsAtomic, jobVars
<1>2. WriteInPlace(p, c) \/ PutFile(p, c) \/ Delete(p) BY DEF Others
<1>3. foreign < MaxForeign => c \in Contents
  BY <1>1, ForeignAssumption, StartAssumption, ContentsAssumption
<1> HIDE DEF c
<1>4. SUFFICES /\ disk' \in [Paths -> File \cup {Absent}] /\ foreign' \in Nat
               /\ inodes' \in Nat /\ \A q \in Paths : disk'[q] # Absent => disk'[q].flushed
  <2>1. JobTypeOK' BY <1>1, <1>4 DEF JobInv, JobTypeOK
  <2>2. JobOK' BY <1>1 DEF JobInv, JobOK, Published
  <2>3. SaveIsAtomic' BY <1>1, <1>4 DEF JobInv, SaveIsAtomic, Published
  <2> QED BY <2>1, <2>2, <2>3 DEF JobInv
<1>5. ASSUME NEW file \in File \cup {Absent}, Foreign(p, file),
             file # Absent => file.flushed
      PROVE  /\ disk' \in [Paths -> File \cup {Absent}] /\ foreign' \in Nat
             /\ \A q \in Paths : disk'[q] # Absent => disk'[q].flushed
  <2>1. /\ disk' = [disk EXCEPT ![p] = file] /\ foreign' = foreign + 1
    BY <1>5 DEF Foreign
  <2>2. /\ disk' \in [Paths -> File \cup {Absent}]
        /\ \A q \in Paths : disk'[q] = IF q = p THEN file ELSE disk[q]
    BY <1>1, <2>1
  <2> QED BY <1>1, <1>5, <2>1, <2>2
<1>6. CASE WriteInPlace(p, c)
  <2>1. disk[p] \in File /\ disk[p].flushed /\ Foreign(p, [disk[p] EXCEPT !.content = c])
        /\ inodes' = inodes /\ c \in Contents
    BY <1>1, <1>3, <1>6 DEF WriteInPlace, Foreign
  <2> DEFINE file == [disk[p] EXCEPT !.content = c]
  <2>2. file \in File /\ file.flushed BY <2>1 DEF File
  <2> HIDE DEF file
  <2>3. Foreign(p, file) BY <2>1 DEF file
  <2> QED BY <1>1, <1>5, <2>1, <2>2, <2>3
<1>7. CASE PutFile(p, c)
  <2> DEFINE n == inodes'
             file == [ino |-> n, content |-> c, flushed |-> TRUE]
  <2>1. n \in Nat /\ c \in Contents /\ Foreign(p, file)
    BY <1>1, <1>3, <1>7 DEF PutFile, Foreign
  <2>2. file \in File /\ file.flushed
    <3> HIDE DEF n
    <3> QED BY <2>1 DEF File
  <2> HIDE DEF file
  <2> QED BY <1>5, <2>1, <2>2
<1>8. CASE Delete(p) BY <1>1, <1>5, <1>8 DEF Delete
<1> QED BY <1>2, <1>6, <1>7, <1>8

LEMMA ReadByType ==
  ASSUME JobInv, WidgetOK, text \in Texts PROVE ReadBy(job) \in Contents
<1>1. w.path \in Paths /\ w.base \in 0 .. MaxForeign BY DEF WidgetOK, WidgetRecord
<1>2. Shows \in Contents BY <1>1, ContentsAssumption DEF Shows
<1>3. disk[w.path] # Absent =>
        disk[w.path] \in File /\ disk[w.path].content.base \in 0 .. MaxForeign
  BY <1>1, DiskFile, ContentType DEF JobInv
<1>4. disk[w.path] # Absent => [Shows EXCEPT !.base = disk[w.path].content.base] \in Contents
  <2> DEFINE base == disk[w.path].content.base
  <2>1. disk[w.path] # Absent => base \in 0 .. MaxForeign BY <1>3
  <2> HIDE DEF base
  <2>2. disk[w.path] # Absent => [Shows EXCEPT !.base = base] \in Contents
    BY <1>2, <2>1, ContentsAssumption
  <2> QED BY <2>2 DEF base
<1> QED BY <1>2, <1>4 DEF ReadBy

LEMMA ThreadKeeps ==
  ASSUME JobInv, WidgetOK, text \in Texts, SaveThread PROVE JobInv' /\ job'.pc # "none"
<1>1. CASE WriteDocument BY <1>1, ReadByType, WriteKeeps DEF WriteDocument
<1> QED
  BY <1>1, PrepareKeeps, FlushKeeps, ReplaceKeeps, CommitKeeps, FinishKeeps,
     FailingKeeps, StoppingKeeps
  DEF SaveThread

-------------------------------------------------------------------------------
\* The widget.

CoreInv ==
  /\ PairsNameTexts /\ JobInv /\ WidgetOK /\ CheckOK
  /\ posted \in Seq(MessageRecord)
  /\ w.saving => job.pc # "none"

\* What is left to show of a step: the next history is one that EditHistory allows.
StepOK ==
  /\ [HistoryNext]_historyVars /\ JobInv' /\ WidgetOK' /\ CheckOK'
  /\ posted' \in Seq(MessageRecord)
  /\ w'.saving => job'.pc # "none"

LEMMA WidgetType ==
  ASSUME WidgetOK
  PROVE  /\ w.path \in Paths /\ w.held \in File /\ w.stale \in Kinds /\ w.view \in Nat
         /\ w.doc \in Nat /\ w.epoch \in Nat /\ w.saving \in BOOLEAN /\ w.closed \in BOOLEAN
         /\ w.base \in 0 .. MaxForeign
BY DEF WidgetOK, WidgetRecord

LEMMA SameJob == JobInv /\ UNCHANGED <<diskVars, jobVars>> => JobInv' /\ job' = job
BY DEF JobInv, JobTypeOK, JobOK, SaveIsAtomic, Published, diskVars, jobVars

LEMMA SameWidget == UNCHANGED w => (WidgetOK' <=> WidgetOK)
BY DEF WidgetOK, LockedWhenStale

LEMMA SameCheck == UNCHANGED check => (CheckOK' <=> CheckOK)
BY DEF CheckOK

LEMMA WidgetBecomes ==
  ASSUME NEW v, v \in WidgetRecord, LockedWhenStale(v), w' = v PROVE WidgetOK'
BY DEF WidgetOK, LockedWhenStale

\* Steps that do nothing to the widget but find out that its file changed.
LEMMA FoundOut ==
  ASSUME CoreInv, NEW kind \in Kinds, w' = WithKind(kind),
         UNCHANGED <<historyVars, diskVars, jobVars>>, CheckOK',
         posted' \in Seq(MessageRecord)
  PROVE  StepOK
<1>1. WidgetOK' /\ w'.saving = w.saving
  BY FailSourceType, WidgetBecomes DEF CoreInv
<1>2. JobInv' /\ job' = job BY SameJob DEF CoreInv
<1> QED BY <1>1, <1>2 DEF CoreInv, StepOK

LEMMA RenderStep == ASSUME CoreInv, Render PROVE StepOK
<1>1. "modified" \in Kinds /\ WithKind("modified") = FailSource(w, "modified")
      /\ PostedOf("modified") = SourceChanged(w, "modified")
  BY DEF Kinds, WithKind, PostedOf
<1>2. PostedOf("modified") \in Seq(MessageRecord) BY <1>1, PostedOfType DEF CoreInv
<1>3. posted' \in Seq(MessageRecord) BY <1>1, <1>2, Joined DEF Render, CoreInv
<1>4. CheckOK' BY SameCheck DEF Render, CoreInv
<1> QED BY <1>1, <1>3, <1>4, FoundOut DEF Render

LEMMA PollAppliedStep == ASSUME CoreInv, PollApplied PROVE StepOK
<1> DEFINE kind == IF Applies(check) THEN check.kind ELSE "unchanged"
<1>1. kind \in Kinds
  <2>1. check \in CheckRecord /\ check.kind # "pending"
    BY DEF PollApplied, CoreInv, CheckOK, NoCheck
  <2>2. check.kind \in Kinds BY <2>1 DEF CheckRecord
  <2> QED BY <2>2 DEF Kinds
<1>2. w' = WithKind(kind) /\ posted' = posted \o PostedOf(kind) /\ check' = NoCheck
      /\ UNCHANGED <<historyVars, diskVars, jobVars>>
  BY DEF PollApplied
<1> HIDE DEF kind
<1>3. posted' \in Seq(MessageRecord) BY <1>1, <1>2, PostedOfType, Joined DEF CoreInv
<1> QED BY <1>1, <1>2, <1>3, FoundOut DEF CheckOK

\* Steps of the poll, of other programs and of the thread leave the widget alone.
LEMMA WidgetLeftAlone ==
  ASSUME CoreInv, UNCHANGED <<w, posted>>, [HistoryNext]_historyVars, CheckOK', JobInv',
         w.saving => job'.pc # "none"
  PROVE  StepOK
BY SameWidget DEF CoreInv, StepOK

LEMMA PollBeginsStep == ASSUME CoreInv, PollBegins PROVE StepOK
<1>1. check' \in CheckRecord BY WidgetType DEF PollBegins, CoreInv, CheckRecord
<1>2. JobInv' /\ job' = job BY SameJob DEF CoreInv, PollBegins
<1> QED BY <1>1, <1>2, WidgetLeftAlone DEF PollBegins, CheckOK, CoreInv

LEMMA PollRunsStep == ASSUME CoreInv, PollRuns PROVE StepOK
<1> DEFINE kind == KindOf(disk[check.path], check.held)
<1>1. kind \in Kinds BY KindOfType
<1>2. check \in CheckRecord BY DEF PollRuns, CoreInv, CheckOK, NoCheck
<1>3. check' = IF kind = "unchanged" THEN NoCheck ELSE [check EXCEPT !.kind = kind]
  BY DEF PollRuns
<1> HIDE DEF kind
<1>4. CheckOK' BY <1>1, <1>2, <1>3 DEF CheckOK, CheckRecord
<1>5. JobInv' /\ job' = job BY SameJob DEF CoreInv, PollRuns
<1> QED BY <1>4, <1>5, WidgetLeftAlone DEF PollRuns, CoreInv

LEMMA OthersStep == ASSUME CoreInv, NEW p \in Paths, Others(p) PROVE StepOK
<1>1. JobInv' BY OthersKeep DEF CoreInv
<1>2. UNCHANGED <<w, check, posted, jobVars, historyVars>> BY DEF Others
<1> QED BY <1>1, <1>2, SameCheck, WidgetLeftAlone DEF CoreInv, jobVars

LEMMA SaveThreadStep == ASSUME CoreInv, SaveThread PROVE StepOK
<1>1. JobInv' /\ job'.pc # "none" BY ThreadKeeps, TextsNamed DEF CoreInv
<1>2. UNCHANGED <<w, check, posted, historyVars>> BY DEF SaveThread
<1> QED BY <1>1, <1>2, SameCheck, WidgetLeftAlone DEF CoreInv

LEMMA EditStep ==
  ASSUME CoreInv, Type \/ Undoes \/ Redoes \/ EndBatch, WidgetStays PROVE StepOK
<1>1. HistoryNext BY DEF Type, Undoes, Redoes, HistoryNext
<1>2. JobInv' /\ job' = job BY SameJob DEF CoreInv, WidgetStays
<1> QED BY <1>1, <1>2, SameCheck, WidgetLeftAlone DEF CoreInv, WidgetStays

LEMMA CancelStep ==
  ASSUME CoreInv, CancelSave, UNCHANGED <<historyVars, diskVars, temp, w, check, posted>>
  PROVE  StepOK
<1>1. JobInv' /\ job'.pc = job.pc BY WidgetType, CancelKeeps DEF CoreInv
<1> QED BY <1>1, SameCheck, WidgetLeftAlone DEF CoreInv

\* Saving: the origin is looked at, and the save starts or asks.
LEMMA OriginType == ASSUME WidgetOK PROVE Origin \in Kinds
<1>1. w.stale \in Kinds BY WidgetType
<1>2. KindOf(disk[w.path], w.held) \in Kinds BY KindOfType
<1> QED BY <1>1, <1>2 DEF Origin

LEMMA AskConsentStep ==
  ASSUME CoreInv, NEW p \in Paths, AskConsent(p), UNCHANGED <<check, diskVars>> PROVE StepOK
<1>1. Origin \in Kinds BY OriginType DEF CoreInv
<1>2. ConsentFor(p) \in Kinds BY <1>1 DEF ConsentFor, Kinds
<1>3. Msg("confirm", ConsentFor(p), p) \in MessageRecord
  BY <1>2, MessageType DEF CoreInv, MessageTypes
<1>4. <<Msg("confirm", ConsentFor(p), p)>> \in Seq(MessageRecord) BY <1>3
<1>5. posted \o PostedOf(Origin) \in Seq(MessageRecord)
  BY <1>1, PostedOfType, Joined DEF CoreInv
<1>6. posted' \in Seq(MessageRecord) BY <1>4, <1>5, Joined DEF AskConsent
<1>7. UNCHANGED <<historyVars, diskVars, jobVars>>
  BY DEF AskConsent, ForSave, historyVars, jobVars
<1>8. CheckOK' BY SameCheck DEF CoreInv
<1> QED BY <1>1, <1>6, <1>7, <1>8, FoundOut DEF AskConsent

LEMMA StartSaveStep ==
  ASSUME CoreInv, NEW p \in Paths, StartSave(p), UNCHANGED <<check, diskVars>> PROVE StepOK
<1>1. Origin \in Kinds BY OriginType DEF CoreInv
<1> DEFINE v == WithKind(Origin)
<1>2. v \in WidgetRecord /\ LockedWhenStale(v) BY <1>1, FailSourceType DEF CoreInv
<1>3. w' = [v EXCEPT !.saving = TRUE, !.locks = @ \cup {"saving"}, !.epoch = @ + 1]
  BY DEF StartSave
<1> HIDE DEF v
<1> DEFINE locks == v.locks \cup {"saving"}
           epoch == v.epoch + 1
<1>3a. locks \in SUBSET {Stale, "saving"} /\ epoch \in Nat BY <1>2 DEF WidgetRecord
<1>3b. w' = [v EXCEPT !.saving = TRUE, !.locks = locks, !.epoch = epoch] BY <1>2, <1>3
<1> HIDE DEF locks, epoch
<1>4. w' \in WidgetRecord BY <1>2, <1>3a, <1>3b DEF WidgetRecord
<1>4a. w'.stale = v.stale /\ w'.locks = locks BY <1>2, <1>3b DEF WidgetRecord
<1>5. w'.stale = v.stale /\ w'.locks = v.locks \cup {"saving"} BY <1>4a DEF locks
<1>6. LockedWhenStale(w)' BY <1>2, <1>5 DEF LockedWhenStale, Stale
<1>7. posted' \in Seq(MessageRecord)
  BY <1>1, PostedOfType, Joined DEF StartSave, CoreInv
<1> DEFINE u == Origin = "modified"
<1>8. u \in BOOLEAN /\ job' = [NoJob EXCEPT !.pc = "prepare", !.target = p, !.unverified = u]
  BY DEF StartSave
<1> HIDE DEF u
<1>9. /\ job' \in JobRecord /\ job'.pc = "prepare" /\ job'.target = p /\ job'.ino = 0
      /\ ~job'.committed
  BY <1>8 DEF NoJob, JobRecord
<1>10. JobInv' BY <1>9, FreshKeeps DEF StartSave, CoreInv
<1>11. HistoryNext BY DEF StartSave, HistoryNext, EndBatch
<1>12. CheckOK' BY SameCheck DEF CoreInv
<1> QED BY <1>4, <1>6, <1>7, <1>9, <1>10, <1>11, <1>12 DEF StepOK, WidgetOK

LEMMA SaveStep ==
  ASSUME CoreInv, NEW p \in Paths, NEW overwrite \in BOOLEAN, Save(p, overwrite)
  PROVE  StepOK
<1>1. CASE UNCHANGED <<w, posted, ForSave>>
  <2>1. UNCHANGED <<historyVars, diskVars, jobVars, w, posted, check>>
    BY <1>1 DEF Save, ForSave, historyVars, jobVars
  <2>2. JobInv' /\ job' = job BY <2>1, SameJob DEF CoreInv
  <2> QED BY <2>1, <2>2, SameCheck, WidgetLeftAlone DEF CoreInv
<1> QED BY <1>1, AskConsentStep, StartSaveStep DEF Save

LEMMA EndedType ==
  ASSUME WidgetOK
  PROVE  /\ Ended(w) \in WidgetRecord /\ LockedWhenStale(Ended(w)) /\ ~Ended(w).saving
         /\ Ended(w).stale = w.stale /\ Ended(w).locks = w.locks \ {"saving"}
<1>1. w \in WidgetRecord BY DEF WidgetOK
<1> DEFINE locks == w.locks \ {"saving"}
           epoch == w.epoch + 1
<1>1a. locks \in SUBSET {Stale, "saving"} /\ epoch \in Nat BY <1>1 DEF WidgetRecord
<1>1b. Ended(w) = [w EXCEPT !.saving = FALSE, !.epoch = epoch, !.locks = locks]
  BY <1>1 DEF Ended
<1> HIDE DEF locks, epoch
<1>1c. /\ Ended(w) \in WidgetRecord /\ ~Ended(w).saving /\ Ended(w).stale = w.stale
       /\ Ended(w).locks = locks
  BY <1>1, <1>1a, <1>1b DEF WidgetRecord
<1>2. /\ Ended(w) \in WidgetRecord /\ ~Ended(w).saving /\ Ended(w).stale = w.stale
      /\ Ended(w).locks = w.locks \ {"saving"}
  BY <1>1c DEF locks
<1> QED BY <1>2 DEF WidgetOK, LockedWhenStale, Stale

LEMMA RebasedType ==
  ASSUME WidgetOK, JobInv, job.pc = "ended", job.outcome = "saved",
         NEW v \in {Rebased, [Rebased EXCEPT !.stale = w.stale, !.locks = Ended(w).locks]}
  PROVE  v \in WidgetRecord /\ LockedWhenStale(v) /\ ~v.saving
<1> DEFINE e == Ended(w)
           content == job.content
           path == job.target
           ino == job.ino
           file == [ino |-> ino, content |-> content, flushed |-> TRUE]
           base == content.base
           r == [e EXCEPT !.path = path, !.base = base, !.large = TRUE, !.held = file,
                          !.stale = "unchanged", !.locks = @ \ {Stale}]
<1>1. e \in WidgetRecord /\ LockedWhenStale(e) /\ ~e.saving /\ e.stale = w.stale
  BY EndedType
<1>2. path \in Paths /\ content \in Contents /\ ino \in Nat
  BY DEF JobInv, JobOK, JobTypeOK
<1>3. v \in {r, [r EXCEPT !.stale = e.stale, !.locks = e.locks]} BY <1>1 DEF Rebased
<1> HIDE DEF e, content, path, ino
<1>4. file \in File /\ base \in 0 .. MaxForeign BY <1>2, ContentsAssumption DEF File
<1> HIDE DEF file, base
<1>5. /\ r \in WidgetRecord /\ r.stale = "unchanged" /\ r.locks = e.locks \ {Stale}
      /\ r.saving = e.saving
  BY <1>1, <1>2, <1>4 DEF WidgetRecord, Kinds
<1>6. LockedWhenStale(r) BY <1>5 DEF LockedWhenStale
<1> HIDE DEF r
<1>7. CASE v = r BY <1>1, <1>5, <1>6, <1>7
<1>8. CASE v = [r EXCEPT !.stale = e.stale, !.locks = e.locks]
  <2>1. v \in WidgetRecord /\ v.stale = e.stale /\ v.locks = e.locks /\ v.saving = r.saving
    BY <1>1, <1>5, <1>8 DEF WidgetRecord
  <2> QED BY <1>1, <1>5, <2>1 DEF LockedWhenStale
<1> QED BY <1>3, <1>7, <1>8

LEMMA FinishSaveStep == ASSUME CoreInv, FinishSave PROVE StepOK
<1>1. /\ job.pc = "ended" /\ job' = NoJob /\ UNCHANGED <<check, diskVars, temp>>
      /\ job.target \in Paths /\ text \in Texts
  BY TextsNamed DEF FinishSave, CoreInv, JobInv, JobOK
<1>2. JobInv'
  <2>1. /\ job' \in JobRecord /\ job'.pc = "none" /\ job'.ino = 0 /\ ~job'.committed
    BY <1>1 DEF NoJob, JobRecord
  <2>2. temp' \in {"none", "partial", "whole", "flushed"}
    BY <1>1 DEF CoreInv, JobInv, JobTypeOK
  <2> QED BY <1>1, <2>1, <2>2, FreshKeeps DEF CoreInv
<1>3. CheckOK' BY <1>1, SameCheck DEF CoreInv
<1>4. ASSUME NEW type \in MessageTypes, posted' = Append(posted, Msg(type, "unchanged", job.target))
      PROVE  posted' \in Seq(MessageRecord)
  <2>1. "unchanged" \in Kinds BY DEF Kinds
  <2>2. Msg(type, "unchanged", job.target) \in MessageRecord
    BY <1>1, <2>1, MessageType DEF CoreInv
  <2> QED BY <1>4, <2>2 DEF CoreInv
<1>5. Loaded(text) => HistoryNext BY <1>1 DEF HistoryNext
<1>6. Saved => HistoryNext BY DEF HistoryNext
<1>7. SUFFICES ASSUME NEW type \in MessageTypes, NEW v \in WidgetRecord,
                      posted' = Append(posted, Msg(type, "unchanged", job.target)), w' = v,
                      LockedWhenStale(v), ~v.saving, [HistoryNext]_historyVars
               PROVE  StepOK
  <2>1. CASE job.outcome = "saved"
    <3>1. Rebased \in {Rebased, [Rebased EXCEPT !.stale = w.stale, !.locks = Ended(w).locks]}
      OBVIOUS
    <3>2. CASE RebaseSucceeds
      BY <1>1, <1>5, <1>6, <1>7, <2>1, <3>1, <3>2, RebasedType
      DEF RebaseSucceeds, CoreInv, MessageTypes
    <3>3. CASE FailsBeforeSwap
      BY <1>7, <3>3, EndedType DEF FailsBeforeSwap, CoreInv, MessageTypes
    <3>4. CASE FailsAfterSwap
      BY <1>1, <1>5, <1>7, <2>1, <3>4, RebasedType DEF FailsAfterSwap, CoreInv, MessageTypes
    <3> QED BY <2>1, <3>2, <3>3, <3>4 DEF FinishSave
  <2>2. CASE job.outcome # "saved"
    <3>1. NothingWritten BY <2>2 DEF FinishSave
    <3> QED BY <1>7, <3>1, EndedType DEF NothingWritten, CoreInv, MessageTypes
  <2> QED BY <2>1, <2>2
<1>8. posted' \in Seq(MessageRecord) BY <1>4, <1>7
<1>9. WidgetOK' BY <1>7, WidgetBecomes
<1> QED BY <1>2, <1>3, <1>7, <1>8, <1>9 DEF StepOK

LEMMA LoadsFile ==
  ASSUME CoreInv, NEW p \in Paths, disk[p] # Absent
  PROVE  disk[p] \in File /\ (Loaded(disk[p].content.text) => HistoryNext)
<1>1. disk[p] \in File BY DiskFile DEF CoreInv, JobInv
<1>2. disk[p].content.text \in Texts BY <1>1, ContentType
<1> QED BY <1>1, <1>2 DEF HistoryNext

LEMMA ReloadStep == ASSUME CoreInv, Reload PROVE StepOK
<1>1. JobInv' /\ job' = job BY SameJob DEF CoreInv, Reload
<1>2. CheckOK' BY SameCheck DEF CoreInv, Reload
<1>3. w.path \in Paths /\ w.view \in Nat /\ w.doc + 1 \in Nat /\ w.epoch \in Nat
  BY WidgetType DEF CoreInv
<1>4. CASE disk[w.path] = Absent
  <2>1. "unchanged" \in Kinds /\ "reload failed" \in MessageTypes BY DEF Kinds, MessageTypes
  <2>2. Msg("reload failed", "unchanged", w.path) \in MessageRecord
    BY <1>3, <2>1, MessageType DEF CoreInv
  <2>3. posted' \in Seq(MessageRecord)
    <3> DEFINE m == Msg("reload failed", "unchanged", w.path)
    <3>1. posted' = Append(posted, m) BY <1>4 DEF Reload
    <3> HIDE DEF m
    <3>2. m \in MessageRecord BY <2>2 DEF m
    <3> QED BY <3>1, <3>2 DEF CoreInv
  <2>4. UNCHANGED <<w, historyVars>> BY <1>4 DEF Reload
  <2> QED BY <1>1, <1>2, <2>3, <2>4, SameWidget DEF StepOK, CoreInv
<1>5. CASE disk[w.path] # Absent
  <2> DEFINE o == Opened(w.path, disk[w.path], w.view, w.doc + 1)
  <2>1. disk[w.path] \in File /\ HistoryNext /\ UNCHANGED posted
    BY <1>3, <1>5, LoadsFile DEF Reload
  <2>2. o \in WidgetRecord /\ LockedWhenStale(o) BY <1>3, <2>1, OpenedType
  <2>3. ~o.saving BY DEF Opened
  <2>4. w' = [o EXCEPT !.epoch = w.epoch] BY <1>5 DEF Reload
  <2> HIDE DEF o
  <2>5. w' \in WidgetRecord /\ w'.stale = o.stale /\ w'.locks = o.locks /\ w'.saving = o.saving
    BY <1>3, <2>2, <2>4 DEF WidgetRecord
  <2>6. LockedWhenStale(w)' BY <2>2, <2>5 DEF LockedWhenStale, Stale
  <2> QED BY <1>1, <1>2, <2>1, <2>3, <2>5, <2>6 DEF StepOK, CoreInv, WidgetOK
<1> QED BY <1>4, <1>5

LEMMA OpenInsteadStep ==
  ASSUME CoreInv, NEW p \in Paths, disk[p] # Absent, OpenInstead(p) PROVE StepOK
<1> DEFINE o == Opened(p, disk[p], w.view + 1, w.doc + 1)
<1>1. w.view + 1 \in Nat /\ w.doc + 1 \in Nat BY WidgetType DEF CoreInv
<1>2. disk[p] \in File /\ HistoryNext BY LoadsFile DEF OpenInstead
<1>3. o \in WidgetRecord /\ LockedWhenStale(o) BY <1>1, <1>2, OpenedType
<1>4. ~o.saving BY DEF Opened
<1>5. w' = o /\ UNCHANGED posted BY DEF OpenInstead
<1> HIDE DEF o
<1>6. WidgetOK' BY <1>3, <1>5, WidgetBecomes
<1>7. JobInv' /\ job' = job BY SameJob DEF CoreInv, OpenInstead
<1>8. CheckOK' BY SameCheck DEF CoreInv, OpenInstead
<1> QED BY <1>2, <1>4, <1>5, <1>6, <1>7, <1>8 DEF StepOK, CoreInv

LEMMA CloseWidgetStep == ASSUME CoreInv, CloseWidget PROVE StepOK
<1> DEFINE e == Ended(w)
<1>1. e \in WidgetRecord /\ LockedWhenStale(e) /\ ~e.saving BY EndedType DEF CoreInv
<1>2. w' = [e EXCEPT !.closed = TRUE] BY DEF CloseWidget
<1> HIDE DEF e
<1>3. w' \in WidgetRecord /\ w'.stale = e.stale /\ w'.locks = e.locks /\ w'.saving = e.saving
  BY <1>1, <1>2 DEF WidgetRecord
<1>4. LockedWhenStale(w)' BY <1>1, <1>3 DEF LockedWhenStale, Stale
<1>5. JobInv' BY WidgetType, CancelKeeps DEF CloseWidget, CoreInv
<1>6. CheckOK' /\ UNCHANGED <<historyVars, posted>> BY SameCheck DEF CloseWidget, CoreInv
<1> QED BY <1>1, <1>3, <1>4, <1>5, <1>6 DEF StepOK, CoreInv, WidgetOK

-------------------------------------------------------------------------------
\* The screen.

ScreenOK == FlowsOK /\ asked \in BOOLEAN /\ deferred \in BOOLEAN /\ ops \in 0 .. MaxOps

LEMMA EditorParts == EditorInv <=> CoreInv /\ ScreenOK
BY DEF EditorInv, CoreInv, JobInv, ScreenOK

LEMMA FlowsParts ==
  ASSUME FlowsOK
  PROVE  /\ flows \in Seq(FlowRecord)
         /\ dialog # "none" => flows # <<>>
         /\ flows # <<>> => First \in FlowRecord /\ Tail(flows) \in Seq(FlowRecord)
                            /\ First.path \in Paths
<1>1. flows \in Seq(FlowRecord) BY DEF FlowsOK
<1>2. flows # <<>> => Len(flows) \in Nat /\ Len(flows) >= 1 BY <1>1
<1>3. flows # <<>> => First \in FlowRecord BY <1>1, <1>2 DEF First
<1>4. flows # <<>> => First.path \in Paths BY <1>3 DEF FlowRecord
<1>5. flows # <<>> => Tail(flows) \in Seq(FlowRecord) BY <1>1
<1> QED BY <1>1, <1>3, <1>4, <1>5 DEF FlowsOK

LEMMA StartsKeeps ==
  ASSUME ScreenOK, NEW started \in Seq(FlowRecord), Starts(started)
  PROVE  FlowsOK' /\ asked' \in BOOLEAN
<1>1. /\ flows \in Seq(FlowRecord) /\ flows' = flows \o started /\ UNCHANGED <<dialog, asked>>
  BY DEF ScreenOK, FlowsOK, Starts
<1>2. flows' \in Seq(FlowRecord) BY <1>1, Joined
<1>3. flows' = <<>> => flows = <<>> BY <1>1, NothingIsJoined
<1> QED BY <1>1, <1>2, <1>3 DEF ScreenOK, FlowsOK

LEMMA LeavesKeeps ==
  ASSUME ScreenOK, flows # <<>>, NEW more \in Seq(FlowRecord), Leaves(more)
  PROVE  FlowsOK' /\ asked' \in BOOLEAN
<1>1. Tail(flows) \in Seq(FlowRecord) BY FlowsParts DEF ScreenOK
<1>2. flows' \in Seq(FlowRecord) BY <1>1, Joined DEF Leaves
<1> QED BY <1>2 DEF FlowsOK, Leaves

LEMMA AwaitsKeeps ==
  ASSUME ScreenOK, flows # <<>>, NEW what \in {"asking", "saving"}, Awaits(what)
  PROVE  FlowsOK' /\ asked' \in BOOLEAN
BY DEF ScreenOK, FlowsOK, Awaits

LEMMA NothingStarts == <<>> \in Seq(FlowRecord)
OBVIOUS

LEMMA ChangeFlowType ==
  ASSUME WidgetOK, NEW p \in Paths, NEW fromSave \in BOOLEAN
  PROVE  ChangeFlow(p, fromSave) \in Seq(FlowRecord)
<1> DEFINE flow == Flow("change")
<1>1. flow \in FlowRecord BY FlowType DEF Kind
<1> HIDE DEF flow
<1>2. [flow EXCEPT !.path = p, !.flag = fromSave] \in FlowRecord BY <1>1 DEF FlowRecord
<1>3. <<[flow EXCEPT !.path = p, !.flag = fromSave]>> \in Seq(FlowRecord) BY <1>2
<1> QED BY <1>3, NothingStarts DEF ChangeFlow, flow

LEMMA QueueChangeKeeps ==
  ASSUME WidgetOK, ScreenOK, NEW p \in Paths, NEW fromSave \in BOOLEAN,
         QueueChange(p, fromSave)
  PROVE  FlowsOK' /\ asked' \in BOOLEAN
<1> DEFINE started == ChangeFlow(p, fromSave)
<1>1. started \in Seq(FlowRecord) BY ChangeFlowType
<1>2. /\ flows \in Seq(FlowRecord) /\ flows' = flows \o started /\ UNCHANGED dialog
      /\ asked' = TRUE
  BY DEF ScreenOK, FlowsOK, QueueChange
<1> HIDE DEF started
<1>3. flows' \in Seq(FlowRecord) BY <1>1, <1>2, Joined
<1>4. flows' = <<>> => flows = <<>> BY <1>1, <1>2, NothingIsJoined
<1> QED BY <1>2, <1>3, <1>4 DEF ScreenOK, FlowsOK

\* Steps of the screen that leave the widget and all below it alone.
LEMMA IdleStep == ASSUME CoreInv, WidgetIdle PROVE StepOK
<1>1. JobInv' /\ job' = job BY SameJob DEF CoreInv, WidgetIdle
<1> QED BY <1>1, SameCheck, WidgetLeftAlone DEF CoreInv, WidgetIdle

LEMMA CommandsStep == ASSUME EditorInv, Commands PROVE StepOK /\ ScreenOK'
<1> USE NothingStarts
<1>1. CoreInv /\ ScreenOK /\ WidgetOK /\ w.path \in Paths
  BY EditorParts, WidgetType DEF CoreInv
<1>2. Given => deferred' \in BOOLEAN /\ ops' \in 0 .. MaxOps
  BY <1>1, OpsAssumption DEF Given, Heeded, ScreenOK
<1>3. Heeded /\ UNCHANGED ops => deferred' \in BOOLEAN /\ ops' \in 0 .. MaxOps
  BY <1>1 DEF Heeded, ScreenOK
<1>4. \A kind \in Kind : <<Flow(kind)>> \in Seq(FlowRecord) BY <1>1, FlowType
<1>5. CASE ActionSave
  BY <1>1, <1>2, <1>5, SaveStep, StartsKeeps DEF ActionSave, ScreenOK
<1>6. CASE ActionSaveAs
  <2>1. <<Flow("save as")>> \in Seq(FlowRecord) BY <1>4 DEF Kind
  <2> QED BY <1>1, <1>2, <1>6, <2>1, IdleStep, StartsKeeps DEF ActionSaveAs, ScreenOK
<1>7. CASE ActionReload
  <2>1. <<Flow("reload")>> \in Seq(FlowRecord) BY <1>4 DEF Kind
  <2> QED BY <1>1, <1>2, <1>7, <2>1, IdleStep, ReloadStep, StartsKeeps
          DEF ActionReload, ScreenOK
<1>8. CASE ActionCancelSave
  BY <1>1, <1>3, <1>8, CancelStep, StartsKeeps DEF ActionCancelSave, ScreenOK
<1>9. CASE ActionOpen
  <2>1. <<Flow("open")>> \in Seq(FlowRecord) BY <1>4 DEF Kind
  <2> QED BY <1>1, <1>2, <1>9, <2>1, IdleStep, StartsKeeps DEF ActionOpen, ScreenOK
<1>10. CASE RequestClose
  <2>1. <<Flow("close")>> \in Seq(FlowRecord) BY <1>4 DEF Kind
  <2> QED BY <1>1, <1>3, <1>10, <2>1, IdleStep, StartsKeeps DEF RequestClose, ScreenOK
<1>11. CASE Keys
  <2>1. StepOK BY <1>1, <1>11, EditStep DEF Keys
  <2>2. FlowsOK' /\ asked' \in BOOLEAN BY <1>1, <1>11, StartsKeeps DEF Keys
  <2>3. deferred' \in BOOLEAN /\ ops' \in 0 .. MaxOps BY <1>2, <1>3, <1>11 DEF Keys
  <2> QED BY <2>1, <2>2, <2>3 DEF ScreenOK
<1> QED BY <1>5, <1>6, <1>7, <1>8, <1>9, <1>10, <1>11 DEF Commands

LEMMA DecideCloseStep ==
  ASSUME CoreInv, ScreenOK, flows # <<>>, DecideClose
  PROVE  StepOK /\ FlowsOK' /\ asked' \in BOOLEAN
<1>1. CASE Awaits("asking") /\ WidgetIdle BY <1>1, IdleStep, AwaitsKeeps
<1>2. CASE Close BY <1>2, CloseWidgetStep, LeavesKeeps, NothingStarts DEF Close
<1> QED BY <1>1, <1>2 DEF DecideClose

LEMMA AskChangeStep ==
  ASSUME CoreInv, ScreenOK, flows # <<>>, NEW p \in Paths, NEW kind \in Kinds,
         AskChange(p, kind)
  PROVE  StepOK /\ FlowsOK' /\ asked' \in BOOLEAN
<1>1. posted' \in Seq(MessageRecord)
  BY PostedOfType, Joined DEF AskChange, CoreInv
<1>2. CheckOK' BY SameCheck DEF AskChange, CoreInv
<1>3. StepOK BY <1>1, <1>2, FoundOut DEF AskChange
<1>4. /\ flows' = [flows EXCEPT ![1].path = p] /\ dialog' = "asking" /\ UNCHANGED asked
      /\ flows \in Seq(FlowRecord)
  BY DEF AskChange, ScreenOK, FlowsOK
<1>5. flows' \in Seq(FlowRecord) /\ flows' # <<>>
  <2> DEFINE flow == [flows[1] EXCEPT !.path = p]
  <2>1. Len(flows) \in Nat /\ 1 \in 1 .. Len(flows) /\ flows[1] \in FlowRecord BY <1>4
  <2>2. flow \in FlowRecord BY <2>1 DEF FlowRecord
  <2>3. flows' = [flows EXCEPT ![1] = flow] BY <1>4
  <2> HIDE DEF flow
  <2> QED BY <1>4, <2>1, <2>2, <2>3
<1> QED BY <1>3, <1>4, <1>5 DEF ScreenOK, FlowsOK

LEMMA BeginStep == ASSUME EditorInv, Begin PROVE StepOK /\ ScreenOK'
<1> USE NothingStarts
<1>1. CoreInv /\ ScreenOK /\ WidgetOK /\ flows # <<>> /\ w.path \in Paths /\ First.path \in Paths
  BY EditorParts, WidgetType, FlowsParts DEF CoreInv, ScreenOK, Begin
<1>2. SUFFICES StepOK /\ FlowsOK' /\ asked' \in BOOLEAN BY <1>1 DEF Begin, ScreenOK
<1>3. CASE BeginClose
  BY <1>1, <1>3, CancelStep, DecideCloseStep, AwaitsKeeps DEF BeginClose
<1>4. CASE BeginChange
  <2>1. "unchanged" \in Kinds /\ ExternalKind \in Kinds BY <1>1, ExternalKindType DEF Kinds
  <2> QED BY <1>1, <1>4, <2>1, AskChangeStep, IdleStep, LeavesKeeps DEF BeginChange
<1>5. CASE BeginOpen BY <1>1, <1>5, IdleStep, LeavesKeeps, AwaitsKeeps DEF BeginOpen
<1>6. CASE BeginDialog BY <1>1, <1>6, IdleStep, AwaitsKeeps DEF BeginDialog
<1>7. CASE BeginOverwrite BY <1>1, <1>7, IdleStep, AwaitsKeeps DEF BeginOverwrite
<1>8. CASE BeginFailure BY <1>1, <1>8, IdleStep, AwaitsKeeps DEF BeginFailure
<1> QED BY <1>3, <1>4, <1>5, <1>6, <1>7, <1>8 DEF Begin

LEMMA WaitedStep == ASSUME EditorInv, Waited PROVE StepOK /\ ScreenOK'
<1>1. CoreInv /\ ScreenOK /\ flows # <<>>
  BY EditorParts, FlowsParts DEF ScreenOK, Waited
<1>2. StepOK /\ FlowsOK' /\ asked' \in BOOLEAN
  BY <1>1, IdleStep, DecideCloseStep, AwaitsKeeps DEF Waited
<1> QED BY <1>1, <1>2 DEF Waited, ScreenOK

\* A new flow takes the place of the one in front.
LEMMA OneFlow ==
  ASSUME WidgetOK, NEW kind \in Kind, NEW flag \in BOOLEAN, NEW committed \in BOOLEAN,
         NEW p \in Paths
  PROVE  /\ <<[Flow(kind) EXCEPT !.flag = flag, !.committed = committed]>> \in Seq(FlowRecord)
         /\ <<[Flow(kind) EXCEPT !.path = p]>> \in Seq(FlowRecord)
         /\ <<Flow(kind)>> \in Seq(FlowRecord)
<1> DEFINE flow == Flow(kind)
<1>1. flow \in FlowRecord BY FlowType
<1> HIDE DEF flow
<1>2. /\ [flow EXCEPT !.flag = flag, !.committed = committed] \in FlowRecord
      /\ [flow EXCEPT !.path = p] \in FlowRecord
  BY <1>1 DEF FlowRecord
<1> QED BY <1>1, <1>2 DEF flow

LEMMA RecheckStep ==
  ASSUME CoreInv, ScreenOK, NEW committed \in BOOLEAN, NEW left \in Seq(FlowRecord),
         NEW messages \in Seq(MessageRecord), Recheck(committed, left, messages)
  PROVE  /\ StepOK /\ flows' \in Seq(FlowRecord) /\ asked' \in BOOLEAN
         /\ deferred' \in BOOLEAN /\ (flows' = <<>> => left = <<>>)
<1> DEFINE announces == deferred /\ ~committed /\ ~w.saving
           kind == IF announces THEN ExternalKind ELSE "unchanged"
           more == ChangeFlow(w.path, FALSE)
<1>1. WidgetOK /\ w.path \in Paths BY WidgetType DEF CoreInv
<1>2. kind \in Kinds BY <1>1, ExternalKindType DEF Kinds
<1>3. more \in Seq(FlowRecord) BY <1>1, ChangeFlowType
<1>4. /\ deferred' = FALSE /\ w' = WithKind(kind) /\ posted' = messages \o PostedOf(kind)
      /\ flows' = IF kind = "unchanged" THEN left ELSE left \o more
      /\ asked' = (asked \/ kind # "unchanged")
      /\ UNCHANGED <<historyVars, diskVars, jobVars, check>>
  BY DEF Recheck
<1> HIDE DEF kind, more
<1>5. posted' \in Seq(MessageRecord) BY <1>1, <1>2, <1>4, PostedOfType, Joined
<1>6. StepOK BY <1>2, <1>4, <1>5, SameCheck, FoundOut DEF CoreInv
<1>7. flows' \in Seq(FlowRecord) BY <1>3, <1>4, Joined
<1>8. flows' = <<>> => left = <<>> BY <1>3, <1>4, NothingIsJoined
<1> QED BY <1>4, <1>6, <1>7, <1>8

LEMMA AnswersStep == ASSUME EditorInv, Answers PROVE StepOK /\ ScreenOK'
<1> USE NothingStarts
<1>1. /\ CoreInv /\ ScreenOK /\ WidgetOK /\ FlowsOK /\ dialog = "asking" /\ flows # <<>>
      /\ First.path \in Paths /\ First \in FlowRecord /\ Tail(flows) \in Seq(FlowRecord)
  <2>1. dialog = "asking"
    BY DEF Answers, Declines, ChoosesTarget, SaysOverwrite, SaysSaveAs, SaysReload,
           SaysClose, SaysOpen, Acknowledges, Answering
  <2>2. CoreInv /\ ScreenOK BY EditorParts
  <2> QED BY <2>1, <2>2, FlowsParts DEF CoreInv, ScreenOK
<1>2. SUFFICES StepOK /\ FlowsOK' /\ asked' \in BOOLEAN /\ deferred' \in BOOLEAN
  BY <1>1 DEF Answers, ScreenOK
<1>3. UNCHANGED deferred => deferred' \in BOOLEAN BY <1>1 DEF ScreenOK
<1>4. \A kind \in Kind : <<Flow(kind)>> \in Seq(FlowRecord) BY <1>1, OneFlow
<1>5. CASE Declines BY <1>1, <1>3, <1>5, IdleStep, LeavesKeeps DEF Declines
<1>6. CASE ChoosesTarget BY <1>1, <1>3, <1>6, SaveStep, LeavesKeeps DEF ChoosesTarget
<1>7. CASE SaysOverwrite BY <1>1, <1>3, <1>7, SaveStep, LeavesKeeps DEF SaysOverwrite
<1>8. CASE SaysSaveAs
  <2>1. <<Flow("save as")>> \in Seq(FlowRecord) BY <1>4 DEF Kind
  <2> QED BY <1>1, <1>3, <1>8, <2>1, IdleStep, LeavesKeeps DEF SaysSaveAs
<1>9. CASE SaysReload
  BY <1>1, <1>3, <1>9, IdleStep, ReloadStep, LeavesKeeps DEF SaysReload
<1>10. CASE SaysClose
  BY <1>1, <1>3, <1>10, CloseWidgetStep, LeavesKeeps DEF SaysClose, Close
<1>11. CASE SaysOpen
  <2>1. PICK p \in Paths : Opens(p) \/ CannotOpen(p) BY <1>11 DEF SaysOpen
  <2>2. CASE Opens(p)
    BY <1>1, <2>2, OpenInsteadStep DEF Opens, FlowsOK
  <2>3. CASE CannotOpen(p)
    <3>1. <<Flow("failure")>> \in Seq(FlowRecord) BY <1>4 DEF Kind
    <3> QED BY <1>1, <1>3, <2>3, <3>1, IdleStep, LeavesKeeps DEF CannotOpen
  <2> QED BY <2>1, <2>2, <2>3
<1>12. CASE Acknowledges
  <2>1. CASE First.flag /\ Current
    <3>1. First.committed \in BOOLEAN BY <1>1 DEF FlowRecord
    <3>2. Recheck(First.committed, Tail(flows), posted) /\ dialog' = "none"
      BY <1>12, <2>1 DEF Acknowledges
    <3>3. posted \in Seq(MessageRecord) BY <1>1 DEF CoreInv
    <3> QED BY <1>1, <3>1, <3>2, <3>3, RecheckStep DEF FlowsOK
  <2>2. CASE ~(First.flag /\ Current)
    <3>1. Leaves(<<>>) /\ WidgetIdle /\ UNCHANGED deferred BY <1>12, <2>2 DEF Acknowledges
    <3> QED BY <1>1, <1>3, <3>1, IdleStep, LeavesKeeps
  <2> QED BY <2>1, <2>2
<1> QED
  BY <1>5, <1>6, <1>7, <1>8, <1>9, <1>10, <1>11, <1>12 DEF Answers

LEMMA TakenStep == ASSUME CoreInv, posted # <<>>, Taken PROVE StepOK
<1>1. "unchanged" \in Kinds /\ w' = WithKind("unchanged") BY DEF Kinds, WithKind, Taken
<1>2. posted' \in Seq(MessageRecord) BY DEF CoreInv, Taken
<1> QED BY <1>1, <1>2, SameCheck, FoundOut DEF CoreInv, Taken

LEMMA HandleStep == ASSUME EditorInv, Handle PROVE StepOK /\ ScreenOK'
<1> USE NothingStarts
<1>1. /\ CoreInv /\ ScreenOK /\ WidgetOK /\ posted # <<>> /\ posted \in Seq(MessageRecord)
      /\ w.path \in Paths
  BY EditorParts, WidgetType DEF CoreInv, Handle
<1>2. Message \in MessageRecord /\ Tail(posted) \in Seq(MessageRecord)
  BY <1>1 DEF Message
<1>3. SUFFICES StepOK /\ FlowsOK' /\ asked' \in BOOLEAN /\ deferred' \in BOOLEAN
  BY <1>1 DEF Handle, ScreenOK
<1>4. UNCHANGED deferred => deferred' \in BOOLEAN BY <1>1 DEF ScreenOK
<1>5. Taken => StepOK BY <1>1, TakenStep
<1>6. CASE Ignored BY <1>1, <1>4, <1>5, <1>6, StartsKeeps DEF Ignored
<1>7. CASE OnSaved BY <1>1, <1>5, <1>7, StartsKeeps DEF OnSaved
<1>8. CASE OnSaveFailed
  <2> DEFINE committed == Message.type # "failed"
  <2>1. "failure" \in Kind /\ committed \in BOOLEAN BY DEF Kind
  <2>2. Starts(<<[Flow("failure") EXCEPT !.flag = TRUE, !.committed = committed]>>)
        /\ UNCHANGED deferred /\ Taken
    BY <1>8 DEF OnSaveFailed
  <2> HIDE DEF committed
  <2>3. <<[Flow("failure") EXCEPT !.flag = TRUE, !.committed = committed]>> \in Seq(FlowRecord)
    BY <1>1, <2>1, OneFlow
  <2> QED BY <1>1, <1>4, <1>5, <2>2, <2>3, StartsKeeps
<1>9. CASE OnSaveCancelled
  <2>1. Recheck(FALSE, flows, Tail(posted)) /\ UNCHANGED dialog /\ flows \in Seq(FlowRecord)
    BY <1>1, <1>9 DEF OnSaveCancelled, ScreenOK, FlowsOK
  <2> QED BY <1>1, <1>2, <2>1, RecheckStep DEF ScreenOK, FlowsOK
<1>10. CASE OnSaveNeedsConfirmation
  <2>1. Message.path \in Paths BY <1>2 DEF MessageRecord
  <2>2. "overwrite" \in Kind BY DEF Kind
  <2>3. <<[Flow("overwrite") EXCEPT !.path = Message.path]>> \in Seq(FlowRecord)
    BY <1>1, <2>1, <2>2, OneFlow
  <2> QED BY <1>1, <1>4, <1>5, <1>10, <2>1, <2>3, StartsKeeps, QueueChangeKeeps
          DEF OnSaveNeedsConfirmation
<1>11. CASE OnSourceChanged
  BY <1>1, <1>4, <1>5, <1>11, StartsKeeps, QueueChangeKeeps DEF OnSourceChanged
<1>12. CASE OnReloadFailed
  <2>1. <<Flow("failure")>> \in Seq(FlowRecord) BY <1>1, FlowType DEF Kind
  <2> QED BY <1>1, <1>4, <1>5, <1>12, <2>1, StartsKeeps DEF OnReloadFailed
<1> QED BY <1>6, <1>7, <1>8, <1>9, <1>10, <1>11, <1>12 DEF Handle

LEMMA SameScreen == ScreenOK /\ ScreenIdle => ScreenOK'
BY DEF ScreenOK, FlowsOK, ScreenIdle

LEMMA EveryStep == ASSUME EditorInv, Next PROVE StepOK /\ ScreenOK'
<1>1. CoreInv /\ ScreenOK BY EditorParts
<1>2. CASE Types BY <1>1, <1>2, EditStep, SameScreen DEF Types
<1>3. CASE Thread BY <1>1, <1>3, SaveThreadStep, SameScreen DEF Thread
<1>4. CASE ThreadEnds BY <1>1, <1>4, FinishSaveStep, SameScreen DEF ThreadEnds
<1>5. CASE Notices
  BY <1>1, <1>5, RenderStep, PollBeginsStep, PollRunsStep, PollAppliedStep, SameScreen
  DEF Notices
<1>6. CASE Elsewhere BY <1>1, <1>6, OthersStep, SameScreen DEF Elsewhere
<1> QED
  BY <1>2, <1>3, <1>4, <1>5, <1>6, CommandsStep, BeginStep, WaitedStep, AnswersStep,
     HandleStep
  DEF Next

-------------------------------------------------------------------------------
\* The theorems.

LEMMA NextInv == EditorInv /\ [Next]_vars => EditorInv' /\ [HistoryNext]_historyVars
<1> SUFFICES ASSUME EditorInv, [Next]_vars PROVE EditorInv' /\ [HistoryNext]_historyVars
  OBVIOUS
<1>1. CoreInv /\ ScreenOK BY EditorParts
<1>2. CASE Next
  <2>1. StepOK /\ ScreenOK' BY <1>2, EveryStep
  <2>2. PairsNameTexts' BY <1>1, <2>1, NextNames DEF CoreInv, StepOK
  <2> QED BY <2>1, <2>2 DEF StepOK, EditorInv, ScreenOK, JobInv
<1>3. CASE UNCHANGED vars
  <2>1. WidgetIdle /\ ScreenIdle BY <1>3 DEF vars, screenVars, WidgetIdle, ScreenIdle
  <2>2. StepOK /\ ScreenOK' BY <1>1, <2>1, IdleStep, SameScreen
  <2>3. PairsNameTexts' BY <1>1, <2>2, NextNames DEF CoreInv, StepOK
  <2> QED BY <2>2, <2>3 DEF StepOK, EditorInv, ScreenOK, JobInv
<1> QED BY <1>2, <1>3

LEMMA InvariantHolds == Spec => []EditorInv
BY InitInv, NextInv, PTL DEF Spec

\* The values of the widget, the thread, the flows and the messages, whatever the
\* texts, paths, bounds and habits are; a stale view is locked and no other is.
THEOREM EditorTypeCorrect == Spec => []TypeOK
<1>1. EditorInv => TypeOK
  <2> SUFFICES ASSUME EditorInv PROVE TypeOK OBVIOUS
  <2>1. HistoryTypeOK BY TextsNamed DEF EditorInv
  <2>2. w.locks \subseteq {Stale, "saving"} BY DEF EditorInv, WidgetOK, WidgetRecord
  <2>3. w.path \in Paths /\ w.held \in File /\ w.stale \in Kinds BY WidgetType DEF EditorInv
  <2>4. \A i \in DOMAIN flows : flows[i].kind \in Kind /\ flows[i].path \in Paths
    <3>1. flows \in Seq(FlowRecord) BY DEF EditorInv, FlowsOK
    <3>2. \A i \in DOMAIN flows : flows[i] \in FlowRecord BY <3>1
    <3> QED BY <3>2 DEF FlowRecord
  <2> QED
    BY <2>1, <2>2, <2>3, <2>4 DEF EditorInv, TypeOK, WidgetOK, LockedWhenStale, FlowsOK
<1> QED BY <1>1, InvariantHolds, PTL

\* A save is all or nothing, whoever cancels, closes, fails or writes at any moment
\* (SaveJob._run, _replace, _post_save_outcome).
THEOREM SavesAreAtomic == Spec => []SaveIsAtomic
<1>1. EditorInv => SaveIsAtomic BY DEF EditorInv
<1> QED BY <1>1, InvariantHolds, PTL

\* The widget does nothing to its history that EditHistory does not describe: saves,
\* failures, reloads, polls and questions come between its steps, never inside one
\* (_start_save, _conclude_save, reload, the undo and redo actions).
THEOREM HistoryImplemented == Spec => ImplementsHistory
<1>1. EditorInv /\ [Next]_vars => [HistoryNext]_historyVars BY NextInv
<1> QED BY <1>1, InvariantHolds, PTL DEF Spec, ImplementsHistory

\* So what is proved of the history holds in the editor.
THEOREM EditorUndoIsExact == Spec => []UndoIsExact
<1>1. EditorInv => UndoIsExact
  BY TextsAssumption, TextsNamed DEF EditorInv, UndoIsExact
<1> QED BY <1>1, InvariantHolds, PTL

\* A document without changes to save has the text that was saved or read last.
THEOREM EditorUnmodifiedIsSaved == Spec => []UnmodifiedIsSaved
<1>1. EditorInv => UnmodifiedIsSaved
  BY DEF EditorInv, PairsNameTexts, UnmodifiedIsSaved, Modified
<1> QED BY <1>1, InvariantHolds, PTL

===============================================================================
