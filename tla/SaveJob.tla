-------------------------------- MODULE SaveJob --------------------------------
(***************************************************************************)
(* Files on disk, who else writes them, and the thread that saves the      *)
(* document (nova_editor/core/save.py): it writes a temporary file next to *)
(* the target, flushes it, and renames it over the target.  The target is  *)
(* compared with an identity only by who starts the job, never by the job. *)
(***************************************************************************)
EXTENDS Naturals, FiniteSets

CONSTANTS Paths,
          Contents,    \* what a file may hold
          Absent,      \* no file at a path
          MaxForeign   \* bound: changes made by other programs

ASSUME ForeignAssumption == MaxForeign \in Nat
ASSUME PathsAssumption == IsFiniteSet(Paths)

VARIABLES disk,    \* the file at each path: inode, content, and whether it was flushed
          foreign, \* changes made by others so far
          inodes,  \* inode numbers given so far
          job,     \* the SaveJob and its thread
          temp     \* its temporary file

diskVars == <<disk, foreign, inodes>>
jobVars == <<job, temp>>

File == [ino : Nat, content : Contents, flushed : BOOLEAN]

ASSUME AbsentAssumption == Absent \notin File

Kinds == {"unchanged", "modified", "replaced", "deleted", "exists"}  \* ChangeKind

\* check_path(): how the file at a path differs from the one held.  A truncated
\* file is a modified one.
KindOf(file, held) ==
  IF file = held THEN "unchanged"
  ELSE IF file = Absent THEN "deleted"
  ELSE IF file.ino # held.ino THEN "replaced" ELSE "modified"

NoJob == [pc |-> "none", target |-> Absent, content |-> Absent, unverified |-> FALSE,
          cancelled |-> FALSE, ino |-> 0, committed |-> FALSE, outcome |-> "none"]

\* The temporary file has taken the place of the target, as inode "ino".
Published == job.ino # 0

DiskInit(files) ==
  /\ disk = files
  /\ foreign = 0
  /\ inodes = Cardinality(Paths)
  /\ job = NoJob
  /\ temp = "none"

-------------------------------------------------------------------------------
\* Other programs: writing in place, replacing or creating, deleting.

Foreign(p, file) ==
  /\ foreign < MaxForeign
  /\ foreign' = foreign + 1
  /\ disk' = [disk EXCEPT ![p] = file]

WriteInPlace(p, c) ==
  /\ disk[p] # Absent
  /\ Foreign(p, [disk[p] EXCEPT !.content = c])
  /\ UNCHANGED inodes

PutFile(p, c) ==
  /\ inodes' = inodes + 1
  /\ Foreign(p, [ino |-> inodes', content |-> c, flushed |-> TRUE])

Delete(p) ==
  /\ disk[p] # Absent
  /\ Foreign(p, Absent)
  /\ UNCHANGED inodes

-------------------------------------------------------------------------------
\* The thread.  Every call it makes may fail; the outcome is handed over once,
\* at the end, by _post_save_outcome().

\* The end of _run(): a temporary file that was not renamed is unlinked, at the
\* latest by the hook at exit.
Ends(outcome) ==
  /\ job' = [job EXCEPT !.pc = "ended", !.outcome = outcome]
  /\ temp' = "none"

Fails(pc) == job.pc = pc /\ Ends("failed") /\ UNCHANGED diskVars

\* _check_cancel(), before each chunk and for the last time before the replace.
StopsBefore(pc) ==
  pc \in {"write", "replace"} /\ job.cancelled

Stops(pc) == job.pc = pc /\ StopsBefore(pc) /\ Ends("cancelled") /\ UNCHANGED diskVars

Steps(pc, next) ==
  /\ job.pc = pc
  /\ ~StopsBefore(pc)
  /\ job' = [job EXCEPT !.pc = next]

\* _refuse_unsuitable(), _target_mode(), _open_temp(), _preallocate()
Prepare == Steps("prepare", "write") /\ temp' = "partial" /\ UNCHANGED diskVars

\* _stream(): c is what the plan of the document read.
WriteChunks(c) ==
  /\ job.pc = "write"
  /\ ~StopsBefore("write")
  /\ job' = [job EXCEPT !.pc = "flush", !.content = c]
  /\ temp' = "whole"
  /\ UNCHANGED diskVars

\* _set_mode() and the last _sync()
Flush == Steps("flush", "replace") /\ temp' = "flushed" /\ UNCHANGED diskVars

Publishes(next) ==
  /\ inodes' = inodes + 1
  /\ disk' = [disk EXCEPT ![job.target] = [ino |-> inodes', content |-> job.content,
                                           flushed |-> temp = "flushed"]]
  /\ temp' = "none"
  /\ job' = [job EXCEPT !.pc = next, !.ino = inodes']
  /\ UNCHANGED foreign

\* os.replace(): there is no cancel after this.
Replace == job.pc = "replace" /\ ~StopsBefore("replace") /\ Publishes("commit")

\* A cancel that is looked at again once the flag is set.
CommitOrCancel ==
  /\ job.pc = "commit"
  /\ IF job.cancelled THEN Ends("cancelled") ELSE job' = [job EXCEPT !.pc = "finish", !.committed = TRUE] /\ UNCHANGED temp
  /\ UNCHANGED diskVars

\* The flag other threads read is set in a step after the replace.
Commit ==
  /\ job.pc = "commit"
  /\ job' = [job EXCEPT !.pc = "finish", !.committed = TRUE]
  /\ UNCHANGED <<diskVars, temp>>

\* _finish() and prepare_rebase(): the new index and the translated history.
Finish == job.pc = "finish" /\ Ends("saved") /\ UNCHANGED diskVars

Failing == \E pc \in {"prepare", "write", "flush", "replace", "finish"} : Fails(pc)

Stopping == \E pc \in {"write", "replace"} : Stops(pc)

-------------------------------------------------------------------------------
JobTypeOK ==
  /\ disk \in [Paths -> File \cup {Absent}]
  /\ foreign \in Nat /\ inodes \in Nat
  /\ job \in [pc : {"none", "prepare", "write", "flush", "replace", "commit", "finish", "ended"},
              target : Paths \cup {Absent}, content : Contents \cup {Absent},
              unverified : BOOLEAN, cancelled : BOOLEAN, ino : Nat, committed : BOOLEAN,
              outcome : {"none", "saved", "failed", "cancelled"}]
  /\ temp \in {"none", "partial", "whole", "flushed"}

\* A save is all or nothing (SaveJob: "Before the replace the original stays byte
\* for byte unchanged and no temp file is left"): what is at a path was written
\* and flushed whole, so that a crash at any instant leaves the old file or the
\* new one, and the outcome of the job says which of them it is: cancelled, or
\* failed without "committed", is never said of a target that was replaced.
SaveIsAtomic ==
  /\ \A p \in Paths : disk[p] # Absent => disk[p].flushed
  /\ job.pc = "ended" =>
       /\ Published <=> job.outcome = "saved" \/ (job.outcome = "failed" /\ job.committed)
       /\ temp = "none"
================================================================================
