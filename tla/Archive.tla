-------------------------------- MODULE Archive -------------------------------
(***************************************************************************)
(* A remote archive mounted through a local copy: ArchiveFilesystem        *)
(* (vfs/filesystems/archive.py) over CopiedArchiveBacking                  *)
(* (archive/backing.py).  A member is replaced by rebuilding the whole     *)
(* archive on the local copy and writing that back; a refresh of the mount *)
(* and every commit take one write lock.                                   *)
(*                                                                         *)
(* A version of the archive maps each member to its revision.  Revisions   *)
(* are numbered in the order in which they are made, by saves and by       *)
(* others, and no two have the same content; 1 is the original.            *)
(***************************************************************************)
EXTENDS Naturals, Sequences

CONSTANTS Members,  \* the members of the archive that are edited
          Mount,    \* the thread of a refresh of the mount
          MaxFaults \* bound: calls that fail

ASSUME MembersAssumption == Mount \notin Members
ASSUME FaultsAssumption == MaxFaults \in Nat

VARIABLES
  remote,  \* versions of the source of the archive
  revs,    \* revisions made so far
  copied,  \* the file of the LocalCopy of the archive: member -> revision
  known,   \* its baseline: the version of the source
  reader,  \* what the open reader of the mount shows
  locked,  \* the threads that hold ArchiveFilesystem._write_lock
  thr,     \* worker threads
  faults

archiveVars == <<remote, revs, copied, known, reader, locked, thr,
                 faults>>

\* The job of a member's sync task, the job of its open(), the mount's refresh.
Threads == (Members \X {"sync", "open"}) \cup {<<Mount, "refresh">>}
MountThread == <<Mount, "refresh">>
Member(t) == t[1]

Latest == Len(remote)
Content(v) == remote[v].members
Revisions == [Members -> Nat]

\* Within the lock; before it; after it.
LockedPcs == {"download", "publish", "record", "reopen"}
WritePcs == {"lock", "stamp"}
OtherPcs == {"idle", "check", "askSync", "decide", "askOpen", "start", "fetch",
             "done", "rebase", "rebasePut"}

\* data - the spooled member; consent - the user agreed to overwrite; outcome -
\* how the job ended; todo, found - the siblings to rebase and the fingerprint
\* found for one of them.  Only properties read the others: ver - the version at
\* the check, upto - the version at the refresh of the commit, doubt - what was
\* wrong with the baseline of the check, if anything.
Idle == [pc |-> "idle", data |-> 0,
         consent |-> FALSE, outcome |-> "none", todo |-> {},
         found |-> [who |-> Mount, own |-> 0, ver |-> 0],
         ver |-> 0, upto |-> 0, doubt |-> "level"]

ThreadRecord ==
  [pc : LockedPcs \cup WritePcs \cup OtherPcs, data : Nat,
   consent : BOOLEAN, outcome : {"none", "ok", "conflict", "declined", "failed"},
   todo : SUBSET Members,
   found : [who : Members \cup {Mount}, own : Nat, ver : 0 .. Latest],
   ver : 0 .. Latest, upto : 0 .. Latest,
   doubt : {"level", "behind", "ahead", "torn", "unread"}]

Version == [members : Revisions, by : {"us", "others"}]

ArchiveTypeOK ==
  /\ remote \in Seq(Version) /\ remote # <<>>
  /\ revs \in Nat
  /\ copied \in Revisions /\ reader \in Revisions
  /\ known \in 1 .. Latest
  /\ thr \in [Threads -> ThreadRecord]
  /\ locked = {t \in Threads : thr[t].pc \in LockedPcs}
  /\ \A t, u \in locked : t = u
  /\ faults \in Nat

\* The mount was just made by mount_archive().
ArchiveInit ==
  /\ remote = <<[members |-> [m \in Members |-> 1], by |-> "others"]>>
  /\ revs = 1
  /\ copied = Content(1) /\ reader = Content(1)
  /\ known = 1
  /\ locked = {}
  /\ thr = [t \in Threads |-> Idle]
  /\ faults = 0

-----------------------------------------------------------------------------
Goto(t, r) == thr' = [thr EXCEPT ![t] = r] /\ UNCHANGED faults
At(t, pc) == Goto(t, [thr[t] EXCEPT !.pc = pc])
Finish(t, outcome) == Goto(t, [Idle EXCEPT !.pc = "done", !.outcome = outcome])

\* A call of the thread fails, and the job with it.
Faulty == faults < MaxFaults /\ faults' = faults + 1
Failed(t) == IF t = MountThread THEN Idle
             ELSE [Idle EXCEPT !.pc = "done", !.outcome = "failed"]
Fail(t) == Faulty /\ thr' = [thr EXCEPT ![t] = Failed(t)]

\* In a commit, whatever fails after prepare_write() reopens the reader first.
FailLocked(t) ==
  /\ Faulty
  /\ thr' = [thr EXCEPT ![t] = [Idle EXCEPT !.pc = "reopen", !.outcome = "failed"]]

AfterPrepare(t) == IF t = MountThread THEN "reopen" ELSE "publish"

LockableAlways(t) == TRUE
Lockable(t) == locked = {}

OutdatedNever == FALSE

\* LocalCopy.source_changed() of the copy of the archive.
Outdated == known # Latest

\* _write_lock, then prepare_write(): if the source is no longer the copied one,
\* refresh() of the copy begins with the fingerprint.
Acquire(t) ==
  /\ thr[t].pc = "lock" /\ Lockable(t)
  /\ \/ /\ locked' = locked \cup {t}
        /\ known' = IF Outdated THEN Latest ELSE known
        /\ Goto(t, [thr[t] EXCEPT !.upto = Latest,
                      !.pc = IF Outdated THEN "download" ELSE AfterPrepare(t)])
     \/ Fail(t) /\ UNCHANGED <<locked, known>>
  /\ UNCHANGED <<remote, copied, reader, revs>>

\* A download that fails leaves the lock; the reader stays what it is.
Download(t) ==
  /\ thr[t].pc = "download"
  /\ \/ /\ copied' = Content(Latest)
        /\ Goto(t, [thr[t] EXCEPT !.upto = Latest, !.pc = AfterPrepare(t)])
        /\ UNCHANGED locked
     \/ /\ Fail(t) /\ locked' = locked \ {t}
        /\ UNCHANGED copied
  /\ UNCHANGED <<remote, revs, known, reader>>

\* The file of the local copy is the version that its baseline names.
Whole == copied = Content(known)

Rebuilt(t) == [copied EXCEPT ![Member(t)] = thr[t].data]

\* rebuild_zip() or rebuild_tar() on the local copy, _validate_member(), and
\* commit(): the rebuilt archive becomes the file of the local copy, whether
\* write_back() then publishes it or not ...
Publish(t) ==
  /\ thr[t].pc = "publish"
  /\ \/ /\ copied' = Rebuilt(t)
        /\ remote' = Append(remote, [members |-> Rebuilt(t), by |-> "us"])
        /\ Goto(t, [Idle EXCEPT !.pc = "record", !.data = thr[t].data])
     \/ /\ copied' = Rebuilt(t) \/ UNCHANGED copied
        /\ FailLocked(t) /\ UNCHANGED remote
  /\ UNCHANGED <<revs, known, reader, locked>>

\* ... and whose fingerprint it takes, of whatever the source is by now.
Record(t) ==
  /\ thr[t].pc = "record"
  /\ \/ known' = Latest /\ At(t, "reopen")
     \/ FailLocked(t) /\ UNCHANGED known
  /\ UNCHANGED <<remote, revs, copied, reader, locked>>

\* The lock is left with the new bytes open, or with the old reader when they
\* cannot be opened.
Reopen(t) ==
  /\ thr[t].pc = "reopen"
  /\ \/ /\ reader' = copied
        /\ Goto(t, IF t = MountThread THEN Idle
                   ELSE IF thr[t].outcome = "failed" THEN Failed(t)
                   ELSE [Idle EXCEPT !.pc = "stamp", !.data = thr[t].data])
     \/ /\ Fail(t)
        /\ UNCHANGED reader
  /\ locked' = locked \ {t}
  /\ UNCHANGED <<remote, revs, copied, known>>

ArchiveStep(t) ==
  \/ Acquire(t) \/ Download(t) \/ Publish(t) \/ Record(t) \/ Reopen(t)

\* Somebody else replaces the archive, some members changed.
OthersWrite ==
  /\ \E ms \in SUBSET Members \ {{}} :
       remote' = Append(remote,
         [members |-> [m \in Members |-> IF m \in ms THEN revs + 1
                                         ELSE Content(Latest)[m]],
          by |-> "others"])
  /\ revs' = revs + 1
  /\ UNCHANGED <<copied, known, reader, locked, thr, faults>>

=============================================================================
