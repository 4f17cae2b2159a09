------------------------------ MODULE LocalCopy ------------------------------
(***************************************************************************)
(* One LocalCopy (vfs/local_copy.py): the source file on an SSH, Azure or  *)
(* archive file system, the local file that stands in for it, the baseline *)
(* that decides who changed what, and the worker threads in which the      *)
(* scheduler runs sync_copy_task, reopen_copy_task and create_copy_task    *)
(* (local_copies/tasks.py).  Every call that can block, fail or be         *)
(* overtaken by another writer is a step of its own.                       *)
(*                                                                         *)
(* The source is the sequence of the versions it went through.  The        *)
(* fingerprint of the source (size, mtime, tag) is the number of versions: *)
(* two fingerprints are equal iff nothing was written in between.          *)
(*                                                                         *)
(* A definition named ...Unchecked, ...OfFile, ...Anew stands beside the   *)
(* one it follows: the mistake that the properties have to notice when it  *)
(* takes the other's place (README, Mutants).                              *)
(***************************************************************************)
EXTENDS Naturals, Sequences

CONSTANTS Contents,     \* file contents that can be told apart by their digest
          NoContent,    \* no file at the path; as a digest, the empty string
          ReadOnly,     \* the copy is never written back (read_only=True)
          MaxVersions   \* bound: versions of the source

ASSUME ContentsAssumption == Contents # {} /\ NoContent \notin Contents
ASSUME ReadOnlyAssumption == ReadOnly \in BOOLEAN
ASSUME VersionsAssumption == MaxVersions \in Nat \ {0}

VARIABLES
  history,   \* the versions of the source, the last one is what it holds now
  local,     \* content of the local file
  base,      \* LocalCopy._baseline: source fingerprint and local digest
  basis,     \* (history variable) source version the local bytes descend from
  thr        \* worker threads

copyVars == <<history, local, base, basis, thr>>

\* "sync": the job of the entry's sync task; "open": the job of open();
\* "stray": the job of a cancelled sync task, whose thread cannot be stopped.
Threads == {"sync", "open", "stray"}

Pcs == {"idle", "check", "askSync", "decide", "askOpen", "read", "publish",
        "stamp", "begin", "fetch", "place", "digest", "done"}

\* The steps of sync_copy_task, and of reopen_copy_task and create_copy_task.
SyncPcs == {"idle", "check", "askSync", "read", "publish", "stamp", "done"}
OpenPcs == (Pcs \ {"check", "askSync"})

Outcomes == {"none", "ok", "conflict", "declined", "failed"}

\* Fields of a thread: consent - the user has agreed to overwrite (or drop)
\* what changed; blind - it passed the check on a baseline whose download is
\* unfinished; data, ver - what it has read, and from which source version;
\* own - its LocalCopy is still the registered one.
Idle == [pc |-> "idle", consent |-> FALSE, blind |-> FALSE, data |-> NoContent,
         ver |-> 0, own |-> TRUE, outcome |-> "none"]

Source == Len(history)
Version == [data : Contents, by : {"us", "others"}, raced : BOOLEAN]

ThreadRecord ==
  [pc : Pcs, consent : BOOLEAN, blind : BOOLEAN, data : Contents \cup {NoContent},
   ver : Nat, own : BOOLEAN, outcome : Outcomes]

\* What the next step of a thread needs: a content to publish, a version read.
Usable(r) ==
  /\ r.pc = "publish" => r.data # NoContent
  /\ r.pc \in {"place", "digest"} => r.ver \in 1 .. Source

ThreadsOK ==
  /\ thr \in [Threads -> ThreadRecord]
  /\ thr["sync"].pc \in SyncPcs /\ thr["stray"].pc \in SyncPcs
  /\ thr["open"].pc \in OpenPcs
  /\ \A t \in Threads : Usable(thr[t])

CopyTypeOK ==
  /\ history \in Seq(Version) /\ history # <<>>
  /\ local \in Contents \cup {NoContent}
  /\ base \in [ver : Nat, digest : Contents \cup {NoContent}]
  /\ basis \in Nat
  /\ ThreadsOK

CopyInit ==
  /\ \E c \in Contents :
       history = <<[data |-> c, by |-> "others", raced |-> FALSE]>>
  /\ local = NoContent
  /\ base = [ver |-> 0, digest |-> NoContent]
  /\ basis = 0
  /\ thr = [t \in Threads |-> Idle]

-----------------------------------------------------------------------------
\* Decisions on the baseline.

SourceChanged == base.ver # Source

\* is_modified() raises when the local file is gone: callers test that first.
Modified == local # base.digest

\* A thread that passed its check and has not recorded the new fingerprint:
\* another writer can race the replacement (docs/local_copies.md, Limits).
Replacing(t) == thr[t].pc \in {"read", "publish", "stamp"}

-----------------------------------------------------------------------------
\* Worker threads.  Goto changes the thread's own record only.  A job whose task
\* returns is COMPLETED whatever its progress counters say: naming the current
\* item, while all of them are zero, has completed it already.

Goto(t, r) == thr' = [thr EXCEPT ![t] = r]
Finish(t, outcome) == Goto(t, [thr[t] EXCEPT !.pc = "done", !.outcome = outcome])

\* The task enters write_back().
EnterWriteBack(t, r) == Goto(t, [r EXCEPT !.pc = "read"])

\* sync_copy_task: unless forced, ask when the source is not the one of the
\* baseline.  A failing stat of the source or of the local file fails the job.
Check(t) ==
  /\ thr[t].pc = "check"
  /\ IF thr[t].consent
     THEN EnterWriteBack(t, thr[t])
     ELSE \/ /\ SourceChanged
             /\ Goto(t, [thr[t] EXCEPT !.pc = "askSync"])
          \/ /\ ~SourceChanged
             /\ EnterWriteBack(t, [thr[t] EXCEPT !.blind = base.digest = NoContent])
          \/ Finish(t, "failed")
  /\ UNCHANGED <<history, local, base, basis>>

\* The user answers "Source changed since the local copy was made".
AnswerSync(t) ==
  /\ thr[t].pc = "askSync"
  /\ \/ EnterWriteBack(t, [thr[t] EXCEPT !.consent = TRUE])
     \/ Finish(t, "conflict")
  /\ UNCHANGED <<history, local, base, basis>>

\* write_back refuses a read-only copy, and cannot read a file that is gone.
ReadableUnchecked == ~ReadOnly
Readable == ~ReadOnly /\ local # NoContent

\* write_back: read the local file to the end.
Read(t) ==
  /\ thr[t].pc = "read"
  /\ \/ /\ Readable
        /\ Goto(t, [thr[t] EXCEPT !.pc = "publish", !.data = local])
     \/ Finish(t, "failed")
  /\ UNCHANGED <<history, local, base, basis>>

\* writer.close(): the source is replaced in one step, or not at all.
Publish(t) ==
  /\ thr[t].pc = "publish"
  /\ \/ /\ Source < MaxVersions
        /\ history' = Append(history, [data |-> thr[t].data, by |-> "us",
                                       raced |-> FALSE])
        /\ basis' = IF thr[t].own THEN Source + 1 ELSE basis
        /\ Goto(t, [thr[t] EXCEPT !.pc = "stamp"])
     \/ /\ Finish(t, "failed")
        /\ UNCHANGED <<history, basis>>
  /\ UNCHANGED <<local, base>>

WrittenDigestOfFile(t) == local

\* The digest of what was written, not of what the local file holds by now.
WrittenDigest(t) == thr[t].data

\* The fingerprint of whatever the source holds by now becomes the baseline.
Stamp(t) ==
  /\ thr[t].pc = "stamp"
  /\ \/ /\ base' = IF thr[t].own
                   THEN [ver |-> Source, digest |-> WrittenDigest(t)] ELSE base
        /\ Finish(t, "ok")
     \/ /\ Finish(t, "failed")
        /\ UNCHANGED base
  /\ UNCHANGED <<history, local, basis>>

\* reopen_copy_task: apply reuse_action().
Decide(t) ==
  /\ thr[t].pc = "decide"
  /\ \/ /\ local # NoContent /\ Modified /\ SourceChanged
        /\ Goto(t, [thr[t] EXCEPT !.pc = "askOpen"])
     \/ /\ local = NoContent \/ (~Modified /\ SourceChanged)
        /\ Goto(t, [thr[t] EXCEPT !.pc = "begin", !.data = local])
     \/ /\ local # NoContent /\ ~SourceChanged
        /\ Finish(t, "ok")
     \/ Finish(t, "failed")
  /\ UNCHANGED <<history, local, base, basis>>

\* The user answers "Source and local copy both changed".
AnswerOpen(t) ==
  /\ thr[t].pc = "askOpen"
  /\ \/ EnterWriteBack(t, [thr[t] EXCEPT !.consent = TRUE])
     \/ Goto(t, [thr[t] EXCEPT !.pc = "begin", !.data = local, !.consent = TRUE])
     \/ Finish(t, "declined")
  /\ UNCHANGED <<history, local, base, basis>>

\* refresh() and create(): the fingerprint is taken, and stored in the
\* baseline with an empty digest, before anything is downloaded.
Begin(t) ==
  /\ thr[t].pc = "begin"
  /\ \/ /\ base' = [ver |-> Source, digest |-> NoContent]
        /\ Goto(t, [thr[t] EXCEPT !.pc = "fetch"])
     \/ /\ Finish(t, "failed")
        /\ UNCHANGED base
  /\ UNCHANGED <<history, local, basis>>

\* _download: read the source into the temporary file.
Fetch(t) ==
  /\ thr[t].pc = "fetch"
  /\ \/ Goto(t, [thr[t] EXCEPT !.pc = "place", !.ver = Source])
     \/ Finish(t, "failed")
  /\ UNCHANGED <<history, local, base, basis>>

\* _download: os.replace() of the local file.
Place(t) ==
  /\ thr[t].pc = "place"
  /\ local' = history[thr[t].ver].data
  /\ basis' = thr[t].ver
  /\ Goto(t, [thr[t] EXCEPT !.pc = "digest"])
  /\ UNCHANGED <<history, base>>

DownloadedAnew(t) == [ver |-> Source, digest |-> history[thr[t].ver].data]

\* The baseline completed with the digest of what was downloaded.  It keeps the
\* fingerprint taken before the download.
Downloaded(t) == [base EXCEPT !.digest = history[thr[t].ver].data]

\* _download: the last statement.
Digest(t) ==
  /\ thr[t].pc = "digest"
  /\ base' = Downloaded(t)
  /\ Finish(t, "ok")
  /\ UNCHANGED <<history, local, basis>>

\* Everything a thread does without waiting for the user.
ThreadStep(t) ==
  \/ Check(t) \/ Read(t) \/ Publish(t) \/ Stamp(t)
  \/ Decide(t) \/ Begin(t) \/ Fetch(t) \/ Place(t) \/ Digest(t)

Answer(t) == AnswerSync(t) \/ AnswerOpen(t)

-----------------------------------------------------------------------------
\* The world outside: someone else replaces the source.
OthersWrite ==
  /\ Source < MaxVersions
  /\ \E c \in Contents :
       history' = Append(history, [data |-> c, by |-> "others",
                                   raced |-> \E t \in Threads : Replacing(t)])
  /\ UNCHANGED <<local, base, basis, thr>>

-----------------------------------------------------------------------------
\* Content c is safe on the source: it was there, and whatever replaced it
\* was not written by this program.
OnSource(c) ==
  \E v \in DOMAIN history :
    /\ history[v].data = c
    /\ \A w \in v + 1 .. Source : history[w].by = "others"

=============================================================================
