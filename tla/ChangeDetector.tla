---------------------------- MODULE ChangeDetector ----------------------------
(***************************************************************************)
(* ChangeDetector (vfs/change_detector.py): the directory watcher, whose   *)
(* events arrive late or not at all, the poll loop and the settle loop.    *)
(* All but the watcher and the digest run on the event loop, so a step is  *)
(* the code between two awaits.                                            *)
(*                                                                         *)
(* The fingerprint of the file (inode, size, mtime_ns) is the number of    *)
(* writes so far, 0 when there is no file.                                 *)
(***************************************************************************)
EXTENDS Naturals

CONSTANTS Contents,      \* file contents with different digests
          NoContent,     \* no file
          DigestErrors,  \* reading the file may fail otherwise than by its absence
          MaxWrites,     \* bound: writes of the file
          MaxStarts      \* bound: calls of start()

ASSUME ContentsAssumption == Contents # {} /\ NoContent \notin Contents
ASSUME DigestErrorsAssumption == DigestErrors \in BOOLEAN
ASSUME BoundsAssumption == MaxWrites \in Nat /\ MaxStarts \in Nat

VARIABLES
  file,       \* content of the file
  writes,     \* writes so far
  event,      \* an event of the watcher has not reached the event loop
  on,         \* _started
  flag,       \* _dirty
  lastSeen,   \* _last_seen
  pc,         \* where the settle loop awaits something
  before,     \* the fingerprint at the start of its window
  seen,       \* the digest the thread has computed
  baseline,   \* _baseline
  starts

vars == <<file, writes, event, on, flag, lastSeen, pc, before, seen,
          baseline, starts>>
fileVars == <<file, writes>>
loopVars == <<pc, before, seen>>

Fingerprint == IF file = NoContent THEN 0 ELSE writes

\* Every variable has its type; a digest waits to be compared exactly when the
\* settle loop is there, and no fingerprint comes from the future.
TypeOK ==
  /\ file \in Contents \cup {NoContent}
  /\ writes \in Nat \ {0} /\ starts \in Nat
  /\ event \in BOOLEAN /\ on \in BOOLEAN /\ flag \in BOOLEAN
  /\ lastSeen \in 0 .. writes /\ before \in 0 .. writes
  /\ pc \in {"wait", "window", "digest", "compare", "report"}
  /\ pc # "wait" => on
  /\ seen \in Contents \cup {NoContent}
  /\ pc = "compare" <=> seen # NoContent
  /\ baseline \in Contents \cup {NoContent}

Init ==
  /\ file \in Contents /\ writes = 1 /\ starts = 0
  /\ event = FALSE /\ on = FALSE /\ flag = FALSE
  /\ lastSeen = 0 /\ pc = "wait" /\ before = 0 /\ seen = NoContent
  /\ baseline = file

-----------------------------------------------------------------------------
\* The file, and the events it causes.

Write ==
  /\ writes < MaxWrites
  /\ file' \in Contents /\ writes' = writes + 1
  /\ event' = (event \/ on)
  /\ UNCHANGED <<on, flag, lastSeen, loopVars, baseline, starts>>

Remove ==
  /\ file # NoContent
  /\ file' = NoContent
  /\ event' = (event \/ on)
  /\ UNCHANGED <<writes, on, flag, lastSeen, loopVars, baseline, starts>>

DeliverEvent ==
  /\ event /\ event' = FALSE
  /\ flag' = TRUE
  /\ UNCHANGED <<fileVars, on, lastSeen, loopVars, baseline, starts>>

MissEvent ==
  /\ event /\ event' = FALSE
  /\ UNCHANGED <<fileVars, on, flag, lastSeen, loopVars, baseline, starts>>

-----------------------------------------------------------------------------
\* The two loops.

\* One turn of the poll loop that finds a difference.
Poll ==
  /\ on /\ Fingerprint # lastSeen
  /\ lastSeen' = Fingerprint /\ flag' = TRUE
  /\ UNCHANGED <<fileVars, event, on, loopVars, baseline, starts>>

Wake ==
  /\ on /\ pc = "wait" /\ flag
  /\ flag' = FALSE /\ before' = Fingerprint /\ pc' = "window"
  /\ UNCHANGED <<fileVars, event, on, lastSeen, seen, baseline, starts>>

\* The window was quiet; a mark that came meanwhile does not matter.
SteadyAndUnmarked == before # 0 /\ before = Fingerprint /\ ~flag
Steady == before # 0 /\ before = Fingerprint

WindowEnds ==
  /\ pc = "window"
  /\ \/ /\ ~Steady
        /\ flag' = TRUE /\ pc' = "wait"
        /\ UNCHANGED lastSeen
     \/ /\ Steady
        /\ flag' = FALSE /\ lastSeen' = Fingerprint /\ pc' = "digest"
  /\ UNCHANGED <<fileVars, event, on, before, seen, baseline, starts>>

\* The digest is computed in a thread.  An absent file is marked again, any
\* other error is logged.
DigestAnything == TRUE
Digestible == file # NoContent

Digest ==
  /\ pc = "digest"
  /\ \/ /\ Digestible
        /\ seen' = file /\ pc' = "compare"
        /\ UNCHANGED flag
     \/ /\ ~Digestible
        /\ flag' = TRUE /\ pc' = "wait"
        /\ UNCHANGED seen
     \/ /\ DigestErrors
        /\ pc' = "wait"
        /\ UNCHANGED <<flag, seen>>
  /\ UNCHANGED <<fileVars, event, on, lastSeen, before, baseline, starts>>

\* What the poll loop compares with stays what it was before the digest.
SeenAfterwards == lastSeen' = Fingerprint
SeenBefore == UNCHANGED lastSeen

\* A digest that differs from the baseline becomes the baseline and is
\* reported; the loop goes on when on_change() has returned or raised.
Compare ==
  /\ pc = "compare"
  /\ baseline' = seen /\ seen' = NoContent
  /\ pc' = IF seen = baseline THEN "wait" ELSE "report"
  /\ SeenBefore
  /\ UNCHANGED <<fileVars, event, on, flag, before, starts>>

OnChangeReturns ==
  /\ pc = "report" /\ pc' = "wait"
  /\ UNCHANGED <<fileVars, event, on, flag, lastSeen, before, seen,
                 baseline, starts>>

-----------------------------------------------------------------------------
\* The manager.

SetBaseline ==
  /\ \E d \in Contents \ {baseline} : baseline' = d
  /\ UNCHANGED <<fileVars, event, on, flag, lastSeen, loopVars, starts>>

CheckNow ==
  /\ on /\ flag' = TRUE
  /\ UNCHANGED <<fileVars, event, on, lastSeen, loopVars, baseline, starts>>

Start ==
  /\ ~on /\ starts < MaxStarts /\ starts' = starts + 1
  /\ on' = TRUE /\ lastSeen' = Fingerprint
  /\ UNCHANGED <<fileVars, event, flag, loopVars, baseline>>

\* stop() cancels both loops where they wait and joins the watcher; an event
\* that is already on its way to the event loop still sets the flag.
Stop ==
  /\ on /\ on' = FALSE
  /\ pc' = "wait" /\ seen' = NoContent
  /\ UNCHANGED <<fileVars, event, flag, lastSeen, before, baseline, starts>>

-----------------------------------------------------------------------------
Loop ==
  Poll \/ Wake \/ WindowEnds \/ Digest \/ Compare \/ OnChangeReturns

Next ==
  \/ Write \/ Remove \/ DeliverEvent \/ MissEvent \/ Loop
  \/ SetBaseline \/ CheckNow \/ Start \/ Stop

\* The loops run and on_change() comes back; the watcher owes nothing.
Fairness ==
  /\ WF_vars(Poll) /\ WF_vars(Wake) /\ WF_vars(WindowEnds)
  /\ WF_vars(Digest) /\ WF_vars(Compare) /\ WF_vars(OnChangeReturns)

Spec == Init /\ [][Next]_vars
FairSpec == Spec /\ Fairness

-----------------------------------------------------------------------------
(***************************************************************************)
(* Properties                                                              *)
(***************************************************************************)

\* Something will still read the file: the flag, the settle loop on its way to
\* the digest, or a difference the poll loop will find.
WillRead == on /\ (flag \/ pc \in {"window", "digest"} \/ Fingerprint # lastSeen)

Contract == INSTANCE DetectorContract
              WITH dirty <- WillRead, reading <- (pc = "digest")

\* The detector implements its contract: whatever the watcher misses and in
\* whatever order the loops run, no change of a readable file is left unread, and
\* if reading may fail, only a failed read takes a mark away (_poll_loop,
\* _settle_loop, start, stop).
ImplementsContract == Contract!ContractSafety

\* Once the file is left alone, a change is read and compared, however often the
\* file is marked meanwhile (_poll_loop, _settle_loop).
FollowsUp == Contract!FollowUp

=============================================================================
