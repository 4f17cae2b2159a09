----------------------------- MODULE Panels_proofs -----------------------------
(***************************************************************************)
(* Theorems about the terminal, its shell and the two panels, for any      *)
(* directories, any number of attempts and any length of typed input: what *)
(* the patient user typed is kept, run_command() returns when it should,   *)
(* the program's own changes of directory are not reported as the user's,  *)
(* and the shell is where the active panel is once nothing is in flight.   *)
(***************************************************************************)
EXTENDS Panels, SequenceTheorems, TLAPS

\* The attributes of the widget, with what a handler has written and posted.
PathChangedRecord == [dir : Dirs, owner : Panels \cup {NoPanel}]

TerminalRecord ==
  [cwd : Dirs \cup {NoDir}, atPrompt : BOOLEAN, input : BOOLEAN, shown : Nat,
   snap : SUBSET Nat, draining : BOOLEAN, owner : Panels,
   cmdOwner : Panels \cup {NoPanel}, target : Dirs \cup {NoDir}, busy : BOOLEAN,
   lastSent : Dirs \cup {NoDir}, attempts : Nat, stashed : BOOLEAN,
   future : {"none", "pending", "done"}, watchdog : BOOLEAN, repaired : BOOLEAN,
   run : BOOLEAN, runStashed : BOOLEAN, sent : Seq(Inputs),
   posted : Seq(PathChangedRecord)]

Report ==
  [kind : {"precmd"}, dir : Dirs \ Lost, len : {0}]
    \cup [kind : {"echo"}, dir : {NoDir}, len : Nat] \cup {Gone}

\* Short sequences.
LEMMA Pair ==
  ASSUME NEW S, NEW s \in Seq(S), Len(s) = 2 PROVE s = <<s[1], s[2]>>
<1> DEFINE u == <<s[1], s[2]>>
<1>1. s[1] \in S /\ s[2] \in S
  <2>1. 1 \in 1 .. Len(s) /\ 2 \in 1 .. Len(s) OBVIOUS
  <2> QED BY <2>1, ElementOfSeq
<1>2. u \in Seq(S) /\ Len(u) = 2 BY <1>1
<1>3. \A i \in 1 .. 2 : s[i] = u[i] OBVIOUS
<1> HIDE DEF u
<1> QED BY <1>2, <1>3, SeqEqual DEF u

LEMMA Triple ==
  ASSUME NEW S, NEW s \in Seq(S), Len(s) = 3 PROVE s = <<s[1], s[2], s[3]>>
<1> DEFINE u == <<s[1], s[2], s[3]>>
<1>1. s[1] \in S /\ s[2] \in S /\ s[3] \in S OBVIOUS
<1>2. u \in Seq(S) /\ Len(u) = 3 BY <1>1
<1>3. \A i \in 1 .. 3 : s[i] = u[i] OBVIOUS
<1> HIDE DEF u
<1> QED BY <1>2, <1>3, SeqEqual DEF u

LEMMA PairOf ==
  ASSUME NEW a, NEW b PROVE Append(<<a>>, b) = <<a, b>> /\ <<a>> \o <<b>> = <<a, b>>
<1> DEFINE S == {a, b}
           s == Append(<<a>>, b)
           t == <<a>> \o <<b>>
<1>1. s \in Seq(S) /\ Len(s) = 2 /\ s[1] = a /\ s[2] = b OBVIOUS
<1>2. t \in Seq(S) /\ Len(t) = 2 /\ t[1] = a /\ t[2] = b OBVIOUS
<1> HIDE DEF S, s, t
<1>3. s = <<s[1], s[2]>> /\ t = <<t[1], t[2]>> BY <1>1, <1>2, Pair
<1> QED BY <1>1, <1>2, <1>3, Zenon DEF s, t

LEMMA TripleOf ==
  ASSUME NEW a, NEW b, NEW c
  PROVE  <<a, b>> \o <<c>> = <<a, b, c>> /\ <<a>> \o <<b, c>> = <<a, b, c>>
<1> DEFINE S == {a, b, c}
           s == <<a, b>> \o <<c>>
           t == <<a>> \o <<b, c>>
<1>1. s \in Seq(S) /\ Len(s) = 3 /\ s[1] = a /\ s[2] = b /\ s[3] = c OBVIOUS
<1>2. t \in Seq(S) /\ Len(t) = 3 /\ t[1] = a /\ t[2] = b /\ t[3] = c OBVIOUS
<1> HIDE DEF S, s, t
<1>3. s = <<s[1], s[2], s[3]>> /\ t = <<t[1], t[2], t[3]>> BY <1>1, <1>2, Triple
<1> QED BY <1>1, <1>2, <1>3, Zenon DEF s, t

LEMMA EditTypes ==
  /\ Key \in Inputs /\ Erase \in Inputs /\ Kill \in Inputs /\ Yank \in Inputs
  /\ Exit \in Inputs /\ NoProg \notin Inputs
BY DEF Key, Erase, Kill, Yank, Exit, NoProg, Edit, Inputs, Writers

LEMMA CommandType ==
  ASSUME NEW w \in Writers, NEW d \in Dirs \cup {NoDir}
  PROVE  Command(w, d) \in Inputs
BY DEF Command, Inputs

\* What StartNav writes.
NavSent(t) ==
  t.sent \o (IF Stashes(t) THEN <<Kill>> ELSE <<>>) \o <<Command("nav", t.target)>>

LEMMA StartNavType ==
  ASSUME NEW t \in TerminalRecord, t.target # NoDir
  PROVE  LET u == StartNav(t) IN
         /\ u \in TerminalRecord
         /\ u.cwd = t.cwd /\ u.atPrompt = FALSE /\ u.input = t.input
         /\ u.shown = t.shown /\ u.snap = t.snap /\ u.draining = TRUE
         /\ u.owner = t.owner /\ u.cmdOwner = t.cmdOwner /\ u.target = t.target
         /\ u.busy = TRUE /\ u.lastSent = t.target /\ u.attempts = Attempts(t)
         /\ u.stashed = (t.stashed \/ Stashes(t)) /\ u.future = t.future
         /\ u.watchdog = TRUE /\ u.repaired = t.repaired /\ u.run = t.run
         /\ u.runStashed = t.runStashed /\ u.posted = t.posted
         /\ u.sent = NavSent(t)
<1>1. Attempts(t) \in Nat BY DEF Attempts, TerminalRecord
<1>2. Stashes(t) \in BOOLEAN BY DEF Stashes, HasInput, TerminalRecord
<1>3. Command("nav", t.target) \in Inputs BY CommandType DEF TerminalRecord, Writers
<1>4. t.sent \o (IF Stashes(t) THEN <<Kill>> ELSE <<>>) \o <<Command("nav", t.target)>>
        \in Seq(Inputs)
  BY <1>3, EditTypes DEF TerminalRecord
<1> DEFINE s == t.sent \o (IF Stashes(t) THEN <<Kill>> ELSE <<>>) \o <<Command("nav", t.target)>>
           u == StartNav(t)
<1>5. u = [t EXCEPT !.attempts = Attempts(t), !.lastSent = t.target, !.busy = TRUE,
                    !.atPrompt = FALSE, !.draining = TRUE,
                    !.stashed = t.stashed \/ Stashes(t), !.watchdog = TRUE, !.sent = s]
  BY Zenon DEF StartNav
<1> HIDE DEF s, u
<1>6. s \in Seq(Inputs) BY <1>4 DEF s
<1>7. u \in TerminalRecord BY <1>1, <1>2, <1>5, <1>6, ZenonT(60) DEF TerminalRecord
<1>8. /\ u.cwd = t.cwd /\ u.atPrompt = FALSE /\ u.input = t.input
      /\ u.shown = t.shown /\ u.snap = t.snap /\ u.draining = TRUE
      /\ u.owner = t.owner /\ u.cmdOwner = t.cmdOwner /\ u.target = t.target
      /\ u.busy = TRUE /\ u.lastSent = t.target /\ u.attempts = Attempts(t)
  BY <1>5 DEF TerminalRecord
<1>9. /\ u.stashed = (t.stashed \/ Stashes(t)) /\ u.future = t.future
      /\ u.watchdog = TRUE /\ u.repaired = t.repaired /\ u.run = t.run
      /\ u.runStashed = t.runStashed /\ u.posted = t.posted
      /\ u.sent = s
  BY <1>5 DEF TerminalRecord
<1> QED BY <1>7, <1>8, <1>9 DEF u, s, NavSent


LEMMA RestoreType ==
  ASSUME NEW t \in TerminalRecord
  PROVE  LET u == Restore(t) IN
         /\ u \in TerminalRecord
         /\ u.cwd = t.cwd /\ u.atPrompt = t.atPrompt /\ u.input = TRUE
         /\ u.shown = t.shown /\ u.snap = t.snap /\ u.draining = t.draining
         /\ u.owner = t.owner /\ u.cmdOwner = t.cmdOwner /\ u.target = t.target
         /\ u.busy = t.busy /\ u.lastSent = t.lastSent /\ u.attempts = t.attempts
         /\ u.stashed = t.stashed /\ u.future = t.future /\ u.watchdog = t.watchdog
         /\ u.repaired = t.repaired /\ u.run = t.run /\ u.runStashed = t.runStashed
         /\ u.posted = t.posted /\ u.sent = Append(t.sent, Yank)
<1> DEFINE u == Restore(t)
           s == Append(t.sent, Yank)
<1>1. u = [t EXCEPT !.sent = s, !.input = TRUE] BY Zenon DEF Restore
<1>2. s \in Seq(Inputs) BY EditTypes DEF TerminalRecord
<1> HIDE DEF s, u
<1>3. u \in TerminalRecord BY <1>1, <1>2, ZenonT(60) DEF TerminalRecord
<1>4. /\ u.cwd = t.cwd /\ u.atPrompt = t.atPrompt /\ u.input = TRUE
      /\ u.shown = t.shown /\ u.snap = t.snap /\ u.draining = t.draining
      /\ u.owner = t.owner /\ u.cmdOwner = t.cmdOwner /\ u.target = t.target
      /\ u.busy = t.busy /\ u.lastSent = t.lastSent /\ u.attempts = t.attempts
      /\ u.stashed = t.stashed /\ u.future = t.future /\ u.watchdog = t.watchdog
      /\ u.repaired = t.repaired /\ u.run = t.run /\ u.runStashed = t.runStashed
      /\ u.posted = t.posted /\ u.sent = s
  BY <1>1 DEF TerminalRecord
<1> QED BY <1>3, <1>4 DEF u, s

LEMMA FinishNavType ==
  ASSUME NEW t \in TerminalRecord
  PROVE  LET u == FinishNav(t) IN
         /\ u \in TerminalRecord
         /\ u.cwd = t.cwd /\ u.atPrompt = t.atPrompt
         /\ u.shown = 0 /\ u.snap = t.snap /\ u.draining = FALSE
         /\ u.owner = t.owner /\ u.cmdOwner = t.cmdOwner /\ u.target = NoDir
         /\ u.busy = FALSE /\ u.lastSent = NoDir /\ u.attempts = 0
         /\ u.stashed = FALSE /\ u.future = (IF t.future = "pending" THEN "done" ELSE t.future)
         /\ u.watchdog = t.watchdog
         /\ u.repaired = t.repaired /\ u.run = t.run /\ u.runStashed = t.runStashed
         /\ u.posted = t.posted
         /\ t.stashed => u.input = TRUE /\ u.sent = Append(t.sent, Yank)
         /\ ~t.stashed => u.input = t.input /\ u.sent = t.sent
<1> DEFINE r == IF t.stashed THEN Restore(t) ELSE t
           u == FinishNav(t)
           f == IF r.future = "pending" THEN "done" ELSE r.future
<1>1. u = [r EXCEPT !.stashed = FALSE, !.target = NoDir, !.busy = FALSE, !.lastSent = NoDir,
                    !.attempts = 0, !.draining = FALSE, !.shown = 0, !.future = f]
  BY Zenon DEF FinishNav
<1>2. /\ r \in TerminalRecord
      /\ r.cwd = t.cwd /\ r.atPrompt = t.atPrompt
      /\ r.snap = t.snap
      /\ r.owner = t.owner /\ r.cmdOwner = t.cmdOwner
      /\ r.future = t.future /\ r.watchdog = t.watchdog
      /\ r.repaired = t.repaired /\ r.run = t.run /\ r.runStashed = t.runStashed
      /\ r.posted = t.posted
      /\ t.stashed => r.input = TRUE /\ r.sent = Append(t.sent, Yank)
      /\ ~t.stashed => r.input = t.input /\ r.sent = t.sent
  <2>1. CASE t.stashed
    <3>1. r = Restore(t) BY <2>1, Zenon
    <3> HIDE DEF r
    <3> QED BY <2>1, <3>1, RestoreType
  <2>2. CASE ~t.stashed
    <3>1. r = t /\ t.stashed = FALSE BY <2>2, Zenon DEF TerminalRecord
    <3> HIDE DEF r
    <3> QED BY <3>1
  <2> QED BY <2>1, <2>2
<1>3. f \in {"none", "pending", "done"} BY <1>2 DEF TerminalRecord
<1>f. f = IF t.future = "pending" THEN "done" ELSE t.future BY <1>2
<1> HIDE DEF r, u, f
<1>4. u \in TerminalRecord BY <1>1, <1>2, <1>3, ZenonT(60) DEF TerminalRecord
<1>5. /\ u.cwd = r.cwd /\ u.atPrompt = r.atPrompt /\ u.input = r.input
      /\ u.shown = 0 /\ u.snap = r.snap /\ u.draining = FALSE
      /\ u.owner = r.owner /\ u.cmdOwner = r.cmdOwner /\ u.target = NoDir
      /\ u.busy = FALSE /\ u.lastSent = NoDir /\ u.attempts = 0
      /\ u.stashed = FALSE /\ u.future = f /\ u.watchdog = r.watchdog
      /\ u.repaired = r.repaired /\ u.run = r.run /\ u.runStashed = r.runStashed
      /\ u.posted = r.posted /\ u.sent = r.sent
  BY <1>1, <1>2 DEF TerminalRecord
<1> QED BY <1>2, <1>4, <1>5, <1>f DEF u

LEMMA FinishRunType ==
  ASSUME NEW t \in TerminalRecord, t.runStashed => t.run
  PROVE  LET u == FinishRun(t) IN
         /\ u \in TerminalRecord
         /\ u.cwd = t.cwd /\ u.atPrompt = t.atPrompt
         /\ u.shown = t.shown /\ u.snap = t.snap /\ u.draining = t.draining
         /\ u.owner = t.owner /\ u.cmdOwner = t.cmdOwner /\ u.target = t.target
         /\ u.busy = t.busy /\ u.lastSent = t.lastSent /\ u.attempts = t.attempts
         /\ u.stashed = t.stashed /\ u.future = t.future /\ u.watchdog = t.watchdog
         /\ u.repaired = t.repaired /\ u.run = FALSE /\ u.runStashed = FALSE
         /\ u.posted = t.posted
         /\ t.runStashed => u.input = TRUE /\ u.sent = Append(t.sent, Yank)
         /\ ~t.runStashed => u.input = t.input /\ u.sent = t.sent
<1>1. CASE ~t.run
  <2>1. FinishRun(t) = t BY <1>1, Zenon DEF FinishRun
  <2>2. t.run = FALSE /\ t.runStashed = FALSE BY <1>1, Zenon DEF TerminalRecord
  <2> QED BY <2>1, <2>2
<1>2. CASE t.run
  <2> DEFINE r == IF t.runStashed THEN Restore(t) ELSE t
             u == FinishRun(t)
  <2>1. u = [r EXCEPT !.run = FALSE, !.runStashed = FALSE] BY <1>2, Zenon DEF FinishRun
  <2>2. /\ r \in TerminalRecord
        /\ r.cwd = t.cwd /\ r.atPrompt = t.atPrompt
        /\ r.shown = t.shown /\ r.snap = t.snap /\ r.draining = t.draining
        /\ r.owner = t.owner /\ r.cmdOwner = t.cmdOwner /\ r.target = t.target
        /\ r.busy = t.busy /\ r.lastSent = t.lastSent /\ r.attempts = t.attempts
        /\ r.stashed = t.stashed /\ r.future = t.future /\ r.watchdog = t.watchdog
        /\ r.repaired = t.repaired /\ r.posted = t.posted
        /\ t.runStashed => r.input = TRUE /\ r.sent = Append(t.sent, Yank)
        /\ ~t.runStashed => r.input = t.input /\ r.sent = t.sent
    <3>1. CASE t.runStashed
      <4>1. r = Restore(t) BY <3>1, Zenon
      <4> HIDE DEF r
      <4> QED BY <3>1, <4>1, RestoreType
    <3>2. CASE ~t.runStashed
      <4>1. r = t /\ t.runStashed = FALSE BY <3>2, Zenon DEF TerminalRecord
      <4> HIDE DEF r
      <4> QED BY <4>1
    <3> QED BY <3>1, <3>2
  <2> HIDE DEF r, u
  <2>3. u \in TerminalRecord BY <2>1, <2>2, ZenonT(60) DEF TerminalRecord
  <2>4. /\ u.cwd = r.cwd /\ u.atPrompt = r.atPrompt /\ u.input = r.input
        /\ u.shown = r.shown /\ u.snap = r.snap /\ u.draining = r.draining
        /\ u.owner = r.owner /\ u.cmdOwner = r.cmdOwner /\ u.target = r.target
        /\ u.busy = r.busy /\ u.lastSent = r.lastSent /\ u.attempts = r.attempts
        /\ u.stashed = r.stashed /\ u.future = r.future /\ u.watchdog = r.watchdog
        /\ u.repaired = r.repaired /\ u.run = FALSE /\ u.runStashed = FALSE
        /\ u.posted = r.posted /\ u.sent = r.sent
    BY <2>1, <2>2 DEF TerminalRecord
  <2> QED BY <2>2, <2>3, <2>4 DEF u
<1> QED BY <1>1, <1>2 DEF TerminalRecord


LEMMA DrawsType ==
  ASSUME NEW t \in TerminalRecord, NEW n \in Nat
  PROVE  LET u == Draws(t, n) IN
         /\ u \in TerminalRecord
         /\ u.cwd = t.cwd /\ u.atPrompt = t.atPrompt /\ u.input = t.input
         /\ t.draining => u.shown = t.shown /\ u.snap = t.snap
         /\ ~t.draining => u.shown = n
         /\ ~t.draining /\ t.input => u.snap = t.snap
         /\ ~t.draining /\ ~t.input => u.snap = {n}
         /\ u.draining = t.draining
         /\ u.owner = t.owner /\ u.cmdOwner = t.cmdOwner /\ u.target = t.target
         /\ u.busy = t.busy /\ u.lastSent = t.lastSent /\ u.attempts = t.attempts
         /\ u.stashed = t.stashed /\ u.future = t.future /\ u.watchdog = t.watchdog
         /\ u.repaired = t.repaired /\ u.run = t.run /\ u.runStashed = t.runStashed
         /\ u.posted = t.posted /\ u.sent = t.sent
<1> DEFINE u == Draws(t, n)
           p == IF t.input THEN t.snap ELSE {n}
<1>1. CASE t.draining
  <2>1. u = t BY <1>1, Zenon DEF Draws
  <2> HIDE DEF u
  <2> QED BY <1>1, <2>1 DEF u
<1>2. CASE ~t.draining
  <2>1. u = [t EXCEPT !.shown = n, !.snap = p] BY <1>2, Zenon DEF Draws
  <2>2. p \in SUBSET Nat BY DEF TerminalRecord
  <2>3. (t.input => p = t.snap) /\ (~t.input => p = {n}) OBVIOUS
  <2> HIDE DEF p, u
  <2>4. u \in TerminalRecord BY <2>1, <2>2, ZenonT(60) DEF TerminalRecord
  <2>5. /\ u.cwd = t.cwd /\ u.atPrompt = t.atPrompt /\ u.input = t.input
        /\ u.shown = n /\ u.snap = p /\ u.draining = t.draining
        /\ u.owner = t.owner /\ u.cmdOwner = t.cmdOwner /\ u.target = t.target
        /\ u.busy = t.busy /\ u.lastSent = t.lastSent /\ u.attempts = t.attempts
        /\ u.stashed = t.stashed /\ u.future = t.future /\ u.watchdog = t.watchdog
        /\ u.repaired = t.repaired /\ u.run = t.run /\ u.runStashed = t.runStashed
        /\ u.posted = t.posted /\ u.sent = t.sent
    BY <2>1 DEF TerminalRecord
  <2> QED BY <1>2, <2>3, <2>4, <2>5 DEF u
<1> QED BY <1>1, <1>2

\* The target is taken up, or forgotten because the shell is there.
LEMMA ApplyPendingType ==
  ASSUME NEW t \in TerminalRecord, NEW d, t.target \in {NoDir, d}
  PROVE  LET u == ApplyPending(t, d) IN
         /\ u \in TerminalRecord
         /\ u.cwd = t.cwd /\ u.atPrompt = t.atPrompt /\ u.input = t.input
         /\ u.shown = t.shown /\ u.snap = t.snap /\ u.draining = t.draining
         /\ u.owner = t.owner /\ u.cmdOwner = t.cmdOwner /\ u.target = NoDir
         /\ u.busy = t.busy /\ u.lastSent = t.lastSent /\ u.attempts = t.attempts
         /\ u.stashed = t.stashed /\ u.watchdog = t.watchdog
         /\ u.repaired = t.repaired /\ u.run = t.run /\ u.runStashed = t.runStashed
         /\ u.posted = t.posted /\ u.sent = t.sent
<1> DEFINE u == ApplyPending(t, d)
           f == IF t.future = "pending" THEN "done" ELSE t.future
<1>1. CASE t.target = NoDir
  <2>1. u = t BY <1>1 DEF ApplyPending
  <2> HIDE DEF u
  <2> QED BY <1>1, <2>1 DEF u
<1>2. CASE t.target # NoDir
  <2>1. u = [t EXCEPT !.target = NoDir, !.future = f] BY <1>2 DEF ApplyPending
  <2>2. f \in {"none", "pending", "done"} BY DEF TerminalRecord
  <2> HIDE DEF f, u
  <2>4. u \in TerminalRecord BY <2>1, <2>2, ZenonT(60) DEF TerminalRecord
  <2>5. /\ u.cwd = t.cwd /\ u.atPrompt = t.atPrompt /\ u.input = t.input
        /\ u.shown = t.shown /\ u.snap = t.snap /\ u.draining = t.draining
        /\ u.owner = t.owner /\ u.cmdOwner = t.cmdOwner /\ u.target = NoDir
        /\ u.busy = t.busy /\ u.lastSent = t.lastSent /\ u.attempts = t.attempts
        /\ u.stashed = t.stashed /\ u.watchdog = t.watchdog
        /\ u.repaired = t.repaired /\ u.run = t.run /\ u.runStashed = t.runStashed
        /\ u.posted = t.posted /\ u.sent = t.sent
    BY <2>1 DEF TerminalRecord
  <2> QED BY <2>4, <2>5 DEF u
<1> QED BY <1>1, <1>2

\* request_cd(): ignored, stored, or sent.
LEMMA RequestType ==
  ASSUME NEW t \in TerminalRecord, NEW d \in Dirs
  PROVE  LET r == [t EXCEPT !.target = d, !.future = "pending"]
             u == Request(t, d)
         IN /\ \/ u = t /\ ~t.busy /\ t.target = NoDir /\ t.cwd = d
               \/ u = r /\ (t.busy \/ ~t.atPrompt)
               \/ u = StartNav(r) /\ ~t.busy /\ t.atPrompt
            /\ r \in TerminalRecord
            /\ r.cwd = t.cwd /\ r.atPrompt = t.atPrompt /\ r.input = t.input
            /\ r.shown = t.shown /\ r.snap = t.snap /\ r.draining = t.draining
            /\ r.owner = t.owner /\ r.cmdOwner = t.cmdOwner /\ r.target = d
            /\ r.busy = t.busy /\ r.lastSent = t.lastSent /\ r.attempts = t.attempts
            /\ r.stashed = t.stashed /\ r.watchdog = t.watchdog
            /\ r.repaired = t.repaired /\ r.run = t.run /\ r.runStashed = t.runStashed
            /\ r.posted = t.posted /\ r.sent = t.sent
<1> DEFINE r == [t EXCEPT !.target = d, !.future = "pending"]
           u == Request(t, d)
<1>1. \/ u = t /\ ~t.busy /\ t.target = NoDir /\ t.cwd = d
      \/ u = r /\ (t.busy \/ ~t.atPrompt)
      \/ u = StartNav(r) /\ ~t.busy /\ t.atPrompt
  <2>1. CASE ~t.busy /\ t.target = NoDir /\ d = t.cwd BY <2>1, Zenon DEF Request
  <2>2. CASE ~(~t.busy /\ t.target = NoDir /\ d = t.cwd)
    <3>1. u = IF ~t.busy /\ t.atPrompt THEN StartNav(r) ELSE r BY <2>2, Zenon DEF Request
    <3> QED BY <3>1, Zenon
  <2> QED BY <2>1, <2>2
<1>2. r \in TerminalRecord BY ZenonT(60) DEF TerminalRecord
<1>3. /\ r.cwd = t.cwd /\ r.atPrompt = t.atPrompt /\ r.input = t.input
      /\ r.shown = t.shown /\ r.snap = t.snap /\ r.draining = t.draining
      /\ r.owner = t.owner /\ r.cmdOwner = t.cmdOwner /\ r.target = d
      /\ r.busy = t.busy /\ r.lastSent = t.lastSent /\ r.attempts = t.attempts
      /\ r.stashed = t.stashed /\ r.watchdog = t.watchdog
      /\ r.repaired = t.repaired /\ r.run = t.run /\ r.runStashed = t.runStashed
      /\ r.posted = t.posted /\ r.sent = t.sent
  BY DEF TerminalRecord
<1> QED BY <1>1, <1>2, <1>3


-----------------------------------------------------------------------------
\* The precmd handler, case by case.

Arrived(t, d) ==
  [t EXCEPT !.cwd = d, !.atPrompt = TRUE, !.input = FALSE, !.snap = {}]

Stopped(t) == [t EXCEPT !.watchdog = FALSE]

Answered(t, d, was) ==
  [t EXCEPT !.draining = FALSE, !.shown = IF t.draining THEN 0 ELSE @,
            !.cmdOwner = NoPanel,
            !.posted = IF Announces(t, d, was)
                         THEN Append(@, [dir |-> d, owner |-> OwnerOf(t)])
                         ELSE @]

LEMMA ArrivedType ==
  ASSUME NEW t \in TerminalRecord, NEW d \in Dirs
  PROVE  LET u == Arrived(t, d) IN
         /\ u \in TerminalRecord
         /\ u.cwd = d /\ u.atPrompt = TRUE /\ u.input = FALSE
         /\ u.shown = t.shown /\ u.snap = {} /\ u.draining = t.draining
         /\ u.owner = t.owner /\ u.cmdOwner = t.cmdOwner /\ u.target = t.target
         /\ u.busy = t.busy /\ u.lastSent = t.lastSent /\ u.attempts = t.attempts
         /\ u.stashed = t.stashed /\ u.future = t.future /\ u.watchdog = t.watchdog
         /\ u.repaired = t.repaired /\ u.run = t.run /\ u.runStashed = t.runStashed
         /\ u.posted = t.posted /\ u.sent = t.sent
<1> DEFINE u == Arrived(t, d)
<1>1. u \in TerminalRecord BY ZenonT(60) DEF TerminalRecord, Arrived
<1>2. /\ u.cwd = d /\ u.atPrompt = TRUE /\ u.input = FALSE
      /\ u.shown = t.shown /\ u.snap = {} /\ u.draining = t.draining
      /\ u.owner = t.owner /\ u.cmdOwner = t.cmdOwner /\ u.target = t.target
      /\ u.busy = t.busy /\ u.lastSent = t.lastSent /\ u.attempts = t.attempts
      /\ u.stashed = t.stashed /\ u.future = t.future /\ u.watchdog = t.watchdog
      /\ u.repaired = t.repaired /\ u.run = t.run /\ u.runStashed = t.runStashed
      /\ u.posted = t.posted /\ u.sent = t.sent
  BY DEF TerminalRecord, Arrived
<1> QED BY <1>1, <1>2

LEMMA StoppedType ==
  ASSUME NEW t \in TerminalRecord
  PROVE  LET u == Stopped(t) IN
         /\ u \in TerminalRecord
         /\ u.cwd = t.cwd /\ u.atPrompt = t.atPrompt /\ u.input = t.input
         /\ u.shown = t.shown /\ u.snap = t.snap /\ u.draining = t.draining
         /\ u.owner = t.owner /\ u.cmdOwner = t.cmdOwner /\ u.target = t.target
         /\ u.busy = t.busy /\ u.lastSent = t.lastSent /\ u.attempts = t.attempts
         /\ u.stashed = t.stashed /\ u.future = t.future /\ u.watchdog = FALSE
         /\ u.repaired = t.repaired /\ u.run = t.run /\ u.runStashed = t.runStashed
         /\ u.posted = t.posted /\ u.sent = t.sent
<1> DEFINE u == Stopped(t)
<1>1. u \in TerminalRecord BY ZenonT(60) DEF TerminalRecord, Stopped
<1>2. /\ u.cwd = t.cwd /\ u.atPrompt = t.atPrompt /\ u.input = t.input
      /\ u.shown = t.shown /\ u.snap = t.snap /\ u.draining = t.draining
      /\ u.owner = t.owner /\ u.cmdOwner = t.cmdOwner /\ u.target = t.target
      /\ u.busy = t.busy /\ u.lastSent = t.lastSent /\ u.attempts = t.attempts
      /\ u.stashed = t.stashed /\ u.future = t.future /\ u.watchdog = FALSE
      /\ u.repaired = t.repaired /\ u.run = t.run /\ u.runStashed = t.runStashed
      /\ u.posted = t.posted /\ u.sent = t.sent
  BY DEF TerminalRecord, Stopped
<1> QED BY <1>1, <1>2

\* What a command of the user leaves to post: its pane, when the shell moved.
Posted(t, d) ==
  IF Announces(t, d, t.cwd) THEN <<[dir |-> d, owner |-> t.cmdOwner]>> ELSE <<>>

AnswersAs(t, d, was, u) ==
  /\ u \in TerminalRecord
  /\ u.cwd = t.cwd /\ u.atPrompt = t.atPrompt /\ u.input = t.input
  /\ u.snap = t.snap /\ u.draining = FALSE
  /\ u.owner = t.owner /\ u.cmdOwner = NoPanel /\ u.target = t.target
  /\ u.busy = t.busy /\ u.lastSent = t.lastSent /\ u.attempts = t.attempts
  /\ u.stashed = t.stashed /\ u.future = t.future /\ u.watchdog = t.watchdog
  /\ u.repaired = t.repaired /\ u.run = t.run /\ u.runStashed = t.runStashed
  /\ Announces(t, d, was) => u.posted = Append(t.posted, [dir |-> d, owner |-> t.cmdOwner])
  /\ ~Announces(t, d, was) => u.posted = t.posted
  /\ u.sent = t.sent

LEMMA AnsweredType ==
  ASSUME NEW t \in TerminalRecord, NEW d \in Dirs, NEW was
  PROVE  AnswersAs(t, d, was, Answered(t, d, was))
<1> DEFINE u == Answered(t, d, was)
           s == IF t.draining THEN 0 ELSE t.shown
           p == IF Announces(t, d, was) THEN Append(t.posted, [dir |-> d, owner |-> t.cmdOwner])
                                        ELSE t.posted
<1>1. u = [t EXCEPT !.draining = FALSE, !.shown = s, !.cmdOwner = NoPanel, !.posted = p]
  BY Zenon DEF Answered, OwnerOf
<1>2. s \in Nat BY DEF TerminalRecord
<1>3. p \in Seq(PathChangedRecord)
  <2>1. t.posted \in Seq(PathChangedRecord) /\ t.cmdOwner \in Panels \cup {NoPanel}
    BY DEF TerminalRecord
  <2>2. [dir |-> d, owner |-> t.cmdOwner] \in PathChangedRecord BY <2>1 DEF PathChangedRecord
  <2> QED BY <2>1, <2>2
<1> HIDE DEF u, s, p
<1>4. u \in TerminalRecord BY <1>1, <1>2, <1>3, ZenonT(60) DEF TerminalRecord
<1>5. /\ u.cwd = t.cwd /\ u.atPrompt = t.atPrompt /\ u.input = t.input
      /\ u.shown = s /\ u.snap = t.snap /\ u.draining = FALSE
      /\ u.owner = t.owner /\ u.cmdOwner = NoPanel /\ u.target = t.target
      /\ u.busy = t.busy /\ u.lastSent = t.lastSent /\ u.attempts = t.attempts
      /\ u.stashed = t.stashed /\ u.future = t.future /\ u.watchdog = t.watchdog
      /\ u.repaired = t.repaired /\ u.run = t.run /\ u.runStashed = t.runStashed
      /\ u.posted = p /\ u.sent = t.sent
  BY <1>1 DEF TerminalRecord
<1>6. /\ Announces(t, d, was) => p = Append(t.posted, [dir |-> d, owner |-> t.cmdOwner])
      /\ ~Announces(t, d, was) => p = t.posted
  BY DEF p
<1>7. AnswersAs(t, d, was, u) BY <1>4, <1>5, <1>6, Zenon DEF AnswersAs
<1> QED BY <1>7 DEF u

LEMMA HandlePreCmdDef ==
  ASSUME NEW t \in TerminalRecord, NEW d \in Dirs
  PROVE  /\ t.busy => HandlePreCmd(t, d) = Draws(PreCmdOfNav(Stopped(Arrived(t, d)), d), 0)
         /\ ~t.busy => HandlePreCmd(t, d) =
              Draws(ApplyPending(FinishRun(Answered(Arrived(t, d), d, t.cwd)), d), 0)
<1>1. Arrived(t, d).busy = t.busy BY DEF TerminalRecord, Arrived
<1>2. HandlePreCmd(t, d) = Draws(IF t.busy THEN PreCmdOfNav(Stopped(Arrived(t, d)), d)
                                 ELSE PreCmdOfUser(Arrived(t, d), d, t.cwd), 0)
  BY Zenon DEF HandlePreCmd, Arrived, Stopped
<1>3. PreCmdOfUser(Arrived(t, d), d, t.cwd)
        = ApplyPending(FinishRun(Answered(Arrived(t, d), d, t.cwd)), d)
  BY Zenon DEF PreCmdOfUser, Answered
<1> QED BY <1>2, <1>3, Zenon

\* The attributes hang together: a transaction has a target, text is stashed for
\* one that is on its way, and nothing is on its way at the prompt.
Fit(t) ==
  /\ t \in TerminalRecord
  /\ t.busy => t.target # NoDir /\ ~t.run
  /\ t.stashed => t.busy
  /\ t.runStashed => t.run
  /\ t.watchdog => t.busy
  /\ t.atPrompt => ~t.busy /\ ~t.run /\ ~t.draining /\ t.target = NoDir

\* The attributes at the start of a handler.
Ready(t) == Fit(t) /\ t.sent = <<>> /\ t.posted = <<>>

\* The shell is elsewhere and is sent to the target again.
Retried(t, d, u) ==
  /\ u \in TerminalRecord
  /\ u.cwd = d /\ u.atPrompt = FALSE /\ u.draining = TRUE
  /\ u.cmdOwner = t.cmdOwner /\ u.target = t.target /\ u.busy = TRUE
  /\ u.stashed = t.stashed /\ u.watchdog = TRUE /\ u.repaired = t.repaired
  /\ u.run = FALSE /\ u.runStashed = FALSE
  /\ u.posted = <<>> /\ u.sent = <<Command("nav", t.target)>>
  /\ u.lastSent = t.target /\ u.owner = t.owner

LEMMA PreCmdRetries ==
  ASSUME NEW t \in TerminalRecord, Ready(t), NEW d \in Dirs, t.busy, Retries(t, d)
  PROVE  Retried(t, d, HandlePreCmd(t, d))
<1> DEFINE r == Stopped(Arrived(t, d))
           n == StartNav(r)
<1>1. /\ t \in TerminalRecord /\ t.sent = <<>> /\ t.posted = <<>> /\ t.target # NoDir
      /\ t.run = FALSE /\ t.runStashed = FALSE
  BY DEF Ready, Fit, TerminalRecord
<1>2. /\ r \in TerminalRecord /\ r.cwd = d /\ r.input = FALSE
      /\ r.owner = t.owner /\ r.cmdOwner = t.cmdOwner /\ r.target = t.target
      /\ r.busy = t.busy /\ r.attempts = t.attempts
      /\ r.stashed = t.stashed /\ r.repaired = t.repaired
      /\ r.run = t.run /\ r.runStashed = t.runStashed
      /\ r.posted = t.posted /\ r.sent = t.sent
  <2> DEFINE a == Arrived(t, d)
  <2>1. /\ a \in TerminalRecord /\ a.cwd = d /\ a.input = FALSE /\ a.snap = {}
        /\ a.atPrompt = TRUE /\ a.owner = t.owner /\ a.cmdOwner = t.cmdOwner
        /\ a.target = t.target /\ a.busy = t.busy /\ a.attempts = t.attempts
        /\ a.stashed = t.stashed /\ a.repaired = t.repaired /\ a.run = t.run
        /\ a.runStashed = t.runStashed /\ a.posted = t.posted /\ a.sent = t.sent
    BY <1>1, ArrivedType
  <2>2. r = Stopped(a) OBVIOUS
  <2> HIDE DEF a, r
  <2> QED BY <2>1, <2>2, StoppedType
<1>3. Retries(r, d) BY <1>2 DEF Retries
<1>4. ~Stashes(r) BY <1>2 DEF Stashes, HasInput
<1>5. HandlePreCmd(t, d) = Draws(n, 0)
  BY <1>1, <1>3, HandlePreCmdDef, Zenon DEF PreCmdOfNav
<1> HIDE DEF r, n
<1>6. /\ n \in TerminalRecord /\ n.cwd = d /\ n.atPrompt = FALSE /\ n.draining = TRUE
      /\ n.owner = t.owner /\ n.cmdOwner = t.cmdOwner /\ n.target = t.target
      /\ n.busy = TRUE /\ n.lastSent = t.target
      /\ n.stashed = (r.stashed \/ Stashes(r))
      /\ n.watchdog = TRUE /\ n.repaired = t.repaired /\ n.run = t.run
      /\ n.runStashed = t.runStashed /\ n.posted = <<>>
      /\ n.sent = NavSent(r)
  BY <1>1, <1>2, StartNavType DEF n
<1>7. n.sent = <<Command("nav", t.target)>>
  <2>1. NavSent(r) = <<>> \o <<>> \o <<Command("nav", t.target)>>
    BY <1>1, <1>2, <1>4 DEF NavSent
  <2> QED BY <1>6, <2>1
<1>8. n.stashed = t.stashed BY <1>1, <1>2, <1>4, <1>6 DEF TerminalRecord
<1> QED BY <1>1, <1>5, <1>6, <1>7, <1>8, DrawsType DEF Retried

\* The transaction ends, wherever the shell is.
Finished(t, d, u) ==
  /\ u \in TerminalRecord
  /\ u.cwd = d /\ u.atPrompt = TRUE /\ u.draining = FALSE /\ u.shown = 0
  /\ u.input = t.stashed /\ u.snap = (IF t.stashed THEN {} ELSE {0})
  /\ u.owner = t.owner /\ u.cmdOwner = t.cmdOwner /\ u.target = NoDir /\ u.busy = FALSE
  /\ u.stashed = FALSE /\ u.watchdog = FALSE /\ u.repaired = t.repaired
  /\ u.run = FALSE /\ u.runStashed = FALSE
  /\ u.posted = <<>> /\ u.sent = (IF t.stashed THEN <<Yank>> ELSE <<>>)

LEMMA PreCmdFinishes ==
  ASSUME NEW t \in TerminalRecord, Ready(t), NEW d \in Dirs, t.busy, ~Retries(t, d)
  PROVE  Finished(t, d, HandlePreCmd(t, d))
<1> DEFINE r == Stopped(Arrived(t, d))
           n == FinishNav(r)
<1>1. /\ t \in TerminalRecord /\ t.sent = <<>> /\ t.posted = <<>> /\ t.target # NoDir
      /\ t.run = FALSE /\ t.runStashed = FALSE /\ t.stashed \in BOOLEAN
  BY DEF Ready, Fit, TerminalRecord
<1>2. /\ r \in TerminalRecord /\ r.cwd = d /\ r.input = FALSE /\ r.snap = {}
      /\ r.atPrompt = TRUE /\ r.owner = t.owner /\ r.cmdOwner = t.cmdOwner
      /\ r.target = t.target /\ r.watchdog = FALSE
      /\ r.attempts = t.attempts /\ r.stashed = t.stashed /\ r.repaired = t.repaired
      /\ r.run = t.run /\ r.runStashed = t.runStashed
      /\ r.posted = t.posted /\ r.sent = t.sent
  <2> DEFINE a == Arrived(t, d)
  <2>1. /\ a \in TerminalRecord /\ a.cwd = d /\ a.input = FALSE /\ a.snap = {}
        /\ a.atPrompt = TRUE /\ a.owner = t.owner /\ a.cmdOwner = t.cmdOwner
        /\ a.target = t.target /\ a.busy = t.busy /\ a.attempts = t.attempts
        /\ a.stashed = t.stashed /\ a.repaired = t.repaired /\ a.run = t.run
        /\ a.runStashed = t.runStashed /\ a.posted = t.posted /\ a.sent = t.sent
    BY <1>1, ArrivedType
  <2>2. r = Stopped(a) OBVIOUS
  <2> HIDE DEF a, r
  <2> QED BY <2>1, <2>2, StoppedType
<1>3. ~Retries(r, d) BY <1>2 DEF Retries
<1>5. HandlePreCmd(t, d) = Draws(n, 0)
  BY <1>1, <1>3, HandlePreCmdDef, Zenon DEF PreCmdOfNav
<1> HIDE DEF r, n
<1>6. /\ n \in TerminalRecord /\ n.cwd = d /\ n.atPrompt = TRUE /\ n.draining = FALSE
      /\ n.snap = {} /\ n.owner = t.owner
      /\ n.cmdOwner = t.cmdOwner /\ n.target = NoDir
      /\ n.busy = FALSE /\ n.stashed = FALSE
      /\ n.watchdog = FALSE /\ n.repaired = t.repaired /\ n.run = FALSE
      /\ n.runStashed = FALSE /\ n.posted = <<>>
  BY <1>1, <1>2, FinishNavType DEF n
<1>a. /\ r.stashed => n.input = TRUE /\ n.sent = Append(r.sent, Yank)
      /\ ~r.stashed => n.input = r.input /\ n.sent = r.sent
  BY <1>2, FinishNavType DEF n
<1>b. /\ t.stashed => n.input = TRUE /\ n.sent = Append(<<>>, Yank)
      /\ ~t.stashed => n.input = FALSE /\ n.sent = <<>>
  BY <1>1, <1>2, <1>a, Zenon
<1>7. n.sent = IF t.stashed THEN <<Yank>> ELSE <<>> BY <1>b
<1>8. n.input = t.stashed BY <1>1, <1>b, Zenon
<1> HIDE DEF n
<1>9. /\ Draws(n, 0) \in TerminalRecord
      /\ Draws(n, 0).shown = 0
      /\ Draws(n, 0).snap = IF t.stashed THEN {} ELSE {0}
  BY <1>6, <1>b, DrawsType
<1> QED BY <1>1, <1>5, <1>6, <1>7, <1>8, <1>9, DrawsType DEF Finished


\* A precmd that is not the transaction's, up to the stored target.
RunAnswered(t, d) == FinishRun(Answered(Arrived(t, d), d, t.cwd))

AnsweredAs(t, d, q) ==
  /\ q \in TerminalRecord
  /\ q.cwd = d /\ q.atPrompt = TRUE /\ q.draining = FALSE /\ q.snap = {}
  /\ q.owner = t.owner /\ q.cmdOwner = NoPanel /\ q.target = t.target
  /\ q.busy = FALSE /\ q.stashed = FALSE /\ q.watchdog = FALSE
  /\ q.repaired = t.repaired /\ q.run = FALSE /\ q.runStashed = FALSE
  /\ q.posted = Posted(t, d)
  /\ t.runStashed => q.input = TRUE /\ q.sent = <<Yank>>
  /\ ~t.runStashed => q.input = FALSE /\ q.sent = <<>>

LEMMA AnsweredRun ==
  ASSUME NEW t \in TerminalRecord, Ready(t), NEW d \in Dirs, ~t.busy
  PROVE  AnsweredAs(t, d, RunAnswered(t, d))
<1> DEFINE a == Arrived(t, d)
           b == Answered(a, d, t.cwd)
           q == FinishRun(b)
<1>1. /\ t \in TerminalRecord /\ t.sent = <<>> /\ t.posted = <<>>
      /\ t.busy = FALSE /\ t.stashed = FALSE /\ t.watchdog = FALSE
      /\ t.runStashed => t.run
  BY Zenon DEF Ready, Fit, TerminalRecord
<1>2. /\ a \in TerminalRecord /\ a.cwd = d /\ a.input = FALSE /\ a.snap = {}
      /\ a.atPrompt = TRUE /\ a.owner = t.owner /\ a.cmdOwner = t.cmdOwner
      /\ a.target = t.target /\ a.busy = FALSE /\ a.watchdog = FALSE
      /\ a.stashed = FALSE /\ a.repaired = t.repaired /\ a.run = t.run
      /\ a.runStashed = t.runStashed /\ a.posted = t.posted /\ a.sent = t.sent
  BY <1>1, ArrivedType
<1> HIDE DEF a
<1>3. AnswersAs(a, d, t.cwd, b)
  <2>1. a \in TerminalRecord BY <1>2
  <2> QED BY <2>1, AnsweredType, Zenon
<1> HIDE DEF b
<1>p. /\ b \in TerminalRecord /\ b.cwd = d /\ b.input = FALSE /\ b.snap = {}
      /\ b.atPrompt = TRUE /\ b.owner = t.owner /\ b.cmdOwner = NoPanel
      /\ b.draining = FALSE
      /\ b.target = t.target /\ b.busy = FALSE /\ b.watchdog = FALSE
      /\ b.stashed = FALSE /\ b.repaired = t.repaired /\ b.run = t.run
      /\ b.runStashed = t.runStashed /\ b.sent = t.sent
  BY <1>2, <1>3 DEF AnswersAs
<1>4. b.posted = Posted(t, d)
  <2>1. Announces(a, d, t.cwd) <=> Announces(t, d, t.cwd) BY <1>2 DEF Announces
  <2>2. Append(<<>>, [dir |-> d, owner |-> t.cmdOwner]) = <<[dir |-> d, owner |-> t.cmdOwner]>>
    OBVIOUS
  <2> QED BY <1>1, <1>2, <1>3, <2>1, <2>2, Zenon DEF Posted, AnswersAs
<1>5. b.runStashed => b.run BY <1>1, <1>p, Zenon
<1>6. /\ q \in TerminalRecord
      /\ q.cwd = d /\ q.atPrompt = TRUE /\ q.draining = FALSE /\ q.snap = {}
      /\ q.owner = t.owner /\ q.cmdOwner = NoPanel /\ q.target = t.target
      /\ q.busy = FALSE /\ q.stashed = FALSE /\ q.watchdog = FALSE
      /\ q.repaired = t.repaired /\ q.run = FALSE /\ q.runStashed = FALSE
      /\ q.posted = b.posted
  BY <1>p, <1>5, FinishRunType
<1>7. /\ b.runStashed => q.input = TRUE /\ q.sent = Append(b.sent, Yank)
      /\ ~b.runStashed => q.input = b.input /\ q.sent = b.sent
  BY <1>p, <1>5, FinishRunType
<1> HIDE DEF q
<1>8. Append(<<>>, Yank) = <<Yank>> OBVIOUS
<1>9. /\ t.runStashed => q.input = TRUE /\ q.sent = <<Yank>>
      /\ ~t.runStashed => q.input = FALSE /\ q.sent = <<>>
  BY <1>1, <1>p, <1>7, <1>8, Zenon
<1>c. AnsweredAs(t, d, q) BY <1>4, <1>6, <1>9, Zenon DEF AnsweredAs
<1> QED BY <1>c, Zenon DEF a, b, q, RunAnswered

\* A stored target is taken up at once.
Departed(t, d, u) ==
  /\ u \in TerminalRecord
  /\ u.cwd = d /\ u.atPrompt = FALSE /\ u.draining = TRUE
  /\ u.cmdOwner = NoPanel /\ u.target = t.target /\ u.busy = TRUE
  /\ u.stashed = t.runStashed /\ u.watchdog = TRUE /\ u.repaired = t.repaired
  /\ u.run = FALSE /\ u.runStashed = FALSE
  /\ u.posted = Posted(t, d) /\ u.lastSent = t.target /\ u.owner = t.owner
  /\ t.runStashed => u.sent = <<Yank, Kill, Command("nav", t.target)>>
  /\ ~t.runStashed => u.sent = <<Command("nav", t.target)>>

LEMMA PreCmdStarts ==
  ASSUME NEW t \in TerminalRecord, Ready(t), NEW d \in Dirs, ~t.busy, t.target \notin {NoDir, d}
  PROVE  Departed(t, d, HandlePreCmd(t, d))
<1> DEFINE q == RunAnswered(t, d)
           n == StartNav(q)
           c == Command("nav", t.target)
<1>1. /\ q \in TerminalRecord
      /\ q.cwd = d /\ q.snap = {} /\ q.cmdOwner = NoPanel /\ q.target = t.target
      /\ q.owner = t.owner
      /\ q.busy = FALSE /\ q.stashed = FALSE
      /\ q.repaired = t.repaired /\ q.run = FALSE /\ q.runStashed = FALSE
      /\ q.posted = Posted(t, d)
      /\ t.runStashed => q.input = TRUE /\ q.sent = <<Yank>>
      /\ ~t.runStashed => q.input = FALSE /\ q.sent = <<>>
  <2>1. AnsweredAs(t, d, q) BY AnsweredRun, Zenon
  <2> HIDE DEF q
  <2> QED BY <2>1 DEF AnsweredAs
<1>2. HandlePreCmd(t, d) = Draws(n, 0)
  <2>1. ApplyPending(q, d) = StartNav(q)
    <3> HIDE DEF q
    <3> QED BY <1>1 DEF ApplyPending
  <2> QED BY <2>1, HandlePreCmdDef, Zenon DEF Ready, Fit, RunAnswered
<1> HIDE DEF q, c
<1>3. /\ n \in TerminalRecord
      /\ n.cwd = d /\ n.atPrompt = FALSE /\ n.draining = TRUE
      /\ n.cmdOwner = NoPanel /\ n.target = t.target /\ n.busy = TRUE
      /\ n.watchdog = TRUE /\ n.repaired = t.repaired
      /\ n.run = FALSE /\ n.runStashed = FALSE
      /\ n.posted = Posted(t, d) /\ n.lastSent = t.target /\ n.owner = t.owner
      /\ n.sent = NavSent(q)
  BY <1>1, StartNavType
<1>4. n.stashed = (q.stashed \/ Stashes(q)) BY <1>1, StartNavType
<1>7. LET u == Draws(n, 0) IN
      /\ u \in TerminalRecord
      /\ u.cwd = n.cwd /\ u.atPrompt = n.atPrompt /\ u.draining = n.draining
      /\ u.cmdOwner = n.cmdOwner /\ u.target = n.target /\ u.busy = n.busy
      /\ u.stashed = n.stashed /\ u.watchdog = n.watchdog /\ u.repaired = n.repaired
      /\ u.run = n.run /\ u.runStashed = n.runStashed
      /\ u.posted = n.posted /\ u.lastSent = n.lastSent /\ u.sent = n.sent
      /\ u.owner = n.owner
  <2> HIDE DEF n
  <2> QED BY <1>3, DrawsType
<1>5. CASE t.runStashed
  <2>1. t.runStashed = TRUE BY <1>5, Zenon DEF Ready, Fit, TerminalRecord
  <2>2. Stashes(q) BY <1>1, <1>5 DEF Stashes, HasInput
  <2>3. NavSent(q) = <<Yank>> \o <<Kill>> \o <<c>> BY <1>1, <1>5, <2>2, Zenon DEF NavSent, c
  <2>4. n.sent = <<Yank, Kill, c>>
    <3>1. <<Yank>> \o <<Kill>> = <<Yank, Kill>> BY PairOf
    <3>2. <<Yank, Kill>> \o <<c>> = <<Yank, Kill, c>> BY TripleOf
    <3> QED BY <1>3, <2>3, <3>1, <3>2, Zenon
  <2>5. n.stashed = TRUE BY <1>4, <2>2
  <2> HIDE DEF n
  <2>6. n.stashed = t.runStashed BY <2>1, <2>5, Zenon
  <2> QED BY <1>2, <1>3, <1>5, <1>7, <2>4, <2>6, Zenon DEF c, Departed
<1>6. CASE ~t.runStashed
  <2>1. t.runStashed = FALSE BY <1>6, Zenon DEF Ready, Fit, TerminalRecord
  <2>2. ~Stashes(q) BY <1>1, <1>6 DEF Stashes, HasInput
  <2>3. NavSent(q) = <<>> \o <<>> \o <<c>> BY <1>1, <1>6, <2>2, Zenon DEF NavSent, c
  <2>4. n.sent = <<c>> BY <1>3, <2>3
  <2>5. n.stashed = FALSE BY <1>1, <1>4, <2>2
  <2> HIDE DEF n
  <2>6. n.stashed = t.runStashed BY <2>1, <2>5
  <2> QED BY <1>2, <1>3, <1>6, <1>7, <2>4, <2>6, Zenon DEF c, Departed
<1> QED BY <1>5, <1>6

\* Nothing else is to be done: the terminal is at the prompt.
Rested(t, d, u) ==
  /\ u \in TerminalRecord
  /\ u.cwd = d /\ u.atPrompt = TRUE /\ u.draining = FALSE /\ u.shown = 0
  /\ u.input = t.runStashed /\ u.snap = (IF t.runStashed THEN {} ELSE {0})
  /\ u.owner = t.owner /\ u.cmdOwner = NoPanel /\ u.target = NoDir /\ u.busy = FALSE
  /\ u.stashed = FALSE /\ u.watchdog = FALSE /\ u.repaired = t.repaired
  /\ u.run = FALSE /\ u.runStashed = FALSE
  /\ u.posted = Posted(t, d)
  /\ u.sent = (IF t.runStashed THEN <<Yank>> ELSE <<>>)

LEMMA PreCmdRests ==
  ASSUME NEW t \in TerminalRecord, Ready(t), NEW d \in Dirs, ~t.busy, t.target \in {NoDir, d}
  PROVE  Rested(t, d, HandlePreCmd(t, d))
<1> DEFINE q == RunAnswered(t, d)
           n == ApplyPending(q, d)
<1>1. /\ q \in TerminalRecord
      /\ q.cwd = d /\ q.snap = {} /\ q.cmdOwner = NoPanel /\ q.target = t.target
      /\ q.owner = t.owner
      /\ q.atPrompt = TRUE /\ q.draining = FALSE /\ q.watchdog = FALSE
      /\ q.busy = FALSE /\ q.stashed = FALSE
      /\ q.repaired = t.repaired /\ q.run = FALSE /\ q.runStashed = FALSE
      /\ q.posted = Posted(t, d)
      /\ t.runStashed => q.input = TRUE /\ q.sent = <<Yank>>
      /\ ~t.runStashed => q.input = FALSE /\ q.sent = <<>>
  <2>1. AnsweredAs(t, d, q) BY AnsweredRun, Zenon
  <2> HIDE DEF q
  <2> QED BY <2>1 DEF AnsweredAs
<1>2. HandlePreCmd(t, d) = Draws(n, 0) BY HandlePreCmdDef, Zenon DEF Ready, Fit, RunAnswered
<1> HIDE DEF q
<1>3. /\ n \in TerminalRecord
      /\ n.cwd = d /\ n.snap = {} /\ n.cmdOwner = NoPanel /\ n.target = NoDir
      /\ n.owner = t.owner
      /\ n.atPrompt = TRUE /\ n.draining = FALSE /\ n.watchdog = FALSE
      /\ n.busy = FALSE /\ n.stashed = FALSE
      /\ n.repaired = t.repaired /\ n.run = FALSE /\ n.runStashed = FALSE
      /\ n.posted = Posted(t, d) /\ n.input = q.input /\ n.sent = q.sent
  BY <1>1, ApplyPendingType
<1> HIDE DEF n
<1>4. t.runStashed \in BOOLEAN BY Zenon DEF Ready, Fit, TerminalRecord
<1>5. /\ n.input = t.runStashed
      /\ n.sent = (IF t.runStashed THEN <<Yank>> ELSE <<>>)
  BY <1>1, <1>3, <1>4, Zenon
<1>6. /\ t.runStashed => n.input
      /\ ~t.runStashed => ~n.input
  BY <1>1, <1>3, Zenon
<1>7. /\ Draws(n, 0) \in TerminalRecord /\ Draws(n, 0).shown = 0
      /\ Draws(n, 0).snap = IF t.runStashed THEN {} ELSE {0}
  BY <1>3, <1>6, DrawsType
<1> QED BY <1>2, <1>3, <1>5, <1>7, DrawsType DEF Rested


LEMMA HandlePreCmdFit ==
  ASSUME Ready(term), NEW d \in Dirs 
  PROVE  Fit(HandlePreCmd(term, d)) /\ HandlePreCmd(term, d).repaired = term.repaired
<1> DEFINE u == HandlePreCmd(term, d)
<1>0. /\ term \in TerminalRecord /\ term.runStashed \in BOOLEAN /\ term.stashed \in BOOLEAN
      /\ term.busy => term.target # NoDir
  BY DEF Ready, Fit, TerminalRecord
<1>1. CASE term.busy /\ Retries(term, d)
  <2>1. Retried(term, d, u) BY <1>0, <1>1, PreCmdRetries, Zenon
  <2> HIDE DEF u
  <2> QED BY <1>0, <1>1, <2>1, Zenon DEF Retried, Fit, u
<1>2. CASE term.busy /\ ~Retries(term, d)
  <2>1. Finished(term, d, u) BY <1>0, <1>2, PreCmdFinishes, Zenon
  <2> HIDE DEF u
  <2> QED BY <2>1, Zenon DEF Finished, Fit, u
<1>3. CASE ~term.busy /\ term.target \notin {NoDir, d}
  <2>1. Departed(term, d, u) BY <1>0, <1>3, PreCmdStarts, Zenon
  <2> HIDE DEF u
  <2> QED BY <1>3, <2>1, Zenon DEF Departed, Fit, u
<1>4. CASE ~term.busy /\ term.target \in {NoDir, d}
  <2>1. Rested(term, d, u) BY <1>0, <1>4, PreCmdRests, Zenon
  <2> HIDE DEF u
  <2> QED BY <2>1, Zenon DEF Rested, Fit, u
<1> QED BY <1>1, <1>2, <1>3, <1>4

\* What a handler leaves.
LEMMA BecomesReady ==
  ASSUME NEW t \in TerminalRecord, Fit(t), Becomes(t), posts \in Seq(PathChangedRecord)
  PROVE  /\ Ready(term)'
         /\ posts' \in Seq(PathChangedRecord) /\ posts' = posts \o t.posted
         /\ term'.cwd = t.cwd /\ term'.atPrompt = t.atPrompt /\ term'.input = t.input
         /\ term'.shown = t.shown /\ term'.snap = t.snap /\ term'.draining = t.draining
         /\ term'.owner = t.owner /\ term'.cmdOwner = t.cmdOwner /\ term'.target = t.target
         /\ term'.busy = t.busy /\ term'.lastSent = t.lastSent
         /\ term'.attempts = t.attempts /\ term'.stashed = t.stashed
         /\ term'.future = t.future /\ term'.watchdog = t.watchdog
         /\ term'.repaired = t.repaired /\ term'.run = t.run
         /\ term'.runStashed = t.runStashed
<1>1. term' = [t EXCEPT !.sent = <<>>, !.posted = <<>>] BY DEF Becomes
<1>2. posts' = posts \o t.posted BY DEF Becomes
<1>3. posts' \in Seq(PathChangedRecord)
  <2>1. t.posted \in Seq(PathChangedRecord) BY DEF TerminalRecord
  <2> QED BY <1>2, <2>1
<1>4. term' \in TerminalRecord
  <2>1. <<>> \in Seq(Inputs) /\ <<>> \in Seq(PathChangedRecord) OBVIOUS
  <2> QED BY <1>1, <2>1, ZenonT(60) DEF TerminalRecord
<1>5. /\ term'.cwd = t.cwd /\ term'.atPrompt = t.atPrompt /\ term'.input = t.input
      /\ term'.shown = t.shown /\ term'.snap = t.snap /\ term'.draining = t.draining
      /\ term'.owner = t.owner /\ term'.cmdOwner = t.cmdOwner /\ term'.target = t.target
      /\ term'.busy = t.busy /\ term'.lastSent = t.lastSent
      /\ term'.attempts = t.attempts /\ term'.stashed = t.stashed
      /\ term'.future = t.future /\ term'.watchdog = t.watchdog
      /\ term'.repaired = t.repaired /\ term'.run = t.run
      /\ term'.runStashed = t.runStashed
      /\ term'.sent = <<>> /\ term'.posted = <<>>
  BY <1>1 DEF TerminalRecord
<1>6. Ready(term)' BY <1>4, <1>5 DEF Ready, Fit
<1> QED BY <1>2, <1>3, <1>5, <1>6


-----------------------------------------------------------------------------
\* Type correctness.

WireOK ==
  /\ pty \in Seq(Inputs) /\ sendq \in Seq(Inputs) /\ out \in Seq(Report)
  /\ line \in Nat /\ ring \in Nat /\ typed \in Nat
  /\ prog \in Inputs \cup {NoProg} /\ prog.op \in {"submit", "exit", "none"}
  /\ dir \in Dirs \ Lost
  /\ hook \in BOOLEAN /\ spoilt \in BOOLEAN /\ mover \in Writers
  /\ by \in Panels \cup {NoPanel}

WidgetOK == Ready(term) /\ posts \in Seq(PathChangedRecord)

PanesOK ==
  /\ active \in Panels
  /\ path \in [Panels -> Dirs]
  /\ pending \in [Panels -> Dirs \cup {NoDir}]
  /\ changed \subseteq Panels
  /\ focus \in Seq(Panels)
  /\ lost \in BOOLEAN /\ ops \in 0..MaxOps /\ wipes \in 0..MaxWipes

TypeInv == WireOK /\ WidgetOK /\ PanesOK

LEMMA ReportTypes ==
  /\ \A d \in Dirs \ Lost : PreCmdOf(d) \in Report
  /\ \A n \in Nat : EchoOf(n) \in Report
  /\ Gone \in Report
BY DEF PreCmdOf, EchoOf, Gone, Report

LEMMA TypeInvImplies == TypeInv => TypeOK
<1> SUFFICES ASSUME TypeInv PROVE TypeOK OBVIOUS
<1>1. ShellTypeOK
  <2>1. \A r \in Report : r.kind \in {"precmd", "echo", "disconnect"} BY DEF Report, Gone
  <2>2. \A i \in DOMAIN out : out[i] \in Report BY DEF TypeInv, WireOK
  <2> QED BY <2>1, <2>2 DEF ShellTypeOK, TypeInv, WireOK
<1>2. TermTypeOK
  <2>1. Ready(term) BY DEF TypeInv, WidgetOK
  <2> QED BY <2>1 DEF TermTypeOK, Ready, Fit, TerminalRecord
<1> QED BY <1>1, <1>2 DEF TypeOK, TypeInv, PanesOK

LEMMA InitType == Init => TypeInv
<1> SUFFICES ASSUME Init PROVE TypeInv OBVIOUS
<1>1. active \in Panels BY PanesAssumption DEF Init, First
<1>2. WireOK
  <2>1. Command("init", NoDir) \in Inputs BY CommandType DEF Writers
  <2>2. prog = NoProg /\ NoProg.op = "none" BY DEF Init, TermInit, ShellInit, NoProg, Edit
  <2>3. pty \in Seq(Inputs) BY <2>1 DEF Init, TermInit, ShellInit
  <2>4. sendq \in Seq(Inputs) /\ out \in Seq(Report) BY DEF Init, TermInit, ShellInit
  <2>5. dir \in Dirs \ Lost BY DirsAssumption DEF Init, TermInit, ShellInit
  <2> QED BY <2>2, <2>3, <2>4, <2>5 DEF Init, TermInit, ShellInit, WireOK, Writers
<1>3. WidgetOK
  <2>1. term = Started(active) /\ posts = <<>> BY DEF Init, TermInit
  <2>2. term \in TerminalRecord
    <3>1. <<>> \in Seq(Inputs) /\ <<>> \in Seq(PathChangedRecord) OBVIOUS
    <3> QED BY <1>1, <2>1, <3>1 DEF TerminalRecord, Started
  <2>3. Ready(term) BY <2>1, <2>2 DEF Ready, Fit, Started
  <2> QED BY <2>1, <2>3 DEF WidgetOK
<1>4. PanesOK
  <2>1. path \in [Panels -> Dirs] BY DirsAssumption DEF Init
  <2>2. pending \in [Panels -> Dirs \cup {NoDir}] BY DEF Init
  <2>3. focus = <<>> /\ changed = {} /\ lost = FALSE BY DEF Init
  <2>4. ops \in 0..MaxOps /\ wipes \in 0..MaxWipes BY BoundsAssumption DEF Init
  <2>5. <<>> \in Seq(Panels) OBVIOUS
  <2> QED BY <1>1, <2>1, <2>2, <2>3, <2>4, <2>5 DEF PanesOK
<1> QED BY <1>2, <1>3, <1>4 DEF TypeInv

\* The shell reads, runs and reports.
LEMMA ShellType ==
  ASSUME WireOK, ShellSteps, UNCHANGED <<sendq, typed, by>> PROVE WireOK'
<1>a. ASSUME Reads
      PROVE  pty # <<>> /\ Next1 \in Inputs /\ pty' \in Seq(Inputs)
  BY <1>a DEF Reads, Next1, WireOK
<1>1. CASE EditLine
  <2>1. Reads BY <1>1 DEF EditLine
  <2>2. line' \in Nat
    BY <1>1 DEF EditLine, WireOK
  <2>3. ring' \in Nat BY <1>1 DEF EditLine, WireOK, Killed
  <2>4. out' \in Seq(Report)
    <3>1. EchoOf(line') \in Report BY <2>2, ReportTypes
    <3> QED BY <1>1, <3>1 DEF EditLine, WireOK
  <2> QED BY <1>1, <1>a, <2>1, <2>2, <2>3, <2>4 DEF EditLine, WireOK
<1>2. CASE Submit
  <2>1. Reads BY <1>2 DEF Submit
  <2>2. prog' \in Inputs /\ prog'.op \in {"submit", "exit"}
    <3>1. Command("user", NoDir) \in Inputs /\ Command("user", NoDir).op = "submit"
      BY CommandType DEF Writers, Command
    <3> QED BY <1>2, <1>a, <2>1, <3>1 DEF Submit
  <2>3. spoilt' \in BOOLEAN BY <1>2 DEF Submit, WireOK
  <2> QED BY <1>2, <1>a, <2>1, <2>2, <2>3 DEF Submit, WireOK
<1>3. CASE CommandEnds
  <2>1. prog \in Inputs BY <1>3 DEF CommandEnds, WireOK, NoProg, Edit
  <2>2. dir' \in Dirs \ Lost BY <1>3 DEF CommandEnds, WireOK
  <2>3. mover' \in Writers BY <1>3, <2>1 DEF CommandEnds, WireOK, Inputs
  <2>4. hook' \in BOOLEAN BY <1>3 DEF CommandEnds, WireOK
  <2>5. out' \in Seq(Report)
    <3>1. PreCmdOf(dir') \in Report BY <2>2, ReportTypes
    <3> QED BY <1>3, <3>1 DEF CommandEnds, WireOK
  <2>6. prog' = NoProg /\ NoProg.op = "none" BY <1>3 DEF CommandEnds, NoProg, Edit
  <2> QED BY <1>3, <2>2, <2>3, <2>4, <2>5, <2>6 DEF CommandEnds, WireOK
<1>4. CASE ShellExits
  <2>1. out' \in Seq(Report) BY <1>4, ReportTypes DEF ShellExits, WireOK
  <2> QED BY <1>4, <2>1 DEF ShellExits, WireOK
<1> QED BY <1>1, <1>2, <1>3, <1>4 DEF ShellSteps


\* What is read from the shell.
LEMMA HeadReport ==
  ASSUME WireOK, out # <<>>
  PROVE  /\ Head(out) \in Report /\ Tail(out) \in Seq(Report)
         /\ Head(out).kind = "precmd" => Head(out).dir \in Dirs \ Lost
         /\ Head(out).kind = "echo" => Head(out).len \in Nat
         /\ Head(out).kind \in {"precmd", "echo", "disconnect"}
<1>1. Head(out) \in Report /\ Tail(out) \in Seq(Report) BY DEF WireOK
<1>2. \A r \in Report : /\ r.kind = "precmd" => r.dir \in Dirs \ Lost
                        /\ r.kind = "echo" => r.len \in Nat
                        /\ r.kind \in {"precmd", "echo", "disconnect"}
  BY DEF Report, Gone
<1> QED BY <1>1, <1>2

LEMMA DrawsFit ==
  ASSUME Ready(term), NEW n \in Nat
  PROVE  LET u == Draws(term, n) IN 
         Fit(u) /\ u.sent = <<>> /\ u.posted = <<>> /\ u.repaired = term.repaired
<1>1. term \in TerminalRecord BY DEF Ready, Fit
<1> QED BY <1>1, DrawsType DEF Ready, Fit

LEMMA SentType ==
  ASSUME NEW t \in TerminalRecord, WireOK, Writes(t) PROVE pty' \in Seq(Inputs)
<1>1. t.sent \in Seq(Inputs) BY DEF TerminalRecord
<1> QED BY <1>1 DEF Writes, WireOK

LEMMA RecvType ==
  ASSUME WireOK, WidgetOK, Recv 
  PROVE  WireOK' /\ WidgetOK' /\ term'.repaired = term.repaired
<1> DEFINE m == Head(out)
           t == IF m.kind = "precmd" THEN HandlePreCmd(term, m.dir) ELSE Draws(term, m.len)
<1>1. /\ out # <<>> /\ m.kind # "disconnect" /\ Becomes(t) /\ Writes(t) /\ out' = Tail(out)
      /\ UNCHANGED <<line, ring, prog, dir, hook, mover, spoilt, sendq, typed, by>>
  BY DEF Recv
<1>2. Fit(t) /\ t.repaired = term.repaired
  <2>1. CASE m.kind = "precmd"
    <3>1. m.dir \in Dirs BY <1>1, <2>1, HeadReport
    <3>2. t = HandlePreCmd(term, m.dir) BY <2>1, Zenon
    <3> HIDE DEF t
    <3> QED BY <3>1, <3>2, HandlePreCmdFit DEF WidgetOK
  <2>2. CASE m.kind = "echo"
    <3>1. m.len \in Nat BY <1>1, <2>2, HeadReport
    <3>2. t = Draws(term, m.len) BY <2>2
    <3> HIDE DEF t
    <3> QED BY <3>1, <3>2, DrawsFit DEF WidgetOK
  <2> QED BY <1>1, <2>1, <2>2, HeadReport
<1> HIDE DEF m, t
<1>3. t \in TerminalRecord BY <1>2 DEF Fit
<1>4. WidgetOK' /\ term'.repaired = term.repaired
  BY <1>1, <1>2, <1>3, BecomesReady DEF WidgetOK
<1>5. pty' \in Seq(Inputs) BY <1>1, <1>3, SentType
<1>6. out' \in Seq(Report) BY <1>1, HeadReport
<1> QED BY <1>1, <1>4, <1>5, <1>6 DEF WireOK

LEMMA ResetType ==
  ASSUME NEW t \in TerminalRecord
  PROVE  LET u == [Reset(t) EXCEPT !.draining = TRUE, !.shown = 0] IN
         /\ u \in TerminalRecord
         /\ u.cwd = t.cwd /\ u.atPrompt = FALSE /\ u.input = FALSE /\ u.snap = {}
         /\ u.owner = t.owner /\ u.cmdOwner = NoPanel /\ u.target = NoDir
         /\ u.busy = FALSE /\ u.stashed = FALSE /\ u.watchdog = FALSE
         /\ u.repaired = FALSE /\ u.run = FALSE /\ u.runStashed = FALSE
         /\ u.draining = TRUE /\ u.shown = 0 /\ u.posted = t.posted
<1> DEFINE f == IF t.future = "pending" THEN "done" ELSE t.future
           r == Reset(t)
           u == [r EXCEPT !.draining = TRUE, !.shown = 0]
<1>1. r = [t EXCEPT !.watchdog = FALSE, !.target = NoDir, !.busy = FALSE,
                    !.stashed = FALSE, !.atPrompt = FALSE, !.repaired = FALSE,
                    !.input = FALSE, !.snap = {}, !.cmdOwner = NoPanel,
                    !.draining = FALSE, !.runStashed = FALSE, !.run = FALSE,
                    !.future = f]
  BY Zenon DEF Reset
<1>2. f \in {"none", "pending", "done"} BY DEF TerminalRecord
<1> HIDE DEF f, r
<1>3. r \in TerminalRecord BY <1>1, <1>2, ZenonT(60) DEF TerminalRecord
<1>4. /\ r.cwd = t.cwd /\ r.atPrompt = FALSE /\ r.input = FALSE /\ r.snap = {}
      /\ r.owner = t.owner /\ r.cmdOwner = NoPanel /\ r.target = NoDir
      /\ r.busy = FALSE /\ r.stashed = FALSE /\ r.watchdog = FALSE
      /\ r.repaired = FALSE /\ r.run = FALSE /\ r.runStashed = FALSE
      /\ r.posted = t.posted
  BY <1>1 DEF TerminalRecord
<1>5. u \in TerminalRecord BY <1>3, ZenonT(60) DEF TerminalRecord
<1>6. /\ u.cwd = r.cwd /\ u.atPrompt = r.atPrompt /\ u.input = r.input /\ u.snap = r.snap
      /\ u.owner = r.owner /\ u.cmdOwner = r.cmdOwner /\ u.target = r.target
      /\ u.busy = r.busy /\ u.stashed = r.stashed /\ u.watchdog = r.watchdog
      /\ u.repaired = r.repaired /\ u.run = r.run /\ u.runStashed = r.runStashed
      /\ u.draining = TRUE /\ u.shown = 0 /\ u.posted = r.posted
  BY <1>3 DEF TerminalRecord
<1> HIDE DEF u
<1>7. /\ u \in TerminalRecord
      /\ u.cwd = t.cwd /\ u.atPrompt = FALSE /\ u.input = FALSE /\ u.snap = {}
      /\ u.owner = t.owner /\ u.cmdOwner = NoPanel /\ u.target = NoDir
      /\ u.busy = FALSE /\ u.stashed = FALSE /\ u.watchdog = FALSE
      /\ u.repaired = FALSE /\ u.run = FALSE /\ u.runStashed = FALSE
      /\ u.draining = TRUE /\ u.shown = 0 /\ u.posted = t.posted
  BY <1>4, <1>5, <1>6, Zenon
<1> QED BY <1>7, Zenon DEF u, r

LEMMA RespawnType ==
  ASSUME WireOK, WidgetOK, Respawn 
  PROVE  WireOK' /\ WidgetOK' /\ posts' = posts
<1> DEFINE t == [Reset(term) EXCEPT !.draining = TRUE, !.shown = 0]
<1>1. term \in TerminalRecord /\ term.posted = <<>> BY DEF WidgetOK, Ready, Fit
<1>2. Becomes(t) BY DEF Respawn
<1>3. Fit(t) /\ t \in TerminalRecord /\ t.posted = term.posted
  BY <1>1, ResetType, Zenon DEF Fit
<1> HIDE DEF t
<1>4. WidgetOK' BY <1>2, <1>3, BecomesReady DEF WidgetOK
<1>6. posts' = posts BY <1>1, <1>2, <1>3 DEF Becomes, WidgetOK
<1>5. WireOK'
  <2>1. Command("init", NoDir) \in Inputs BY CommandType DEF Writers
  <2>2. prog' = NoProg /\ NoProg.op = "none" BY DEF Respawn, NoProg, Edit
  <2>3. pty' \in Seq(Inputs) BY <2>1 DEF Respawn
  <2>4. sendq' \in Seq(Inputs) /\ out' \in Seq(Report) BY DEF Respawn
  <2>5. dir' \in Dirs \ Lost BY DirsAssumption DEF Respawn
  <2> QED BY <2>2, <2>3, <2>4, <2>5 DEF Respawn, WireOK, Writers
<1> QED BY <1>4, <1>5, <1>6


LEMMA TimeoutType ==
  ASSUME WireOK, WidgetOK, Timeout 
  PROVE  /\ WireOK' /\ WidgetOK'
         /\ term'.repaired /\ term'.run = term.run /\ posts' = posts
<1> DEFINE off == [term EXCEPT !.watchdog = FALSE]
           again == [off EXCEPT !.repaired = TRUE,
                                !.sent = Append(@, Command("init", NoDir))]
           t == CASE ~term.busy -> off
                  [] term.busy /\ ~term.repaired -> StartNav(again)
                  [] OTHER -> FinishNav(off)
<1>1. /\ term \in TerminalRecord /\ term.sent = <<>> /\ term.posted = <<>>
      /\ term.busy => term.target # NoDir /\ ~term.run
      /\ term.stashed => term.busy
      /\ term.runStashed => term.run
      /\ term.watchdog /\ term.busy
  BY DEF WidgetOK, Ready, Fit, Timeout
<1>2. Becomes(t) /\ Writes(t) BY Zenon DEF Timeout
<1>3. Fit(t) /\ t.repaired /\ t.run = term.run /\ t.posted = <<>>
  <2>1. /\ off \in TerminalRecord /\ off.target = term.target /\ off.sent = term.sent
        /\ off.run = term.run /\ off.runStashed = term.runStashed /\ off.watchdog = FALSE
        /\ off.atPrompt = term.atPrompt /\ off.busy = term.busy
        /\ off.repaired = term.repaired /\ off.posted = term.posted
    BY <1>1, StoppedType DEF Stopped
  <2> HIDE DEF off
  <2>2. CASE ~term.repaired
    <3>1. Append(off.sent, Command("init", NoDir)) \in Seq(Inputs)
      <4>1. Command("init", NoDir) \in Inputs BY CommandType DEF Writers
      <4>2. off.sent \in Seq(Inputs) BY <2>1 DEF TerminalRecord
      <4> QED BY <4>1, <4>2
    <3> DEFINE s == Append(off.sent, Command("init", NoDir))
    <3> HIDE DEF s
    <3>2. again = [off EXCEPT !.repaired = TRUE, !.sent = s] BY Zenon DEF s
    <3>3. again \in TerminalRecord /\ again.target = off.target
          /\ again.run = off.run /\ again.runStashed = off.runStashed
          /\ again.repaired = TRUE /\ again.posted = off.posted
      <4>1. again \in TerminalRecord BY <2>1, <3>1, <3>2, ZenonT(60) DEF TerminalRecord, s
      <4>2. /\ again.target = off.target
            /\ again.run = off.run /\ again.runStashed = off.runStashed
            /\ again.repaired = TRUE /\ again.posted = off.posted
        BY <2>1, <3>2 DEF TerminalRecord
      <4> QED BY <4>1, <4>2
    <3> HIDE DEF again
    <3>4. t = StartNav(again)
      <4>1. term.busy /\ ~term.repaired BY <1>1, <2>2
      <4> QED BY <4>1, Zenon
    <3> HIDE DEF t
    <3>5. /\ t \in TerminalRecord /\ t.atPrompt = FALSE /\ t.busy = TRUE
          /\ t.target = again.target /\ t.run = again.run
          /\ t.runStashed = again.runStashed /\ t.repaired = again.repaired
          /\ t.posted = again.posted
      <4>1. again.target # NoDir BY <1>1, <2>1, <3>3
      <4> QED BY <3>3, <3>4, <4>1, StartNavType
    <3> QED BY <1>1, <2>1, <3>3, <3>5, Zenon DEF Fit
  <2>3. CASE term.repaired
    <3>1. t = FinishNav(off)
      <4>1. term.busy /\ term.repaired BY <1>1, <2>3
      <4> QED BY <4>1, Zenon
    <3> HIDE DEF t
    <3>2. /\ t \in TerminalRecord /\ t.atPrompt = off.atPrompt /\ t.busy = FALSE
          /\ t.watchdog = off.watchdog /\ t.stashed = FALSE /\ t.target = NoDir
          /\ t.draining = FALSE /\ t.run = off.run /\ t.runStashed = off.runStashed
          /\ t.repaired = TRUE /\ t.posted = off.posted
      BY <2>1, <2>3, <3>1, FinishNavType
    <3> QED BY <1>1, <2>1, <3>2, Zenon DEF Fit
  <2> QED BY <2>2, <2>3
<1> HIDE DEF t
<1>4. t \in TerminalRecord BY <1>3 DEF Fit
<1>5. WidgetOK' /\ term'.repaired /\ term'.run = term.run
  BY <1>2, <1>3, <1>4, BecomesReady DEF WidgetOK
<1>6. pty' \in Seq(Inputs) BY <1>2, <1>4, SentType
<1>7. posts' = posts BY <1>2, <1>3 DEF Becomes, WidgetOK
<1> QED BY <1>5, <1>6, <1>7 DEF WireOK, Timeout

LEMMA ForwardType ==
  ASSUME WireOK, WidgetOK, Forward 
  PROVE  WireOK' /\ WidgetOK' /\ term' = term
<1>1. Head(sendq) \in Inputs /\ Tail(sendq) \in Seq(Inputs) BY DEF Forward, WireOK
<1>2. pty' \in Seq(Inputs) /\ sendq' \in Seq(Inputs) BY <1>1 DEF Forward, WireOK
<1> QED BY <1>2 DEF Forward, WireOK, WidgetOK, Ready

\* The terminal is asked for a directory.
LEMMA RequestCdType ==
  ASSUME WireOK, WidgetOK, NEW d \in Dirs, NEW p \in Panels, RequestCd(d, p)
  PROVE  /\ WireOK' /\ WidgetOK' /\ posts' = posts
         /\ term'.repaired = term.repaired /\ term'.run = term.run
<1> DEFINE o == [term EXCEPT !.owner = p]
           t == Request(o, d)
           r == [o EXCEPT !.target = d, !.future = "pending"]
<1>1. /\ term \in TerminalRecord /\ Fit(term) /\ term.posted = <<>>
      /\ Becomes(t) /\ Writes(t) /\ UNCHANGED <<shellKept, sendq, typed, by>>
  BY DEF WidgetOK, Ready, Fit, RequestCd
<1>2. /\ o \in TerminalRecord
      /\ o.cwd = term.cwd /\ o.atPrompt = term.atPrompt /\ o.input = term.input
      /\ o.shown = term.shown /\ o.snap = term.snap /\ o.draining = term.draining
      /\ o.cmdOwner = term.cmdOwner /\ o.target = term.target
      /\ o.busy = term.busy /\ o.stashed = term.stashed /\ o.watchdog = term.watchdog
      /\ o.repaired = term.repaired /\ o.run = term.run /\ o.runStashed = term.runStashed
      /\ o.sent = term.sent /\ o.posted = term.posted
  <2>1. o \in TerminalRecord BY <1>1, ZenonT(60) DEF TerminalRecord
  <2> QED BY <1>1, <2>1 DEF TerminalRecord
<1> HIDE DEF o
<1>3. Fit(o) BY <1>1, <1>2, Zenon DEF Fit
<1>4. /\ \/ t = o
         \/ t = r /\ (o.busy \/ ~o.atPrompt)
         \/ t = StartNav(r) /\ ~o.busy /\ o.atPrompt
      /\ r \in TerminalRecord /\ r.atPrompt = o.atPrompt /\ r.target = d
      /\ r.busy = o.busy /\ r.stashed = o.stashed /\ r.watchdog = o.watchdog
      /\ r.posted = o.posted /\ r.repaired = o.repaired /\ r.run = o.run
      /\ r.runStashed = o.runStashed /\ r.draining = o.draining
  BY <1>2, RequestType
<1> HIDE DEF r, t
<1>5. d # NoDir BY DirsAssumption
<1>6. Fit(t) /\ t.posted = term.posted /\ t.repaired = term.repaired /\ t.run = term.run
  <2>1. CASE t = o BY <1>2, <1>3, <2>1
  <2>2. CASE t = r /\ (o.busy \/ ~o.atPrompt) BY <1>2, <1>3, <1>4, <1>5, <2>2, Zenon DEF Fit
  <2>3. CASE t = StartNav(r) /\ ~o.busy /\ o.atPrompt
    <3>1. /\ t \in TerminalRecord /\ t.atPrompt = FALSE /\ t.busy = TRUE
          /\ t.target = r.target /\ t.posted = r.posted /\ t.repaired = r.repaired
          /\ t.run = r.run /\ t.runStashed = r.runStashed
      BY <1>4, <1>5, <2>3, StartNavType
    <3> QED BY <1>2, <1>3, <1>4, <1>5, <2>3, <3>1, Zenon DEF Fit
  <2> QED BY <1>4, <2>1, <2>2, <2>3
<1>7. t \in TerminalRecord BY <1>6 DEF Fit
<1>8. WidgetOK' /\ term'.repaired = term.repaired /\ term'.run = term.run
  BY <1>1, <1>6, <1>7, BecomesReady DEF WidgetOK
<1>9. pty' \in Seq(Inputs) BY <1>1, <1>7, SentType
<1>10. posts' = posts BY <1>1, <1>6 DEF Becomes, WidgetOK
<1> QED BY <1>1, <1>8, <1>9, <1>10 DEF WireOK, shellKept


\* The user types, submits, or has the menu run a command.
LEMMA TypeType ==
  ASSUME WireOK, WidgetOK, NEW op \in {Key, Erase}, Type(op)
  PROVE  WireOK' /\ WidgetOK' /\ term'.repaired = term.repaired /\ term'.run = term.run
<1>1. typed' \in Nat
  <2>1. Key # Erase BY DEF Key, Erase, Edit
  <2> QED BY <2>1 DEF Type, WireOK
<1>2. sendq' \in Seq(Inputs) BY EditTypes DEF Type, WireOK
<1>3. Ready(term)' /\ term'.repaired = term.repaired /\ term'.run = term.run
  <2>1. term \in TerminalRecord /\ term' = [term EXCEPT !.input = TRUE]
    BY DEF Type, WidgetOK, Ready, Fit
  <2>2. term' \in TerminalRecord BY <2>1, ZenonT(60) DEF TerminalRecord
  <2>3. /\ term'.atPrompt = term.atPrompt /\ term'.draining = term.draining
        /\ term'.target = term.target /\ term'.busy = term.busy
        /\ term'.stashed = term.stashed /\ term'.watchdog = term.watchdog
        /\ term'.run = term.run /\ term'.runStashed = term.runStashed
        /\ term'.sent = term.sent /\ term'.posted = term.posted
        /\ term'.repaired = term.repaired
    BY <2>1 DEF TerminalRecord
  <2> QED BY <2>2, <2>3, Zenon DEF WidgetOK, Ready, Fit
<1> QED BY <1>1, <1>2, <1>3 DEF Type, WireOK, WidgetOK, shellKept

LEMMA EnterType ==
  ASSUME WireOK, WidgetOK, NEW c \in Inputs, Enter(c)
  PROVE  WireOK' /\ WidgetOK' /\ term'.repaired = term.repaired /\ term'.run = term.run
<1>1. term \in TerminalRecord BY DEF WidgetOK, Ready, Fit
<1>2. term.owner \in Panels BY <1>1 DEF TerminalRecord
<1>3. term' = [term EXCEPT !.input = TRUE, !.atPrompt = FALSE, !.cmdOwner = term.owner]
  BY DEF Enter
<1>4. term' \in TerminalRecord BY <1>1, <1>2, <1>3, ZenonT(60) DEF TerminalRecord
<1>5. /\ term'.atPrompt = FALSE /\ term'.target = term.target /\ term'.busy = term.busy
      /\ term'.stashed = term.stashed /\ term'.watchdog = term.watchdog
      /\ term'.run = term.run /\ term'.runStashed = term.runStashed
      /\ term'.sent = term.sent /\ term'.posted = term.posted
      /\ term'.repaired = term.repaired
  BY <1>1, <1>3 DEF TerminalRecord
<1>6. Ready(term)' BY <1>4, <1>5, Zenon DEF WidgetOK, Ready, Fit
<1>7. sendq' \in Seq(Inputs) /\ by' \in Panels \cup {NoPanel} /\ typed' \in Nat
  BY <1>2 DEF Enter, WireOK
<1> QED BY <1>5, <1>6, <1>7 DEF Enter, WireOK, WidgetOK, shellKept

\* run_command() as a handler of the attributes.
Ran(t, d) ==
  [t EXCEPT !.run = TRUE, !.runStashed = HasInput(t), !.atPrompt = FALSE,
            !.cmdOwner = t.owner,
            !.sent = (IF HasInput(t) THEN <<Kill>> ELSE <<>>) \o <<Command("run", d)>>]

RanAs(t, d, u) ==
  /\ u \in TerminalRecord
  /\ u.cwd = t.cwd /\ u.atPrompt = FALSE /\ u.target = t.target
  /\ u.cmdOwner = t.owner /\ u.busy = t.busy /\ u.stashed = t.stashed
  /\ u.watchdog = t.watchdog /\ u.repaired = t.repaired
  /\ u.run = TRUE /\ u.runStashed = HasInput(t)
  /\ u.posted = t.posted /\ u.owner = t.owner
  /\ HasInput(t) => u.sent = <<Kill, Command("run", d)>>
  /\ ~HasInput(t) => u.sent = <<Command("run", d)>>

LEMMA RanType ==
  ASSUME NEW t \in TerminalRecord, NEW d \in Dirs PROVE RanAs(t, d, Ran(t, d))
<1> DEFINE s == (IF HasInput(t) THEN <<Kill>> ELSE <<>>) \o <<Command("run", d)>>
           u == Ran(t, d)
<1>1. u = [t EXCEPT !.run = TRUE, !.runStashed = HasInput(t), !.atPrompt = FALSE,
                    !.cmdOwner = t.owner, !.sent = s]
  BY Zenon DEF Ran
<1>2. Command("run", d) \in Inputs BY CommandType DEF Writers
<1>3. HasInput(t) \in BOOLEAN BY DEF HasInput, TerminalRecord
<1>4. s \in Seq(Inputs) BY <1>2, EditTypes
<1>5. /\ HasInput(t) => s = <<Kill, Command("run", d)>>
      /\ ~HasInput(t) => s = <<Command("run", d)>>
  <2>1. <<Kill>> \o <<Command("run", d)>> = <<Kill, Command("run", d)>> BY PairOf, Zenon
  <2>2. <<>> \o <<Command("run", d)>> = <<Command("run", d)>> OBVIOUS
  <2> QED BY <2>1, <2>2, Zenon
<1>6. t.owner \in Panels BY DEF TerminalRecord
<1> HIDE DEF s, u
<1>7. u \in TerminalRecord BY <1>1, <1>3, <1>4, <1>6, ZenonT(60) DEF TerminalRecord
<1>8. /\ u.cwd = t.cwd /\ u.atPrompt = FALSE /\ u.target = t.target
      /\ u.cmdOwner = t.owner /\ u.busy = t.busy /\ u.stashed = t.stashed
      /\ u.watchdog = t.watchdog /\ u.repaired = t.repaired
      /\ u.run = TRUE /\ u.runStashed = HasInput(t) /\ u.posted = t.posted /\ u.sent = s
      /\ u.owner = t.owner
  BY <1>1 DEF TerminalRecord
<1>9. RanAs(t, d, u) BY <1>5, <1>7, <1>8, Zenon DEF RanAs
<1> QED BY <1>9 DEF u

LEMMA RunCommandDef ==
  ASSUME NEW d, RunCommand(d)
  PROVE  /\ CanRun /\ MayRequest /\ Becomes(Ran(term, d)) /\ Writes(Ran(term, d))
         /\ by' = term.owner /\ UNCHANGED <<shellKept, sendq, typed>>
BY Zenon DEF RunCommand, Ran

LEMMA RunCommandType ==
  ASSUME WireOK, WidgetOK, NEW d \in Dirs, RunCommand(d)
  PROVE  /\ WireOK' /\ WidgetOK' /\ posts' = posts
         /\ term'.repaired = term.repaired /\ term'.run = TRUE
<1> DEFINE t == Ran(term, d)
<1>1. term \in TerminalRecord /\ term.owner \in Panels
  BY DEF WidgetOK, Ready, Fit, TerminalRecord
<1>2. RanAs(term, d, t) BY <1>1, RanType, Zenon
<1>3. /\ CanRun /\ Becomes(t) /\ Writes(t)
      /\ by' = term.owner /\ UNCHANGED <<shellKept, sendq, typed>>
  BY RunCommandDef
<1> HIDE DEF t
<1>4. t \in TerminalRecord BY <1>2 DEF RanAs
<1>5. Fit(t) BY <1>2, <1>3, Zenon DEF RanAs, Fit, CanRun, WidgetOK, Ready
<1>6. WidgetOK' /\ term'.repaired = t.repaired /\ term'.run = t.run
  BY <1>3, <1>4, <1>5, BecomesReady DEF WidgetOK
<1>8. t.repaired = term.repaired /\ t.run = TRUE /\ t.posted = term.posted
  BY <1>2 DEF RanAs
<1>9. posts' = posts BY <1>3, <1>8 DEF Becomes, WidgetOK, Ready
<1>7. pty' \in Seq(Inputs) BY <1>3, <1>4, SentType
<1> QED BY <1>1, <1>3, <1>6, <1>7, <1>8, <1>9 DEF WireOK, shellKept


\* The panels: only their own variables are new, the rest is RequestCd.
LEMMA OtherType == ASSUME active \in Panels PROVE Other \in Panels
BY PanesAssumption DEF Other

LEMMA SetPathType ==
  ASSUME PanesOK, NEW p \in Panels, NEW d \in Dirs, SetPath(p, d)
  PROVE  pending' \in [Panels -> Dirs \cup {NoDir}]
BY DEF SetPath, PanesOK

LEMMA PanelsStepType ==
  ASSUME TypeInv, [Next]_vars PROVE TypeInv'
<1>1. WireOK /\ WidgetOK /\ PanesOK BY DEF TypeInv
<1>d. \A p \in Panels : path[p] \in Dirs BY <1>1 DEF PanesOK
<1>2. CASE User
  <2>1. ops' \in 0 .. MaxOps BY <1>1, <1>2, BoundsAssumption DEF User, PanesOK
  <2>2. CASE TogglePanels
    <3>1. Other \in Panels BY <1>1, OtherType DEF PanesOK
    <3>2. RequestCd(path[Other], Other) BY <2>2 DEF TogglePanels, SyncTerminal
    <3>3. WireOK' /\ WidgetOK' BY <1>1, <1>d, <3>1, <3>2, RequestCdType
    <3>4. focus' \in Seq(Panels) BY <1>1, <2>2, <3>1 DEF TogglePanels, PanesOK
    <3> QED BY <1>1, <2>1, <2>2, <3>1, <3>3, <3>4 DEF TogglePanels, PanesOK, TypeInv
  <2>3. CASE \E d \in Dirs : Browse(d)
    <3>1. pending' \in [Panels -> Dirs \cup {NoDir}]
      BY <1>1, <2>3, SetPathType DEF Browse, PanesOK
    <3>2. WireOK' /\ WidgetOK'
      BY <1>1, <2>3 DEF Browse, shellVars, termVars, WireOK, WidgetOK, Ready
    <3> QED BY <1>1, <2>1, <2>3, <3>1, <3>2 DEF Browse, PanesOK, TypeInv
  <2>4. CASE Types
    <3>1. \E op \in {Key, Erase} : Type(op) BY <2>4 DEF Types
    <3>2. WireOK' /\ WidgetOK' BY <1>1, <3>1, TypeType
    <3> QED BY <1>1, <2>1, <2>4, <3>2 DEF Types, panelVars, PanesOK, TypeInv
  <2>5. CASE Submits \/ Exits
    <3>1. \A d \in Dirs \cup {NoDir} : Command("user", d) \in Inputs
      BY CommandType DEF Writers
    <3>2. \E c \in Inputs : Enter(c) BY <2>5, <3>1, EditTypes DEF Submits, Exits
    <3>3. WireOK' /\ WidgetOK' BY <1>1, <3>2, EnterType
    <3> QED BY <1>1, <2>1, <2>5, <3>3 DEF Submits, Exits, panelVars, PanesOK, TypeInv
  <2>6. CASE Runs
    <3>1. RunCommand(path[active]) /\ path[active] \in Dirs
      BY <1>1, <1>d, <2>6 DEF Runs, PanesOK
    <3>2. WireOK' /\ WidgetOK' BY <1>1, <3>1, RunCommandType
    <3> QED BY <1>1, <2>1, <2>6, <3>2 DEF Runs, panelVars, PanesOK, TypeInv
  <2> QED BY <1>2, <2>2, <2>3, <2>4, <2>5, <2>6 DEF User
<1>3. CASE Wipe
  <2>1. wipes' \in 0 .. MaxWipes BY <1>1, <1>3, BoundsAssumption DEF Wipe, PanesOK
  <2>2. WireOK' BY <1>1, <1>3 DEF Wipe, termVars, WireOK
  <2>3. WidgetOK' BY <1>1, <1>3 DEF Wipe, termVars, WidgetOK, Ready
  <2> QED BY <1>1, <1>3, <2>1, <2>2, <2>3 DEF Wipe, panelVars, PanesOK, TypeInv
<1>4. CASE Shells
  <2>1. WireOK' BY <1>1, <1>4, ShellType DEF Shells, termVars
  <2>2. WidgetOK' BY <1>1, <1>4 DEF Shells, termVars, WidgetOK, Ready
  <2> QED BY <1>1, <1>4, <2>1, <2>2 DEF Shells, panelVars, PanesOK, TypeInv
<1>5. CASE Widget
  <2>1. WireOK' /\ WidgetOK'
    BY <1>1, <1>5, RecvType, TimeoutType, ForwardType, RespawnType DEF Widget
  <2>2. lost' \in BOOLEAN
    <3>1. term \in TerminalRecord /\ term' \in TerminalRecord
      BY <1>1, <2>1 DEF WidgetOK, Ready, Fit
    <3> QED BY <1>1, <1>5, <3>1 DEF Widget, PanesOK, Drops, TerminalRecord
  <2> QED BY <1>1, <1>5, <2>1, <2>2 DEF Widget, panelVars, PanesOK, TypeInv
<1>6. CASE Host
  <2>1. CASE Focused
    <3>1. Head(focus) \in Panels /\ Tail(focus) \in Seq(Panels)
      BY <1>1, <2>1 DEF Focused, PanesOK
    <3>2. RequestCd(path[Head(focus)], Head(focus)) BY <2>1 DEF Focused, SyncTerminal
    <3>3. WireOK' /\ WidgetOK' BY <1>1, <1>d, <3>1, <3>2, RequestCdType
    <3> QED BY <1>1, <2>1, <3>1, <3>3 DEF Focused, PanesOK, TypeInv
  <2>2. CASE TerminalPathChanged
    <3>1. Head(posts) \in PathChangedRecord /\ Tail(posts) \in Seq(PathChangedRecord)
      BY <1>1, <2>2 DEF TerminalPathChanged, WidgetOK
    <3>2. Follower(Head(posts)) \in Panels /\ Head(posts).dir \in Dirs
      BY <1>1, <3>1 DEF Follower, PathChangedRecord, PanesOK
    <3>3. pending' \in [Panels -> Dirs \cup {NoDir}]
      BY <1>1, <2>2, <3>2, SetPathType DEF TerminalPathChanged
    <3>4. WireOK' BY <1>1, <2>2 DEF TerminalPathChanged, shellVars, WireOK
    <3>5. WidgetOK' BY <1>1, <2>2, <3>1 DEF TerminalPathChanged, WidgetOK, Ready
    <3> QED BY <1>1, <2>2, <3>3, <3>4, <3>5 DEF TerminalPathChanged, PanesOK, TypeInv
  <2>3. CASE \E p \in Panels : Load(p)
    <3>1. WireOK' /\ WidgetOK'
      BY <1>1, <2>3 DEF Load, shellVars, termVars, WireOK, WidgetOK, Ready
    <3>2. path' \in [Panels -> Dirs] /\ pending' \in [Panels -> Dirs \cup {NoDir}]
      BY <1>1, <2>3 DEF Load, PanesOK
    <3> QED BY <1>1, <2>3, <3>1, <3>2 DEF Load, PanesOK, TypeInv
  <2>4. CASE \E p \in Panels : PathChangedOf(p)
    <3>1. RequestCd(path[active], active) /\ active \in Panels /\ path[active] \in Dirs
      BY <1>1, <1>d, <2>4 DEF PathChangedOf, SyncTerminal, PanesOK
    <3>2. WireOK' /\ WidgetOK' BY <1>1, <3>1, RequestCdType
    <3> QED BY <1>1, <2>4, <3>2 DEF PathChangedOf, PanesOK, TypeInv
  <2> QED BY <1>6, <2>1, <2>2, <2>3, <2>4 DEF Host
<1>7. CASE UNCHANGED vars
  <2>1. WireOK' /\ WidgetOK'
    BY <1>1, <1>7 DEF vars, shellVars, termVars, WireOK, WidgetOK, Ready
  <2> QED BY <1>1, <1>7, <2>1 DEF vars, panelVars, PanesOK, TypeInv
<1> QED BY <1>2, <1>3, <1>4, <1>5, <1>6, <1>7 DEF Next

LEMMA TypeInvariant == Spec => []TypeInv
<1>1. Init => TypeInv BY InitType
<1>2. TypeInv /\ [Next]_vars => TypeInv' BY PanelsStepType
<1> QED BY <1>1, <1>2, PTL DEF Spec

\* What the widget, the shell and the panels hold is always of its type: nothing a
\* handler writes or posts is left behind in the widget, a transaction has a target
\* and its watchdog runs only with one (terminal.py:941-1013).
THEOREM PanelsTypeCorrect == Spec => []TypeOK
<1>1. TypeInv => TypeOK BY TypeInvImplies
<1> QED BY <1>1, TypeInvariant, PTL


-----------------------------------------------------------------------------
(***************************************************************************)
(* The patient user (Habits = {}), until the hook is repaired: at most one *)
(* command is between the widget and its report, with at most a yank and a *)
(* kill before it, and what is typed is on the line, in the ring for it, or *)
(* on its way.                                                             *)
(***************************************************************************)

Echoes == out = <<>> \/ \E n \in Nat : out = <<EchoOf(n)>>
EchoThen(m) == out = <<m>> \/ \E n \in Nat : out = <<EchoOf(n), m>>

Quiet == sendq = <<>> /\ pty = <<>> /\ prog = NoProg

Held == term.stashed \/ term.runStashed
Stashed == IF Held THEN ring = typed ELSE typed = 0

\* Nothing is on its way but an echo. A run that is still awaited lost its report.
Idle ==
  /\ Quiet /\ Echoes
  /\ term.run => ~hook
  /\ ~term.busy /\ ~term.run => line = typed

\* A key was typed and has not reached the line.
KeyComing ==
  /\ out = <<>> /\ prog = NoProg /\ ~term.busy
  /\ \E k \in {Key, Erase} :
       /\ (sendq = <<k>> /\ pty = <<>>) \/ (sendq = <<>> /\ pty = <<k>>)
       /\ ~term.run => IF k = Key THEN typed = line + 1 ELSE line = typed + 1
  /\ term.run => ~hook

\* The text that was stashed has not been yanked back.
YankComing ==
  /\ sendq = <<>> /\ pty = <<Yank>> /\ prog = NoProg /\ out = <<>>
  /\ line = 0 /\ ring = typed /\ ~term.busy /\ ~term.run

CommandWaits(c) ==
  sendq = <<c>> /\ pty = <<>> /\ prog = NoProg /\ out = <<>> /\ c.by = "user"

CommandComing(c) ==
  /\ sendq = <<>> /\ prog = NoProg
  /\ \/ pty = <<c>> /\ Echoes /\ (c.by # "user" => line = 0 /\ Stashed)
     \/ pty = <<Kill, c>> /\ Echoes /\ c.by # "user" /\ Held /\ line = typed
     \/ pty = <<Yank, Kill, c>> /\ out = <<>> /\ c.by # "user" /\ Held
          /\ line = 0 /\ ring = typed

CommandRuns(c) ==
  /\ sendq = <<>> /\ pty = <<>> /\ prog = c
  /\ Echoes \/ (c.op = "exit" /\ EchoThen(Gone))
  /\ line = 0 /\ (c.by # "user" => Stashed)

\* Whose command it is shows in the attributes of the widget.
Owned(c) ==
  /\ c.op \in {"submit", "exit"} /\ (c.op = "exit" => c.by = "user")
  /\ c.by \in {"user", "init"} => ~term.busy /\ (term.run => ~hook)
  /\ c.by = "user" => typed = 0
  /\ c.by = "nav" => term.busy
  /\ c.by = "run" => term.run
  /\ c.by = "init" => ~term.run
  /\ c.by \in {"user", "run"} => term.cmdOwner = by

Outstanding ==
  /\ ~term.atPrompt
  /\ \E c \in Inputs :
       Owned(c) /\ (CommandWaits(c) \/ CommandComing(c) \/ CommandRuns(c))

Reported ==
  /\ ~term.atPrompt /\ Quiet /\ EchoThen(PreCmdOf(dir))
  /\ line = 0 /\ Stashed

\* has_input() says no only when the line is empty and nothing is coming to it.
AtThePrompt ==
  term.atPrompt =>
    /\ term.cwd = dir
    /\ ~term.input => Quiet /\ out = <<>> /\ line = 0
    /\ pty = <<Yank>> => term.input /\ term.snap = {}
    /\ term.snap # {} =>
         /\ term.snap = {0}
         /\ Quiet => out = <<EchoOf(line)>> \/ (out = <<>> /\ term.shown = line)

\* The shell is where it last reported to be, unless a command moved it that the
\* widget knows of.
Moved ==
  /\ mover = "nav" => term.busy \/ dir = term.cwd
  /\ mover \in {"user", "run"} /\ dir # term.cwd => term.cmdOwner = by

Phases == Idle \/ KeyComing \/ YankComing \/ Outstanding \/ Reported

Orderly == ~spoilt /\ Phases /\ AtThePrompt /\ Moved

PatientInv == TypeInv /\ (Habits = {} /\ ~term.repaired => Orderly)

\* Sequences of one, two and three.
LEMMA One ==
  \A a : /\ <<a>> # <<>> /\ Head(<<a>>) = a /\ Tail(<<a>>) = <<>>
         /\ Append(<<>>, a) = <<a>> /\ <<>> \o <<a>> = <<a>>
OBVIOUS

LEMMA Two ==
  \A a, b : /\ <<a, b>> # <<>> /\ Head(<<a, b>>) = a /\ Tail(<<a, b>>) = <<b>>
            /\ Append(<<a>>, b) = <<a, b>> /\ <<a>> \o <<b>> = <<a, b>>
<1>1. \A a, b : <<a, b>> # <<>> /\ Head(<<a, b>>) = a /\ Tail(<<a, b>>) = <<b>> OBVIOUS
<1> QED BY <1>1, PairOf, Zenon

LEMMA Three ==
  \A a, b, c : /\ <<a, b, c>> # <<>> /\ Head(<<a, b, c>>) = a
               /\ Tail(<<a, b, c>>) = <<b, c>> /\ <<a>> \o <<b, c>> = <<a, b, c>>
<1>1. \A a, b, c : <<a, b, c>> # <<>> /\ Head(<<a, b, c>>) = a /\ Tail(<<a, b, c>>) = <<b, c>>
  OBVIOUS
<1>2. ASSUME NEW a, NEW b, NEW c PROVE <<a>> \o <<b, c>> = <<a, b, c>> BY TripleOf, Zenon
<1> QED BY <1>1, <1>2

LEMMA Ops ==
  /\ Key.op = "key" /\ Erase.op = "erase" /\ Kill.op = "kill" /\ Yank.op = "yank"
  /\ Exit.op = "exit" /\ Exit.by = "user" /\ NoProg.op = "none" /\ NoProg.by = "nav"
  /\ Key.by = "nav" /\ Erase.by = "nav" /\ Kill.by = "nav" /\ Yank.by = "nav"
BY DEF Key, Erase, Kill, Yank, Exit, NoProg, Edit

LEMMA Kinds ==
  /\ \A n : EchoOf(n).kind = "echo" /\ EchoOf(n).len = n
  /\ \A d : PreCmdOf(d).kind = "precmd" /\ PreCmdOf(d).dir = d
  /\ Gone.kind = "disconnect"
BY DEF EchoOf, PreCmdOf, Gone

LEMMA InitOrderly == Init => Orderly
<1> SUFFICES ASSUME Init PROVE Orderly OBVIOUS
<1>1. /\ pty = <<Command("init", NoDir)>> /\ out = <<>> /\ sendq = <<>> /\ prog = NoProg
      /\ line = 0 /\ ring = 0 /\ typed = 0 /\ mover = "init" /\ spoilt = FALSE
      /\ term = Started(active)
  BY DEF Init, TermInit, ShellInit
<1>2. /\ term.atPrompt = FALSE /\ term.busy = FALSE /\ term.run = FALSE
      /\ term.stashed = FALSE /\ term.runStashed = FALSE
  BY <1>1 DEF Started
<1> DEFINE c == Command("init", NoDir)
<1>3. c \in Inputs /\ c.op = "submit" /\ c.by = "init" BY CommandType DEF Writers, Command
<1> HIDE DEF c
<1>4. Owned(c) BY <1>2, <1>3 DEF Owned
<1>5. CommandComing(c) BY <1>1, <1>2 DEF CommandComing, Echoes, Stashed, Held, c
<1> QED BY <1>1, <1>2, <1>3, <1>4, <1>5 DEF Orderly, Phases, Outstanding, AtThePrompt, Moved

\* The line editor.
LEMMA EditLineOrderly ==
  ASSUME TypeInv, Orderly, EditLine, UNCHANGED termVars PROVE Orderly'
<1>1. /\ prog = NoProg /\ pty # <<>> /\ pty' = Tail(pty)
      /\ Head(pty).op \in {"key", "erase", "kill", "yank"}
      /\ UNCHANGED <<prog, dir, hook, mover, spoilt>>
      /\ UNCHANGED <<term, sendq, posts, typed, by>>
  BY DEF EditLine, Reads, AtPrompt, Next1, termVars
<1>2. /\ line \in Nat /\ ring \in Nat /\ typed \in Nat
  BY DEF TypeInv, WireOK
<1>3. Moved' BY <1>1 DEF Orderly, Moved
<1>4. ~spoilt' BY <1>1 DEF Orderly
<1>5. CASE KeyComing
  <2>1. PICK k \in {Key, Erase} :
          /\ sendq = <<>> /\ pty = <<k>>
          /\ ~term.run => IF k = Key THEN typed = line + 1 ELSE line = typed + 1
    BY <1>1, <1>5 DEF KeyComing
  <2>2. Head(pty) = k /\ pty' = <<>> BY <1>1, <2>1, One, Zenon
  <2>3. out' = Append(out, EchoOf(line'))
    BY <2>2, Ops DEF EditLine, Next1
  <2>4. out' = <<EchoOf(line')>> BY <1>5, <2>3, One DEF KeyComing
  <2>5. line' = IF k = Key THEN line + 1 ELSE IF line = 0 THEN 0 ELSE line - 1
    BY <2>2, Ops DEF EditLine, Next1
  <2>6. line' \in Nat /\ (~term.run => line' = typed) BY <1>2, <2>1, <2>5
  <2>7. Idle' BY <1>1, <1>5, <2>1, <2>2, <2>4, <2>6 DEF Idle, Quiet, Echoes, KeyComing
  <2>8. AtThePrompt'
    <3>1. ~Quiet BY <1>1 DEF Quiet
    <3>2. pty' # <<Yank>> BY <2>2, One
    <3> QED BY <1>1, <2>4, <3>1, <3>2 DEF Orderly, AtThePrompt
  <2> QED BY <1>3, <1>4, <2>7, <2>8 DEF Orderly, Phases
<1>6. CASE YankComing
  <2>1. Head(pty) = Yank /\ pty' = <<>> BY <1>1, <1>6, One, Zenon DEF YankComing
  <2>2. out' = Append(out, EchoOf(line')) /\ line' = line + ring
    BY <2>1, Ops DEF EditLine, Next1
  <2>3. out' = <<EchoOf(line')>> /\ line' = typed /\ line' \in Nat
    BY <1>2, <1>6, <2>2, One DEF YankComing
  <2>4. Idle' BY <1>1, <1>6, <2>1, <2>3 DEF Idle, Quiet, Echoes, YankComing
  <2>5. AtThePrompt'
    BY <1>1, <1>6, <2>1, <2>3, One DEF Orderly, AtThePrompt, YankComing, Quiet
  <2> QED BY <1>3, <1>4, <2>4, <2>5 DEF Orderly, Phases
<1>7. CASE Outstanding
  <2>1. PICK c \in Inputs :
          Owned(c) /\ (CommandWaits(c) \/ CommandComing(c) \/ CommandRuns(c))
    BY <1>7 DEF Outstanding
  <2>2. CommandComing(c) BY <1>1, <2>1 DEF CommandWaits, CommandRuns
  <2>3. AtThePrompt' BY <1>1, <1>7 DEF AtThePrompt, Outstanding
  <2>4. Owned(c)' BY <1>1, <2>1 DEF Owned
  <2>5. CommandComing(c)'
    <3>1. CASE pty = <<c>> BY <1>1, <2>1, <3>1, One DEF Owned
    <3>2. CASE pty = <<Kill, c>> /\ Echoes /\ c.by # "user" /\ Held /\ line = typed
      <4>1. Head(pty) = Kill /\ pty' = <<c>> BY <1>1, <3>2, Two, Zenon
      <4>2. line' = 0 /\ ring' = line /\ out' = out
        BY <4>1, Ops DEF EditLine, Next1, Killed
      <4> QED BY <1>1, <2>2, <3>2, <4>1, <4>2 DEF CommandComing, Echoes, Stashed, Held
    <3>3. CASE pty = <<Yank, Kill, c>> /\ out = <<>> /\ c.by # "user" /\ Held
                 /\ line = 0 /\ ring = typed
      <4>0. pty = <<Yank, Kill, c>> /\ pty' = Tail(pty) BY <1>1, <3>3
      <4>1. Head(pty) = Yank /\ pty' = <<Kill, c>>
        <5>1. Head(<<Yank, Kill, c>>) = Yank /\ Tail(<<Yank, Kill, c>>) = <<Kill, c>>
          BY Three
        <5> QED BY <4>0, <5>1, Zenon
      <4>2. line' = line + ring /\ ring' = ring /\ out' = Append(out, EchoOf(line'))
        BY <4>1, Ops DEF EditLine, Next1
      <4>3. out' = <<EchoOf(line')>> /\ line' = typed /\ line' \in Nat
        BY <1>2, <3>3, <4>2, One
      <4> QED BY <1>1, <2>2, <3>3, <4>1, <4>3 DEF CommandComing, Echoes, Held
    <3> QED BY <2>2, <3>1, <3>2, <3>3 DEF CommandComing
  <2>6. Outstanding' BY <1>1, <1>7, <2>4, <2>5 DEF Outstanding
  <2> QED BY <1>3, <1>4, <2>3, <2>6 DEF Orderly, Phases
<1> QED BY <1>1, <1>5, <1>6, <1>7 DEF Orderly, Phases, Idle, Reported, Quiet

\* A newline.
LEMMA SubmitOrderly ==
  ASSUME TypeInv, Orderly, Submit, UNCHANGED termVars PROVE Orderly'
<1>1. /\ prog = NoProg /\ pty # <<>> /\ pty' = Tail(pty)
      /\ Head(pty).op \in {"submit", "exit"}
      /\ UNCHANGED <<out, ring, dir, hook, mover>>
      /\ UNCHANGED <<term, sendq, posts, typed, by>>
  BY DEF Submit, Reads, AtPrompt, Next1, termVars
<1>2. Outstanding
  <2>1. ~Idle /\ ~Reported BY <1>1 DEF Idle, Reported, Quiet
  <2>2. ~KeyComing
    <3>1. \A k \in {Key, Erase} : Head(<<k>>) = k /\ k.op \notin {"submit", "exit"}
      BY Ops, One
    <3> QED BY <1>1, <3>1 DEF KeyComing
  <2>3. ~YankComing
    <3>1. Head(<<Yank>>).op = "yank" BY Ops, One
    <3> QED BY <1>1, <3>1 DEF YankComing
  <2> QED BY <2>1, <2>2, <2>3 DEF Orderly, Phases
<1>3. PICK c \in Inputs :
        Owned(c) /\ (CommandWaits(c) \/ CommandComing(c) \/ CommandRuns(c))
  BY <1>2 DEF Outstanding
<1>4. CommandComing(c) BY <1>1, <1>3 DEF CommandWaits, CommandRuns
<1>5. pty = <<c>> /\ Echoes /\ (c.by # "user" => line = 0 /\ Stashed)
  <2>1. Head(<<Kill, c>>).op = "kill" /\ Head(<<Yank, Kill, c>>).op = "yank"
    BY Ops, Two, Three
  <2>2. pty # <<Kill, c>> /\ pty # <<Yank, Kill, c>> BY <1>1, <2>1
  <2> QED BY <1>4, <2>2 DEF CommandComing
<1>6. Head(pty) = c /\ pty' = <<>> BY <1>1, <1>5, One, Zenon
<1>7. prog' = c /\ line' = 0 /\ ~spoilt'
  <2>1. ~(line # 0 /\ Head(pty).by # "user") BY <1>5, <1>6
  <2>2. prog' = Head(pty) /\ line' = 0 /\ spoilt' = (spoilt \/ FALSE)
    BY <2>1 DEF Submit, Next1
  <2> QED BY <1>6, <2>2 DEF Orderly
<1>8. Owned(c)' BY <1>1, <1>3 DEF Owned
<1>9. CommandRuns(c)'
  BY <1>1, <1>4, <1>5, <1>6, <1>7 DEF CommandRuns, CommandComing, Echoes, Stashed, Held
<1>10. Outstanding' BY <1>1, <1>2, <1>8, <1>9 DEF Outstanding
<1> QED BY <1>1, <1>2, <1>7, <1>10 DEF Orderly, Phases, AtThePrompt, Moved, Outstanding

\* A command is being run.
LEMMA RunsOrderly ==
  ASSUME Orderly, prog # NoProg
  PROVE  /\ prog \in Inputs /\ Owned(prog) /\ CommandRuns(prog) /\ ~term.atPrompt
BY DEF Orderly, Phases, Idle, KeyComing, YankComing, Reported, Quiet, Outstanding,
       CommandWaits, CommandComing, CommandRuns

LEMMA EchoAppend ==
  ASSUME NEW m, Echoes, out' = Append(out, m) 
  PROVE  out' = <<m>> \/ \E n \in Nat : out' = <<EchoOf(n), m>>
<1>1. CASE out = <<>> BY <1>1, One
<1>2. CASE \E n \in Nat : out = <<EchoOf(n)>> BY <1>2, Two
<1> QED BY <1>1, <1>2 DEF Echoes

\* The hook reports the end of a command, or it is not installed.
LEMMA CommandEndsOrderly ==
  ASSUME TypeInv, Orderly, CommandEnds, UNCHANGED termVars PROVE Orderly'
<1>1. /\ prog.op = "submit" /\ prog' = NoProg
      /\ mover' = (IF dir' # dir THEN prog.by ELSE mover)
      /\ hook' = (hook \/ prog.by = "init")
      /\ out' = (IF hook' THEN Append(out, PreCmdOf(dir')) ELSE out)
      /\ UNCHANGED <<pty, line, ring, spoilt>>
      /\ UNCHANGED <<term, sendq, posts, typed, by>>
  BY DEF CommandEnds, termVars
<1>2. /\ prog \in Inputs /\ Owned(prog) /\ CommandRuns(prog) /\ ~term.atPrompt
  BY <1>1, Ops, RunsOrderly
<1>3. Quiet' /\ Echoes BY <1>1, <1>2 DEF Quiet, CommandRuns
<1>4. line = 0 /\ (prog.by # "user" => Stashed) BY <1>2 DEF CommandRuns
<1>5. Ready(term) /\ hook \in BOOLEAN BY DEF TypeInv, WidgetOK, WireOK
<1>6. CASE hook'
  <2>1. \/ out' = <<PreCmdOf(dir')>>
        \/ \E n \in Nat : out' = <<EchoOf(n), PreCmdOf(dir')>>
    BY <1>1, <1>3, <1>6, EchoAppend
  <2>2. Stashed
    <3>1. CASE prog.by # "user" BY <1>4, <3>1
    <3>2. CASE prog.by = "user"
      <4>1. hook /\ typed = 0 /\ ~term.busy /\ ~term.run
        BY <1>1, <1>2, <1>5, <1>6, <3>2 DEF Owned
      <4>2. ~Held BY <1>5, <4>1 DEF Held, Ready, Fit
      <4> QED BY <4>1, <4>2 DEF Stashed
    <3> QED BY <3>1, <3>2
  <2>3. Stashed' BY <1>1, <2>2 DEF Stashed, Held
  <2>4. Reported' BY <1>1, <1>2, <1>3, <1>4, <2>1, <2>3 DEF Reported, EchoThen
  <2> QED BY <1>1, <1>2, <2>4 DEF Orderly, Phases, AtThePrompt, Moved, Owned
<1>7. CASE ~hook'
  <2>1. Echoes' BY <1>1, <1>3, <1>7 DEF Echoes
  <2>2. ~term.busy /\ ~term.run => line = typed
    <3>1. prog.by \in {"user", "nav", "run"} BY <1>1, <1>2, <1>7 DEF Inputs, Writers
    <3> QED BY <1>2, <1>4, <3>1 DEF Owned
  <2>3. Idle' BY <1>1, <1>3, <1>7, <2>1, <2>2 DEF Idle
  <2> QED BY <1>1, <1>2, <2>3 DEF Orderly, Phases, AtThePrompt, Moved, Owned
<1> QED BY <1>6, <1>7

LEMMA ShellExitsOrderly ==
  ASSUME TypeInv, Orderly, ShellExits, UNCHANGED termVars PROVE Orderly'
<1>1. /\ prog.op = "exit" /\ Gone \notin {out[i] : i \in DOMAIN out}
      /\ out' = Append(out, Gone)
      /\ UNCHANGED <<pty, line, ring, prog, dir, hook, mover, spoilt>>
      /\ UNCHANGED <<term, sendq, posts, typed, by>>
  BY DEF ShellExits, termVars
<1>2. prog \in Inputs /\ Owned(prog) /\ CommandRuns(prog) /\ ~term.atPrompt
  BY <1>1, Ops, RunsOrderly
<1>3. ~EchoThen(Gone) BY <1>1 DEF EchoThen
<1>4. Echoes BY <1>2, <1>3 DEF CommandRuns
<1>5. EchoThen(Gone)' BY <1>1, <1>4, EchoAppend DEF EchoThen
<1>6. CommandRuns(prog)'
  BY <1>1, <1>2, <1>5 DEF CommandRuns, Stashed, Held
<1>7. Owned(prog)' BY <1>1, <1>2 DEF Owned
<1>8. Outstanding' BY <1>1, <1>2, <1>6, <1>7 DEF Outstanding
<1> QED BY <1>1, <1>2, <1>8 DEF Orderly, Phases, AtThePrompt, Moved

\* The send loop.
LEMMA ForwardOrderly ==
  ASSUME TypeInv, Orderly, Forward PROVE Orderly'
<1>1. /\ sendq # <<>> /\ pty' = Append(pty, Head(sendq)) /\ sendq' = Tail(sendq)
      /\ UNCHANGED <<out, line, ring, prog, dir, hook, mover, spoilt>>
      /\ UNCHANGED <<term, posts, typed, by>>
  BY DEF Forward
<1>2. CASE KeyComing
  <2>1. PICK k \in {Key, Erase} :
          /\ sendq = <<k>> /\ pty = <<>>
          /\ ~term.run => IF k = Key THEN typed = line + 1 ELSE line = typed + 1
    BY <1>1, <1>2 DEF KeyComing
  <2>2. pty' = <<k>> /\ sendq' = <<>> BY <1>1, <2>1, One, Zenon
  <2>3. KeyComing' BY <1>1, <1>2, <2>1, <2>2 DEF KeyComing
  <2>4. AtThePrompt'
    <3>1. ~Quiet BY <1>1 DEF Quiet
    <3>2. ~Quiet' BY <2>2, One DEF Quiet
    <3>3. pty' # <<Yank>>
      <4>1. Head(<<k>>) = k /\ k.op # "yank" /\ Head(<<Yank>>).op = "yank" BY Ops, One
      <4> QED BY <2>2, <4>1
    <3> QED BY <1>1, <3>1, <3>2, <3>3 DEF Orderly, AtThePrompt
  <2> QED BY <1>1, <2>3, <2>4 DEF Orderly, Phases, Moved
<1>3. CASE Outstanding
  <2>1. PICK c \in Inputs :
          Owned(c) /\ (CommandWaits(c) \/ CommandComing(c) \/ CommandRuns(c))
    BY <1>3 DEF Outstanding
  <2>2. CommandWaits(c) BY <1>1, <2>1 DEF CommandComing, CommandRuns
  <2>3. pty' = <<c>> /\ sendq' = <<>>
    <3>1. sendq = <<c>> /\ pty = <<>> BY <2>2 DEF CommandWaits
    <3> QED BY <1>1, <3>1, One, Zenon
  <2>4. CommandComing(c)' BY <1>1, <2>2, <2>3 DEF CommandWaits, CommandComing, Echoes
  <2>5. Owned(c)' BY <1>1, <2>1 DEF Owned
  <2>6. Outstanding' BY <1>1, <1>3, <2>4, <2>5 DEF Outstanding
  <2> QED BY <1>1, <1>3, <2>6 DEF Orderly, Phases, AtThePrompt, Moved, Outstanding
<1> QED BY <1>1, <1>2, <1>3 DEF Orderly, Phases, Idle, YankComing, Reported, Quiet

\* The terminal handles what the line editor drew.
LEMMA EchoOrderly ==
  ASSUME TypeInv, Orderly, Recv, Head(out).kind = "echo"
  PROVE  /\ Orderly' /\ posts' = posts
         /\ term'.repaired = term.repaired /\ term'.run = term.run
<1> DEFINE m == Head(out)
           t == Draws(term, m.len)
<1>1. /\ out # <<>> /\ out' = Tail(out) /\ Becomes(t) /\ Writes(t)
      /\ UNCHANGED <<line, ring, prog, dir, hook, mover, spoilt, sendq, typed, by>>
  BY DEF Recv
<1>2. Ready(term) /\ posts \in Seq(PathChangedRecord) /\ m.len \in Nat /\ pty \in Seq(Inputs)
  BY <1>1, HeadReport DEF TypeInv, WidgetOK, WireOK
<1>3. Fit(t) /\ t.sent = <<>> /\ t.posted = <<>> BY <1>2, DrawsFit
<1>4. pty' = pty BY <1>1, <1>2, <1>3 DEF Writes
<1>b. posts' = posts BY <1>1, <1>2, <1>3 DEF Becomes
<1>a. /\ t.cwd = term.cwd /\ t.atPrompt = term.atPrompt /\ t.input = term.input
      /\ ~term.draining => t.shown = m.len
      /\ ~term.draining /\ term.input => t.snap = term.snap
      /\ t.cmdOwner = term.cmdOwner /\ t.busy = term.busy /\ t.stashed = term.stashed
      /\ t.repaired = term.repaired /\ t.run = term.run /\ t.runStashed = term.runStashed
  BY <1>2, DrawsType DEF Ready, Fit
<1> HIDE DEF t
<1>5. /\ term'.cwd = term.cwd /\ term'.atPrompt = term.atPrompt /\ term'.input = term.input
      /\ ~term.draining => term'.shown = m.len
      /\ ~term.draining /\ term.input => term'.snap = term.snap
      /\ term'.cmdOwner = term.cmdOwner /\ term'.busy = term.busy
      /\ term'.stashed = term.stashed /\ term'.repaired = term.repaired
      /\ term'.run = term.run /\ term'.runStashed = term.runStashed
  <2>1. Fit(t) /\ t \in TerminalRecord BY <1>3 DEF Fit
  <2>2. /\ term'.cwd = t.cwd /\ term'.atPrompt = t.atPrompt /\ term'.input = t.input
        /\ term'.shown = t.shown /\ term'.snap = t.snap /\ term'.cmdOwner = t.cmdOwner
        /\ term'.busy = t.busy /\ term'.stashed = t.stashed
        /\ term'.repaired = t.repaired /\ term'.run = t.run
        /\ term'.runStashed = t.runStashed
    BY <1>1, <1>2, <2>1, BecomesReady
  <2> QED BY <1>a, <2>2
<1>6. Moved' /\ ~spoilt' BY <1>1, <1>5 DEF Orderly, Moved
<1>7. ~KeyComing /\ ~YankComing /\ ~\E c : CommandWaits(c)
  BY <1>1 DEF KeyComing, YankComing, CommandWaits
<1>8. Echoes => out' = <<>>
  <2>1. ASSUME NEW n, out = <<EchoOf(n)>> PROVE out' = <<>> BY <1>1, <2>1, One, Zenon
  <2> QED BY <1>1, <2>1 DEF Echoes
<1>9. ASSUME NEW p, p.kind # "echo", EchoThen(p) PROVE out' = <<p>>
  <2>1. out # <<p>> BY <1>9, One
  <2>2. PICK n \in Nat : out = <<EchoOf(n), p>> BY <1>9, <2>1 DEF EchoThen
  <2> QED BY <1>1, <2>2, Two, Zenon
<1>10. CASE Idle
  <2>1. out' = <<>> BY <1>8, <1>10 DEF Idle
  <2>2. Idle' BY <1>1, <1>4, <1>5, <1>10, <2>1 DEF Idle, Quiet, Echoes
  <2>3. AtThePrompt'
    <3> SUFFICES ASSUME term.atPrompt PROVE AtThePrompt' BY <1>5 DEF AtThePrompt
    <3>1. term.input /\ ~term.draining
      BY <1>1, <1>2 DEF Orderly, AtThePrompt, Ready, Fit
    <3>2. term'.snap = term.snap /\ term'.shown = m.len BY <1>5, <3>1
    <3>3. pty' # <<Yank>> BY <1>4, <1>10, One DEF Idle, Quiet
    <3>4. term.snap # {} => term.snap = {0} /\ m.len = line
      <4> SUFFICES ASSUME term.snap # {} PROVE term.snap = {0} /\ m.len = line OBVIOUS
      <4>1. term.snap = {0} /\ out = <<EchoOf(line)>>
        BY <1>1, <1>10 DEF Orderly, AtThePrompt, Idle
      <4>2. m = EchoOf(line) BY <4>1, One, Zenon
      <4> QED BY <4>1, <4>2, Kinds
    <3>5. term'.cwd = dir' /\ term'.input
      BY <1>1, <1>5, <3>1 DEF Orderly, AtThePrompt
    <3>6. term'.snap # {} => term'.snap = {0} /\ term'.shown = line'
      BY <1>1, <3>2, <3>4
    <3> QED BY <2>1, <3>3, <3>5, <3>6, Zenon DEF AtThePrompt
  <2> QED BY <1>b, <1>5, <1>6, <2>2, <2>3 DEF Orderly, Phases
<1>11. CASE Outstanding
  <2>1. PICK c \in Inputs :
          Owned(c) /\ (CommandWaits(c) \/ CommandComing(c) \/ CommandRuns(c))
    BY <1>11 DEF Outstanding
  <2>2. Owned(c)' BY <1>1, <1>5, <2>1 DEF Owned
  <2>3. Stashed' = Stashed /\ Held' = Held BY <1>1, <1>5 DEF Stashed, Held
  <2>4. CASE CommandComing(c)
    <3>1. out' = <<>> BY <1>1, <1>8, <2>4 DEF CommandComing
    <3>2. CommandComing(c)'
      BY <1>1, <1>4, <2>3, <2>4, <3>1 DEF CommandComing, Echoes
    <3> QED BY <1>b, <1>5, <1>6, <1>11, <2>2, <3>2
            DEF Orderly, Phases, Outstanding, AtThePrompt
  <2>5. CASE CommandRuns(c)
    <3>1. Echoes => Echoes' BY <1>8 DEF Echoes
    <3>2. EchoThen(Gone) => EchoThen(Gone)' BY <1>9, Kinds DEF EchoThen
    <3>3. CommandRuns(c)'
      BY <1>1, <1>4, <2>3, <2>5, <3>1, <3>2 DEF CommandRuns
    <3> QED BY <1>b, <1>5, <1>6, <1>11, <2>2, <3>3
            DEF Orderly, Phases, Outstanding, AtThePrompt
  <2> QED BY <1>7, <2>1, <2>4, <2>5
<1>12. CASE Reported
  <2>1. PreCmdOf(dir).kind # "echo" BY Kinds
  <2>2. out' = <<PreCmdOf(dir)>> BY <1>9, <1>12, <2>1 DEF Reported
  <2>3. Reported'
    BY <1>1, <1>4, <1>5, <1>12, <2>2 DEF Reported, Quiet, EchoThen, Stashed, Held
  <2> QED BY <1>b, <1>5, <1>6, <1>12, <2>3 DEF Orderly, Phases, Reported, AtThePrompt
<1> QED BY <1>b, <1>5, <1>7, <1>10, <1>11, <1>12 DEF Orderly, Phases

\* A report finds nothing else on its way.
LEMMA ReportArrives ==
  ASSUME Orderly, out # <<>>, Head(out).kind = "precmd"
  PROVE  Reported /\ out = <<PreCmdOf(dir)>>
<1>1. ~Echoes
  <2>1. \A n : Head(<<EchoOf(n)>>).kind = "echo" BY One, Kinds
  <2> QED BY <2>1 DEF Echoes
<1>2. ~EchoThen(Gone)
  <2>1. /\ Head(<<Gone>>).kind = "disconnect"
        /\ \A n : Head(<<EchoOf(n), Gone>>).kind = "echo"
    BY One, Two, Kinds
  <2> QED BY <2>1 DEF EchoThen
<1>3. Reported
  BY <1>1, <1>2 DEF Orderly, Phases, Idle, KeyComing, YankComing, Outstanding,
                    CommandWaits, CommandComing, CommandRuns
<1>4. \A n : out # <<EchoOf(n), PreCmdOf(dir)>>
  <2>1. \A n : Head(<<EchoOf(n), PreCmdOf(dir)>>).kind = "echo" BY Two, Kinds
  <2> QED BY <2>1
<1> QED BY <1>3, <1>4 DEF Reported, EchoThen

\* What every report leaves the terminal with: u is the widget after it.
ReportLeaves(u) ==
  /\ out' = <<>> /\ pty' = u.sent /\ line' = 0 /\ ring' = ring
  /\ posts' = posts \o u.posted
  /\ term'.owner = u.owner /\ term'.target = u.target /\ term'.lastSent = u.lastSent
  /\ UNCHANGED <<prog, dir, hook, mover, spoilt, sendq, typed, by>>
  /\ term'.cwd = u.cwd /\ term'.atPrompt = u.atPrompt /\ term'.input = u.input
  /\ term'.shown = u.shown /\ term'.snap = u.snap /\ term'.cmdOwner = u.cmdOwner
  /\ term'.busy = u.busy /\ term'.stashed = u.stashed
  /\ term'.repaired = u.repaired /\ term'.run = u.run /\ term'.runStashed = u.runStashed

LEMMA ReportHandled ==
  ASSUME TypeInv, Orderly, Recv, Head(out).kind = "precmd"
  PROVE  ReportLeaves(HandlePreCmd(term, dir))
<1>1. Reported /\ out = <<PreCmdOf(dir)>> BY ReportArrives DEF Recv
<1>2. Head(out) = PreCmdOf(dir) /\ Tail(out) = <<>> BY <1>1, One, Zenon
<1>3. Head(out).dir = dir BY <1>2, Kinds
<1> DEFINE t == HandlePreCmd(term, dir)
<1>4. /\ out' = <<>> /\ Becomes(t) /\ pty' = pty \o t.sent
      /\ UNCHANGED <<line, ring, prog, dir, hook, mover, spoilt, sendq, typed, by>>
  BY <1>2, <1>3 DEF Recv, Writes
<1>5. Ready(term) /\ posts \in Seq(PathChangedRecord) /\ dir \in Dirs
  BY DEF TypeInv, WidgetOK, WireOK
<1>6. Fit(t) BY <1>5, HandlePreCmdFit
<1> HIDE DEF t
<1>7. t \in TerminalRecord BY <1>6 DEF Fit
<1>8. /\ term'.cwd = t.cwd /\ term'.atPrompt = t.atPrompt /\ term'.input = t.input
      /\ term'.owner = t.owner /\ term'.target = t.target /\ term'.lastSent = t.lastSent
      /\ posts' = posts \o t.posted
      /\ term'.shown = t.shown /\ term'.snap = t.snap /\ term'.cmdOwner = t.cmdOwner
      /\ term'.busy = t.busy /\ term'.stashed = t.stashed
      /\ term'.repaired = t.repaired /\ term'.run = t.run
      /\ term'.runStashed = t.runStashed
  BY <1>4, <1>5, <1>6, <1>7, BecomesReady
<1>9. pty' = t.sent
  <2>1. pty = <<>> BY <1>1 DEF Reported, Quiet
  <2>2. t.sent \in Seq(Inputs) BY <1>7 DEF TerminalRecord
  <2> QED BY <1>4, <2>1, <2>2
<1>10. line = 0 BY <1>1 DEF Reported
<1> QED BY <1>4, <1>8, <1>9, <1>10 DEF ReportLeaves, t

\* The last word of a shell that exits.
LEMMA GoneLast ==
  ASSUME Orderly, out # <<>>, Head(out).kind = "disconnect"
  PROVE  CommandRuns(prog) /\ prog.op = "exit" /\ Owned(prog)
<1>1. ~Echoes
  <2>1. \A n : Head(<<EchoOf(n)>>).kind = "echo" BY One, Kinds
  <2> QED BY <2>1 DEF Echoes
<1>2. ~EchoThen(PreCmdOf(dir))
  <2>1. /\ Head(<<PreCmdOf(dir)>>).kind = "precmd"
        /\ \A n : Head(<<EchoOf(n), PreCmdOf(dir)>>).kind = "echo"
    BY One, Two, Kinds
  <2> QED BY <2>1 DEF EchoThen
<1> QED BY <1>1, <1>2 DEF Orderly, Phases, Idle, KeyComing, YankComing, Outstanding,
           Reported, CommandWaits, CommandComing, CommandRuns

LEMMA PreCmdOrderly ==
  ASSUME TypeInv, Orderly, Recv, Head(out).kind = "precmd"
  PROVE  Orderly' /\ term'.repaired = term.repaired
<1> DEFINE u == HandlePreCmd(term, dir)
<1>1. ReportLeaves(u) BY ReportHandled
<1>2. Reported BY ReportArrives DEF Recv
<1>3. Ready(term) /\ term \in TerminalRecord /\ dir \in Dirs
  BY DEF TypeInv, WidgetOK, WireOK, Ready, Fit
<1>4. ~spoilt' BY <1>1 DEF ReportLeaves, Orderly
<1>5. sendq' = <<>> /\ prog' = NoProg BY <1>1, <1>2 DEF ReportLeaves, Reported, Quiet
<1>6. u.cwd = dir => Moved'
  BY <1>1, Zenon DEF ReportLeaves, Moved
<1>7. typed \in Nat BY DEF TypeInv, WireOK
<1>c. PICK c : /\ c = Command("nav", term.target)
               /\ c \in Inputs /\ c.op = "submit" /\ c.by = "nav"
  <2> DEFINE n == Command("nav", term.target)
  <2>1. n \in Inputs BY <1>3, CommandType DEF TerminalRecord, Writers
  <2>2. n.op = "submit" /\ n.by = "nav" BY DEF Command
  <2> HIDE DEF n
  <2>3. \E c : c = n OBVIOUS
  <2> QED BY <2>1, <2>2, <2>3 DEF n
<1>8. CASE term.busy /\ Retries(term, dir)
  <2>1. Retried(term, dir, u) BY <1>3, <1>8, PreCmdRetries, Zenon
  <2> HIDE DEF u
  <2>2. /\ ~term'.atPrompt /\ term'.busy /\ term'.stashed = term.stashed
        /\ ~term'.runStashed /\ ~term'.run /\ pty' = <<c>>
        /\ term'.repaired = term.repaired /\ u.cwd = dir
    BY <1>1, <1>c, <2>1 DEF ReportLeaves, Retried
  <2>3. ~term.runStashed BY <1>3, <1>8 DEF Ready, Fit
  <2>4. Owned(c)' BY <1>c, <2>2 DEF Owned
  <2>5. Stashed' BY <1>1, <1>2, <2>2, <2>3 DEF Reported, Stashed, Held, ReportLeaves
  <2>6. CommandComing(c)'
    BY <1>1, <1>5, <1>c, <2>2, <2>5 DEF CommandComing, ReportLeaves, Echoes
  <2>7. Outstanding' BY <1>c, <2>2, <2>4, <2>6 DEF Outstanding
  <2> QED BY <1>4, <1>6, <2>2, <2>7 DEF Orderly, Phases, AtThePrompt
<1>9. CASE ~term.busy /\ term.target \notin {NoDir, dir}
  <2>1. Departed(term, dir, u) BY <1>3, <1>9, PreCmdStarts, Zenon
  <2> HIDE DEF u
  <2>2. /\ ~term'.atPrompt /\ term'.busy /\ term'.stashed = term.runStashed
        /\ ~term'.runStashed /\ ~term'.run
        /\ term'.repaired = term.repaired /\ u.cwd = dir
        /\ term.runStashed => pty' = <<Yank, Kill, c>>
        /\ ~term.runStashed => pty' = <<c>>
    BY <1>1, <1>c, <2>1 DEF ReportLeaves, Departed
  <2>3. ~term.stashed BY <1>3, <1>9 DEF Ready, Fit
  <2>4. Owned(c)' BY <1>c, <2>2 DEF Owned
  <2>5. Stashed' /\ (term.runStashed => ring' = typed')
    BY <1>1, <1>2, <2>2, <2>3 DEF Reported, Stashed, Held, ReportLeaves
  <2>6. CommandComing(c)'
    BY <1>1, <1>5, <1>c, <2>2, <2>5 DEF CommandComing, ReportLeaves, Echoes, Held
  <2>7. Outstanding' BY <1>c, <2>2, <2>4, <2>6 DEF Outstanding
  <2> QED BY <1>4, <1>6, <2>2, <2>7 DEF Orderly, Phases, AtThePrompt
<1>10. CASE \/ term.busy /\ ~Retries(term, dir)
            \/ ~term.busy /\ term.target \in {NoDir, dir}
  <2>1. u.cwd = dir /\ u.atPrompt = TRUE /\ u.shown = 0
        /\ u.input = Held /\ u.snap = (IF Held THEN {} ELSE {0})
        /\ u.busy = FALSE /\ u.run = FALSE /\ u.repaired = term.repaired
        /\ u.sent = (IF Held THEN <<Yank>> ELSE <<>>)
    <3>1. CASE term.busy /\ ~Retries(term, dir)
      <4>1. Finished(term, dir, u) BY <1>3, <3>1, PreCmdFinishes, Zenon
      <4>2. Held = term.stashed
        BY <1>3, <3>1 DEF Ready, Fit, Held, TerminalRecord
      <4> HIDE DEF u
      <4> QED BY <4>1, <4>2 DEF Finished
    <3>2. CASE ~term.busy /\ term.target \in {NoDir, dir}
      <4>1. Rested(term, dir, u) BY <1>3, <3>2, PreCmdRests, Zenon
      <4>2. Held = term.runStashed
        BY <1>3, <3>2 DEF Ready, Fit, Held, TerminalRecord
      <4> HIDE DEF u
      <4> QED BY <4>1, <4>2 DEF Rested
    <3> QED BY <1>10, <3>1, <3>2
  <2> HIDE DEF u
  <2>2. /\ term'.cwd = dir' /\ term'.atPrompt /\ term'.shown = 0 /\ ~term'.busy
        /\ ~term'.run /\ term'.repaired = term.repaired /\ out' = <<>> /\ line' = 0
        /\ ring' = ring /\ typed' = typed
    BY <1>1, <2>1 DEF ReportLeaves
  <2>3. CASE Held
    <3>1. term'.input /\ term'.snap = {} /\ pty' = <<Yank>>
      BY <1>1, <2>1, <2>3 DEF ReportLeaves
    <3>2. ring = typed BY <1>2, <2>3 DEF Reported, Stashed
    <3>3. YankComing' BY <1>5, <2>2, <3>1, <3>2 DEF YankComing
    <3>4. AtThePrompt' BY <2>2, <3>1 DEF AtThePrompt
    <3> QED BY <1>4, <1>6, <2>1, <2>2, <3>3, <3>4 DEF Orderly, Phases
  <2>4. CASE ~Held
    <3>1. ~term'.input /\ term'.snap = {0} /\ pty' = <<>>
      BY <1>1, <2>1, <2>4 DEF ReportLeaves
    <3>2. typed = 0 BY <1>2, <2>4 DEF Reported, Stashed
    <3>3. Idle' BY <1>5, <2>2, <3>1, <3>2 DEF Idle, Quiet, Echoes
    <3>4. AtThePrompt' BY <1>5, <2>2, <3>1, One DEF AtThePrompt, Quiet
    <3> QED BY <1>4, <1>6, <2>1, <2>2, <3>3, <3>4 DEF Orderly, Phases
  <2> QED BY <2>3, <2>4
<1> QED BY <1>8, <1>9, <1>10

\* A new shell starts from the beginning, repaired or not.
LEMMA RespawnOrderly == ASSUME TypeInv, Respawn PROVE Orderly'
<1> DEFINE u == [Reset(term) EXCEPT !.draining = TRUE, !.shown = 0]
<1>1. /\ Becomes(u) /\ sendq' = <<>> /\ typed' = 0
      /\ pty' = <<Command("init", NoDir)>> /\ out' = <<>> /\ line' = 0 /\ ring' = 0
      /\ prog' = NoProg /\ mover' = "init" /\ spoilt' = FALSE
  BY DEF Respawn
<1>2. Ready(term) /\ posts \in Seq(PathChangedRecord) BY DEF TypeInv, WidgetOK
<1>3. /\ u \in TerminalRecord /\ u.atPrompt = FALSE /\ u.busy = FALSE
      /\ u.stashed = FALSE /\ u.run = FALSE /\ u.runStashed = FALSE
      /\ u.watchdog = FALSE
  BY <1>2, ResetType DEF Ready, Fit
<1> HIDE DEF u
<1>4. Fit(u) BY <1>3 DEF Fit
<1>5. /\ ~term'.atPrompt /\ ~term'.busy /\ ~term'.stashed /\ ~term'.run
      /\ ~term'.runStashed
  BY <1>1, <1>2, <1>3, <1>4, BecomesReady
<1> DEFINE c == Command("init", NoDir)
<1>6. c \in Inputs /\ c.op = "submit" /\ c.by = "init"
  BY CommandType DEF Writers, Command
<1> HIDE DEF c
<1>7. Owned(c)' BY <1>5, <1>6 DEF Owned
<1>8. CommandComing(c)' BY <1>1, <1>5 DEF CommandComing, Echoes, Stashed, Held, c
<1> QED BY <1>1, <1>5, <1>6, <1>7, <1>8 DEF Orderly, Phases, Outstanding, AtThePrompt, Moved

\* A step that leaves the line, what is on its way and the widget alone, but for
\* the directory the terminal is to go to next and the hook.
LEMMA UntouchedOrderly ==
  ASSUME Orderly, hook' => hook,
         UNCHANGED <<pty, out, line, ring, prog, dir, mover, spoilt, sendq, typed, by>>,
         term'.cwd = term.cwd, term'.atPrompt = term.atPrompt, term'.input = term.input,
         term'.shown = term.shown, term'.snap = term.snap, term'.busy = term.busy,
         term'.run = term.run, term'.stashed = term.stashed,
         term'.runStashed = term.runStashed, term'.cmdOwner = term.cmdOwner
  PROVE  Orderly'
<1>1. Idle => Idle' BY DEF Idle, Quiet, Echoes
<1>2. KeyComing => KeyComing' BY DEF KeyComing
<1>3. YankComing => YankComing' BY DEF YankComing
<1>4. Reported => Reported' BY DEF Reported, Quiet, EchoThen, Stashed, Held
<1>5. Outstanding => Outstanding'
  <2>1. ASSUME NEW c, Owned(c) PROVE Owned(c)' BY <2>1 DEF Owned
  <2>2. ASSUME NEW c, CommandWaits(c) PROVE CommandWaits(c)' BY <2>2 DEF CommandWaits
  <2>3. ASSUME NEW c, CommandComing(c) PROVE CommandComing(c)'
    BY <2>3 DEF CommandComing, Echoes, Stashed, Held
  <2>4. ASSUME NEW c, CommandRuns(c) PROVE CommandRuns(c)'
    BY <2>4 DEF CommandRuns, Echoes, EchoThen, Stashed, Held
  <2> QED BY <2>1, <2>2, <2>3, <2>4 DEF Outstanding
<1>6. AtThePrompt' BY DEF Orderly, AtThePrompt, Quiet
<1> QED BY <1>1, <1>2, <1>3, <1>4, <1>5, <1>6 DEF Orderly, Phases, Moved

\* The user types or submits only when nothing is on its way.
LEMMA CalmIdle ==
  ASSUME Orderly, Calm PROVE Idle /\ out = <<>>
<1>1. \A m : <<m>> # <<>> BY One
<1>2. \A m, n : <<m, n>> # <<>> BY Two
<1>3. ~KeyComing /\ ~YankComing BY <1>1 DEF Calm, KeyComing, YankComing
<1>4. ~Reported BY <1>1, <1>2 DEF Calm, Reported, EchoThen
<1>5. ~Outstanding
  <2> SUFFICES ASSUME NEW c \in Inputs, Owned(c),
                      CommandWaits(c) \/ CommandComing(c) \/ CommandRuns(c)
               PROVE  FALSE
    BY DEF Outstanding
  <2>1. ~CommandWaits(c) BY <1>1 DEF Calm, CommandWaits
  <2>2. ~CommandComing(c)
    <3>1. <<Yank, Kill, c>> # <<>> BY Three
    <3> QED BY <1>1, <1>2, <3>1 DEF Calm, CommandComing
  <2>3. ~CommandRuns(c) BY Ops DEF Calm, CommandRuns, AtPrompt, Owned
  <2> QED BY <2>1, <2>2, <2>3
<1> QED BY <1>3, <1>4, <1>5 DEF Orderly, Phases, Calm

LEMMA TypeOrderly ==
  ASSUME TypeInv, Orderly, Habits = {}, NEW op \in {Key, Erase}, Type(op)
  PROVE  Orderly' /\ term'.repaired = term.repaired
<1>1. Calm /\ (op = Erase => typed > 0)
  BY DEF Type, MayType
<1>2. Idle /\ out = <<>> BY <1>1, CalmIdle
<1>3. /\ typed' = (IF op = Key THEN typed + 1 ELSE typed - 1)
      /\ sendq' = Append(sendq, op)
      /\ UNCHANGED <<out, line, ring, prog, dir, hook, mover, spoilt, pty, posts, by>>
      /\ term' = [term EXCEPT !.input = TRUE]
  BY DEF Type, shellKept
<1>4. term \in TerminalRecord /\ typed \in Nat /\ line \in Nat
  BY DEF TypeInv, WidgetOK, WireOK, Ready, Fit
<1>5. /\ term'.cwd = term.cwd /\ term'.atPrompt = term.atPrompt /\ term'.input
      /\ term'.snap = term.snap /\ term'.cmdOwner = term.cmdOwner
      /\ term'.busy = term.busy /\ term'.repaired = term.repaired /\ term'.run = term.run
  BY <1>3, <1>4 DEF TerminalRecord
<1>6. sendq' = <<op>> /\ pty' = <<>> /\ out' = <<>>
  BY <1>1, <1>2, <1>3, One DEF Calm
<1>7. Key # Erase BY Ops
<1>8. ~term.run => IF op = Key THEN typed' = line + 1 ELSE line = typed' + 1
  BY <1>1, <1>2, <1>3, <1>4, <1>7 DEF Idle, Calm
<1>9. KeyComing'
  BY <1>1, <1>2, <1>3, <1>5, <1>6, <1>8 DEF KeyComing, Idle, Quiet, Calm
<1>10. AtThePrompt'
  <2>1. ~Quiet' BY <1>6, One DEF Quiet
  <2>2. pty' # <<Yank>> BY <1>6, One
  <2> QED BY <1>3, <1>5, <2>1, <2>2 DEF Orderly, AtThePrompt
<1> QED BY <1>3, <1>5, <1>9, <1>10 DEF Orderly, Phases, Moved

LEMMA EnterOrderly ==
  ASSUME TypeInv, Orderly, Habits = {}, NEW c \in Inputs, c.op \in {"submit", "exit"},
         c.by = "user", Enter(c)
  PROVE  Orderly' /\ term'.repaired = term.repaired
<1>1. Calm BY DEF Enter, MayType
<1>2. Idle /\ out = <<>> BY <1>1, CalmIdle
<1>3. /\ typed' = 0 /\ by' = term.owner /\ sendq' = Append(sendq, c)
      /\ UNCHANGED <<out, line, ring, prog, dir, hook, mover, spoilt, pty, posts>>
      /\ term' = [term EXCEPT !.input = TRUE, !.atPrompt = FALSE, !.cmdOwner = term.owner]
  BY DEF Enter, shellKept
<1>4. term \in TerminalRecord BY DEF TypeInv, WidgetOK, Ready, Fit
<1>5. /\ term'.cwd = term.cwd /\ ~term'.atPrompt /\ term'.cmdOwner = by'
      /\ term'.busy = term.busy /\ term'.repaired = term.repaired /\ term'.run = term.run
  BY <1>3, <1>4 DEF TerminalRecord
<1>6. sendq' = <<c>> /\ pty' = <<>> /\ out' = <<>>
  BY <1>1, <1>2, <1>3, One DEF Calm
<1>7. Owned(c)' BY <1>1, <1>2, <1>3, <1>5 DEF Owned, Calm, Idle
<1>8. CommandWaits(c)' BY <1>1, <1>3, <1>6 DEF CommandWaits, Calm, AtPrompt
<1>9. Outstanding' BY <1>5, <1>7, <1>8 DEF Outstanding
<1> QED BY <1>3, <1>5, <1>9 DEF Orderly, Phases, AtThePrompt, Moved

\* The program writes a command when the shell is at its prompt and every typed
\* character is on the screen. When it keeps no text back the line is empty.
LEMMA PromptOrderly ==
  ASSUME TypeInv, Orderly, Habits = {}, MayRequest, term.atPrompt
  PROVE  /\ ~term.busy /\ ~term.run /\ ~Held /\ dir = term.cwd
         /\ Idle \/ YankComing
         /\ sendq = <<>> /\ prog = NoProg /\ out = <<>>
         /\ ~HasInput(term) => pty = <<>> /\ line = 0 /\ typed = 0
<1>1. /\ ~term.busy /\ ~term.run /\ ~Held
  BY DEF TypeInv, WidgetOK, Ready, Fit, Held
<1>2. Echoed BY DEF MayRequest
<1>3. ~Outstanding /\ ~Reported BY DEF Outstanding, Reported
<1>4. ~KeyComing
  <2> SUFFICES ASSUME NEW k \in {Key, Erase}, sendq = <<k>> \/ pty = <<k>> PROVE FALSE
    BY DEF KeyComing
  <2>1. k.op \in Typing BY Ops DEF Typing
  <2>2. 1 \in DOMAIN <<k>> /\ <<k>>[1] = k OBVIOUS
  <2> QED BY <1>2, <2>1, <2>2 DEF Echoed
<1>5. Idle \/ YankComing BY <1>3, <1>4 DEF Orderly, Phases
<1>6. out = <<>>
  <2>1. \A n : out # <<EchoOf(n)>>
    <3>1. \A n : 1 \in DOMAIN <<EchoOf(n)>> /\ <<EchoOf(n)>>[1].kind = "echo"
      BY Kinds
    <3> QED BY <1>2, <3>1 DEF Echoed
  <2> QED BY <1>5, <2>1 DEF Idle, YankComing, Echoes
<1>7. sendq = <<>> /\ prog = NoProg BY <1>5 DEF Idle, YankComing, Quiet
<1>8. dir = term.cwd BY DEF Orderly, AtThePrompt
<1>9. ASSUME ~HasInput(term) PROVE pty = <<>> /\ line = 0 /\ typed = 0
  <2>1. ~YankComing
    BY <1>9 DEF YankComing, Orderly, AtThePrompt, HasInput
  <2>2. Idle /\ line = typed /\ pty = <<>> BY <1>1, <1>5, <2>1 DEF Idle, Quiet
  <2>3. CASE ~term.input BY <2>2, <2>3 DEF Orderly, AtThePrompt
  <2>4. CASE term.snap = {term.shown}
    <3>1. term.snap = {0} /\ term.shown = line
      <4>1. term.snap # {} BY <2>4
      <4>2. \A n : <<EchoOf(n)>> # <<>> BY One
      <4> QED BY <1>6, <2>2, <4>1, <4>2 DEF Orderly, AtThePrompt, Idle
    <3> QED BY <2>2, <2>4, <3>1
  <2> QED BY <1>9, <2>3, <2>4 DEF HasInput
<1> QED BY <1>1, <1>5, <1>6, <1>7, <1>8, <1>9

\* What the program writes then keeps the text of the user back.
LEMMA WrittenAtPrompt ==
  ASSUME TypeInv, Orderly, Habits = {}, MayRequest, term.atPrompt,
         NEW c \in Inputs, c.op = "submit", c.by \in {"nav", "run"},
         c.by = "nav" => term'.busy, c.by = "run" => term'.run /\ term'.cmdOwner = by',
         ~term'.atPrompt, Held' <=> HasInput(term), ~spoilt',
         HasInput(term) => pty' = pty \o <<Kill, c>>,
         ~HasInput(term) => pty' = pty \o <<c>>,
         UNCHANGED <<out, line, ring, prog, dir, hook, mover, sendq, typed>>
  PROVE  Phases' /\ AtThePrompt'
<1>1. /\ Idle \/ YankComing
      /\ sendq = <<>> /\ prog = NoProg /\ out = <<>>
      /\ ~HasInput(term) => pty = <<>> /\ line = 0 /\ typed = 0
      /\ ~term.busy /\ ~term.run
  BY PromptOrderly
<1>2. Echoes' BY <1>1 DEF Echoes
<1>3. Owned(c)' BY DEF Owned
<1>4. CommandComing(c)'
  <2>1. CASE HasInput(term) /\ Idle
    <3>1. pty = <<>> BY <2>1 DEF Idle, Quiet
    <3>2. pty' = <<Kill, c>> BY <2>1, <3>1
    <3>3. line' = typed' BY <1>1, <2>1 DEF Idle
    <3> QED BY <1>1, <1>2, <2>1, <3>2, <3>3 DEF CommandComing
  <2>2. CASE HasInput(term) /\ YankComing
    <3>1. pty = <<Yank>> BY <2>2 DEF YankComing
    <3>2. pty' = pty \o <<Kill, c>> BY <2>2
    <3>3. pty' = <<Yank, Kill, c>> BY <3>1, <3>2, Three, Zenon
    <3> QED BY <1>1, <2>2, <3>3 DEF CommandComing, YankComing
  <2>3. CASE ~HasInput(term)
    <3>1. pty' = <<c>> BY <1>1, <2>3
    <3> QED BY <1>1, <1>2, <2>3, <3>1 DEF CommandComing, Stashed
  <2> QED BY <1>1, <2>1, <2>2, <2>3
<1>5. Outstanding' BY <1>3, <1>4 DEF Outstanding
<1> QED BY <1>5 DEF Phases, AtThePrompt

LEMMA RunCommandOrderly ==
  ASSUME TypeInv, Orderly, Habits = {}, NEW d \in Dirs, RunCommand(d)
  PROVE  Orderly' /\ term'.repaired = term.repaired
<1> DEFINE t == Ran(term, d)
           c == Command("run", d)
<1>1. /\ CanRun /\ MayRequest /\ Becomes(t) /\ Writes(t)
      /\ by' = term.owner
      /\ UNCHANGED <<out, line, ring, prog, dir, hook, mover, spoilt, sendq, typed>>
  BY RunCommandDef DEF shellKept
<1>2. Ready(term) /\ term \in TerminalRecord /\ posts \in Seq(PathChangedRecord)
  BY DEF TypeInv, WidgetOK, Ready, Fit
<1>3. RanAs(term, d, t) BY <1>2, RanType, Zenon
<1> HIDE DEF t
<1>4. t \in TerminalRecord BY <1>3 DEF RanAs
<1>5. Fit(t) BY <1>1, <1>2, <1>3, Zenon DEF RanAs, Fit, CanRun, Ready
<1>6. /\ term'.cwd = t.cwd /\ term'.atPrompt = t.atPrompt /\ term'.cmdOwner = t.cmdOwner
      /\ term'.busy = t.busy /\ term'.stashed = t.stashed
      /\ term'.repaired = t.repaired /\ term'.run = t.run /\ term'.runStashed = t.runStashed
  BY <1>1, <1>2, <1>4, <1>5, BecomesReady
<1>7. /\ t.cwd = term.cwd /\ t.atPrompt = FALSE /\ t.cmdOwner = term.owner
      /\ t.busy = term.busy /\ t.stashed = term.stashed /\ t.repaired = term.repaired
      /\ t.run = TRUE /\ t.runStashed = HasInput(term)
      /\ HasInput(term) => t.sent = <<Kill, c>>
      /\ ~HasInput(term) => t.sent = <<c>>
  BY <1>3 DEF RanAs
<1>8. c \in Inputs /\ c.op = "submit" /\ c.by = "run"
  BY CommandType DEF Writers, Command
<1> HIDE DEF c
<1>9. ~Held /\ dir = term.cwd /\ ~term.busy BY <1>1, PromptOrderly DEF CanRun
<1>10. Held' <=> HasInput(term)
  <2>1. ~term.stashed BY <1>9 DEF Held
  <2> QED BY <1>6, <1>7, <2>1, Zenon DEF Held
<1>11. Phases' /\ AtThePrompt'
  <2>1. /\ ~term'.atPrompt /\ term'.run /\ term'.cmdOwner = by' /\ ~spoilt'
        /\ HasInput(term) => pty' = pty \o <<Kill, c>>
        /\ ~HasInput(term) => pty' = pty \o <<c>>
    BY <1>1, <1>6, <1>7 DEF Writes, Orderly
  <2> QED BY <1>1, <1>8, <1>10, <2>1, WrittenAtPrompt DEF CanRun
<1>12. Moved' BY <1>1, <1>6, <1>7, <1>9 DEF Moved
<1> QED BY <1>1, <1>6, <1>7, <1>11, <1>12 DEF Orderly

LEMMA RequestCdOrderly ==
  ASSUME TypeInv, Orderly, Habits = {}, NEW d \in Dirs, NEW p \in Panels, RequestCd(d, p)
  PROVE  Orderly' /\ term'.repaired = term.repaired
<1> DEFINE o == [term EXCEPT !.owner = p]
           t == Request(o, d)
           r == [o EXCEPT !.target = d, !.future = "pending"]
<1>1. /\ MayRequest /\ Becomes(t) /\ pty' = pty \o t.sent
      /\ UNCHANGED <<out, line, ring, prog, dir, hook, mover, spoilt, sendq, typed, by>>
  BY DEF RequestCd, Writes, shellKept
<1>2. /\ Ready(term) /\ term \in TerminalRecord /\ posts \in Seq(PathChangedRecord)
      /\ pty \in Seq(Inputs)
  BY DEF TypeInv, WidgetOK, WireOK, Ready, Fit
<1>3. /\ o \in TerminalRecord
      /\ o.cwd = term.cwd /\ o.atPrompt = term.atPrompt /\ o.input = term.input
      /\ o.shown = term.shown /\ o.snap = term.snap /\ o.draining = term.draining
      /\ o.cmdOwner = term.cmdOwner /\ o.target = term.target
      /\ o.busy = term.busy /\ o.stashed = term.stashed /\ o.watchdog = term.watchdog
      /\ o.repaired = term.repaired /\ o.run = term.run /\ o.runStashed = term.runStashed
      /\ o.sent = term.sent
  <2>1. o \in TerminalRecord BY <1>2, ZenonT(60) DEF TerminalRecord
  <2> QED BY <1>2, <2>1 DEF TerminalRecord
<1> HIDE DEF o
<1>4. Fit(o) BY <1>2, <1>3, Zenon DEF Fit, Ready
<1>5. /\ \/ t = o
         \/ t = r /\ (o.busy \/ ~o.atPrompt)
         \/ t = StartNav(r) /\ ~o.busy /\ o.atPrompt
      /\ r \in TerminalRecord
      /\ r.cwd = o.cwd /\ r.atPrompt = o.atPrompt /\ r.input = o.input
      /\ r.shown = o.shown /\ r.snap = o.snap /\ r.draining = o.draining
      /\ r.cmdOwner = o.cmdOwner /\ r.target = d
      /\ r.busy = o.busy /\ r.stashed = o.stashed /\ r.watchdog = o.watchdog
      /\ r.repaired = o.repaired /\ r.run = o.run /\ r.runStashed = o.runStashed
      /\ r.sent = o.sent
  BY <1>3, RequestType
<1>6. term.sent = <<>> BY <1>2 DEF Ready
<1> HIDE DEF r, t
<1>7. d # NoDir BY DirsAssumption
<1>8. CASE t = o \/ (t = r /\ (o.busy \/ ~o.atPrompt))
  <2>1. Fit(t) BY <1>4, <1>5, <1>7, <1>8, Zenon DEF Fit
  <2>2. /\ t.cwd = term.cwd /\ t.atPrompt = term.atPrompt /\ t.input = term.input
        /\ t.shown = term.shown /\ t.snap = term.snap /\ t.cmdOwner = term.cmdOwner
        /\ t.busy = term.busy /\ t.stashed = term.stashed
        /\ t.repaired = term.repaired /\ t.run = term.run /\ t.runStashed = term.runStashed
        /\ t.sent = term.sent
    BY <1>3, <1>5, <1>8, Zenon
  <2>3. t \in TerminalRecord BY <2>1 DEF Fit
  <2>4. /\ term'.cwd = t.cwd /\ term'.atPrompt = t.atPrompt /\ term'.input = t.input
        /\ term'.shown = t.shown /\ term'.snap = t.snap /\ term'.cmdOwner = t.cmdOwner
        /\ term'.busy = t.busy /\ term'.stashed = t.stashed
        /\ term'.repaired = t.repaired /\ term'.run = t.run
        /\ term'.runStashed = t.runStashed
    BY <1>1, <1>2, <2>1, <2>3, BecomesReady
  <2>5. pty' = pty BY <1>1, <1>2, <1>6, <2>2
  <2>6. Orderly' BY <1>1, <2>2, <2>4, <2>5, UntouchedOrderly
  <2> QED BY <2>2, <2>4, <2>6
<1>9. CASE t = StartNav(r) /\ ~o.busy /\ o.atPrompt
  <2> DEFINE c == Command("nav", d)
  <2>1. c \in Inputs /\ c.op = "submit" /\ c.by = "nav" BY CommandType DEF Writers, Command
  <2> HIDE DEF c
  <2>2. /\ t \in TerminalRecord
        /\ t.cwd = r.cwd /\ t.atPrompt = FALSE /\ t.cmdOwner = r.cmdOwner
        /\ t.busy = TRUE /\ t.target = r.target /\ t.stashed = (r.stashed \/ Stashes(r))
        /\ t.repaired = r.repaired /\ t.run = r.run /\ t.runStashed = r.runStashed
        /\ t.sent = NavSent(r)
    BY <1>5, <1>7, <1>9, StartNavType
  <2>3. Fit(t) BY <1>4, <1>5, <1>7, <1>9, <2>2, Zenon DEF Fit
  <2>4. /\ term'.cwd = t.cwd /\ term'.atPrompt = t.atPrompt /\ term'.cmdOwner = t.cmdOwner
        /\ term'.busy = t.busy /\ term'.stashed = t.stashed
        /\ term'.repaired = t.repaired /\ term'.run = t.run
        /\ term'.runStashed = t.runStashed
    BY <1>1, <1>2, <2>2, <2>3, BecomesReady
  <2>5. term.atPrompt BY <1>3, <1>9
  <2>6. ~Held /\ dir = term.cwd BY <1>1, <2>5, PromptOrderly
  <2>7. Stashes(r) <=> HasInput(term)
    <3>1. ~r.stashed BY <1>3, <1>5, <2>6 DEF Held
    <3> QED BY <1>3, <1>5, <3>1 DEF Stashes, HasInput
  <2>8. Held' <=> HasInput(term)
    BY <1>3, <1>5, <2>2, <2>4, <2>6, <2>7 DEF Held
  <2>9. r.sent = <<>> /\ r.target = d BY <1>3, <1>5, <1>6
  <2>10. HasInput(term) => t.sent = <<Kill, c>>
    <3> SUFFICES ASSUME HasInput(term) PROVE t.sent = <<Kill, c>> OBVIOUS
    <3>1. NavSent(r) = <<>> \o <<Kill>> \o <<c>> BY <2>7, <2>9 DEF NavSent, c
    <3>2. <<>> \o <<Kill>> = <<Kill>> /\ <<Kill>> \o <<c>> = <<Kill, c>> BY One, Two
    <3> QED BY <2>2, <3>1, <3>2, Zenon
  <2>11. ~HasInput(term) => t.sent = <<c>>
    <3> SUFFICES ASSUME ~HasInput(term) PROVE t.sent = <<c>> OBVIOUS
    <3>1. NavSent(r) = <<>> \o <<>> \o <<c>> BY <2>7, <2>9 DEF NavSent, c
    <3>2. <<>> \o <<>> = <<>> /\ <<>> \o <<c>> = <<c>> BY One
    <3> QED BY <2>2, <3>1, <3>2, Zenon
  <2>12. Phases' /\ AtThePrompt'
    <3>1. /\ ~term'.atPrompt /\ term'.busy /\ ~spoilt'
          /\ HasInput(term) => pty' = pty \o <<Kill, c>>
          /\ ~HasInput(term) => pty' = pty \o <<c>>
      BY <1>1, <2>2, <2>4, <2>10, <2>11 DEF Orderly
    <3> QED BY <1>1, <2>1, <2>5, <2>8, <3>1, WrittenAtPrompt
  <2>13. term'.cwd = term.cwd /\ term'.busy /\ term'.repaired = term.repaired
    BY <1>3, <1>5, <2>2, <2>4
  <2>14. Moved' BY <1>1, <2>6, <2>13 DEF Moved
  <2> QED BY <1>1, <2>12, <2>13, <2>14 DEF Orderly
<1> QED BY <1>5, <1>8, <1>9

\* What a step of the panels is to the terminal and its shell. The panels' own
\* steps and a removed hook leave both alone, but for a message that is handled.
Aside ==
  /\ UNCHANGED <<pty, out, line, ring, prog, dir, mover, spoilt, term, sendq, typed, by>>
  /\ hook' => hook
  /\ posts' = posts \/ (posts # <<>> /\ posts' = Tail(posts))

LEMMA StepKinds ==
  ASSUME TypeInv, [Next]_vars
  PROVE  \/ Recv \/ Respawn \/ Timeout \/ Forward
         \/ ShellSteps /\ UNCHANGED termVars
         \/ \E d \in Dirs, p \in Panels : RequestCd(d, p)
         \/ \E op \in {Key, Erase} : Type(op)
         \/ \E c \in Inputs : c.op \in {"submit", "exit"} /\ c.by = "user" /\ Enter(c)
         \/ \E d \in Dirs : RunCommand(d)
         \/ Aside
<1>1. /\ active \in Panels /\ focus \in Seq(Panels)
      /\ \A p \in Panels : path[p] \in Dirs
  BY DEF TypeInv, PanesOK
<1>2. CASE User
  <2>1. CASE TogglePanels
    BY <1>1, <2>1, OtherType DEF TogglePanels, SyncTerminal
  <2>2. CASE \E d \in Dirs : Browse(d)
    BY <2>2 DEF Browse, Aside, shellVars, termVars
  <2>3. CASE Types BY <2>3 DEF Types
  <2>4. CASE Submits \/ Exits
    <3>1. \A d \in Dirs \cup {NoDir} :
            Command("user", d) \in Inputs /\ Command("user", d).op = "submit"
              /\ Command("user", d).by = "user"
      BY CommandType DEF Writers, Command
    <3> QED BY <2>4, <3>1, EditTypes, Ops DEF Submits, Exits
  <2>5. CASE Runs BY <1>1, <2>5 DEF Runs
  <2> QED BY <1>2, <2>1, <2>2, <2>3, <2>4, <2>5 DEF User
<1>3. CASE Wipe BY <1>3 DEF Wipe, Aside, termVars
<1>4. CASE Shells BY <1>4 DEF Shells
<1>5. CASE Widget BY <1>5 DEF Widget
<1>6. CASE Host
  <2>1. CASE Focused BY <1>1, <2>1 DEF Focused, SyncTerminal
  <2>2. CASE TerminalPathChanged
    BY <2>2 DEF TerminalPathChanged, Aside, shellVars
  <2>3. CASE \E p \in Panels : Load(p)
    BY <2>3 DEF Load, Aside, shellVars, termVars
  <2>4. CASE \E p \in Panels : PathChangedOf(p)
    BY <1>1, <2>4 DEF PathChangedOf, SyncTerminal
  <2> QED BY <1>6, <2>1, <2>2, <2>3, <2>4 DEF Host
<1>7. CASE UNCHANGED vars BY <1>7 DEF vars, shellVars, termVars, Aside
<1> QED BY <1>2, <1>3, <1>4, <1>5, <1>6, <1>7 DEF Next

LEMMA PatientStep ==
  ASSUME PatientInv, [Next]_vars PROVE PatientInv'
<1>1. TypeInv /\ TypeInv' BY PanelsStepType DEF PatientInv
<1>w. WireOK /\ WidgetOK BY <1>1 DEF TypeInv
<1> SUFFICES ASSUME Habits = {}, ~term'.repaired PROVE Orderly'
  BY <1>1 DEF PatientInv
<1>2. CASE Respawn BY <1>1, <1>2, RespawnOrderly
<1>3. CASE Timeout BY <1>w, <1>3, TimeoutType
<1>4. CASE Recv
  <2>1. Orderly BY <1>w, <1>4, RecvType DEF PatientInv
  <2>2. Head(out).kind \in {"precmd", "echo"}
    BY <1>w, <1>4, HeadReport DEF Recv
  <2> QED BY <1>1, <1>4, <2>1, <2>2, EchoOrderly, PreCmdOrderly
<1>5. CASE Forward
  <2>1. Orderly BY <1>w, <1>5, ForwardType DEF PatientInv
  <2> QED BY <1>1, <1>5, <2>1, ForwardOrderly
<1>6. CASE ShellSteps /\ UNCHANGED termVars
  <2>1. Orderly BY <1>6 DEF PatientInv, termVars
  <2> QED BY <1>1, <1>6, <2>1, EditLineOrderly, SubmitOrderly, CommandEndsOrderly,
             ShellExitsOrderly DEF ShellSteps
<1>7. ASSUME NEW d \in Dirs, NEW p \in Panels, RequestCd(d, p) PROVE Orderly'
  <2>1. Orderly BY <1>w, <1>7, RequestCdType DEF PatientInv
  <2> QED BY <1>1, <1>7, <2>1, RequestCdOrderly
<1>8. ASSUME NEW op \in {Key, Erase}, Type(op) PROVE Orderly'
  <2>1. Orderly BY <1>w, <1>8, TypeType DEF PatientInv
  <2> QED BY <1>1, <1>8, <2>1, TypeOrderly
<1>9. ASSUME NEW c \in Inputs, c.op \in {"submit", "exit"}, c.by = "user", Enter(c)
      PROVE  Orderly'
  <2>1. Orderly BY <1>w, <1>9, EnterType DEF PatientInv
  <2> QED BY <1>1, <1>9, <2>1, EnterOrderly
<1>10. ASSUME NEW d \in Dirs, RunCommand(d) PROVE Orderly'
  <2>1. Orderly BY <1>w, <1>10, RunCommandType DEF PatientInv
  <2> QED BY <1>1, <1>10, <2>1, RunCommandOrderly
<1>11. CASE Aside
  <2>1. Orderly BY <1>11 DEF PatientInv, Aside
  <2> QED BY <1>11, <2>1, UntouchedOrderly DEF Aside
<1> QED BY <1>1, <1>2, <1>3, <1>4, <1>5, <1>6, <1>7, <1>8, <1>9, <1>10, <1>11, StepKinds

LEMMA PatientInvariant == Spec => []PatientInv
<1>1. Init => PatientInv BY InitType, InitOrderly DEF PatientInv
<1>2. PatientInv /\ [Next]_vars => PatientInv' BY PatientStep
<1> QED BY <1>1, <1>2, PTL DEF Spec

\* With a user who waits for the answers of the shell, what was typed and not
\* submitted is never run with a command the program writes, and is on the line
\* when nothing is in flight: through any chain of navigations, stashes, retries,
\* user-menu commands and shells that exit (terminal.py:701).
THEOREM TypedTextIsKept == Habits = {} => (Spec => []TypedIsKept)
<1> SUFFICES ASSUME Habits = {} PROVE Spec => []TypedIsKept OBVIOUS
<1>1. PatientInv => TypedIsKept
  BY CalmIdle DEF PatientInv, Orderly, TypedIsKept, Calm, Idle
<1> QED BY <1>1, PatientInvariant, PTL

\* With such a user run_command() comes back when its line has finished or the
\* shell is gone, never on the report of another command.
THEOREM RunComesBackWhenDone == Habits = {} => (Spec => RunAwaits)
<1> SUFFICES ASSUME Habits = {} PROVE Spec => RunAwaits OBVIOUS
<1> DEFINE Finishes ==
      term.run /\ ~term'.run /\ ~term.repaired =>
        prog.by # "run" /\ \A i \in DOMAIN pty : pty[i].by # "run"
<1>1. ASSUME PatientInv, [Next]_vars PROVE Finishes
  <2> SUFFICES ASSUME term.run, ~term'.run, ~term.repaired
               PROVE  prog.by # "run" /\ pty = <<>>
    OBVIOUS
  <2>1. Orderly /\ TypeInv BY <1>1 DEF PatientInv
  <2>2. WireOK /\ WidgetOK BY <2>1 DEF TypeInv
  <2>3. CASE Recv
    <3>1. CASE Head(out).kind = "precmd"
      <4>1. Reported BY <2>1, <2>3, <3>1, ReportArrives DEF Recv
      <4> QED BY <4>1, Ops DEF Reported, Quiet
    <3>2. CASE Head(out).kind = "echo"
      BY <2>1, <2>3, <3>2, EchoOrderly
    <3> QED BY <2>2, <2>3, <3>1, <3>2, HeadReport DEF Recv
  <2>4. CASE Respawn
    <3>1. out # <<>> /\ Head(out).kind = "disconnect" BY <2>4 DEF Respawn
    <3>2. CommandRuns(prog) /\ prog.op = "exit" /\ Owned(prog)
      BY <2>1, <3>1, GoneLast
    <3> QED BY <3>2 DEF CommandRuns, Owned
  <2>5. ~Timeout BY <2>2, TimeoutType
  <2>6. ~Forward BY DEF Forward
  <2>7. ~(ShellSteps /\ UNCHANGED termVars) BY DEF termVars
  <2>8. ~\E d \in Dirs, p \in Panels : RequestCd(d, p) BY <2>2, RequestCdType
  <2>9. ~\E op \in {Key, Erase} : Type(op) BY <2>2, TypeType
  <2>10. ~\E c \in Inputs : Enter(c) BY <2>2, EnterType
  <2>11. ~\E d \in Dirs : RunCommand(d) BY <2>2, RunCommandType
  <2>12. ~Aside BY DEF Aside
  <2> QED BY <1>1, <2>1, <2>3, <2>4, <2>5, <2>6, <2>7, <2>8, <2>9, <2>10, <2>11, <2>12,
             StepKinds
<1>2. PatientInv /\ [Next]_vars => [Finishes]_vars BY <1>1
<1> QED BY <1>2, PatientInvariant, PTL DEF Spec, RunAwaits

\* With such a user a directory the shell was sent to is never announced, and one a
\* command moved it to is, with the panel from which the command was submitted
\* (terminal.py:290-293).
THEOREM NavigationIsSilent == Habits = {} => (Spec => SilentNavigation)
<1> SUFFICES ASSUME Habits = {} PROVE Spec => SilentNavigation OBVIOUS
<1> DEFINE Silent ==
      Len(posts') > Len(posts) /\ ~term.repaired =>
        \/ mover = "init"
        \/ (mover # "nav" /\ posts'[Len(posts')].owner = by)
<1>1. ASSUME PatientInv, [Next]_vars PROVE Silent
  <2> SUFFICES ASSUME Len(posts') > Len(posts), ~term.repaired, mover # "init"
               PROVE  mover # "nav" /\ posts'[Len(posts')].owner = by
    OBVIOUS
  <2>1. Orderly /\ TypeInv BY <1>1 DEF PatientInv
  <2>2. WireOK /\ WidgetOK /\ posts \in Seq(PathChangedRecord) BY <2>1 DEF TypeInv, WidgetOK
  <2>3. posts' # posts BY <2>2
  <2>4. CASE Recv
    <3>1. Head(out).kind = "precmd"
      BY <2>1, <2>2, <2>3, <2>4, EchoOrderly, HeadReport DEF Recv
    <3>2. posts' = posts \o HandlePreCmd(term, dir).posted
      <4>1. out = <<PreCmdOf(dir)>> BY <2>1, <2>4, <3>1, ReportArrives DEF Recv
      <4>2. Head(out).dir = dir BY <4>1, One, Kinds
      <4> QED BY <2>4, <3>1, <4>2 DEF Recv, Becomes
    <3>3. Ready(term) /\ term \in TerminalRecord /\ dir \in Dirs
      BY <2>2 DEF WidgetOK, WireOK, Ready, Fit
    <3>4. ~term.busy /\ HandlePreCmd(term, dir).posted = Posted(term, dir)
      <4>1. CASE term.busy
        <5>1. CASE Retries(term, dir)
          <6>1. Retried(term, dir, HandlePreCmd(term, dir))
            BY <3>3, <4>1, <5>1, PreCmdRetries, Zenon
          <6> QED BY <2>2, <2>3, <3>2, <6>1 DEF Retried
        <5>2. CASE ~Retries(term, dir)
          <6>1. Finished(term, dir, HandlePreCmd(term, dir))
            BY <3>3, <4>1, <5>2, PreCmdFinishes, Zenon
          <6> QED BY <2>2, <2>3, <3>2, <6>1 DEF Finished
        <5> QED BY <5>1, <5>2
      <4>2. CASE ~term.busy
        <5>1. CASE term.target \notin {NoDir, dir}
          <6>1. Departed(term, dir, HandlePreCmd(term, dir))
            BY <3>3, <4>2, <5>1, PreCmdStarts, Zenon
          <6> QED BY <4>2, <6>1 DEF Departed
        <5>2. CASE term.target \in {NoDir, dir}
          <6>1. Rested(term, dir, HandlePreCmd(term, dir))
            BY <3>3, <4>2, <5>2, PreCmdRests, Zenon
          <6> QED BY <4>2, <6>1 DEF Rested
        <5> QED BY <5>1, <5>2
      <4> QED BY <4>1, <4>2
    <3>5. Announces(term, dir, term.cwd) BY <2>2, <2>3, <3>2, <3>4 DEF Posted
    <3>6. dir # term.cwd BY <3>5 DEF Announces
    <3>7. mover \in {"user", "run"} /\ term.cmdOwner = by
      BY <2>1, <2>2, <3>4, <3>6 DEF Orderly, Moved, WireOK, Writers
    <3> DEFINE m == [dir |-> dir, owner |-> term.cmdOwner]
    <3>8. m \in PathChangedRecord /\ m.owner = by
      BY <3>3, <3>7 DEF PathChangedRecord, TerminalRecord
    <3>9. posts' = posts \o <<m>> BY <3>2, <3>4, <3>5 DEF Posted
    <3> HIDE DEF m
    <3>10. posts'[Len(posts')] = m BY <2>2, <3>8, <3>9
    <3> QED BY <3>7, <3>8, <3>10
  <2>5. ~Respawn BY <2>2, <2>3, RespawnType
  <2>6. ~Timeout BY <2>2, <2>3, TimeoutType
  <2>7. ~Forward BY <2>3 DEF Forward
  <2>8. ~(ShellSteps /\ UNCHANGED termVars) BY <2>3 DEF termVars
  <2>9. ~\E d \in Dirs, p \in Panels : RequestCd(d, p) BY <2>2, <2>3, RequestCdType
  <2>10. ~\E op \in {Key, Erase} : Type(op) BY <2>3 DEF Type
  <2>11. ~\E c \in Inputs : Enter(c) BY <2>3 DEF Enter
  <2>12. ~\E d \in Dirs : RunCommand(d) BY <2>2, <2>3, RunCommandType
  <2>13. ~Aside BY <2>2, <2>3 DEF Aside
  <2> QED BY <1>1, <2>1, <2>4, <2>5, <2>6, <2>7, <2>8, <2>9, <2>10, <2>11, <2>12, <2>13,
             StepKinds
<1>2. PatientInv /\ [Next]_vars => [Silent]_vars BY <1>1
<1> QED BY <1>2, PatientInvariant, PTL DEF Spec, SilentNavigation


-----------------------------------------------------------------------------
(***************************************************************************)
(* The terminal follows the panels, until the hook is repaired.            *)
(***************************************************************************)

\* Where the widget last knew the shell to be, and the panels that show it.
Where == IF term.cwd = NoDir THEN Home ELSE term.cwd
Near(p) == path[p] \in {Where} \cup Lost

\* Something will point the terminal again: a message that moves a panel, a
\* directory being loaded, a message of a panel.
Leads(m) == m.dir # path[Follower(m)]
Coming ==
  \/ changed # {} \/ focus # <<>>
  \/ \E p \in Panels : pending[p] # NoDir
  \/ \E i \in DOMAIN posts : Leads(posts[i])

Pointed == IF term.target = NoDir THEN Near(active) ELSE path[active] = term.target

Attentive == term.owner = active /\ focus \in {<<>>, <<active>>}

\* While the command of a panel is out nothing else moves a panel, and it is
\* out of a panel that shows where the shell was.
Commanded ==
  term.cmdOwner # NoPanel =>
    /\ ~term.busy /\ ~term.atPrompt /\ term.cwd # NoDir /\ posts = <<>>
    /\ \A p \in Panels : pending[p] # NoDir \/ p \in changed => p = active
    /\ term.target = NoDir /\ term.cmdOwner # active => Near(term.cmdOwner)

PanesFollow == Attentive /\ Commanded /\ (Coming \/ Pointed)

\* The commands the shell has not ended, and whether it has reported one.
InFlight ==
  {c \in Range(sendq) \cup Range(pty) \cup {prog} : c.op \in {"submit", "exit"}}
Reporting == \E m \in Range(out) : m.kind = "precmd"

Awaited == ~term.atPrompt /\ hook => InFlight # {} \/ Reporting

\* The shell is sent nowhere else while a transaction runs.
Bound ==
  term.busy =>
    /\ term.lastSent # NoDir
    /\ \A c \in InFlight : c.to = term.lastSent
    /\ InFlight = {} => dir = term.lastSent \/ term.lastSent \in Lost

\* A shell that has not reported yet is where it started.
Starting ==
  term.cwd = NoDir =>
    /\ dir = Home /\ ~term.busy /\ ~term.atPrompt
    /\ \/ InFlight = {Command("init", NoDir)}
       \/ InFlight = {} /\ Reporting

WireFollows == Awaited /\ Bound /\ Starting

LEMMA RangeOfFew ==
  /\ Range(<<>>) = {}
  /\ \A a : Range(<<a>>) = {a}
  /\ \A a, b : Range(<<a, b>>) = {a, b}
  /\ \A a, b, c : Range(<<a, b, c>>) = {a, b, c}
<1>1. Range(<<>>) = {} BY DEF Range
<1>2. ASSUME NEW a PROVE Range(<<a>>) = {a} BY DEF Range
<1>3. ASSUME NEW a, NEW b PROVE Range(<<a, b>>) = {a, b}
  <2>1. DOMAIN <<a, b>> = {1, 2} /\ <<a, b>>[1] = a /\ <<a, b>>[2] = b OBVIOUS
  <2> QED BY <2>1, Zenon DEF Range
<1>4. ASSUME NEW a, NEW b, NEW c PROVE Range(<<a, b, c>>) = {a, b, c}
  <2>1. DOMAIN <<a, b, c>> = {1, 2, 3} /\ <<a, b, c>>[1] = a /\ <<a, b, c>>[2] = b
        /\ <<a, b, c>>[3] = c
    OBVIOUS
  <2> QED BY <2>1, Zenon DEF Range
<1> QED BY <1>1, <1>2, <1>3, <1>4

LEMMA RangeAppend ==
  ASSUME NEW S, NEW s \in Seq(S), NEW e \in S
  PROVE  Range(Append(s, e)) = Range(s) \cup {e}
<1>1. <<e>> \in Seq(S) OBVIOUS
<1>2. Append(s, e) = s \o <<e>> BY AppendIsConcat
<1>3. Range(s \o <<e>>) = Range(s) \cup Range(<<e>>) BY <1>1, RangeConcatenation, Zenon
<1> QED BY <1>2, <1>3, RangeOfFew, Zenon

LEMMA RangeHead ==
  ASSUME NEW S, NEW s \in Seq(S), s # <<>>
  PROVE  Range(s) = {Head(s)} \cup Range(Tail(s))
<1>1. Range(s) = {s[i] : i \in 1 .. Len(s)} BY RangeEquality
<1>2. Tail(s) \in Seq(S) /\ Len(Tail(s)) = Len(s) - 1 /\ Len(s) \in Nat \ {0} OBVIOUS
<1>3. Range(Tail(s)) = {Tail(s)[i] : i \in 1 .. Len(s) - 1} BY <1>2, RangeEquality
<1>4. Head(s) = s[1] /\ \A i \in 1 .. Len(s) - 1 : Tail(s)[i] = s[i + 1] OBVIOUS
<1>5. ASSUME NEW x \in Range(s) PROVE x \in {Head(s)} \cup Range(Tail(s))
  <2>1. PICK i \in 1 .. Len(s) : x = s[i] BY <1>1
  <2>2. CASE i = 1 BY <1>4, <2>1, <2>2
  <2>3. CASE i # 1
    <3>1. i - 1 \in 1 .. Len(s) - 1 BY <1>2, <2>3
    <3>2. Tail(s)[i - 1] = s[i] BY <1>4, <3>1
    <3> QED BY <1>3, <2>1, <3>1, <3>2
  <2> QED BY <2>2, <2>3
<1>6. ASSUME NEW x \in {Head(s)} \cup Range(Tail(s)) PROVE x \in Range(s)
  <2>1. CASE x = Head(s)
    <3>1. 1 \in 1 .. Len(s) BY <1>2
    <3> QED BY <1>1, <1>4, <2>1, <3>1
  <2>2. CASE x \in Range(Tail(s))
    <3>1. PICK i \in 1 .. Len(s) - 1 : x = Tail(s)[i] BY <1>3, <2>2
    <3>2. i + 1 \in 1 .. Len(s) BY <1>2
    <3> QED BY <1>1, <1>4, <3>1, <3>2
  <2> QED BY <2>1, <2>2
<1> QED BY <1>5, <1>6

\* What is on its way, by the phases of the patient user.
LEMMA QuietFlight ==
  ASSUME sendq = <<>>, pty = <<>> \/ pty = <<Yank>>, prog = NoProg PROVE InFlight = {}
BY RangeOfFew, Ops DEF InFlight

LEMMA WrittenFlight ==
  ASSUME sendq = <<>>, prog = NoProg, NEW c, c.op \in {"submit", "exit"},
         pty = <<c>> \/ pty = <<Kill, c>> \/ pty = <<Yank, Kill, c>>
  PROVE  InFlight = {c}
BY RangeOfFew, Ops DEF InFlight

LEMMA ReportingOnly ==
  ASSUME Orderly, Reporting PROVE Reported
<1>1. ~Echoes
  <2>1. \A n : Range(<<EchoOf(n)>>) = {EchoOf(n)} /\ EchoOf(n).kind = "echo"
    BY RangeOfFew, Kinds
  <2> QED BY <2>1, RangeOfFew DEF Echoes, Reporting
<1>2. ~EchoThen(Gone)
  <2>1. \A n : /\ Range(<<EchoOf(n), Gone>>) = {EchoOf(n), Gone} /\ EchoOf(n).kind = "echo"
               /\ Range(<<Gone>>) = {Gone} /\ Gone.kind = "disconnect"
    BY RangeOfFew, Kinds
  <2> QED BY <2>1 DEF EchoThen, Reporting
<1>3. out # <<>> BY RangeOfFew DEF Reporting
<1> QED BY <1>1, <1>2, <1>3 DEF Orderly, Phases, Idle, KeyComing, YankComing, Outstanding,
           CommandWaits, CommandComing, CommandRuns

\* Steps that leave what is on its way as it is.
LEMMA SameFlight ==
  ASSUME WireFollows, InFlight' = InFlight, Reporting => Reporting', dir' = dir,
         hook' => hook,
         term'.atPrompt = term.atPrompt, term'.busy = term.busy, term'.cwd = term.cwd,
         term'.lastSent = term.lastSent
  PROVE  WireFollows'
<1>1. Awaited' BY DEF WireFollows, Awaited
<1>2. Bound' BY DEF WireFollows, Bound
<1>3. Starting' BY DEF WireFollows, Starting
<1> QED BY <1>1, <1>2, <1>3 DEF WireFollows

\* Steps in which the widget sends the shell to its target.
LEMMA SentFlight ==
  ASSUME term'.busy, ~term'.atPrompt, term'.lastSent # NoDir, term'.cwd # NoDir,
         sendq' = <<>>, prog' = NoProg,
         NEW c, c.op = "submit", c.to = term'.lastSent,
         pty' = <<c>> \/ pty' = <<Kill, c>> \/ pty' = <<Yank, Kill, c>>
  PROVE  WireFollows'
<1>1. InFlight' = {c}
  <2>1. c.op \in {"submit", "exit"} OBVIOUS
  <2> QED BY <2>1, RangeOfFew, Ops DEF InFlight
<1> QED BY <1>1 DEF WireFollows, Awaited, Bound, Starting


\* The shell: what it reads it runs, and what it runs it reports.
LEMMA ShellFollows ==
  ASSUME TypeInv, Orderly, WireFollows, ShellSteps, UNCHANGED termVars PROVE WireFollows'
<1>1. /\ pty \in Seq(Inputs) /\ out \in Seq(Report) /\ dir \in Dirs \ Lost
      /\ term.lastSent \in Dirs \cup {NoDir}
  BY DEF TypeInv, WireOK, WidgetOK, Ready, Fit, TerminalRecord
<1>2. term' = term /\ sendq' = sendq BY DEF termVars
<1>3. CASE EditLine
  <2>1. /\ pty # <<>> /\ pty' = Tail(pty) /\ Head(pty).op \notin {"submit", "exit"}
        /\ dir' = dir /\ hook' = hook /\ prog' = prog
        /\ out' = out \/ out' = Append(out, EchoOf(line'))
    BY <1>3 DEF EditLine, Reads, Next1
  <2>2. line' \in Nat
    BY <1>3 DEF EditLine, TypeInv, WireOK
  <2>3. InFlight' = InFlight BY <1>1, <1>2, <2>1, RangeHead DEF InFlight
  <2>4. EchoOf(line') \in Report BY <2>2, ReportTypes
  <2>5. Reporting => Reporting'
    <3>1. CASE out' = out BY <3>1 DEF Reporting
    <3>2. CASE out' = Append(out, EchoOf(line'))
      <4> DEFINE m == EchoOf(line')
      <4> HIDE DEF m
      <4>1. Range(out') = Range(out) \cup {m} BY <1>1, <2>4, <3>2, RangeAppend, Zenon DEF m
      <4> QED BY <4>1 DEF Reporting
    <3> QED BY <2>1, <3>1, <3>2
  <2> QED BY <1>2, <2>1, <2>3, <2>5, SameFlight
<1>4. CASE Submit
  <2>1. /\ pty # <<>> /\ pty' = Tail(pty) /\ Head(pty).op \in {"submit", "exit"}
        /\ prog = NoProg /\ dir' = dir /\ hook' = hook /\ out' = out
    BY <1>4 DEF Submit, Reads, AtPrompt, Next1
  <2>2. ~spoilt' BY <1>4, SubmitOrderly DEF Orderly
  <2>3. prog' = Head(pty) BY <1>4, <2>2 DEF Submit, Next1
  <2>4. InFlight' = InFlight BY <1>1, <1>2, <2>1, <2>3, RangeHead, Ops DEF InFlight
  <2>5. Reporting => Reporting' BY <2>1 DEF Reporting
  <2> QED BY <1>2, <2>1, <2>4, <2>5, SameFlight
<1>5. CASE CommandEnds
  <2>1. /\ prog.op = "submit" /\ prog' = NoProg /\ pty' = pty
        /\ dir' = IF prog.to \in Dirs \ Lost THEN prog.to ELSE dir
        /\ hook' = (hook \/ prog.by = "init")
        /\ out' = IF hook' THEN Append(out, PreCmdOf(dir')) ELSE out
    BY <1>5 DEF CommandEnds
  <2>2. prog # NoProg BY <2>1, Ops
  <2>3. sendq = <<>> /\ pty = <<>> BY <2>2, RunsOrderly DEF CommandRuns
  <2>4. InFlight = {prog} BY <2>1, <2>3, RangeOfFew DEF InFlight
  <2>5. InFlight' = {} BY <1>2, <2>1, <2>3, RangeOfFew, Ops DEF InFlight
  <2>6. hook' => Reporting'
    <3>1. dir' \in Dirs \ Lost BY <1>1, <2>1
    <3>2. PreCmdOf(dir') \in Report /\ PreCmdOf(dir').kind = "precmd"
      BY <3>1, ReportTypes, Kinds
    <3> QED BY <1>1, <2>1, <3>2, RangeAppend DEF Reporting
  <2>7. Awaited' BY <2>6 DEF Awaited
  <2>8. Bound'
    <3> SUFFICES ASSUME term.busy
                 PROVE  term.lastSent # NoDir /\ (dir' = term.lastSent \/ term.lastSent \in Lost)
      BY <1>2, <2>5 DEF Bound
    <3>1. prog.to = term.lastSent /\ term.lastSent # NoDir BY <2>4 DEF WireFollows, Bound
    <3> QED BY <1>1, <2>1, <3>1
  <2>9. Starting'
    <3> SUFFICES ASSUME term.cwd = NoDir
                 PROVE  dir' = Home /\ ~term.busy /\ ~term.atPrompt /\ Reporting'
      BY <1>2, <2>5 DEF Starting
    <3>1. /\ dir = Home /\ ~term.busy /\ ~term.atPrompt /\ prog = Command("init", NoDir)
      BY <2>4 DEF WireFollows, Starting
    <3>2. prog.to = NoDir /\ prog.by = "init" BY <3>1 DEF Command
    <3>3. hook' /\ dir' = dir BY <2>1, <3>2, DirsAssumption
    <3> QED BY <2>6, <3>1, <3>3
  <2> QED BY <2>7, <2>8, <2>9 DEF WireFollows
<1>6. CASE ShellExits
  <2>1. /\ pty' = pty /\ prog' = prog /\ dir' = dir /\ hook' = hook
        /\ out' = Append(out, Gone)
    BY <1>6 DEF ShellExits
  <2>2. InFlight' = InFlight BY <1>2, <2>1 DEF InFlight
  <2>3. Reporting => Reporting' BY <1>1, <2>1, ReportTypes, RangeAppend DEF Reporting
  <2> QED BY <1>2, <2>1, <2>2, <2>3, SameFlight
<1> QED BY <1>3, <1>4, <1>5, <1>6 DEF ShellSteps

LEMMA ForwardFollows ==
  ASSUME TypeInv, WireFollows, Forward PROVE WireFollows'
<1>1. /\ sendq # <<>> /\ sendq' = Tail(sendq) /\ pty' = Append(pty, Head(sendq))
      /\ UNCHANGED <<out, prog, dir, hook, term>>
  BY DEF Forward
<1>2. sendq \in Seq(Inputs) /\ pty \in Seq(Inputs) /\ Head(sendq) \in Inputs
  BY <1>1 DEF TypeInv, WireOK
<1>3. InFlight' = InFlight BY <1>1, <1>2, RangeHead, RangeAppend DEF InFlight
<1> QED BY <1>1, <1>3, SameFlight DEF Reporting

\* The shell exits and another one starts.
LEMMA RespawnFollows ==
  ASSUME TypeInv, Respawn
  PROVE  /\ WireFollows' /\ posts' = posts
         /\ term'.owner = term.owner /\ term'.cwd = term.cwd
         /\ term'.cmdOwner = NoPanel /\ term'.target = NoDir
<1> DEFINE t == [Reset(term) EXCEPT !.draining = TRUE, !.shown = 0]
           c == Command("init", NoDir)
<1>1. /\ Ready(term) /\ term \in TerminalRecord /\ term.posted = <<>>
      /\ posts \in Seq(PathChangedRecord)
  BY DEF TypeInv, WidgetOK, Ready, Fit
<1>2. /\ Becomes(t) /\ sendq' = <<>> /\ pty' = <<c>> /\ prog' = NoProg /\ dir' = Home
      /\ hook' = FALSE
  BY DEF Respawn
<1>3. /\ t \in TerminalRecord /\ Fit(t)
      /\ t.cwd = term.cwd /\ t.owner = term.owner /\ t.cmdOwner = NoPanel
      /\ t.target = NoDir /\ t.busy = FALSE /\ t.atPrompt = FALSE /\ t.posted = <<>>
  BY <1>1, ResetType, Zenon DEF Fit
<1> HIDE DEF t
<1>4. /\ term'.cwd = t.cwd /\ term'.owner = t.owner /\ term'.cmdOwner = t.cmdOwner
      /\ term'.target = t.target /\ term'.busy = t.busy /\ term'.atPrompt = t.atPrompt
      /\ posts' = posts \o t.posted
  BY <1>1, <1>2, <1>3, BecomesReady
<1>5. InFlight' = {c}
  <2>1. c.op = "submit" BY DEF Command
  <2> HIDE DEF c
  <2> QED BY <1>2, <2>1, RangeOfFew, Ops DEF InFlight
<1>6. WireFollows' BY <1>2, <1>3, <1>4, <1>5 DEF WireFollows, Awaited, Bound, Starting
<1> QED BY <1>1, <1>3, <1>4, <1>6

LEMMA EchoFollows ==
  ASSUME TypeInv, WireFollows, Recv, Head(out).kind = "echo"
  PROVE  /\ WireFollows' /\ posts' = posts
         /\ term'.owner = term.owner /\ term'.cwd = term.cwd
         /\ term'.cmdOwner = term.cmdOwner /\ term'.target = term.target
         /\ term'.busy = term.busy /\ term'.atPrompt = term.atPrompt
<1> DEFINE t == Draws(term, Head(out).len)
<1>1. /\ Ready(term) /\ term \in TerminalRecord /\ term.posted = <<>> /\ term.sent = <<>>
      /\ posts \in Seq(PathChangedRecord) /\ pty \in Seq(Inputs) /\ out \in Seq(Report)
  BY DEF TypeInv, WidgetOK, WireOK, Ready, Fit
<1>2. /\ out # <<>> /\ out' = Tail(out) /\ Becomes(t) /\ pty' = pty \o t.sent
      /\ UNCHANGED <<prog, dir, hook, sendq>>
  BY DEF Recv, Writes
<1>3. Head(out).len \in Nat BY <1>2, HeadReport DEF TypeInv
<1>4. /\ t \in TerminalRecord /\ Fit(t) /\ t.sent = <<>> /\ t.posted = <<>>
      /\ t.cwd = term.cwd /\ t.owner = term.owner /\ t.cmdOwner = term.cmdOwner
      /\ t.target = term.target /\ t.busy = term.busy /\ t.atPrompt = term.atPrompt
      /\ t.lastSent = term.lastSent
  BY <1>1, <1>3, DrawsType, DrawsFit
<1> HIDE DEF t
<1>5. /\ term'.cwd = t.cwd /\ term'.owner = t.owner /\ term'.cmdOwner = t.cmdOwner
      /\ term'.target = t.target /\ term'.busy = t.busy /\ term'.atPrompt = t.atPrompt
      /\ term'.lastSent = t.lastSent /\ posts' = posts \o t.posted
  BY <1>1, <1>2, <1>4, BecomesReady
<1>6. posts' = posts /\ pty' = pty BY <1>1, <1>2, <1>4, <1>5
<1>7. InFlight' = InFlight BY <1>2, <1>6 DEF InFlight
<1>8. Reporting => Reporting' BY <1>1, <1>2, RangeHead DEF Reporting
<1>9. WireFollows' BY <1>2, <1>4, <1>5, <1>7, <1>8, SameFlight
<1> QED BY <1>4, <1>5, <1>6, <1>9


\* What will move a panel still will when more is posted.
LEMMA ComingKept ==
  ASSUME TypeInv, Coming, UNCHANGED panelVars,
         NEW q \in Seq(PathChangedRecord), posts' = posts \o q
  PROVE  Coming'
<1>1. posts \in Seq(PathChangedRecord) BY DEF TypeInv, WidgetOK
<1>2. UNCHANGED <<active, path, pending, changed, focus>> BY DEF panelVars
<1>3. CASE changed # {} \/ focus # <<>> \/ \E p \in Panels : pending[p] # NoDir
  BY <1>2, <1>3 DEF Coming
<1>4. CASE \E i \in DOMAIN posts : Leads(posts[i])
  <2>1. PICK i \in DOMAIN posts : Leads(posts[i]) BY <1>4
  <2>2. i \in 1 .. Len(posts) BY <1>1
  <2>3. /\ Len(posts') = Len(posts) + Len(q) /\ posts'[i] = posts[i]
        /\ posts' \in Seq(PathChangedRecord)
    BY <1>1, <2>2, ConcatProperties
  <2>4. Len(posts) \in Nat /\ Len(q) \in Nat /\ DOMAIN posts' = 1 .. Len(posts')
    BY <1>1, <2>3
  <2>5. i \in DOMAIN posts' BY <2>2, <2>3, <2>4
  <2>6. posts'[i].dir # path'[IF posts'[i].owner = NoPanel THEN active' ELSE posts'[i].owner]
    BY <1>2, <2>1, <2>3 DEF Leads, Follower
  <2> QED BY <2>5, <2>6 DEF Coming, Leads, Follower
<1> QED BY <1>3, <1>4 DEF Coming

\* A report, case by case.
LEMMA PreCmdFollows ==
  ASSUME TypeInv, Orderly, WireFollows, Recv, Head(out).kind = "precmd"
  PROVE  /\ WireFollows'
         /\ PanesFollow /\ ~Drops /\ UNCHANGED panelVars => PanesFollow'
<1> DEFINE u == HandlePreCmd(term, dir)
<1>1. ReportLeaves(u) BY ReportHandled
<1>2. Reported BY ReportArrives DEF Recv
<1>3. /\ Ready(term) /\ term \in TerminalRecord /\ dir \in Dirs \ Lost
      /\ posts \in Seq(PathChangedRecord) /\ active \in Panels
  BY DEF TypeInv, WidgetOK, WireOK, PanesOK, Ready, Fit
<1>4. sendq = <<>> /\ prog = NoProg /\ pty = <<>> BY <1>2 DEF Reported, Quiet
<1>5. InFlight = {} BY <1>4, QuietFlight
<1>6. sendq' = <<>> /\ prog' = NoProg /\ dir' = dir BY <1>1, <1>4 DEF ReportLeaves
<1>7. dir # NoDir BY <1>3, DirsAssumption
<1> HIDE DEF u
<1>8. CASE term.busy
  <2>1. ASSUME PanesFollow PROVE term.cmdOwner = NoPanel
    BY <1>8, <2>1 DEF PanesFollow, Commanded
  <2>2. term.target # NoDir BY <1>3, <1>8 DEF Ready, Fit
  <2>3. CASE Retries(term, dir)
    <3>1. Retried(term, dir, u) BY <1>3, <1>8, <2>3, PreCmdRetries, Zenon DEF u
    <3>2. /\ term'.cwd = dir /\ term'.busy /\ ~term'.atPrompt /\ term'.owner = term.owner
          /\ term'.target = term.target /\ term'.lastSent = term.target
          /\ term'.cmdOwner = term.cmdOwner
          /\ pty' = <<Command("nav", term.target)>> /\ posts' = posts \o <<>>
      BY <1>1, <3>1 DEF Retried, ReportLeaves
    <3> DEFINE c == Command("nav", term.target)
    <3>3. c.op = "submit" /\ c.to = term.target BY DEF Command
    <3> HIDE DEF c
    <3>4. WireFollows'
      <4>1. pty' = <<c>> BY <3>2 DEF c
      <4> QED BY <1>6, <1>7, <2>2, <3>2, <3>3, <4>1, SentFlight
    <3>5. ASSUME PanesFollow, UNCHANGED panelVars PROVE PanesFollow'
      <4>1. Attentive' /\ Commanded'
        BY <2>1, <3>2, <3>5 DEF PanesFollow, Attentive, Commanded, panelVars
      <4>2. Coming => Coming'
        <5>1. <<>> \in Seq(PathChangedRecord) OBVIOUS
        <5> QED BY <3>2, <3>5, <5>1, ComingKept
      <4>3. Pointed => Pointed' BY <2>2, <3>2, <3>5 DEF Pointed, panelVars
      <4> QED BY <3>5, <4>1, <4>2, <4>3 DEF PanesFollow
    <3> QED BY <3>4, <3>5
  <2>4. CASE ~Retries(term, dir)
    <3>1. Finished(term, dir, u) BY <1>3, <1>8, <2>4, PreCmdFinishes, Zenon DEF u
    <3>2. /\ term'.cwd = dir /\ ~term'.busy /\ term'.atPrompt /\ term'.owner = term.owner
          /\ term'.target = NoDir /\ term'.cmdOwner = term.cmdOwner
          /\ posts' = posts \o <<>>
      BY <1>1, <3>1 DEF Finished, ReportLeaves
    <3>3. WireFollows' BY <1>7, <3>2 DEF WireFollows, Awaited, Bound, Starting
    <3>4. ASSUME PanesFollow, ~Drops, UNCHANGED panelVars PROVE PanesFollow'
      <4>1. Attentive' /\ Commanded'
        BY <2>1, <3>2, <3>4 DEF PanesFollow, Attentive, Commanded, panelVars
      <4>2. Coming => Coming'
        <5>1. <<>> \in Seq(PathChangedRecord) OBVIOUS
        <5> QED BY <3>2, <3>4, <5>1, ComingKept
      <4>3. Pointed => Pointed'
        <5> SUFFICES ASSUME Pointed PROVE path[active] \in {dir} \cup Lost
          BY <1>7, <3>2, <3>4 DEF Pointed, Near, Where, panelVars
        <5>1. path[active] = term.target BY <2>2 DEF Pointed
        <5>2. term.target = term.lastSent \/ term.target = dir
          BY <2>2, <3>2, <3>4 DEF Drops
        <5>3. dir = term.lastSent \/ term.lastSent \in Lost
          BY <1>5, <1>8 DEF WireFollows, Bound
        <5> QED BY <5>1, <5>2, <5>3
      <4> QED BY <3>4, <4>1, <4>2, <4>3 DEF PanesFollow
    <3> QED BY <3>3, <3>4
  <2> QED BY <2>3, <2>4
<1>9. CASE ~term.busy
  <2>1. Posted(term, dir) \in Seq(PathChangedRecord)
    <3> DEFINE m == [dir |-> dir, owner |-> term.cmdOwner]
    <3>1. m \in PathChangedRecord BY <1>3 DEF PathChangedRecord, TerminalRecord
    <3> HIDE DEF m
    <3>2. <<m>> \in Seq(PathChangedRecord) /\ <<>> \in Seq(PathChangedRecord) BY <3>1
    <3> QED BY <3>2, Zenon DEF Posted, m
  <2>2. CASE term.target \notin {NoDir, dir}
    <3>1. Departed(term, dir, u) BY <1>3, <1>9, <2>2, PreCmdStarts, Zenon DEF u
    <3> DEFINE c == Command("nav", term.target)
    <3>2. /\ term'.cwd = dir /\ term'.busy /\ ~term'.atPrompt /\ term'.owner = term.owner
          /\ term'.target = term.target /\ term'.lastSent = term.target
          /\ term'.cmdOwner = NoPanel
          /\ pty' = <<Yank, Kill, c>> \/ pty' = <<c>>
          /\ posts' = posts \o Posted(term, dir)
      BY <1>1, <3>1 DEF Departed, ReportLeaves
    <3>3. c.op = "submit" /\ c.to = term.target BY DEF Command
    <3> HIDE DEF c
    <3>4. WireFollows' BY <1>6, <1>7, <2>2, <3>2, <3>3, SentFlight
    <3>5. ASSUME PanesFollow, UNCHANGED panelVars PROVE PanesFollow'
      <4>1. Attentive' /\ Commanded'
        BY <3>2, <3>5 DEF PanesFollow, Attentive, Commanded, panelVars
      <4>2. Coming => Coming' BY <2>1, <3>2, <3>5, ComingKept
      <4>3. Pointed => Pointed' BY <2>2, <3>2, <3>5 DEF Pointed, panelVars
      <4> QED BY <3>5, <4>1, <4>2, <4>3 DEF PanesFollow
    <3> QED BY <3>4, <3>5
  <2>3. CASE term.target \in {NoDir, dir}
    <3>1. Rested(term, dir, u) BY <1>3, <1>9, <2>3, PreCmdRests, Zenon DEF u
    <3>2. /\ term'.cwd = dir /\ ~term'.busy /\ term'.atPrompt /\ term'.owner = term.owner
          /\ term'.target = NoDir /\ term'.cmdOwner = NoPanel
          /\ posts' = posts \o Posted(term, dir)
      BY <1>1, <3>1 DEF Rested, ReportLeaves
    <3>3. WireFollows' BY <1>7, <3>2 DEF WireFollows, Awaited, Bound, Starting
    <3>4. ASSUME PanesFollow, UNCHANGED panelVars PROVE PanesFollow'
      <4>1. Attentive' /\ Commanded'
        BY <3>2, <3>4 DEF PanesFollow, Attentive, Commanded, panelVars
      <4>2. CASE Coming BY <2>1, <3>2, <3>4, <4>1, <4>2, ComingKept DEF PanesFollow
      <4>3. CASE Pointed /\ path[active] \in {dir} \cup Lost
        BY <1>7, <3>2, <3>4, <4>1, <4>3 DEF PanesFollow, Pointed, Near, Where, panelVars
      <4>4. CASE Pointed /\ path[active] \notin {dir} \cup Lost
        <5>1. term.target = NoDir /\ path[active] = Where /\ dir # Where
          BY <2>3, <4>4 DEF Pointed, Near
        <5>2. term.cwd # NoDir BY <5>1 DEF WireFollows, Starting, Where
        <5>3. Announces(term, dir, term.cwd) BY <5>1, <5>2 DEF Announces, Where
        <5> DEFINE m == [dir |-> dir, owner |-> term.cmdOwner]
        <5>4. m \in PathChangedRecord BY <1>3 DEF PathChangedRecord, TerminalRecord
        <5>5. posts' = posts \o <<m>> BY <3>2, <5>3 DEF Posted
        <5>6. dir # path[Follower(m)]
          <6>1. CASE term.cmdOwner \in {NoPanel, active} BY <4>4, <6>1 DEF Follower
          <6>2. CASE term.cmdOwner \notin {NoPanel, active}
            <7>1. path[term.cmdOwner] \in {Where} \cup Lost
              BY <3>4, <5>1, <6>2 DEF PanesFollow, Commanded, Near
            <7> QED BY <1>3, <5>1, <6>2, <7>1 DEF Follower
          <6> QED BY <6>1, <6>2
        <5>7. m.dir = dir OBVIOUS
        <5> HIDE DEF m
        <5>8. Len(posts') \in DOMAIN posts' /\ posts'[Len(posts')] = m
          <6>1. posts' = Append(posts, m) BY <1>3, <5>4, <5>5, AppendIsConcat
          <6>2. /\ posts' \in Seq(PathChangedRecord) /\ Len(posts') = Len(posts) + 1
                /\ posts'[Len(posts')] = m
            BY <1>3, <5>4, <6>1, AppendProperties
          <6>3. Len(posts) \in Nat /\ DOMAIN posts' = 1 .. Len(posts') BY <1>3, <6>2
          <6> QED BY <6>2, <6>3
        <5>9. m.dir # path'[IF m.owner = NoPanel THEN active' ELSE m.owner]
          BY <3>4, <5>6, <5>7 DEF Follower, panelVars
        <5>10. Coming' BY <5>8, <5>9 DEF Coming, Leads, Follower
        <5> QED BY <4>1, <5>10 DEF PanesFollow
      <4> QED BY <3>4, <4>2, <4>3, <4>4 DEF PanesFollow
    <3> QED BY <3>3, <3>4
  <2> QED BY <2>2, <2>3
<1> QED BY <1>8, <1>9


\* What the user does at the keyboard.
LEMMA CalmFollows ==
  ASSUME WireFollows, Calm PROVE InFlight = {} /\ term.cwd # NoDir
<1>1. sendq = <<>> /\ pty = <<>> /\ out = <<>> /\ prog = NoProg BY DEF Calm, AtPrompt
<1>2. InFlight = {} BY <1>1, QuietFlight
<1>3. ~Reporting BY <1>1, RangeOfFew DEF Reporting
<1> QED BY <1>2, <1>3 DEF WireFollows, Starting

LEMMA TypeFollows ==
  ASSUME TypeInv, WireFollows, NEW op \in {Key, Erase}, Type(op)
  PROVE  /\ WireFollows' /\ posts' = posts
         /\ term'.owner = term.owner /\ term'.cwd = term.cwd
         /\ term'.cmdOwner = term.cmdOwner /\ term'.target = term.target
         /\ term'.busy = term.busy /\ term'.atPrompt = term.atPrompt
<1>1. /\ term \in TerminalRecord /\ sendq \in Seq(Inputs)
      /\ term' = [term EXCEPT !.input = TRUE] /\ sendq' = Append(sendq, op)
      /\ UNCHANGED <<pty, out, prog, dir, hook, posts>>
  BY DEF Type, TypeInv, WidgetOK, WireOK, Ready, Fit, shellKept
<1>2. /\ term'.owner = term.owner /\ term'.cwd = term.cwd
      /\ term'.cmdOwner = term.cmdOwner /\ term'.target = term.target
      /\ term'.busy = term.busy /\ term'.atPrompt = term.atPrompt
      /\ term'.lastSent = term.lastSent
  BY <1>1 DEF TerminalRecord
<1>3. op \in Inputs /\ op.op \notin {"submit", "exit"} BY EditTypes, Ops
<1>4. InFlight' = InFlight BY <1>1, <1>3, RangeAppend DEF InFlight
<1> QED BY <1>1, <1>2, <1>4, SameFlight DEF Reporting

LEMMA EnterFollows ==
  ASSUME TypeInv, WireFollows, Habits = {},
         NEW c \in Inputs, c.op \in {"submit", "exit"}, Enter(c)
  PROVE  /\ WireFollows' /\ posts' = posts
         /\ term'.owner = term.owner /\ term'.cwd = term.cwd /\ term.cwd # NoDir
         /\ term'.cmdOwner = term.owner /\ term'.target = term.target
         /\ ~term'.busy /\ ~term'.atPrompt
<1>1. /\ Calm /\ sendq = <<>> /\ sendq' = <<c>> /\ posts' = posts
  BY One DEF Enter, MayType, Calm
<1>2. term \in TerminalRecord /\ ~term.busy
  BY <1>1 DEF Calm, TypeInv, WidgetOK, Ready, Fit
<1>3. term' = [term EXCEPT !.input = TRUE, !.atPrompt = FALSE, !.cmdOwner = term.owner]
  BY DEF Enter
<1>4. /\ term'.owner = term.owner /\ term'.cwd = term.cwd
      /\ term'.cmdOwner = term.owner /\ term'.target = term.target
      /\ term'.busy = term.busy /\ ~term'.atPrompt
  BY <1>2, <1>3 DEF TerminalRecord
<1>5. InFlight' # {} BY <1>1, RangeOfFew DEF InFlight
<1>6. term.cwd # NoDir BY <1>1, CalmFollows
<1>7. WireFollows' BY <1>2, <1>4, <1>5, <1>6 DEF WireFollows, Awaited, Bound, Starting
<1> QED BY <1>1, <1>2, <1>4, <1>6, <1>7

LEMMA RunCommandFollows ==
  ASSUME TypeInv, Orderly, WireFollows, Habits = {}, NEW d \in Dirs, RunCommand(d)
  PROVE  /\ WireFollows' /\ posts' = posts
         /\ term'.owner = term.owner /\ term'.cwd = term.cwd /\ term.cwd # NoDir
         /\ term'.cmdOwner = term.owner /\ term'.target = term.target
         /\ ~term'.busy /\ ~term'.atPrompt
<1> DEFINE t == Ran(term, d)
           c == Command("run", d)
<1>1. /\ CanRun /\ MayRequest /\ Becomes(t) /\ pty' = pty \o t.sent
      /\ UNCHANGED <<out, prog, dir, hook, sendq>>
  BY RunCommandDef DEF shellKept, Writes
<1>2. /\ Ready(term) /\ term \in TerminalRecord /\ posts \in Seq(PathChangedRecord)
      /\ term.posted = <<>> /\ pty \in Seq(Inputs)
  BY DEF TypeInv, WidgetOK, WireOK, Ready, Fit
<1>3. RanAs(term, d, t) BY <1>2, RanType, Zenon
<1> HIDE DEF t
<1>4. t \in TerminalRecord BY <1>3 DEF RanAs
<1>5. Fit(t) BY <1>1, <1>2, <1>3, Zenon DEF RanAs, Fit, CanRun, Ready
<1>6. /\ term'.cwd = t.cwd /\ term'.atPrompt = t.atPrompt /\ term'.cmdOwner = t.cmdOwner
      /\ term'.busy = t.busy /\ term'.owner = t.owner /\ term'.target = t.target
      /\ posts' = posts \o t.posted
  BY <1>1, <1>2, <1>4, <1>5, BecomesReady
<1>7. /\ t.cwd = term.cwd /\ t.atPrompt = FALSE /\ t.cmdOwner = term.owner
      /\ t.busy = term.busy /\ t.owner = term.owner /\ t.target = term.target
      /\ t.posted = term.posted
      /\ t.sent = <<Kill, c>> \/ t.sent = <<c>>
  BY <1>3 DEF RanAs
<1>8. c \in Inputs /\ c.op = "submit"
  BY CommandType DEF Writers, Command
<1> HIDE DEF c
<1>9. c \in Range(pty')
  <2>1. t.sent \in Seq(Inputs) BY <1>4 DEF TerminalRecord
  <2>2. c \in Range(t.sent)
    <3>1. c \in Range(<<c>>) /\ c \in Range(<<Kill, c>>) BY RangeOfFew
    <3> QED BY <1>7, <3>1, Zenon
  <2>3. Range(pty \o t.sent) = Range(pty) \cup Range(t.sent)
    BY <1>2, <2>1, RangeConcatenation
  <2> QED BY <1>1, <2>2, <2>3, Zenon
<1>10. InFlight' # {} BY <1>8, <1>9 DEF InFlight
<1>11. term.atPrompt /\ ~term.busy /\ term.cwd # NoDir
  BY <1>1 DEF CanRun, WireFollows, Starting
<1>12. WireFollows' BY <1>6, <1>7, <1>10, <1>11 DEF WireFollows, Awaited, Bound, Starting
<1>13. posts' = posts BY <1>2, <1>6, <1>7
<1> QED BY <1>6, <1>7, <1>11, <1>12, <1>13

\* The terminal is pointed at the directory of a panel, or it knows that the
\* shell is there.
LEMMA RequestCdFollows ==
  ASSUME TypeInv, Orderly, WireFollows, Habits = {},
         NEW d \in Dirs, NEW p \in Panels, RequestCd(d, p)
  PROVE  /\ WireFollows' /\ posts' = posts
         /\ term'.owner = p /\ term'.cwd = term.cwd /\ term'.cmdOwner = term.cmdOwner
         /\ \/ term'.target = d
            \/ term'.target = NoDir /\ term.target = NoDir /\ term.cwd = d
         /\ ~term.busy /\ ~term.atPrompt => ~term'.busy /\ ~term'.atPrompt
<1> DEFINE o == [term EXCEPT !.owner = p]
           t == Request(o, d)
           r == [o EXCEPT !.target = d, !.future = "pending"]
           c == Command("nav", d)
<1>1. /\ MayRequest /\ Becomes(t) /\ pty' = pty \o t.sent
      /\ UNCHANGED <<out, prog, dir, hook, sendq>>
  BY DEF RequestCd, Writes, shellKept
<1>2. /\ Ready(term) /\ term \in TerminalRecord /\ posts \in Seq(PathChangedRecord)
      /\ term.posted = <<>> /\ term.sent = <<>> /\ pty \in Seq(Inputs)
  BY DEF TypeInv, WidgetOK, WireOK, Ready, Fit
<1>3. /\ o \in TerminalRecord /\ o.owner = p
      /\ o.cwd = term.cwd /\ o.atPrompt = term.atPrompt /\ o.input = term.input
      /\ o.shown = term.shown /\ o.snap = term.snap /\ o.draining = term.draining
      /\ o.cmdOwner = term.cmdOwner /\ o.target = term.target
      /\ o.busy = term.busy /\ o.lastSent = term.lastSent
      /\ o.stashed = term.stashed /\ o.watchdog = term.watchdog
      /\ o.repaired = term.repaired /\ o.run = term.run /\ o.runStashed = term.runStashed
      /\ o.sent = <<>> /\ o.posted = <<>>
  <2>1. o \in TerminalRecord BY <1>2, ZenonT(60) DEF TerminalRecord
  <2> QED BY <1>2, <2>1 DEF TerminalRecord
<1> HIDE DEF o
<1>4. Fit(o) BY <1>2, <1>3, Zenon DEF Fit, Ready
<1>5. /\ \/ t = o /\ ~o.busy /\ o.target = NoDir /\ o.cwd = d
         \/ t = r /\ (o.busy \/ ~o.atPrompt)
         \/ t = StartNav(r) /\ ~o.busy /\ o.atPrompt
      /\ r \in TerminalRecord /\ r.owner = o.owner /\ r.cwd = o.cwd
      /\ r.cmdOwner = o.cmdOwner /\ r.lastSent = o.lastSent
      /\ r.atPrompt = o.atPrompt /\ r.target = d /\ r.input = o.input
      /\ r.snap = o.snap /\ r.shown = o.shown
      /\ r.busy = o.busy /\ r.stashed = o.stashed /\ r.watchdog = o.watchdog
      /\ r.posted = o.posted /\ r.sent = o.sent /\ r.repaired = o.repaired
      /\ r.run = o.run /\ r.runStashed = o.runStashed /\ r.draining = o.draining
  BY <1>3, RequestType
<1> HIDE DEF r, t
<1>6. d # NoDir BY DirsAssumption
<1>7. ASSUME Fit(t), t \in TerminalRecord, t.posted = <<>>
      PROVE  /\ term'.cwd = t.cwd /\ term'.atPrompt = t.atPrompt
             /\ term'.cmdOwner = t.cmdOwner /\ term'.busy = t.busy
             /\ term'.owner = t.owner /\ term'.target = t.target
             /\ term'.lastSent = t.lastSent /\ posts' = posts
  <2>1. /\ term'.cwd = t.cwd /\ term'.atPrompt = t.atPrompt
        /\ term'.cmdOwner = t.cmdOwner /\ term'.busy = t.busy
        /\ term'.owner = t.owner /\ term'.target = t.target
        /\ term'.lastSent = t.lastSent /\ posts' = posts \o t.posted
    BY <1>1, <1>2, <1>7, BecomesReady
  <2> QED BY <1>2, <1>7, <2>1
<1>8. CASE t = o /\ ~o.busy /\ o.target = NoDir /\ o.cwd = d
  <2>1. pty' = pty BY <1>1, <1>2, <1>3, <1>8
  <2>2. InFlight' = InFlight BY <1>1, <2>1 DEF InFlight
  <2>3. /\ term'.cwd = term.cwd /\ term'.atPrompt = term.atPrompt
        /\ term'.cmdOwner = term.cmdOwner /\ term'.busy = term.busy
        /\ term'.owner = p /\ term'.target = NoDir
        /\ term'.lastSent = term.lastSent /\ posts' = posts
    BY <1>3, <1>4, <1>7, <1>8
  <2>4. WireFollows' BY <1>1, <2>2, <2>3, SameFlight DEF Reporting
  <2> QED BY <1>3, <1>8, <2>3, <2>4
<1>9. CASE t = r /\ (o.busy \/ ~o.atPrompt)
  <2>1. pty' = pty BY <1>1, <1>2, <1>3, <1>5, <1>9
  <2>2. InFlight' = InFlight BY <1>1, <2>1 DEF InFlight
  <2>0. Fit(t) BY <1>3, <1>4, <1>5, <1>6, <1>9, Zenon DEF Fit
  <2>3. /\ term'.cwd = term.cwd /\ term'.atPrompt = term.atPrompt
        /\ term'.cmdOwner = term.cmdOwner /\ term'.busy = term.busy
        /\ term'.owner = p /\ term'.target = d
        /\ term'.lastSent = term.lastSent /\ posts' = posts
    BY <1>3, <1>5, <1>7, <1>9, <2>0
  <2>4. WireFollows' BY <1>1, <2>2, <2>3, SameFlight DEF Reporting
  <2> QED BY <2>3, <2>4
<1>10. CASE t = StartNav(r) /\ ~o.busy /\ o.atPrompt
  <2>1. /\ t \in TerminalRecord /\ t.atPrompt = FALSE /\ t.busy = TRUE /\ t.owner = r.owner
        /\ t.cwd = r.cwd /\ t.cmdOwner = r.cmdOwner /\ t.lastSent = r.target
        /\ t.target = r.target /\ t.posted = r.posted /\ t.repaired = r.repaired
        /\ t.run = r.run /\ t.runStashed = r.runStashed /\ t.sent = NavSent(r)
    BY <1>5, <1>6, <1>10, StartNavType
  <2>2. Fit(t) BY <1>3, <1>4, <1>5, <1>6, <1>10, <2>1, Zenon DEF Fit
  <2>3. /\ term'.cwd = term.cwd /\ ~term'.atPrompt
        /\ term'.cmdOwner = term.cmdOwner /\ term'.busy
        /\ term'.owner = p /\ term'.target = d
        /\ term'.lastSent = d /\ posts' = posts
    BY <1>3, <1>5, <1>7, <2>1, <2>2
  <2>4. term.atPrompt BY <1>3, <1>10
  <2>5. term.cwd # NoDir BY <2>4 DEF WireFollows, Starting
  <2>6. c.op = "submit" /\ c.to = d /\ c \in Inputs
    BY CommandType DEF Command, Writers
  <2>7. sendq = <<>> /\ prog = NoProg /\ (Idle \/ YankComing)
        /\ (~HasInput(term) => pty = <<>>)
    BY <1>1, <2>4, PromptOrderly
  <2> HIDE DEF c
  <2>8. Stashes(r) <=> HasInput(term)
    <3>1. HasInput(r) <=> HasInput(term) BY <1>3, <1>5 DEF HasInput
    <3>2. ~r.stashed BY <1>3, <1>4, <1>5, <1>10 DEF Fit
    <3> QED BY <3>1, <3>2 DEF Stashes
  <2>9. t.sent = (IF HasInput(term) THEN <<Kill, c>> ELSE <<c>>)
    <3>1. NavSent(r) = <<>> \o (IF HasInput(term) THEN <<Kill>> ELSE <<>>) \o <<c>>
      BY <1>3, <1>5, <2>8, Zenon DEF NavSent, c
    <3>2. <<>> \o <<Kill>> = <<Kill>> /\ <<>> \o <<>> = <<>> /\ <<>> \o <<c>> = <<c>>
          /\ <<Kill>> \o <<c>> = <<Kill, c>>
      BY One, Two
    <3> QED BY <2>1, <3>1, <3>2, Zenon
  <2>10. pty' = <<c>> \/ pty' = <<Kill, c>> \/ pty' = <<Yank, Kill, c>>
    <3>1. CASE ~HasInput(term) BY <1>1, <2>7, <2>9, <3>1, One
    <3>2. CASE HasInput(term) /\ Idle
      <4>1. pty = <<>> BY <3>2 DEF Idle, Quiet
      <4> QED BY <1>1, <2>9, <3>2, <4>1
    <3>3. CASE HasInput(term) /\ YankComing
      <4>1. pty = <<Yank>> BY <3>3 DEF YankComing
      <4> QED BY <1>1, <2>9, <3>3, <4>1, Three, Zenon
    <3> QED BY <2>7, <3>1, <3>2, <3>3
  <2>11. WireFollows'
    BY <1>1, <1>6, <2>3, <2>5, <2>6, <2>7, <2>10, SentFlight
  <2> QED BY <1>3, <1>10, <2>3, <2>11
<1> QED BY <1>5, <1>8, <1>9, <1>10


\* The panels. Steps that leave them and what points the terminal alone:
LEMMA SamePanes ==
  ASSUME PanesFollow, UNCHANGED panelVars, posts' = posts,
         term'.owner = term.owner, term'.cwd = term.cwd, term'.target = term.target,
         term'.cmdOwner = term.cmdOwner, term'.busy = term.busy,
         term'.atPrompt = term.atPrompt
  PROVE  PanesFollow'
<1>1. UNCHANGED <<active, path, pending, changed, focus>> BY DEF panelVars
<1>2. Attentive' BY <1>1 DEF PanesFollow, Attentive
<1>3. Commanded' BY <1>1 DEF PanesFollow, Commanded, Near, Where
<1>4. Coming => Coming' BY <1>1 DEF Coming, Leads, Follower
<1>5. Pointed => Pointed' BY <1>1 DEF Pointed, Near, Where
<1> QED BY <1>2, <1>3, <1>4, <1>5 DEF PanesFollow

LEMMA RestingPanes ==
  ASSUME Handled, Loaded PROVE ~Coming
BY DEF Handled, Loaded, Coming

\* the active panel submits a command;
LEMMA CommandPanes ==
  ASSUME PanesFollow, Handled, Loaded, UNCHANGED panelVars, posts' = posts,
         term'.owner = term.owner, term'.cwd = term.cwd, term.cwd # NoDir,
         term'.cmdOwner = term.owner, term'.target = term.target,
         ~term'.busy, ~term'.atPrompt
  PROVE  PanesFollow'
<1>1. UNCHANGED <<active, path, pending, changed, focus>> BY DEF panelVars
<1>2. Attentive' BY <1>1 DEF PanesFollow, Attentive
<1>3. Commanded'
  BY <1>1 DEF PanesFollow, Attentive, Commanded, Handled, Loaded
<1>4. Pointed BY RestingPanes DEF PanesFollow
<1>5. Pointed' BY <1>1, <1>4 DEF Pointed, Near, Where
<1> QED BY <1>2, <1>3, <1>5 DEF PanesFollow

\* the terminal is asked for the directory of the active panel;
LEMMA SyncPanes ==
  ASSUME TypeInv, Orderly, WireFollows, PanesFollow, Habits = {},
         RequestCd(path[active], active),
         UNCHANGED <<active, path, pending>>, changed' \subseteq changed,
         focus' \in {<<>>, <<active>>}
  PROVE  WireFollows' /\ PanesFollow'
<1>1. active \in Panels /\ path[active] \in Dirs BY DEF TypeInv, PanesOK
<1>2. /\ WireFollows' /\ posts' = posts
      /\ term'.owner = active /\ term'.cwd = term.cwd /\ term'.cmdOwner = term.cmdOwner
      /\ \/ term'.target = path[active]
         \/ term'.target = NoDir /\ term.target = NoDir /\ term.cwd = path[active]
      /\ ~term.busy /\ ~term.atPrompt => ~term'.busy /\ ~term'.atPrompt
  BY <1>1, RequestCdFollows
<1>3. path[active] # NoDir BY <1>1, DirsAssumption
<1>4. Attentive' BY <1>2 DEF Attentive
<1>5. Commanded' BY <1>2, <1>3 DEF PanesFollow, Commanded, Near, Where
<1>6. Pointed' BY <1>2, <1>3 DEF Pointed, Near, Where
<1> QED BY <1>2, <1>4, <1>5, <1>6 DEF PanesFollow

\* the user goes to the other panel;
LEMMA TogglePanes ==
  ASSUME TypeInv, Orderly, WireFollows, PanesFollow, Habits = {}, Handled, Loaded,
         TogglePanels
  PROVE  WireFollows' /\ PanesFollow'
<1>1. /\ active' = Other /\ focus' = Append(focus, Other)
      /\ RequestCd(path[Other], Other) /\ UNCHANGED <<path, pending, changed>>
      /\ focus = <<>> /\ changed = {} /\ posts = <<>>
      /\ \A p \in Panels : pending[p] = NoDir
  BY DEF TogglePanels, SyncTerminal, Handled, Loaded
<1>2. Other \in Panels /\ path[Other] \in Dirs BY OtherType DEF TypeInv, PanesOK
<1>3. /\ WireFollows' /\ posts' = posts
      /\ term'.owner = Other /\ term'.cwd = term.cwd /\ term'.cmdOwner = term.cmdOwner
      /\ \/ term'.target = path[Other]
         \/ term'.target = NoDir /\ term.target = NoDir /\ term.cwd = path[Other]
      /\ ~term.busy /\ ~term.atPrompt => ~term'.busy /\ ~term'.atPrompt
  BY <1>1, <1>2, RequestCdFollows
<1>4. path[Other] # NoDir BY <1>2, DirsAssumption
<1>5. focus' = <<Other>> /\ focus' # <<>> BY <1>1, One
<1>6. Attentive' BY <1>1, <1>3, <1>5 DEF Attentive
<1>7. Pointed BY RestingPanes DEF PanesFollow
<1>8. Commanded'
  BY <1>1, <1>3, <1>4, <1>7 DEF PanesFollow, Commanded, Pointed, Near, Where
<1>9. Coming' BY <1>5 DEF Coming
<1> QED BY <1>3, <1>6, <1>8, <1>9 DEF PanesFollow

\* he enters a directory in the active panel;
LEMMA BrowsePanes ==
  ASSUME TypeInv, PanesFollow, Handled, Loaded, NEW d \in Dirs, Browse(d)
  PROVE  PanesFollow'
<1>1. /\ d # path[active] /\ UNCHANGED <<term, posts, active, path, changed, focus>>
      /\ active \in Panels /\ d # NoDir /\ pending \in [Panels -> Dirs \cup {NoDir}]
      /\ changed = {} /\ posts = <<>> /\ \A p \in Panels : pending[p] = NoDir
  BY DirsAssumption DEF Browse, termVars, TypeInv, PanesOK, Handled, Loaded
<1>2. pending' = [pending EXCEPT ![active] = d] BY <1>1 DEF Browse, SetPath
<1>3. pending'[active] = d /\ \A p \in Panels : p # active => pending'[p] = NoDir
  BY <1>1, <1>2
<1>4. Attentive' BY <1>1 DEF PanesFollow, Attentive
<1>5. Commanded' BY <1>1, <1>3 DEF PanesFollow, Commanded, Near, Where
<1>6. Coming' BY <1>1, <1>3 DEF Coming
<1> QED BY <1>4, <1>5, <1>6 DEF PanesFollow

\* a panel shows the directory it loaded;
LEMMA LoadPanes ==
  ASSUME TypeInv, PanesFollow, NEW p \in Panels, Load(p) PROVE PanesFollow'
<1>1. /\ pending[p] # NoDir /\ path' = [path EXCEPT ![p] = pending[p]]
      /\ pending' = [pending EXCEPT ![p] = NoDir] /\ changed' = changed \cup {p}
      /\ UNCHANGED <<term, posts, active, focus>>
      /\ path \in [Panels -> Dirs] /\ pending \in [Panels -> Dirs \cup {NoDir}]
      /\ term.cmdOwner \in Panels \cup {NoPanel}
  BY DEF Load, termVars, TypeInv, PanesOK, WidgetOK, Ready, Fit, TerminalRecord
<1>2. /\ \A q \in Panels : q # p => path'[q] = path[q]
      /\ \A q \in Panels : pending'[q] # NoDir => pending[q] # NoDir
  BY <1>1
<1>3. Attentive' BY <1>1 DEF PanesFollow, Attentive
<1>4. Commanded'
  <2> SUFFICES ASSUME term.cmdOwner # NoPanel
               PROVE  /\ \A q \in Panels : pending'[q] # NoDir \/ q \in changed' => q = active
                      /\ term.target = NoDir /\ term.cmdOwner # active
                           => path'[term.cmdOwner] \in {Where} \cup Lost
    BY <1>1 DEF PanesFollow, Commanded, Near, Where
  <2>1. \A q \in Panels : pending[q] # NoDir \/ q \in changed => q = active
    BY DEF PanesFollow, Commanded
  <2>2. p = active BY <1>1, <2>1
  <2> QED BY <1>1, <1>2, <2>1, <2>2 DEF PanesFollow, Commanded, Near
<1>5. Coming' BY <1>1 DEF Coming
<1> QED BY <1>3, <1>4, <1>5 DEF PanesFollow

\* a panel follows the shell.
LEMMA PostPanes ==
  ASSUME TypeInv, PanesFollow, TerminalPathChanged PROVE PanesFollow'
<1> DEFINE m == Head(posts)
           q == Follower(m)
<1>1. /\ posts # <<>> /\ posts' = Tail(posts) /\ SetPath(q, m.dir)
      /\ UNCHANGED <<term, active, path, changed, focus>>
      /\ posts \in Seq(PathChangedRecord) /\ pending \in [Panels -> Dirs \cup {NoDir}]
  BY DEF TerminalPathChanged, TypeInv, PanesOK, WidgetOK
<1>2. m.dir \in Dirs /\ m.dir # NoDir /\ q \in Panels
  <2>1. m \in PathChangedRecord /\ active \in Panels
    BY <1>1 DEF TypeInv, PanesOK
  <2> QED BY <2>1, DirsAssumption DEF PathChangedRecord, Follower
<1>3. /\ m.dir = path[q] /\ pending[q] = NoDir => pending' = pending
      /\ ~(m.dir = path[q] /\ pending[q] = NoDir) => pending' = [pending EXCEPT ![q] = m.dir]
  BY <1>1 DEF SetPath
<1>4. term.cmdOwner = NoPanel BY <1>1 DEF PanesFollow, Commanded
<1>5. Attentive' /\ Commanded' BY <1>1, <1>4 DEF PanesFollow, Attentive, Commanded
<1>6. CASE ~(m.dir = path[q] /\ pending[q] = NoDir)
  <2>1. pending'[q] # NoDir BY <1>1, <1>2, <1>3, <1>6
  <2>2. Coming' BY <1>2, <2>1 DEF Coming
  <2> QED BY <1>5, <2>2 DEF PanesFollow
<1>7. CASE m.dir = path[q] /\ pending[q] = NoDir
  <2>1. pending' = pending BY <1>3, <1>7
  <2>2. CASE Pointed
    <3>1. Pointed' BY <1>1, <2>2 DEF Pointed, Near, Where
    <3> QED BY <1>5, <3>1 DEF PanesFollow
  <2>3. CASE changed # {} \/ focus # <<>> \/ \E p \in Panels : pending[p] # NoDir
    <3>1. Coming' BY <1>1, <2>1, <2>3 DEF Coming
    <3> QED BY <1>5, <3>1 DEF PanesFollow
  <2>4. CASE \E i \in DOMAIN posts : Leads(posts[i])
    <3>1. PICK i \in DOMAIN posts : Leads(posts[i]) BY <2>4
    <3>2. m = posts[1] /\ i \in 1 .. Len(posts) /\ Len(posts) \in Nat BY <1>1
    <3>3. i # 1 BY <1>7, <3>1, <3>2 DEF Leads
    <3>4. posts'[i - 1] = posts[i] /\ i - 1 \in DOMAIN posts' BY <1>1, <3>2, <3>3
    <3>5. posts[i].dir # path'[IF posts[i].owner = NoPanel THEN active' ELSE posts[i].owner]
      BY <1>1, <3>1 DEF Leads, Follower
    <3>6. Coming' BY <3>4, <3>5 DEF Coming, Leads, Follower
    <3> QED BY <1>5, <3>6 DEF PanesFollow
  <2> QED BY <2>2, <2>3, <2>4 DEF PanesFollow, Coming
<1> QED BY <1>6, <1>7


Follows == WireFollows /\ (~lost => PanesFollow)

LEMMA InitFollows == Init => Follows
<1> SUFFICES ASSUME Init PROVE Follows OBVIOUS
<1> DEFINE c == Command("init", NoDir)
<1>1. /\ pty = <<c>> /\ sendq = <<>> /\ prog = NoProg /\ posts = <<>> /\ dir = Home
      /\ hook = FALSE /\ term = Started(active)
      /\ changed = {} /\ focus = <<>> /\ path = [p \in Panels |-> Home]
      /\ pending = [p \in Panels |-> NoDir]
  BY DEF Init, TermInit, ShellInit
<1>2. /\ term.cwd = NoDir /\ ~term.busy /\ ~term.atPrompt /\ term.owner = active
      /\ term.cmdOwner = NoPanel /\ term.target = NoDir
  BY <1>1 DEF Started
<1>3. InFlight = {c}
  <2>1. c.op \in {"submit", "exit"} BY DEF Command
  <2> HIDE DEF c
  <2> QED BY <1>1, <2>1, WrittenFlight
<1>4. WireFollows BY <1>1, <1>2, <1>3 DEF WireFollows, Awaited, Bound, Starting
<1>5. path[active] = Home
  <2>1. active \in Panels BY PanesAssumption DEF Init, First
  <2> QED BY <1>1, <2>1
<1>6. PanesFollow
  BY <1>1, <1>2, <1>5 DEF PanesFollow, Attentive, Commanded, Pointed, Near, Where
<1> QED BY <1>4, <1>6 DEF Follows

LEMMA FollowsStep ==
  ASSUME PatientInv, Follows, Habits = {}, [Next]_vars, ~term.repaired, ~term'.repaired
  PROVE  Follows'
<1>1. /\ TypeInv /\ Orderly /\ WireFollows /\ (~lost => PanesFollow)
      /\ WireOK /\ WidgetOK
  BY DEF PatientInv, Follows, TypeInv
<1>p. active \in Panels /\ \A p \in Panels : path[p] \in Dirs
  BY <1>1 DEF TypeInv, PanesOK
<1>2. CASE User
  <2>1. Handled /\ Loaded BY <1>2 DEF User
  <2>2. CASE TogglePanels
    <3>1. lost' = lost BY <2>2 DEF TogglePanels
    <3>2. WireFollows'
      <4>1. Other \in Panels /\ RequestCd(path[Other], Other)
        BY <1>p, <2>2, OtherType DEF TogglePanels, SyncTerminal
      <4> QED BY <1>1, <1>p, <4>1, RequestCdFollows
    <3> QED BY <1>1, <2>1, <2>2, <3>1, <3>2, TogglePanes DEF Follows
  <2>3. CASE \E d \in Dirs : Browse(d)
    <3>1. PICK d \in Dirs : Browse(d) BY <2>3
    <3>2. UNCHANGED <<shellVars, termVars>> /\ lost' = lost BY <3>1 DEF Browse
    <3>3. WireFollows'
      BY <1>1, <3>2 DEF shellVars, termVars, WireFollows, Awaited, Bound, Starting,
                        InFlight, Reporting
    <3> QED BY <1>1, <2>1, <3>1, <3>2, <3>3, BrowsePanes DEF Follows
  <2>4. CASE Types
    <3>1. PICK op \in {Key, Erase} : Type(op) BY <2>4 DEF Types
    <3>2. UNCHANGED panelVars /\ lost' = lost BY <2>4 DEF Types
    <3> QED BY <1>1, <3>1, <3>2, TypeFollows, SamePanes DEF Follows
  <2>5. CASE Submits \/ Exits
    <3>1. \A d \in Dirs \cup {NoDir} :
            Command("user", d) \in Inputs /\ Command("user", d).op = "submit"
      BY CommandType DEF Writers, Command
    <3>2. PICK c \in Inputs : c.op \in {"submit", "exit"} /\ Enter(c)
      BY <2>5, <3>1, EditTypes, Ops DEF Submits, Exits
    <3>3. UNCHANGED panelVars /\ lost' = lost BY <2>5 DEF Submits, Exits
    <3> QED BY <1>1, <2>1, <3>2, <3>3, EnterFollows, CommandPanes DEF Follows
  <2>6. CASE Runs
    <3>1. RunCommand(path[active]) /\ path[active] \in Dirs BY <1>p, <2>6 DEF Runs
    <3>2. UNCHANGED panelVars /\ lost' = lost BY <2>6 DEF Runs
    <3> QED BY <1>1, <2>1, <3>1, <3>2, RunCommandFollows, CommandPanes DEF Follows
  <2> QED BY <1>2, <2>2, <2>3, <2>4, <2>5, <2>6 DEF User
<1>3. CASE Wipe
  <2>1. /\ pty' = pty /\ out' = out /\ prog' = prog /\ dir' = dir
        /\ term' = term /\ sendq' = sendq /\ posts' = posts
        /\ UNCHANGED panelVars /\ lost' = lost
    BY <1>3 DEF Wipe, termVars
  <2>2. hook' => hook BY <1>3 DEF Wipe
  <2>3. InFlight' = InFlight /\ (Reporting => Reporting') BY <2>1 DEF InFlight, Reporting
  <2>4. WireFollows' BY <1>1, <2>1, <2>2, <2>3, SameFlight
  <2>5. ~lost => PanesFollow' BY <1>1, <2>1, SamePanes
  <2> QED BY <2>1, <2>4, <2>5 DEF Follows
<1>4. CASE Shells
  <2>1. /\ ShellSteps /\ UNCHANGED termVars /\ UNCHANGED <<term, posts>>
        /\ UNCHANGED panelVars /\ lost' = lost
    BY <1>4 DEF Shells, termVars
  <2> QED BY <1>1, <2>1, ShellFollows, SamePanes DEF Follows
<1>5. CASE Widget
  <2>1. UNCHANGED panelVars BY <1>5 DEF Widget
  <2>2. CASE Recv /\ lost' = (lost \/ Drops)
    <3>1. CASE Head(out).kind = "precmd"
      BY <1>1, <2>1, <2>2, <3>1, PreCmdFollows DEF Follows
    <3>2. CASE Head(out).kind = "echo"
      BY <1>1, <2>1, <2>2, <3>2, EchoFollows, SamePanes DEF Follows
    <3> QED BY <1>1, <2>2, <3>1, <3>2, HeadReport DEF Recv
  <2>3. ~Timeout BY <1>1, TimeoutType
  <2>4. CASE Forward /\ lost' = lost
    <3>1. UNCHANGED <<term, posts>> BY <2>4 DEF Forward
    <3> QED BY <1>1, <2>1, <2>4, <3>1, ForwardFollows, SamePanes DEF Follows
  <2>5. CASE Respawn /\ lost' = (lost \/ term.target # NoDir)
    <3>1. /\ WireFollows' /\ posts' = posts
          /\ term'.owner = term.owner /\ term'.cwd = term.cwd
          /\ term'.cmdOwner = NoPanel /\ term'.target = NoDir
      BY <1>1, <2>5, RespawnFollows
    <3>2. ASSUME ~lost' PROVE PanesFollow'
      <4>1. PanesFollow /\ term.target = NoDir BY <1>1, <2>5, <3>2
      <4>2. UNCHANGED <<active, path, pending, changed, focus>> BY <2>1 DEF panelVars
      <4>3. Attentive' /\ Commanded'
        BY <3>1, <4>1, <4>2 DEF PanesFollow, Attentive, Commanded
      <4>4. Coming => Coming' BY <3>1, <4>2 DEF Coming, Leads, Follower
      <4>5. Pointed => Pointed' BY <3>1, <4>1, <4>2 DEF Pointed, Near, Where
      <4> QED BY <4>1, <4>3, <4>4, <4>5 DEF PanesFollow
    <3> QED BY <3>1, <3>2 DEF Follows
  <2> QED BY <1>5, <2>2, <2>3, <2>4, <2>5 DEF Widget
<1>6. CASE Host
  <2>1. lost' = lost BY <1>6 DEF Host, Focused, TerminalPathChanged, Load, PathChangedOf
  <2>2. CASE lost
    <3>1. WireFollows'
      <4>1. CASE \E p \in Panels : RequestCd(path[p], p)
        BY <1>1, <1>p, <4>1, RequestCdFollows
      <4>2. CASE UNCHANGED <<shellVars, term, sendq>>
        BY <1>1, <4>2 DEF shellVars, WireFollows, Awaited, Bound, Starting, InFlight,
                          Reporting
      <4>3. Focused => Head(focus) \in Panels BY <1>1 DEF Focused, TypeInv, PanesOK
      <4> QED BY <1>6, <1>p, <4>1, <4>2, <4>3 DEF Host, Focused, PathChangedOf, SyncTerminal,
                 TerminalPathChanged, Load, termVars
    <3> QED BY <2>1, <2>2, <3>1 DEF Follows
  <2>3. CASE ~lost
    <3>0. PanesFollow BY <1>1, <2>3
    <3>1. CASE Focused
      <4>1. focus = <<active>> BY <3>0, <3>1 DEF PanesFollow, Attentive, Focused
      <4>2. Head(focus) = active /\ Tail(focus) = <<>> BY <4>1, One, Zenon
      <4>3. /\ RequestCd(path[active], active) /\ UNCHANGED <<active, path, pending>>
            /\ changed' \subseteq changed /\ focus' = <<>>
        BY <3>1, <4>2 DEF Focused, SyncTerminal
      <4> QED BY <1>1, <3>0, <4>3, SyncPanes DEF Follows
    <3>2. CASE TerminalPathChanged
      <4>1. UNCHANGED <<shellVars, term, sendq>> BY <3>2 DEF TerminalPathChanged
      <4>2. WireFollows'
        BY <1>1, <4>1 DEF shellVars, WireFollows, Awaited, Bound, Starting, InFlight,
                          Reporting
      <4> QED BY <1>1, <3>0, <3>2, <4>2, PostPanes DEF Follows
    <3>3. CASE \E p \in Panels : Load(p)
      <4>1. UNCHANGED <<shellVars, termVars>> BY <3>3 DEF Load
      <4>2. WireFollows'
        BY <1>1, <4>1 DEF shellVars, termVars, WireFollows, Awaited, Bound, Starting,
                          InFlight, Reporting
      <4> QED BY <1>1, <3>0, <3>3, <4>2, LoadPanes DEF Follows
    <3>4. CASE \E p \in Panels : PathChangedOf(p)
      <4>1. /\ RequestCd(path[active], active) /\ UNCHANGED <<active, path, pending>>
            /\ changed' \subseteq changed /\ focus' = focus
        BY <3>4 DEF PathChangedOf, SyncTerminal
      <4>2. focus' \in {<<>>, <<active>>} BY <3>0, <4>1 DEF PanesFollow, Attentive
      <4> QED BY <1>1, <3>0, <4>1, <4>2, SyncPanes DEF Follows
    <3> QED BY <1>6, <3>1, <3>2, <3>3, <3>4 DEF Host
  <2> QED BY <2>2, <2>3
<1>7. CASE UNCHANGED vars
  <2>1. UNCHANGED <<shellVars, termVars, panelVars, lost>> BY <1>7 DEF vars
  <2>2. WireFollows'
    BY <1>1, <2>1 DEF shellVars, termVars, WireFollows, Awaited, Bound, Starting,
                      InFlight, Reporting
  <2>3. UNCHANGED <<term, posts>> BY <2>1 DEF termVars
  <2> QED BY <1>1, <2>1, <2>2, <2>3, SamePanes DEF Follows
<1> QED BY <1>2, <1>3, <1>4, <1>5, <1>6, <1>7 DEF Next

\* At rest nothing is to come, and the widget knows where the shell is.
LEMMA FollowsAtRest ==
  ASSUME TypeInv, Orderly, Follows PROVE TerminalFollowsPanel
<1> SUFFICES ASSUME Settled, hook, ~lost PROVE path[active] \in {dir} \cup Lost
  BY DEF TerminalFollowsPanel
<1>1. Calm /\ Handled /\ Loaded /\ out = <<>> BY DEF Settled, Calm
<1>2. WireFollows /\ PanesFollow BY DEF Follows
<1>3. InFlight = {} /\ term.cwd # NoDir BY <1>1, <1>2, CalmFollows
<1>4. ~Reporting BY <1>1, RangeOfFew DEF Reporting
<1>5. term.atPrompt BY <1>2, <1>3, <1>4 DEF WireFollows, Awaited
<1>6. term.cwd = dir /\ term.target = NoDir
  BY <1>5 DEF Orderly, AtThePrompt, TypeInv, WidgetOK, Ready, Fit
<1>7. Pointed BY <1>1, <1>2, RestingPanes DEF PanesFollow
<1> QED BY <1>3, <1>6, <1>7 DEF Pointed, Near, Where

\* With such a user, as long as no watchdog has fired, the shell is where the active
\* panel is whenever nothing is in flight: whatever was toggled, browsed, submitted
\* or run, with retries, shells that exit and directories it cannot enter
\* (terminal.py:271).
THEOREM ShellFollowsPanel ==
  Habits = {} => (Spec /\ [](~term.repaired) => []TerminalFollowsPanel)
<1> SUFFICES ASSUME Habits = {}
             PROVE  Spec /\ [](~term.repaired) => []TerminalFollowsPanel
  OBVIOUS
<1> DEFINE Unrepaired == ~term.repaired
<1>1. Init => Follows BY InitFollows
<1>2. PatientInv /\ Follows /\ Unrepaired /\ Unrepaired' /\ [Next]_vars => Follows'
  BY FollowsStep
<1>3. PatientInv /\ Unrepaired /\ Follows => TerminalFollowsPanel
  BY FollowsAtRest DEF PatientInv
<1>4. Spec => []PatientInv BY PatientInvariant
<1>5. Spec => Init /\ [][Next]_vars BY PTL DEF Spec
<1> HIDE DEF Unrepaired
<1>6. Spec /\ []Unrepaired => []TerminalFollowsPanel BY <1>1, <1>2, <1>3, <1>4, <1>5, PTL
<1> QED BY <1>6, PTL DEF Unrepaired

================================================================================
