-------------------------------- MODULE Terminal -------------------------------
(***************************************************************************)
(* Terminal (terminal/terminal.py) of the local file system: typed input,   *)
(* hidden navigation (request_cd, its transaction, the watchdog and the     *)
(* repair of the hook), run_command, the precmd handler, and the respawn of *)
(* a shell that exited.                                                     *)
(*                                                                         *)
(* Everything runs on the event loop, so a handler is one action. The       *)
(* attributes of the widget are one record; a handler is a function on it,  *)
(* what it writes to the shell is collected in .sent and what it posts to   *)
(* its host in .posted. User input goes through send_queue; everything else *)
(* is written at once.                                                      *)
(***************************************************************************)
EXTENDS Shell

CONSTANTS Panels,      \* the panes that may own a command
          NoPanel,
          Habits,      \* what the user does, see below
          MaxAttempts  \* _NAV_MAX_SAME_TARGET_ATTEMPTS

\* "hurried": the user goes on before the shell has answered what he typed
\* and before a panel has loaded its directory. A cd of the widget is taken to
\* end before the watchdog fires.
ASSUME HabitsAssumption == Habits \subseteq {"hurried"}
ASSUME AttemptsAssumption == MaxAttempts \in Nat \ {0} /\ NoPanel \notin Panels

VARIABLES
  term,   \* the attributes of the widget
  sendq,  \* send_queue: user input not yet written to the shell
  posts,  \* PathChanged messages the host has not handled
  typed,  \* (history variable) characters the user has on the line he edits
  by      \* (history variable) the panel from which the user last submitted

termVars == <<term, sendq, posts, typed, by>>

TermTypeOK ==
  /\ term.cwd \in Dirs \cup {NoDir}              \* _cwd
  /\ term.atPrompt \in BOOLEAN                   \* _at_prompt
  /\ term.input \in BOOLEAN                      \* _input_since_precmd
  /\ term.shown \in Nat                          \* the line, as on the screen
  /\ term.snap \subseteq Nat                      \* _prompt_snapshot
  /\ term.draining \in BOOLEAN                   \* _draining
  /\ term.owner \in Panels                       \* owner
  /\ term.cmdOwner \in Panels \cup {NoPanel}     \* _command_owner
  /\ term.target \in Dirs \cup {NoDir}           \* _nav_target
  /\ term.busy \in BOOLEAN                       \* _nav_busy
  /\ term.lastSent \in Dirs \cup {NoDir}         \* _nav_last_sent_target
  /\ term.attempts \in Nat                       \* _nav_same_target_attempts
  /\ term.stashed \in BOOLEAN                    \* _nav_stashed
  /\ term.future \in {"none", "pending", "done"} \* _nav_future
  /\ term.watchdog \in BOOLEAN                   \* _nav_watchdog
  /\ term.repaired \in BOOLEAN                   \* _hook_repaired
  /\ term.run \in BOOLEAN                        \* _run_future
  /\ term.runStashed \in BOOLEAN                 \* _run_stashed
  /\ term.sent = <<>> /\ term.posted = <<>>
  /\ term.busy => term.target # NoDir
  /\ term.watchdog => term.busy

\* Terminal.__init__ and start(): the shell has been opened, its init code
\* written, and its output is discarded until the first precmd.
Started(owner) ==
  [cwd |-> NoDir, atPrompt |-> FALSE, input |-> FALSE, shown |-> 0, snap |-> {},
   draining |-> TRUE, owner |-> owner, cmdOwner |-> NoPanel, target |-> NoDir,
   busy |-> FALSE, lastSent |-> NoDir, attempts |-> 0, stashed |-> FALSE,
   future |-> "none", watchdog |-> FALSE, repaired |-> FALSE, run |-> FALSE,
   runStashed |-> FALSE, sent |-> <<>>, posted |-> <<>>]

TermInit(owner) ==
  /\ ShellInit
  /\ term = Started(owner) /\ sendq = <<>> /\ posts = <<>> /\ typed = 0
  /\ by = NoPanel

\* A handler leaves the widget as t, having written and posted what t collects.
Becomes(t) ==
  /\ term' = [t EXCEPT !.sent = <<>>, !.posted = <<>>]
  /\ posts' = posts \o t.posted

Writes(t) == pty' = pty \o t.sent

-----------------------------------------------------------------------------
\* The transaction.

\* has_input(): without a snapshot the answer is yes.
HasInput(t) == t.input /\ t.snap # {t.shown}

Restore(t) == [t EXCEPT !.sent = Append(@, Yank), !.input = TRUE]

\* Text is killed once in a chain: the second kill would find the line empty.
Stashes(t) == ~t.stashed /\ HasInput(t)

AttemptsUncounted(t) == 1

Attempts(t) == IF t.target = t.lastSent THEN t.attempts + 1 ELSE 1

StartNav(t) ==
  [t EXCEPT !.attempts = Attempts(t), !.lastSent = t.target,
            !.busy = TRUE, !.atPrompt = FALSE, !.draining = TRUE,
            !.stashed = @ \/ Stashes(t), !.watchdog = TRUE,
            !.sent = @ \o (IF Stashes(t) THEN <<Kill>> ELSE <<>>)
                       \o <<Command("nav", t.target)>>]

FinishNav(t) ==
  [(IF t.stashed THEN Restore(t) ELSE t) EXCEPT
     !.stashed = FALSE, !.target = NoDir, !.busy = FALSE, !.lastSent = NoDir,
     !.attempts = 0, !.draining = FALSE, !.shown = 0,
     !.future = IF @ = "pending" THEN "done" ELSE @]

\* A target equal to the last report is ignored, whatever is in progress.
RequestOnlyOther(t, d) ==
  LET r == [t EXCEPT !.target = d, !.future = "pending"]
  IN CASE d = t.cwd -> t
       [] OTHER -> IF ~t.busy /\ t.atPrompt THEN StartNav(r) ELSE r

\* request_cd()
Request(t, d) ==
  LET r == [t EXCEPT !.target = d, !.future = "pending"]
  IN CASE ~t.busy /\ t.target = NoDir /\ d = t.cwd -> t
       [] OTHER -> IF ~t.busy /\ t.atPrompt THEN StartNav(r) ELSE r

-----------------------------------------------------------------------------
\* The precmd handler.

\* _finish_run()
FinishRun(t) ==
  IF t.run
    THEN [(IF t.runStashed THEN Restore(t) ELSE t) EXCEPT
            !.run = FALSE, !.runStashed = FALSE]
    ELSE t

ApplyAlways(t, d) ==
  IF t.target # d THEN StartNav(t) ELSE [t EXCEPT !.target = NoDir]

\* _apply_pending_target()
ApplyPending(t, d) ==
  CASE t.target = NoDir -> t
    [] t.target # NoDir /\ t.target # d -> StartNav(t)
    [] OTHER -> [t EXCEPT !.target = NoDir,
                          !.future = IF @ = "pending" THEN "done" ELSE @]

\* The shell is elsewhere, and was not sent there too often already.
Retries(t, d) == t.target \notin {NoDir, d} /\ t.attempts < MaxAttempts

PreCmdOfNav(t, d) == IF Retries(t, d) THEN StartNav(t) ELSE FinishNav(t)

\* A precmd that is not the transaction's: of a command of the user, of
\* run_command, or the first one of a shell.
Announces(t, d, was) == d # was /\ (was # NoDir \/ t.cmdOwner # NoPanel)

OwnerNow(t) == t.owner

\* The pane that submitted the command, wherever the user is now.
OwnerOf(t) == t.cmdOwner

PreCmdOfUser(t, d, was) ==
  ApplyPending(
    FinishRun(
      [t EXCEPT !.draining = FALSE, !.shown = IF t.draining THEN 0 ELSE @,
                !.cmdOwner = NoPanel,
                !.posted = IF Announces(t, d, was)
                             THEN Append(@, [dir |-> d, owner |-> OwnerOf(t)])
                             ELSE @]), d)

\* The prompt follows on the screen, unless it is discarded: what is shown then
\* is the snapshot, as long as the user has not typed.
Draws(t, n) ==
  IF t.draining THEN t
  ELSE [t EXCEPT !.shown = n, !.snap = IF t.input THEN @ ELSE {n}]

HandlePreCmd(t, d) ==
  LET r == [t EXCEPT !.cwd = d, !.atPrompt = TRUE, !.input = FALSE, !.snap = {}]
  IN Draws(IF t.busy THEN PreCmdOfNav([r EXCEPT !.watchdog = FALSE], d)
           ELSE PreCmdOfUser(r, d, t.cwd), 0)

\* _reset_shell_state()
Reset(t) ==
  [t EXCEPT !.watchdog = FALSE, !.target = NoDir, !.busy = FALSE,
            !.stashed = FALSE, !.atPrompt = FALSE, !.repaired = FALSE,
            !.input = FALSE, !.snap = {}, !.cmdOwner = NoPanel,
            !.draining = FALSE, !.runStashed = FALSE, !.run = FALSE,
            !.future = IF @ = "pending" THEN "done" ELSE @]

\* recv(): one message of the shell.
Recv ==
  /\ out # <<>> /\ Head(out).kind # "disconnect"
  /\ LET m == Head(out)
         t == IF m.kind = "precmd" THEN HandlePreCmd(term, m.dir)
              ELSE Draws(term, m.len)
     IN Becomes(t) /\ Writes(t)
  /\ out' = Tail(out)
  /\ UNCHANGED <<line, ring, prog, dir, hook, mover, spoilt, sendq, typed, by>>

\* recv() at the end of the shell, and respawn(): a new one starts.
Respawn ==
  /\ out # <<>> /\ Head(out).kind = "disconnect"
  /\ Becomes([Reset(term) EXCEPT !.draining = TRUE, !.shown = 0])
  /\ sendq' = <<>> /\ typed' = 0 /\ by' = NoPanel
  /\ pty' = <<Command("init", NoDir)>> /\ out' = <<>>
  /\ line' = 0 /\ ring' = 0 /\ prog' = NoProg /\ dir' = Home
  /\ hook' = FALSE /\ mover' = "init" /\ spoilt' = FALSE

\* _on_nav_timeout(): the hook is installed again, once in a session.
Timeout ==
  /\ term.watchdog
  /\ pty = <<>> /\ AtPrompt /\ \A i \in DOMAIN out : out[i].kind # "precmd"
  /\ LET off == [term EXCEPT !.watchdog = FALSE]
         t == CASE ~term.busy -> off
                [] term.busy /\ ~term.repaired ->
                     StartNav([off EXCEPT !.repaired = TRUE,
                                          !.sent = Append(@, Command("init", NoDir))])
                [] OTHER -> FinishNav(off)
     IN Becomes(t) /\ Writes(t)
  /\ UNCHANGED <<out, line, ring, prog, dir, hook, mover, spoilt, sendq, typed, by>>

\* _run(): the send loop.
Forward ==
  /\ sendq # <<>>
  /\ pty' = Append(pty, Head(sendq)) /\ sendq' = Tail(sendq)
  /\ UNCHANGED <<out, line, ring, prog, dir, hook, mover, spoilt, term, posts, typed, by>>

-----------------------------------------------------------------------------
\* The user at the keyboard.

\* The shell has answered everything: it waits at its prompt.
Calm == sendq = <<>> /\ pty = <<>> /\ out = <<>> /\ AtPrompt /\ ~term.busy

\* Every typed character is on the screen.
Typing == {"key", "erase"}
Echoed ==
  /\ \A i \in DOMAIN sendq : sendq[i].op \notin Typing
  /\ \A i \in DOMAIN pty : pty[i].op \notin Typing
  /\ \A i \in DOMAIN out : out[i].kind # "echo"

MayType == Calm \/ "hurried" \in Habits
MayRequest == Echoed \/ "hurried" \in Habits

shellKept == <<out, line, ring, prog, dir, hook, mover, spoilt>>

\* on_key(), _note_user_input(): a character, or a backspace.
Type(op) ==
  /\ MayType
  /\ op = Erase => typed > 0
  /\ typed' = IF op = Key THEN typed + 1 ELSE typed - 1
  /\ term' = [term EXCEPT !.input = TRUE]
  /\ sendq' = Append(sendq, op)
  /\ UNCHANGED <<shellKept, pty, posts, by>>

\* Enter: the shell leaves the prompt, and the command has an owner.
Enter(command) ==
  /\ MayType
  /\ term' = [term EXCEPT !.input = TRUE, !.atPrompt = FALSE,
                          !.cmdOwner = term.owner]
  /\ typed' = 0 /\ by' = term.owner
  /\ sendq' = Append(sendq, command)
  /\ UNCHANGED <<shellKept, pty, posts>>

RunsWhileBusy == ~term.run

CanRun == term.atPrompt /\ ~term.busy /\ ~term.run

\* run_command(), which raises when the terminal is busy.
RunCommand(d) ==
  /\ CanRun /\ MayRequest
  /\ LET held == HasInput(term)
         t == [term EXCEPT !.run = TRUE, !.runStashed = held, !.atPrompt = FALSE,
                           !.cmdOwner = term.owner,
                           !.sent = (IF held THEN <<Kill>> ELSE <<>>)
                                      \o <<Command("run", d)>>]
     IN Becomes(t) /\ Writes(t)
  /\ by' = term.owner
  /\ UNCHANGED <<shellKept, sendq, typed>>

\* _sync_terminal_to_active_panel(), as far as the terminal is concerned.
RequestCd(d, panel) ==
  /\ MayRequest
  /\ LET t == Request([term EXCEPT !.owner = panel], d)
     IN Becomes(t) /\ Writes(t)
  /\ UNCHANGED <<shellKept, sendq, typed, by>>

TermSteps == Recv \/ Respawn \/ Timeout \/ Forward
================================================================================
