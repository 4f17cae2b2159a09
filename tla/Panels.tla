--------------------------------- MODULE Panels --------------------------------
(***************************************************************************)
(* MainScreen and its two DirectoryBrowsers around one local Terminal: the  *)
(* terminal follows the active panel (_sync_terminal_to_active_panel), and  *)
(* a panel follows the command its user submitted (PathChanged).            *)
(*                                                                         *)
(* A directory is loaded by a worker and the panel moves when the listing   *)
(* starts; a browser's own messages are handled after the handler that      *)
(* posts them. Every directory can be listed.                               *)
(***************************************************************************)
EXTENDS Terminal

CONSTANTS MaxOps,   \* bound: what the user does
          MaxKeys,  \* bound: characters on the line
          MaxWipes  \* bound: times a plugin removes the hook

\* There are two panes to go back and forth between.
ASSUME PanesAssumption == \E p, q \in Panels : p # q
ASSUME BoundsAssumption == MaxOps \in Nat /\ MaxKeys \in Nat /\ MaxWipes \in Nat

VARIABLES
  active,   \* _last_active_panel
  path,     \* DirectoryBrowser._path
  pending,  \* DirectoryBrowser._pending
  changed,  \* panels whose PathChanged has not been handled
  focus,    \* Focus messages not handled
  lost,     \* (history variable) a request was dropped: its shell went away, the
            \* watchdog or an older one that was tried too often ended it
  ops, wipes

panelVars == <<active, path, pending, changed, focus>>
vars == <<shellVars, termVars, panelVars, lost, ops, wipes>>

TypeOK ==
  /\ ShellTypeOK /\ TermTypeOK
  /\ active \in Panels
  /\ path \in [Panels -> Dirs]
  /\ pending \in [Panels -> Dirs \cup {NoDir}]
  /\ changed \subseteq Panels
  /\ focus \in Seq(Panels)
  /\ lost \in BOOLEAN /\ ops \in 0..MaxOps /\ wipes \in 0..MaxWipes

\* The left panel.
First == CHOOSE p \in Panels : TRUE

Init ==
  /\ active = First
  /\ TermInit(active)
  /\ path = [p \in Panels |-> Home]
  /\ pending = [p \in Panels |-> NoDir]
  /\ changed = {} /\ focus = <<>> /\ lost = FALSE /\ ops = 0 /\ wipes = 0

Other == CHOOSE p \in Panels : p # active

\* DirectoryBrowser.set_path()
SetPath(p, d) ==
  pending' = IF d = path[p] /\ pending[p] = NoDir THEN pending
             ELSE [pending EXCEPT ![p] = d]

\* The terminal is pointed at the directory of the panel that is active.
SyncTerminal(panel) == RequestCd(path[panel], panel)

\* action_toggle_panels()
TogglePanels ==
  /\ active' = Other /\ focus' = Append(focus, Other)
  /\ SyncTerminal(Other)
  /\ UNCHANGED <<path, pending, changed, lost, wipes>>

\* _on_directory_browser_focus()
Focused ==
  /\ focus # <<>>
  /\ active' = Head(focus) /\ focus' = Tail(focus)
  /\ SyncTerminal(Head(focus))
  /\ UNCHANGED <<path, pending, changed, lost, ops, wipes>>

\* The user enters a directory in the active panel.
Browse(d) ==
  /\ d # path[active] /\ SetPath(active, d)
  /\ UNCHANGED <<shellVars, termVars, active, path, changed, focus, lost, wipes>>

\* _load_directory(), _commit_pending()
Load(p) ==
  /\ pending[p] # NoDir
  /\ path' = [path EXCEPT ![p] = pending[p]]
  /\ pending' = [pending EXCEPT ![p] = NoDir]
  /\ changed' = changed \cup {p}
  /\ UNCHANGED <<shellVars, termVars, active, focus, lost, ops, wipes>>

\* _on_directory_browser_path_changed()
PathChangedOf(p) ==
  /\ p \in changed /\ changed' = changed \ {p}
  /\ SyncTerminal(active)
  /\ UNCHANGED <<active, path, pending, focus, lost, ops, wipes>>

Follower(m) == IF m.owner = NoPanel THEN active ELSE m.owner

\* _on_terminal_path_changed()
TerminalPathChanged ==
  /\ posts # <<>> /\ posts' = Tail(posts)
  /\ SetPath(Follower(Head(posts)), Head(posts).dir)
  /\ UNCHANGED <<shellVars, term, sendq, typed, by, active, path, changed, focus,
                 lost, ops, wipes>>

Types ==
  /\ \/ typed < MaxKeys /\ Type(Key)
     \/ Type(Erase)
  /\ UNCHANGED <<panelVars, lost, wipes>>

Submits ==
  /\ \E d \in Dirs \cup {NoDir} : Enter(Command("user", d))
  /\ UNCHANGED <<panelVars, lost, wipes>>

Exits == Enter(Exit) /\ UNCHANGED <<panelVars, lost, wipes>>

\* The user menu runs a command in the directory of the active panel.
Runs == RunCommand(path[active]) /\ UNCHANGED <<panelVars, lost, wipes>>

\* The messages of the panels and of the terminal have been handled.
Handled == posts = <<>> /\ changed = {} /\ focus = <<>>

Loaded == \A p \in Panels : pending[p] = NoDir

User ==
  /\ ops < MaxOps /\ ops' = ops + 1
  /\ (Handled /\ Loaded) \/ "hurried" \in Habits
  /\ \/ TogglePanels
     \/ \E d \in Dirs : Browse(d)
     \/ Types \/ Submits \/ Exits \/ Runs

\* A plugin of the shell removes the hook.
Wipe ==
  /\ wipes < MaxWipes /\ AtPrompt /\ hook
  /\ hook' = FALSE /\ wipes' = wipes + 1
  /\ UNCHANGED <<pty, out, line, ring, prog, dir, mover, spoilt, termVars,
                 panelVars, lost, ops>>

Shells == ShellSteps /\ UNCHANGED <<termVars, panelVars, lost, ops, wipes>>

\* The widget forgets a directory it was asked for and never sent the shell to.
Drops ==
  /\ term.target # NoDir /\ term'.target = NoDir
  /\ term.target \notin {term.lastSent, term'.cwd}

Widget ==
  /\ \/ Recv /\ lost' = (lost \/ Drops)
     \/ Timeout /\ lost' = (lost \/ (term.busy /\ ~term'.busy))
     \/ Forward /\ lost' = lost
     \/ Respawn /\ lost' = (lost \/ term.target # NoDir)
  /\ UNCHANGED <<panelVars, ops, wipes>>

Host ==
  \/ Focused \/ TerminalPathChanged
  \/ \E p \in Panels : Load(p) \/ PathChangedOf(p)

Next == User \/ Wipe \/ Shells \/ Widget \/ Host

Spec == Init /\ [][Next]_vars
FairSpec == Spec /\ WF_vars(Shells) /\ WF_vars(Widget) /\ WF_vars(Host)

-----------------------------------------------------------------------------
\* Nothing is in flight.
Settled == Calm /\ Handled /\ Loaded

\* Characters the user typed and did not submit are never run with a command
\* the program writes, and are on the line again when nothing is in flight
\* (terminal.py:701 "preserving typed input"); while the hook has not been
\* repaired: the precmd of the repaired transaction's last cd comes too late.
TypedIsKept ==
  ~term.repaired => ~spoilt /\ (Calm /\ ~term.run => line = typed)

\* When nothing is in flight the shell is where the active panel is (terminal.py:271),
\* unless it cannot enter that directory, lost its hook, or a request was
\* dropped.
TerminalFollowsPanel ==
  Settled /\ hook /\ ~lost => path[active] \in {dir} \cup Lost

\* PathChanged is never posted for a directory the shell was sent to, and names
\* the panel from which the command was submitted (terminal.py:290-293).
SilentNavigation ==
  [][Len(posts') > Len(posts) /\ ~term.repaired =>
       \/ mover = "init"
       \/ (mover # "nav" /\ posts'[Len(posts')].owner = by)]_vars

\* run_command returns when its line has finished, or with the shell.
RunAwaits ==
  [][term.run /\ ~term'.run /\ ~term.repaired =>
       prog.by # "run" /\ \A i \in DOMAIN pty : pty[i].by # "run"]_vars

\* A transaction that was sent ends, whatever the shell does with it; a stored
\* one too, as long as the shell reports (terminal.py:850-852).
NavigationEnds ==
  /\ term.busy ~> ~term.busy
  /\ term.future = "pending" ~> term.future # "pending" \/ ~hook

================================================================================
