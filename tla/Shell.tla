---------------------------------- MODULE Shell --------------------------------
(***************************************************************************)
(* The shell behind the pseudo terminal, as terminal.py and shell_driver.py *)
(* use it: a program with a line editor that reads what was written to it   *)
(* in order, runs one command at a time, and, once its hook is installed,   *)
(* reports its directory (OSC 7) before each prompt.                        *)
(*                                                                         *)
(* The text of a line is abstracted to its length: what matters is whether  *)
(* the characters the user typed are still there when they should be.       *)
(***************************************************************************)
EXTENDS Naturals, Sequences

CONSTANTS Dirs,  \* directories of the file system
          Lost,  \* those the shell cannot enter (deleted, no permission)
          Home,  \* where a shell starts
          NoDir

ASSUME DirsAssumption == Home \in Dirs \ Lost /\ Lost \subseteq Dirs /\ NoDir \notin Dirs

VARIABLES
  pty,     \* written to the shell and not read yet
  out,     \* reported by the shell and not handled by Terminal.recv yet
  line,    \* characters on the command line
  ring,    \* characters last killed
  prog,    \* the command being run
  dir,     \* working directory
  hook,    \* the precmd hook is installed
  mover,   \* (history variable) who wrote the command that last moved the shell
  spoilt   \* (history variable) typed characters were run as part of a command
           \* that the program wrote

shellVars == <<pty, out, line, ring, prog, dir, hook, mover, spoilt>>

Writers == {"user", "nav", "init", "run"}

\* A command line ending in a newline: who wrote it and where it moves the shell.
Command(by, to) == [op |-> "submit", by |-> by, to |-> to]
Edit(op) == [op |-> op, by |-> "nav", to |-> NoDir]
Key == Edit("key")
Erase == Edit("erase")
Kill == Edit("kill")
Yank == Edit("yank")
Exit == [op |-> "exit", by |-> "user", to |-> NoDir]
NoProg == Edit("none")

Inputs == [op: {"submit", "key", "erase", "kill", "yank", "exit"},
           by: Writers, to: Dirs \cup {NoDir}]

\* recv_queue: precmd (a directory), echo (the length of the line), disconnect.
PreCmdOf(d) == [kind |-> "precmd", dir |-> d, len |-> 0]
EchoOf(n) == [kind |-> "echo", dir |-> NoDir, len |-> n]
Gone == [kind |-> "disconnect", dir |-> NoDir, len |-> 0]

ShellTypeOK ==
  /\ pty \in Seq(Inputs)
  /\ \A i \in DOMAIN out : out[i].kind \in {"precmd", "echo", "disconnect"}
  /\ line \in Nat /\ ring \in Nat
  /\ prog \in Inputs \cup {NoProg}
  /\ dir \in Dirs \ Lost
  /\ hook \in BOOLEAN /\ spoilt \in BOOLEAN /\ mover \in Writers

ShellInit ==
  /\ pty = <<Command("init", NoDir)>> /\ out = <<>>
  /\ line = 0 /\ ring = 0 /\ prog = NoProg /\ dir = Home
  /\ hook = FALSE /\ mover = "init" /\ spoilt = FALSE

AtPrompt == prog = NoProg
Next1 == Head(pty)
Reads == AtPrompt /\ pty # <<>> /\ pty' = Tail(pty)

KilledNoMarker == IF line = 0 THEN ring ELSE line

\* The kill sequence types a marker first, so it never kills an empty line.
Killed == line

\* The line editor: a typed or erased character, a kill, a yank.
EditLine ==
  /\ Reads /\ Next1.op \in {"key", "erase", "kill", "yank"}
  /\ line' = CASE Next1.op = "key"   -> line + 1
               [] Next1.op = "erase" -> IF line = 0 THEN 0 ELSE line - 1
               [] Next1.op = "kill"  -> 0
               [] Next1.op = "yank"  -> line + ring
  /\ ring' = IF Next1.op = "kill" THEN Killed ELSE ring
  /\ out' = IF Next1.op = "kill" THEN out ELSE Append(out, EchoOf(line'))
  /\ UNCHANGED <<prog, dir, hook, mover, spoilt>>

\* A newline: the line is run. What the program writes is appended to what is
\* on the line, and does something else when the line was not empty.
Submit ==
  /\ Reads /\ Next1.op \in {"submit", "exit"}
  /\ LET mixed == line # 0 /\ Next1.by # "user"
     IN /\ prog' = IF mixed THEN Command("user", NoDir) ELSE Next1
        /\ spoilt' = (spoilt \/ mixed)
  /\ line' = 0
  /\ UNCHANGED <<out, ring, dir, hook, mover>>

\* The command ends; the hook, when installed, reports before the next prompt.
CommandEnds ==
  /\ prog.op = "submit"
  /\ dir' = IF prog.to \in Dirs \ Lost THEN prog.to ELSE dir
  /\ mover' = IF dir' # dir THEN prog.by ELSE mover
  /\ hook' = (hook \/ prog.by = "init")
  /\ out' = IF hook' THEN Append(out, PreCmdOf(dir')) ELSE out
  /\ prog' = NoProg
  /\ UNCHANGED <<pty, line, ring, spoilt>>

\* The shell exits: its end of the pseudo terminal is closed.
ShellExits ==
  /\ prog.op = "exit" /\ Gone \notin {out[i] : i \in DOMAIN out}
  /\ out' = Append(out, Gone)
  /\ UNCHANGED <<pty, line, ring, prog, dir, hook, mover, spoilt>>

ShellSteps == EditLine \/ Submit \/ CommandEnds \/ ShellExits
================================================================================
