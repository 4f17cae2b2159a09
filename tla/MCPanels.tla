-------------------------------- MODULE MCPanels -------------------------------
(* The directories and the two panes on which TLC runs the terminal.           *)
EXTENDS Panels

\* Where shells start, another directory, and one that was deleted.
CONSTANTS home, sub, gone, left, right
================================================================================
