------------------------------- MODULE MCFileJobs -------------------------------
(* The trees on which TLC runs the jobs of the file manager.                    *)
EXTENDS FileJobs

\* A directory d with a subdirectory e with a file b, beside a file c.
CONSTANTS b, c, d, e
MCTasks == {b, c, d, e}
MCDirs == {d, e}
MCParent == [t \in MCTasks |-> CASE t = e -> d [] t = b -> e [] OTHER -> NoTask]

\* Two files.
Two == {b, c}
Flat == [t \in Two |-> NoTask]
================================================================================
