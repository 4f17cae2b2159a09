-------------------------- MODULE MCLocalCopyManager --------------------------
(***************************************************************************)
(* LocalCopyManager for TLC.  File contents are interchangeable: nothing   *)
(* orders them, and the initial source may hold any of them.               *)
(***************************************************************************)
EXTENDS LocalCopyManager, TLC

Symmetry == Permutations(Contents)

=============================================================================
