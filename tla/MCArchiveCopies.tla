---------------------------- MODULE MCArchiveCopies ---------------------------
(***************************************************************************)
(* ArchiveCopies for TLC: the members are interchangeable.                 *)
(***************************************************************************)
EXTENDS ArchiveCopies, TLC

Symmetry == Permutations(Members)

=============================================================================
