--------------------------- MODULE MCChangeDetector ---------------------------
(***************************************************************************)
(* ChangeDetector for TLC; the configuration gives the bounds.             *)
(***************************************************************************)
EXTENDS ChangeDetector

=============================================================================
