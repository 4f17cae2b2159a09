------------------------------- MODULE MCEditor -------------------------------
(* The editor on one or two paths, with two texts and contents by number. *)
EXTENDS EditorScreen

MCContents == [base : 0..MaxForeign, text : Texts]
================================================================================
