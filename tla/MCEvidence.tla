----------------------------- MODULE MCEvidence -----------------------------
(* Two backups, one more than the ceiling, on pages of one or of two. *)
EXTENDS Evidence

TwoItems == {1, 2}
ShortPages == {1, 2}
==============================================================================
