----------------------------- MODULE MCLogFollow -----------------------------
(* Instances of LogFollow for TLC. *)
EXTENDS LogFollow

One == {1}
Two == {1, 2}
ThreeLines == <<3>>

=============================================================================
