-------------------------- MODULE MCJournalMirror --------------------------
(* Instances of JournalMirror for TLC. *)
EXTENDS JournalMirror

\* A revision's key and an object's; two contents of each.
TwoKeys == {1, 2}
TwoValues == {1, 2}

=============================================================================
