-------------------------- MODULE MCHistoryJournal --------------------------
(* Instances of HistoryJournal for TLC. *)
EXTENDS HistoryJournal

OneUid == {1}
TwoUids == {1, 2}
OneScope == {"pods"}
PodsOnly == [u \in Uids |-> "pods"]
OneOrThree == {1, 3}

=============================================================================
