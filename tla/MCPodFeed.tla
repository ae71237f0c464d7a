------------------------------ MODULE MCPodFeed ------------------------------
(* Instances of PodFeed for TLC. *)
EXTENDS PodFeed

AllButOrphan == ChangeKinds \ {"orphan"}
AllButModify == ChangeKinds \ {"modify"}
TwoNames == {1, 2}
ThreeNames == {1, 2, 3}

=============================================================================
