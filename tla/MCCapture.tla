----------------------------- MODULE MCCapture -----------------------------
(* Instances of Capture for TLC. *)
EXTENDS Capture

TwoUids == {1, 2}
PoolerOnly == [u \in Uids |-> "pooler pods"]
OneScope == {"pooler pods"}
UpToTwo == {2}

=============================================================================
