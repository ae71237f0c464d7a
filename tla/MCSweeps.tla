------------------------------ MODULE MCSweeps ------------------------------
(* Two instances, one more than the window may track, and two addresses;    *)
(* each sweep on its own.                                                   *)
EXTENDS Sweeps
TwoNames == {"a", "b"}
OneSweep == {{"status"}, {"metrics"}}
LastNow == [d \in OneSweep |-> IF "status" \in d THEN 3 ELSE 5]
Crashes == [d \in OneSweep |-> IF "status" \in d THEN 0 ELSE 1]
PodChanges == [d \in OneSweep |-> IF "status" \in d THEN 3 ELSE 2]
==============================================================================
