---------------------------- MODULE WriteBehind ----------------------------
(***************************************************************************)
(* What the journal promises whoever mirrors into it: the file always holds *)
(* what the calls up to SOME moment add up to, whole, and that moment only  *)
(* moves forward.  A crash loses the latest calls and nothing before them.  *)
(***************************************************************************)
EXTENDS Integers, Sequences

VARIABLES
    log,     \* log[i]: the contents after the first i - 1 calls
    at,      \* the moment the file has reached
    durable  \* the contents of the file

behindVars == <<log, at, durable>>

BehindInit ==
    /\ at = 1
    /\ Len(log) = 1
    /\ durable = log[1]

\* A call is accepted; the file does not move.
Accept ==
    /\ Len(log') = Len(log) + 1
    /\ \A i \in 1..Len(log) : log'[i] = log[i]
    /\ UNCHANGED <<at, durable>>

\* The file catches up with a later moment.
Persist ==
    /\ at' \in at..Len(log)
    /\ durable' = log[at']
    /\ UNCHANGED log

BehindSpec == BehindInit /\ [][Accept \/ Persist]_behindVars

=============================================================================
