--------------------------- MODULE JournalMirror ---------------------------
(***************************************************************************)
(* The journal under any client: calls land at any point of a flush, flushes *)
(* fail and are retried.  Refines WriteBehind.                              *)
(***************************************************************************)
EXTENDS Journal

CONSTANTS
    Keys,       \* the keys of the three buckets
    Value,      \* what may be stored
    Nil,        \* nothing under that key
    MaxCalls,   \* bound: calls explored
    MaxFaults   \* bound: failed transactions explored

ASSUME MirrorAssumption ==
    /\ Nil \notin Value
    /\ MaxCalls \in Nat
    /\ MaxFaults \in Nat

VARIABLES
    faults,  \* environment: transactions that failed
    log,     \* history variable: log[i] is what the first i - 1 calls add up to
    cut,     \* history variable: the log's length when the flush swapped
    at       \* history variable: the cut of the last committed transaction

mirrorVars == <<pend, inflight, flushing, disk, phase, faults, log, cut, at>>

\* What one call, or a flush, may write.
Writes == UNION {[K -> Value \cup {Nil}] : K \in SUBSET Keys}

Latest == log[Len(log)]

Init ==
    /\ \E contents \in [Keys -> Value \cup {Nil}] :
        /\ Opened(contents)
        /\ log = <<contents>>
    /\ faults = 0
    /\ cut = 1
    /\ at = 1

Call(writes) ==
    /\ Len(log) <= MaxCalls
    /\ Enqueue(writes)
    /\ log' = Append(log, Merge(writes, Latest))
    /\ UNCHANGED <<faults, cut, at>>

Cut == cut' = Len(log) /\ UNCHANGED <<faults, log, at>>

Swap == FlushSwap /\ Cut

LastSwap == FinalSwap /\ Cut

Commit == FlushCommit /\ at' = cut /\ UNCHANGED <<faults, log, cut>>

Fail ==
    /\ FlushFail
    /\ faults < MaxFaults
    /\ faults' = faults + 1
    /\ UNCHANGED <<log, cut, at>>

Exit == Close /\ UNCHANGED <<faults, log, cut, at>>

Flush == Swap \/ Commit \/ Fail

Next == (\E writes \in Writes : Call(writes)) \/ Flush \/ LastSwap \/ Exit

Spec == Init /\ [][Next]_mirrorVars

\* The flush loop is scheduled and a transaction ends one way or the other.
FairSpec == Spec /\ WF_mirrorVars(Flush)

-----------------------------------------------------------------------------
\* Types of the journal and of the history variables; flush's locals end with it.
TypeOK ==
    /\ pend \in Writes
    /\ inflight \in Writes
    /\ flushing \in BOOLEAN
    /\ flushing \/ inflight = Nothing
    /\ disk \in [Keys -> Value \cup {Nil}]
    /\ phase \in {"open", "final", "closed"}
    /\ faults \in Nat
    /\ log \in Seq([Keys -> Value \cup {Nil}])
    /\ at \in 1..Len(log)
    /\ cut \in 1..Len(log)

\* No call is ever lost while the process lives, whatever fails and whichever calls
\* land between a swap and its merge: the file, what is being written and what is
\* pending always add up to everything called ("merged back: newer states win").
NothingIsLost == Contents = Latest

\* The journal implements the write-behind promise: the file is always one whole
\* moment of the call sequence, and never an earlier one than before.
Behind == INSTANCE WriteBehind WITH durable <- disk
ImplementsWriteBehind == Behind!BehindSpec

\* Once calls and failures stop, everything called is in the file, unless it was
\* closed first ("delays persistence instead of silently dropping it").
EventuallyDurable == <>[](phase = "open" => disk = Latest)

=============================================================================
