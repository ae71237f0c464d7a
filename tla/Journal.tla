------------------------------ MODULE Journal ------------------------------
(***************************************************************************)
(* The write-behind journal of internal/history/bolt: pending mutations, a  *)
(* flush loop that swaps them out under the lock and writes them in one     *)
(* transaction without it, the merge when the transaction fails, and the    *)
(* final flush and close.                                                   *)
(*                                                                          *)
(* The three buckets are one key space: a sequence keys a revision, a UID   *)
(* an object, and two more keys hold the meta counters.  A call's writes    *)
(* are a partial function on keys; a removal is a write too (nil).  The code *)
(* merges `seq` with a maximum and `evicted` with an or: a newer pending    *)
(* value is then the greater one, so for them too the newer value wins.     *)
(***************************************************************************)
EXTENDS Integers, Sequences

VARIABLES
    pend,      \* Journal.revisions, objects, seq, evicted: waiting for a flush
    inflight,  \* flush's locals, while its transaction runs
    flushing,  \* flush is between the two locked sections
    disk,      \* the bbolt file: what was last written under each key
    phase      \* "open", "final" (the last flush was begun), "closed"

\* Two groups of writes to the same keys: the newer one wins.
Merge(newer, older) ==
    [k \in DOMAIN newer \cup DOMAIN older |->
        IF k \in DOMAIN newer THEN newer[k] ELSE older[k]]

Nothing == [k \in {} |-> k]

\* Open found, or created, a file of these contents.
Opened(contents) ==
    /\ pend = Nothing
    /\ inflight = Nothing
    /\ flushing = FALSE
    /\ disk = contents
    /\ phase = "open"

\* Append, Update, Evict, PutObject, DeleteObject and MarkEvicted: the last state
\* of a key is all that is kept.
Enqueue(writes) ==
    /\ pend' = Merge(writes, pend)
    /\ UNCHANGED <<inflight, flushing, disk, phase>>

\* flush, first locked section: what is pending is swapped out.
Swapped ==
    /\ ~flushing
    /\ inflight' = pend
    /\ pend' = Nothing
    /\ flushing' = (pend # Nothing)
    /\ UNCHANGED disk

\* The interval elapsed; with nothing pending there is nothing to do.
FlushSwap == phase = "open" /\ pend # Nothing /\ Swapped /\ UNCHANGED phase

\* The wait was cancelled instead: one final flush, with or without anything in it.
FinalSwap == phase = "open" /\ phase' = "final" /\ Swapped

\* Mutant: only what is still the latest is written, the rest is left for later.
FlushCommitPart ==
    /\ flushing
    /\ disk' = Merge([k \in DOMAIN inflight \ DOMAIN pend |-> inflight[k]], disk)
    /\ inflight' = Nothing
    /\ flushing' = FALSE
    /\ UNCHANGED <<pend, phase>>

\* The transaction commits: all of it, at once.
FlushCommit ==
    /\ flushing
    /\ disk' = Merge(inflight, disk)
    /\ inflight' = Nothing
    /\ flushing' = FALSE
    /\ UNCHANGED <<pend, phase>>

\* Mutants: the failed mutations are dropped; they are merged over the newer ones.
FlushFailDrops ==
    /\ flushing
    /\ inflight' = Nothing
    /\ flushing' = FALSE
    /\ UNCHANGED <<pend, disk, phase>>
FlushFailReverts ==
    /\ flushing
    /\ pend' = Merge(inflight, pend)
    /\ inflight' = Nothing
    /\ flushing' = FALSE
    /\ UNCHANGED <<disk, phase>>

\* It fails, and nothing of it is written: merged back, newer states win.
FlushFail ==
    /\ flushing
    /\ pend' = Merge(pend, inflight)
    /\ inflight' = Nothing
    /\ flushing' = FALSE
    /\ UNCHANGED <<disk, phase>>

\* Run returns: whatever the final flush left, or came after it, the file is closed.
Close ==
    /\ phase = "final"
    /\ ~flushing
    /\ phase' = "closed"
    /\ UNCHANGED <<pend, inflight, flushing, disk>>

\* What the calls made so far add up to.
Contents == Merge(pend, Merge(inflight, disk))

=============================================================================
