--------------------------- MODULE HistoryJournal ---------------------------
(***************************************************************************)
(* The store and its journal together, through restarts: a mutation of the  *)
(* timeline calls the journal several times under the store's lock, and the *)
(* flush loop, which takes only the journal's lock, may swap between two of *)
(* those calls.  A restart reopens the file and primes a new store from it. *)
(***************************************************************************)
EXTENDS Capture, Journal

CONSTANTS
    Orderly,      \* the process ends only with its taps idle and the last flush written
    MaxRestarts,  \* bound: restarts explored
    MaxFailures   \* bound: failed transactions explored

\* The journal is the store's Persister: the properties are promised where Persisted is TRUE.
ASSUME HistoryJournalAssumption ==
    /\ Orderly \in BOOLEAN
    /\ MaxRestarts \in Nat /\ MaxFailures \in Nat
    /\ Gone \notin Revision \cup Nat \cup BOOLEAN

VARIABLES
    restarts, failures, \* environment: how many so far
    allowance           \* history: allowance[u]: what the limit by object comes to since the start

RevisionKey(seq) == <<"revision", seq>>
ObjectKey(u) == <<"object", u>>
SeqKey == <<"meta", 0>>
EvictedKey == <<"meta", 1>>

journal == <<pend, inflight, flushing, disk, phase>>
historyVars == <<captureVars, journal, restarts, failures, allowance>>

-----------------------------------------------------------------------------
OneKey(key, value) == [k \in {key} |-> value]

\* The writes one call of the Persister enqueues.
WritesOf(call) ==
    CASE call.call = "Append" ->
            Merge(OneKey(RevisionKey(call.rev.seq), call.rev), OneKey(SeqKey, call.rev.seq))
      [] call.call = "Update"       -> OneKey(RevisionKey(call.rev.seq), call.rev)
      [] call.call = "Evict"        -> OneKey(RevisionKey(call.seq), Gone)
      [] call.call = "PutObject"    -> OneKey(ObjectKey(call.uid), call.record)
      [] call.call = "DeleteObject" -> OneKey(ObjectKey(call.uid), Gone)
      [] call.call = "MarkEvicted"  -> OneKey(EvictedKey, TRUE)

Calls(calls) == FoldLeft(LAMBDA w, call : Merge(WritesOf(call), w), Nothing, calls)

\* What a reader of the file finds under a key.
Read(contents, key) == IF key \in DOMAIN contents THEN contents[key] ELSE Gone

\* Mutant: the counter is read off the retained revisions alone.
LoadedSeqOfRevisions(contents) ==
    Max({0} \cup {key[2] : key \in
        {k \in DOMAIN contents : k[1] = "revision" /\ contents[k] # Gone}})

\* Load: the revisions in key order, the objects, the greatest sequence, the mark.
LoadedSeqs(contents) ==
    {key[2] : key \in {k \in DOMAIN contents : k[1] = "revision" /\ contents[k] # Gone}}
LoadedRevisions(contents) ==
    LET seqs == order(LoadedSeqs(contents))
    IN  [i \in DOMAIN seqs |-> contents[RevisionKey(seqs[i])]]
LoadedObjects(contents) == [u \in Uids |-> Read(contents, ObjectKey(u))]
LoadedSeq(contents) ==
    LET meta == Read(contents, SeqKey)
    IN  Max({0} \cup LoadedSeqs(contents) \cup (IF meta = Gone THEN {} ELSE {meta}))
LoadedEvicted(contents) == Read(contents, EvictedKey) # Gone

-----------------------------------------------------------------------------
HistoryInit ==
    /\ CaptureInit
    /\ Opened(Nothing)
    /\ restarts = 0
    /\ failures = 0
    /\ allowance = [u \in Uids |-> store.perObject]

Serve == Server /\ UNCHANGED <<journal, restarts, failures, allowance>>

\* Taps run beside the journal's loop; nothing orders their ends.
Capturing ==
    /\ Orderly => phase = "open"
    /\ Tap
    /\ UNCHANGED <<journal, restarts, failures, allowance>>

\* The mutation in progress makes its next call.
MirrorCall ==
    /\ ~Unlocked
    /\ Enqueue(WritesOf(Head(store.out)))
    /\ store' = [store EXCEPT !.out = Tail(@)]
    /\ UNCHANGED <<hist, mode, cursor, missed, leftOut, lapses, restarts, failures, allowance>>

LoopSwaps == FlushSwap /\ UNCHANGED <<captureVars, restarts, failures, allowance>>

LoopCommits == FlushCommit /\ UNCHANGED <<captureVars, restarts, failures, allowance>>

LoopFails ==
    /\ Orderly => phase = "open"
    /\ failures < MaxFailures
    /\ failures' = failures + 1
    /\ FlushFail
    /\ UNCHANGED <<captureVars, restarts, allowance>>

LoopEnds ==
    /\ Orderly => Unlocked
    /\ FinalSwap
    /\ UNCHANGED <<captureVars, restarts, failures, allowance>>

FileCloses == Close /\ UNCHANGED <<captureVars, restarts, failures, allowance>>

\* What the limit by object comes to after priming.  Priming evicts one revision at most
\* of a live object, and from then on a new one pushes out an old one.  Of an object the
\* file has no record of it evicts none; when such an object is there all the same (the
\* file was left between a revision's write and its record's), its count starts at zero.
Allowed(u, perObject) ==
    LET kept == Cardinality({rev \in Range(LoadedRevisions(disk)) : rev.uid = u})
    IN  IF LoadedObjects(disk)[u] = Gone THEN perObject + kept ELSE Max({perObject, kept - 1})

\* The process ends, or is killed, and starts again: Open, then NewPersistedStore,
\* whose trim is mirrored before any tap or flush runs.
Restart ==
    /\ Orderly => phase = "closed"
    /\ restarts < MaxRestarts
    /\ restarts' = restarts + 1
    /\ \E perObject \in PerObjects :
        LET primed == prime(perObject, LoadedRevisions(disk), LoadedObjects(disk),
                            LoadedSeq(disk), LoadedEvicted(disk))
        IN  /\ store' = [primed EXCEPT !.out = <<>>]
            /\ pend' = Calls(primed.out)
            /\ allowance' = [u \in Uids |-> Allowed(u, perObject)]
    /\ inflight' = Nothing
    /\ flushing' = FALSE
    /\ phase' = "open"
    /\ mode' = [sc \in Scopes |-> "down"]
    /\ cursor' = [sc \in Scopes |-> 0]
    /\ UNCHANGED <<hist, missed, leftOut, lapses, disk, failures>>

HistoryNext ==
    \/ Serve \/ Capturing \/ MirrorCall
    \/ LoopSwaps \/ LoopCommits \/ LoopFails \/ LoopEnds \/ FileCloses
    \/ Restart

HistorySpec == HistoryInit /\ [][HistoryNext]_historyVars

-----------------------------------------------------------------------------
\* The types of the store and of the journal's variables.
HistoryTypeOK ==
    /\ CaptureTypeOK
    /\ \A key \in DOMAIN pend \cup DOMAIN inflight \cup DOMAIN disk :
           key[1] \in {"revision", "object", "meta"}
    /\ phase \in {"open", "final", "closed"}
    /\ flushing \in BOOLEAN

\* The mirror is exact: the file, what is being written, what is pending and the
\* calls still to come add up to the store, through evictions, rewrites, failed
\* transactions and restarts.
MirrorIsExact ==
    LET all == Merge(Calls(store.out), Contents) IN
    /\ LoadedRevisions(all) = store.entries
    /\ LoadedObjects(all) =
           [u \in Uids |-> IF store.objects[u] = Gone THEN Gone ELSE record(store.objects[u])]
    /\ LoadedSeq(all) = store.seq
    /\ LoadedEvicted(all) = store.evicted

\* Retention after restarts, under limits that may have been lowered between them:
\* the two limits of the whole timeline hold from the first moment.  The limit by object
\* is "re-enforced" as far as Allowed says: an excess the file brings stays.
LimitsAfterRestart ==
    /\ MaxRevisions > 0 => Len(store.entries) <= MaxRevisions
    /\ MaxBytes > 0 => store.bytes <= MaxBytes
    /\ store.perObject > 0 =>
           \A u \in Uids \ leftOut : Cardinality(Of(u)) <= allowance[u]

Counted(contents) == IF Read(contents, SeqKey) = Gone THEN 0 ELSE Read(contents, SeqKey)

\* Sequences stay unique across restarts, "even after every revision carrying them
\* was evicted": what the file has counted as issued it never gives to another revision,
\* and once that revision is out it stays out.  (A sequence issued and not yet written
\* when the process is killed was never counted, and is issued again.)
SequencesNeverReturn ==
    [][ /\ Counted(disk') >= Counted(disk)
        /\ \A seq \in 1..Counted(disk) :
               LET was == Read(disk, RevisionKey(seq))  is == Read(disk', RevisionKey(seq)) IN
               is # Gone =>
                   /\ was # Gone
                   /\ [is EXCEPT !.content.status = 0] = [was EXCEPT !.content.status = 0]
      ]_historyVars

=============================================================================
