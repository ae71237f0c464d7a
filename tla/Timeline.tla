------------------------------ MODULE Timeline ------------------------------
(***************************************************************************)
(* The bounded revision timeline of internal/history/store.go as operators   *)
(* on one value: what Observe, Seed and NewPersistedStore do to a Store.     *)
(*                                                                          *)
(* A store is a record: its two counters, the retained entries in           *)
(* observation order, their summed size, the classification state of every  *)
(* live object, the Evicted mark, and `out`, the calls to the Persister the *)
(* mutation makes, in order.  The scope sets are not kept: a UID is in the  *)
(* set of the scope that first observed it and in no other, so membership   *)
(* is Home (a scope of a capture observes only objects it is the home of).  *)
(* Clock readings are abstracted: the one decision they take, whether a     *)
(* transition lands in the coalescing window, is an argument.               *)
(***************************************************************************)
EXTENDS Integers, Sequences, FiniteSets, SequencesExt

CONSTANTS
    Uids,          \* object incarnations, in the order their names sort
    Gone,          \* no such object, no such record
    Persisted,     \* a Persister is attached
    PerObjects,    \* the values Limits.PerObject may be configured to
    MaxRevisions,  \* Limits.MaxRevisions, 0 is unbounded
    MaxBytes       \* Limits.MaxBytes, 0 is unbounded

ASSUME TimelineAssumption ==
    /\ Uids \subseteq Nat /\ IsFiniteSet(Uids)
    /\ Persisted \in BOOLEAN
    /\ PerObjects \subseteq Nat /\ MaxRevisions \in Nat /\ MaxBytes \in Nat

\* What an object is, as the store tells apart: the two digests.
Content == [spec : 0..1, status : 0..1]

Changes == {"created", "first-observed", "spec", "status", "deleted", "deleted-unobserved"}
Deletions == {"deleted", "deleted-unobserved"}
Births == {"created", "first-observed"}

\* What is retained of a change, and what is kept of a live object.
Revision == [seq : Nat \ {0}, uid : Uids, change : Changes, gap : BOOLEAN, content : Content]
State == [spec : 0..1, status : 0..1, count : Int, last : Nat]

ASSUME GoneAssumption == Gone \notin Content \cup State

\* The retention cost: a deletion carries no manifest, and one manifest may be far
\* larger than another, or than the limit.
revisionSize(rev) == IF rev.change \in Deletions THEN 0 ELSE 1 + 3 * rev.content.status

\* The order names sort in: the k-th has k - 1 before it.
order(S) == [k \in 1..Cardinality(S) |-> CHOOSE u \in S : Cardinality({o \in S : o < u}) = k - 1]

Live(st) == {u \in Uids : st.objects[u] # Gone}

NewStore(perObject) ==
    [perObject |-> perObject, seq |-> 0, generation |-> 0, entries |-> <<>>, bytes |-> 0,
     objects |-> [u \in Uids |-> Gone], evicted |-> FALSE, out |-> <<>>]

\* A call to the Persister, made under the store's lock.
Mirror(st, call) == [st EXCEPT !.out = IF Persisted THEN Append(@, call) ELSE @]

\* The persisted form of an object's state: its digests, not its counts.
record(state) == [spec |-> state.spec, status |-> state.status]

-----------------------------------------------------------------------------
(* Retention.                                                               *)

\* Mutants: the mark is forgotten; the target keeps pointing at what was evicted.
evictUnmarked(st, i) ==
    LET rev   == st.entries[i]
        state == st.objects[rev.uid]
    IN  [Mirror(st, [call |-> "Evict", seq |-> rev.seq]) EXCEPT
            !.entries = RemoveAt(@, i),
            !.bytes   = @ - revisionSize(rev),
            !.objects[rev.uid] =
                IF state = Gone THEN Gone
                ELSE [state EXCEPT !.count = @ - 1,
                                   !.last  = IF @ = rev.seq THEN 0 ELSE @]]
evictDangling(st, i) ==
    LET rev     == st.entries[i]
        state   == st.objects[rev.uid]
        removed == Mirror(st, [call |-> "Evict", seq |-> rev.seq])
        marked  == IF st.evicted THEN removed ELSE Mirror(removed, [call |-> "MarkEvicted"])
    IN  [marked EXCEPT
            !.entries = RemoveAt(@, i),
            !.bytes   = @ - revisionSize(rev),
            !.evicted = TRUE,
            !.objects[rev.uid] =
                IF state = Gone THEN Gone ELSE [state EXCEPT !.count = @ - 1]]

\* evict removes one retained revision and mirrors the removal.
evict(st, i) ==
    LET rev     == st.entries[i]
        state   == st.objects[rev.uid]
        removed == Mirror(st, [call |-> "Evict", seq |-> rev.seq])
        marked  == IF st.evicted THEN removed ELSE Mirror(removed, [call |-> "MarkEvicted"])
    IN  [marked EXCEPT
            !.entries = RemoveAt(@, i),
            !.bytes   = @ - revisionSize(rev),
            !.evicted = TRUE,
            !.objects[rev.uid] =
                IF state = Gone THEN Gone
                ELSE [state EXCEPT !.count = @ - 1,
                                   !.last  = IF @ = rev.seq THEN 0 ELSE @]]

\* One eviction at most, of the object's oldest revision.
enforcePerObject(st, u) ==
    LET own == {i \in DOMAIN st.entries : st.entries[i].uid = u}
    IN  IF st.perObject > 0 /\ st.objects[u].count > st.perObject /\ own # {}
        THEN evict(st, CHOOSE i \in own : \A j \in own : i <= j)
        ELSE st

OverBounds(st) ==
    /\ st.entries # <<>>
    /\ \/ MaxRevisions > 0 /\ Len(st.entries) > MaxRevisions
       \/ MaxBytes > 0 /\ st.bytes > MaxBytes

\* Oldest first until the bounds hold.
enforceBounds(st) ==
    FoldLeft(LAMBDA s, rev : IF OverBounds(s) THEN evict(s, 1) ELSE s, st, st.entries)

\* append retains one revision, mirrors it, and enforces the bounds.
append(st, u, change, gap, content) ==
    LET rev   == [seq |-> st.seq + 1, uid |-> u, change |-> change,
                  gap |-> gap, content |-> content]
        added == [st EXCEPT !.seq = @ + 1,
                            !.generation = @ + 1,
                            !.entries = Append(@, rev),
                            !.bytes = @ + revisionSize(rev),
                            !.objects[u].count = @ + 1,
                            !.objects[u].last = rev.seq]
    IN  enforceBounds(enforcePerObject(Mirror(added, [call |-> "Append", rev |-> rev]), u))

-----------------------------------------------------------------------------
(* Folding one observation.                                                 *)

\* The observation becomes the object's classification state, and is mirrored.
commit(st, u, content) ==
    LET set == [st EXCEPT !.objects[u].spec = content.spec,
                          !.objects[u].status = content.status]
    IN  Mirror(set, [call |-> "PutObject", uid |-> u, record |-> record(set.objects[u])])

\* The position of the coalescing target, or 0.
target(st, u) ==
    LET at == {i \in DOMAIN st.entries :
                   /\ st.entries[i].seq = st.objects[u].last
                   /\ st.entries[i].change = "status"}
    IN  IF at = {} THEN 0 ELSE CHOOSE i \in at : TRUE

\* Mutant: the rewrite is not a change for the generation.
coalesceQuietly(st, u, content) ==
    LET i    == target(st, u)
        last == [st.entries[i] EXCEPT !.content.status = content.status]
        set  == [st EXCEPT !.entries[i] = last,
                           !.bytes = @ - revisionSize(st.entries[i]) + revisionSize(last)]
    IN  enforceBounds(commit(Mirror(set, [call |-> "Update", rev |-> last]), u, content))

\* A status transition is folded into the previous one.
coalesce(st, u, content) ==
    LET i    == target(st, u)
        last == [st.entries[i] EXCEPT !.content.status = content.status]
        set  == [st EXCEPT !.entries[i] = last,
                           !.bytes = @ - revisionSize(st.entries[i]) + revisionSize(last)]
        put  == commit(Mirror(set, [call |-> "Update", rev |-> last]), u, content)
    IN  enforceBounds([put EXCEPT !.generation = @ + 1])

\* observe, for an object that is there.  `within`: inside the coalescing window.
observe(st, u, content, seed, within) ==
    LET state == st.objects[u]
        fresh == [spec |-> content.spec, status |-> content.status, count |-> 0, last |-> 0]
        change == IF content.spec # state.spec THEN "spec" ELSE "status"
    IN  CASE state = Gone ->
               commit(append([st EXCEPT !.objects[u] = fresh], u,
                             IF seed THEN "first-observed" ELSE "created", FALSE, content),
                      u, content)
          [] state # Gone /\ record(state) = content ->
               Mirror(st, [call |-> "PutObject", uid |-> u, record |-> content])
          [] state # Gone /\ record(state) # content /\ change = "status"
                 /\ ~seed /\ within /\ target(st, u) # 0 ->
               coalesce(st, u, content)
          [] OTHER -> commit(append(st, u, change, seed, content), u, content)

\* Mutants: the state outlives the object; the end is not mirrored.
forgetNothing(st, u) == Mirror(st, [call |-> "DeleteObject", uid |-> u])
forgetUnmirrored(st, u) == [st EXCEPT !.objects[u] = Gone]

\* The incarnation's classification state goes, from every scope.
forget(st, u) == Mirror([st EXCEPT !.objects[u] = Gone], [call |-> "DeleteObject", uid |-> u])

\* deleteObserved and deleteUnobserved: nothing for an object never retained.
delete(st, u, change) ==
    IF st.objects[u] = Gone THEN st
    ELSE forget(append(st, u, change, change = "deleted-unobserved",
                       record(st.objects[u])), u)

\* Mutant: a seed infers no deletion.
SeedAdditive(st, mine, listed) ==
    FoldLeft(LAMBDA s, u : observe(s, u, listed[u], TRUE, FALSE), st,
             order({u \in mine : listed[u] # Gone}))

\* Seed: deletions of what the complete listing lacks, then what it holds.
\* `mine` is the scope's share of the objects, `listed` the listing.
Seed(st, mine, listed) ==
    LET missing  == {u \in mine : listed[u] = Gone}
        emptied  == FoldLeft(LAMBDA s, u : delete(s, u, "deleted-unobserved"),
                             st, order(missing))
    IN  FoldLeft(LAMBDA s, u : observe(s, u, listed[u], TRUE, FALSE),
                 emptied, order(mine \ missing))

-----------------------------------------------------------------------------
(* Restart.                                                                 *)

\* Mutant: the limits are not enforced again by object.
primeUntrimmed(perObject, revisions, objects, seq, evicted) ==
    enforceBounds(
        [perObject |-> perObject, seq |-> seq, generation |-> seq, entries |-> revisions,
         bytes |-> FoldLeft(LAMBDA n, rev : n + revisionSize(rev), 0, revisions),
         objects |-> [u \in Uids |->
             LET of == {i \in DOMAIN revisions : revisions[i].uid = u} IN
             IF objects[u] = Gone THEN Gone
             ELSE [spec |-> objects[u].spec, status |-> objects[u].status,
                   count |-> Cardinality(of),
                   last |-> IF of = {} THEN 0
                            ELSE revisions[CHOOSE i \in of : \A j \in of : j <= i].seq]],
         evicted |-> evicted, out |-> <<>>])

\* prime, from what the Persister loaded: revisions oldest first, the objects'
\* records, the sequence, the mark.  Counts and targets are derived, then the
\* limits enforced again, once per live object.
prime(perObject, revisions, objects, seq, evicted) ==
    LET of(u)   == {i \in DOMAIN revisions : revisions[i].uid = u}
        newest(u) == revisions[CHOOSE i \in of(u) : \A j \in of(u) : j <= i].seq
        loaded  ==
            [perObject |-> perObject, seq |-> seq, generation |-> seq, entries |-> revisions,
             bytes |-> FoldLeft(LAMBDA n, rev : n + revisionSize(rev), 0, revisions),
             objects |-> [u \in Uids |->
                 IF objects[u] = Gone THEN Gone
                 ELSE [spec |-> objects[u].spec, status |-> objects[u].status,
                       count |-> Cardinality(of(u)),
                       last |-> IF of(u) = {} THEN 0 ELSE newest(u)]],
             evicted |-> evicted, out |-> <<>>]
    IN  enforceBounds(FoldLeft(enforcePerObject, loaded, order(Live(loaded))))

=============================================================================
