------------------------------ MODULE Capture ------------------------------
(***************************************************************************)
(* History capture: what the taps of internal/kube/record.go feed into the  *)
(* store of internal/history, from which lists and watches.                 *)
(*                                                                          *)
(* One scope is one seed-and-watch unit, with its own goroutines: it lists, *)
(* hands the listing over as a seed (or item by item when it is not         *)
(* complete), then its pump records every accepted event, in order, until   *)
(* contact is lost and it lists again.  The scopes read one server at their *)
(* own pace.  The store is shared, one call at a time under its lock.       *)
(* What a scope takes from the server is not always what is there: a        *)
(* listing claimed complete may leave a live object out, and an event may   *)
(* be dropped.  Two history variables follow whom that happened to.         *)
(* Left out: the pods watch also forwards deletions of the poolers' pods.   *)
(***************************************************************************)
EXTENDS Timeline

CONSTANTS
    Scopes,    \* the capture scopes
    Home,      \* Home[u]: the scope whose rule accepts object u, when it accepts it
    MaxRev,    \* bound: server revisions explored
    MaxLapses  \* bound: listings that are incomplete, objects left out, events dropped

ASSUME CaptureAssumption ==
    /\ Home \in [Uids -> Scopes]
    /\ MaxRev \in Nat /\ MaxLapses \in Nat

VARIABLES
    hist,    \* server: hist[i] is every object's content at revision i
    mode,    \* mode[sc]: "down", "listed" (an answer in hand), "partial" (handing
             \* it over by item), "up" or "loose" (watching after a seed or without)
    cursor,  \* cursor[sc]: the revision listed, then the last event recorded
    store,   \* history.Store
    missed,  \* history: the objects whose latest news their scope let go by
    leftOut, \* history: the objects some complete listing left out while they were there
    lapses   \* environment: how many of those so far

captureVars == <<hist, mode, cursor, store, missed, leftOut, lapses>>

Mine(sc) == {u \in Uids : Home[u] = sc}
Current == hist[Len(hist)]

\* The store's lock is free: no mutation is still calling the Persister.
Unlocked == store.out = <<>>

CaptureInit ==
    /\ hist \in {<<objects>> : objects \in [Uids -> {Gone, [spec |-> 0, status |-> 0]}]}
    /\ mode = [sc \in Scopes |-> "down"]
    /\ cursor = [sc \in Scopes |-> 0]
    /\ \E perObject \in PerObjects : store = NewStore(perObject)
    /\ missed = {}
    /\ leftOut = {}
    /\ lapses = 0

-----------------------------------------------------------------------------
(* The API server (external): a UID is never used twice.                    *)

Write(u, content) ==
    /\ Len(hist) < MaxRev
    /\ hist' = Append(hist, [Current EXCEPT ![u] = content])
    /\ UNCHANGED <<mode, cursor, store, missed, leftOut, lapses>>

Create(u) ==
    /\ \A i \in DOMAIN hist : hist[i][u] = Gone
    /\ Write(u, [spec |-> 0, status |-> 0])

ChangeSpec(u) == Current[u] # Gone /\ Write(u, [Current[u] EXCEPT !.spec = 1 - @])

ChangeStatus(u) == Current[u] # Gone /\ Write(u, [Current[u] EXCEPT !.status = 1 - @])

Delete(u) == Current[u] # Gone /\ Write(u, Gone)

-----------------------------------------------------------------------------
(* A scope's list.                                                          *)

Lists(sc) ==
    /\ mode[sc] = "down"
    /\ mode' = [mode EXCEPT ![sc] = "listed"]
    /\ cursor' = [cursor EXCEPT ![sc] = Len(hist)]
    /\ UNCHANGED <<hist, store, missed, leftOut, lapses>>

\* seedRecorder.commit of a complete listing.  Complete is the list call: a pooler pod
\* whose owners cannot be read, or an object whose owner or label has changed, is not
\* among the members, and nothing says so.
CommitSeed(sc) ==
    /\ mode[sc] = "listed"
    /\ Unlocked
    /\ \E out \in SUBSET {u \in Mine(sc) : hist[cursor[sc]][u] # Gone} :
        LET members == [u \in Uids |-> IF u \in out THEN Gone ELSE hist[cursor[sc]][u]] IN
        /\ store' = Seed(store, Mine(sc), members)
        /\ missed' = (missed \ Mine(sc)) \cup out
        /\ leftOut' = leftOut \cup out
        /\ lapses' = lapses + Cardinality(out)
        /\ lapses' <= MaxLapses
    /\ mode' = [mode EXCEPT ![sc] = "up"]
    /\ UNCHANGED <<hist, cursor>>

\* A truncated listing, or one with an item that failed to convert, claims nothing:
CommitPartial(sc) ==
    /\ mode[sc] = "listed"
    /\ lapses < MaxLapses
    /\ lapses' = lapses + 1
    /\ mode' = [mode EXCEPT ![sc] = "partial"]
    /\ UNCHANGED <<hist, cursor, store, missed, leftOut>>

\* the items it has are handed over one by one,
PartialItem(sc) ==
    /\ mode[sc] = "partial"
    /\ Unlocked
    /\ \E u \in Mine(sc), within \in BOOLEAN :
        /\ hist[cursor[sc]][u] # Gone
        /\ store' = observe(store, u, hist[cursor[sc]][u], FALSE, within)
    /\ UNCHANGED <<hist, mode, cursor, missed, leftOut, lapses>>

\* and the watch follows all the same.
PartialDone(sc) ==
    /\ mode[sc] = "partial"
    /\ mode' = [mode EXCEPT ![sc] = "loose"]
    /\ UNCHANGED <<hist, cursor, store, missed, leftOut, lapses>>

-----------------------------------------------------------------------------
(* A scope's watch.                                                         *)

\* The one object the next revision changes.
Changed(sc) == CHOOSE u \in Uids : hist[cursor[sc] + 1][u] # hist[cursor[sc]][u]

\* tap and recordEvent: the pump's verdict, then the record.
Record(sc) ==
    /\ mode[sc] \in {"up", "loose"}
    /\ cursor[sc] < Len(hist)
    /\ Unlocked
    /\ LET u     == Changed(sc)
           after == hist[cursor[sc] + 1]
       IN  /\ store' \in
               IF after[u] = Gone
               THEN {IF Home[u] = sc THEN delete(store, u, "deleted") ELSE store}
               ELSE {IF Home[u] = sc THEN observe(store, u, after[u], FALSE, within) ELSE store :
                         within \in BOOLEAN}
           /\ missed' = IF Home[u] = sc THEN missed \ {u} ELSE missed
    /\ cursor' = [cursor EXCEPT ![sc] = @ + 1]
    /\ UNCHANGED <<hist, mode, leftOut, lapses>>

\* The pump finds the object no member (or cannot read its owners), or recordEvent
\* fails to convert it: the event is dropped, and the watch goes on.
DropEvent(sc) ==
    /\ mode[sc] \in {"up", "loose"}
    /\ cursor[sc] < Len(hist)
    /\ Home[Changed(sc)] = sc
    /\ lapses < MaxLapses
    /\ lapses' = lapses + 1
    /\ missed' = missed \cup {Changed(sc)}
    /\ cursor' = [cursor EXCEPT ![sc] = @ + 1]
    /\ UNCHANGED <<hist, mode, store, leftOut>>

\* A list or a watch fails: the scope lists again.
Disconnect(sc) ==
    /\ mode[sc] # "down"
    /\ mode' = [mode EXCEPT ![sc] = "down"]
    /\ UNCHANGED <<hist, cursor, store, missed, leftOut, lapses>>

-----------------------------------------------------------------------------
Server == \E u \in Uids : Create(u) \/ ChangeSpec(u) \/ ChangeStatus(u) \/ Delete(u)

Tap == \E sc \in Scopes :
    \/ Lists(sc) \/ CommitSeed(sc) \/ CommitPartial(sc) \/ PartialItem(sc) \/ PartialDone(sc)
    \/ Record(sc) \/ DropEvent(sc) \/ Disconnect(sc)

CaptureSpec == CaptureInit /\ [][Server \/ Tap]_captureVars

-----------------------------------------------------------------------------
\* The types of the store, of the server's past and of the scopes.
CaptureTypeOK ==
    /\ \A i \in DOMAIN hist : hist[i] \in [Uids -> Content \cup {Gone}]
    /\ mode \in [Scopes -> {"down", "listed", "partial", "up", "loose"}]
    /\ \A sc \in Scopes : cursor[sc] \in 0..Len(hist)
    /\ \A i \in DOMAIN store.entries : store.entries[i] \in Revision
    /\ store.objects \in [Uids -> State \cup {Gone}]
    /\ store.bytes \in Int
    /\ missed \subseteq Uids /\ leftOut \subseteq Uids

\* Where the timeline speaks of an object.
Of(u) == {i \in DOMAIN store.entries : store.entries[i].uid = u}

\* The derived figures agree with the timeline they summarise: the byte total, each
\* live object's count of retained revisions, and its coalescing target, which is its
\* newest, after any mix of evictions, rewrites and deletions.  An object that was
\* left out, and so deleted and born again, starts from a count of zero beside the
\* revisions of its first life: it counts too few, never too many.
BooksBalance ==
    /\ store.bytes = FoldLeft(LAMBDA n, rev : n + revisionSize(rev), 0, store.entries)
    /\ \A u \in Live(store) :
        /\ store.objects[u].count <= Cardinality(Of(u))
        /\ u \notin leftOut => store.objects[u].count = Cardinality(Of(u))
        /\ store.objects[u].last # 0 =>
            \E i \in Of(u) : /\ store.entries[i].seq = store.objects[u].last
                             /\ \A j \in Of(u) : j <= i

\* Retention holds on all three axes whenever the lock is free; by object, for those
\* whose count is right.
BoundsHold ==
    /\ MaxRevisions > 0 => Len(store.entries) <= MaxRevisions
    /\ MaxBytes > 0 => store.bytes <= MaxBytes
    /\ store.perObject > 0 => \A u \in Uids \ leftOut : Cardinality(Of(u)) <= store.perObject

\* What the timeline says of one object is a life: nothing before its birth or
\* after its death, and nothing recorded as a change that is not one.  Only an object
\* that a listing left out may be born twice, after a death nobody saw.
LivesAreCoherent ==
    \A u \in Uids : \A i, j \in Of(u) :
        i < j /\ ~(\E k \in Of(u) : i < k /\ k < j) =>
            LET rev == store.entries[i]  next == store.entries[j] IN
            /\ rev.change \in Deletions => rev.change = "deleted-unobserved" /\ u \in leftOut
            /\ rev.change \in Deletions <=> next.change \in Births
            /\ next.change = "spec" => rev.content.spec # next.content.spec
            /\ next.change = "status" => rev.content.spec = next.content.spec

\* Without the Evicted mark the timeline is whole: every revision ever recorded is
\* retained, so its beginning is the beginning of events.
EvictedIsHonest ==
    ~store.evicted => \A n \in 1..store.seq : \E i \in DOMAIN store.entries :
                          store.entries[i].seq = n

\* A scope that has seeded since its last contact loss classifies against exactly
\* what the server held at the revision it has recorded up to, but for the objects it
\* left out, or whose last event it dropped, and has not heard of since.
KnowsTheServer ==
    \A sc \in Scopes : mode[sc] = "up" => \A u \in Mine(sc) \ missed :
        LET held == hist[cursor[sc]][u] IN
        IF store.objects[u] = Gone THEN held = Gone ELSE held = record(store.objects[u])

\* Generation counts the retained changes: a reader that saw a generation will
\* see a higher one once the timeline says something else.
GenerationTells ==
    [][store'.entries # store.entries => store'.generation > store.generation]_store

=============================================================================
