------------------------------- MODULE PodFeed -------------------------------
(***************************************************************************)
(* One feed of the console, end to end: the API server's pods, the paged    *)
(* list and the watch of internal/kube, the shared seed / follow / consume  *)
(* loop of internal/observe, the retained pod set and the published store.  *)
(*                                                                          *)
(* Concurrency.  Three processes step independently: the server (and the    *)
(* network), the pump goroutine of the watch, and the collector goroutine.  *)
(* They meet on an unbuffered channel, so at most one converted item is on  *)
(* offer.  Cancellation of the root context can land between any two steps. *)
(***************************************************************************)
EXTENDS Integers, Sequences, FiniteSets

CONSTANTS
    Names,      \* pod names, ordered
    None,       \* no pod of that name
    Changes,    \* what may happen to a pod: subset of ChangeKinds
    MaxPods,    \* observe.MaxPods
    PageSize,   \* kube.podListPageSize
    BackoffMax, \* backoffMax, in units of backoffInitial
    MaxRev,     \* bound: server revisions explored
    MaxFaults   \* bound: failed requests and broken watches explored

ChangeKinds == {"create", "modify", "adopt", "orphan", "delete"}

Pod == [uid : Nat, member : BOOLEAN, ready : BOOLEAN]

ASSUME NamesAssumption == Names \subseteq Nat /\ IsFiniteSet(Names)
ASSUME NoneAssumption == None \notin Pod
ASSUME ChangesAssumption == Changes \subseteq ChangeKinds
ASSUME BoundsAssumption ==
    /\ MaxPods \in Nat \ {0}
    /\ PageSize \in Nat \ {0}
    /\ BackoffMax \in Nat \ {0}
    /\ MaxRev \in Nat
    /\ MaxFaults \in Nat

VARIABLES
    hist,       \* server: hist[i] is the selected pods at revision i
    faults,     \* environment: failures so far
    cancelled,  \* the root context is done
    pc,         \* collector: where Run and consume are
    retained,   \* collector: keyed[PodFacts]
    backoff,    \* collector: the next retry delay
    snap,       \* PodStore: the published snapshot; none while gen = 0
    stream,     \* fanIn: "none", "open", or "closed" (channel closed)
    cursor,     \* the revision the list answered for, then the last event read
    offer,      \* the item a pump is blocked sending, or NoItem
    seen,       \* history variable: revision of the last seed or folded item
    complete    \* FetchPods's own variable: the last seed read every page

serverVars == <<hist, faults, cancelled>>
vars == <<hist, faults, cancelled, pc, retained, backoff, snap,
          stream, cursor, offer, seen, complete>>

NoItem == [kind |-> "none"]
Item == [kind : {"put", "delete"}, name : Names, pod : Pod]

View == INSTANCE PodView WITH at <- seen, shown <- snap.pods,
            fresh <- snap.gen > 0 /\ ~snap.stale, exact <- complete

Members(pods) == View!Members(pods)
Held(pods) == View!Held(pods)
Empty == [n \in Names |-> None]
Current == hist[Len(hist)]
Lower(a, b) == IF a < b THEN a ELSE b

-----------------------------------------------------------------------------
(* kube: the paged list, and the conversion of one watch event.             *)

\* The items of the first k pages: a list is ordered by name, non-members count.
FirstPages(pods, k) ==
    {n \in Held(pods) : Cardinality({m \in Held(pods) : m <= n}) <= k * PageSize}

\* FetchPods reads no further page once the list has ended or holds too many.
StopsAfter(pods, k) ==
    LET read == FirstPages(pods, k)
    IN  \/ read = Held(pods)
        \/ Cardinality({n \in read : pods[n].member}) > MaxPods

Fetched(pods) ==
    FirstPages(pods, CHOOSE k \in 1..(Cardinality(Names) + 1) :
        /\ StopsAfter(pods, k)
        /\ \A j \in 1..(k - 1) : ~StopsAfter(pods, j))

FetchPods(pods) ==
    LET read == Fetched(pods) IN
    [pods     |-> [n \in Names |-> IF n \in read THEN Members(pods)[n] ELSE None],
     complete |-> read = Held(pods)]

\* The name an event is about: two successive revisions differ there only.
Changed(before, after) == CHOOSE n \in Names : after[n] # before[n]

\* Mutant: nothing checks the owner of a pod that is still there.
PumpPodUnverified(before, after) ==
    LET n == Changed(before, after) IN
    IF after[n] = None
    THEN [kind |-> "delete", name |-> n, pod |-> before[n]]
    ELSE [kind |-> "put", name |-> n, pod |-> after[n]]

\* Mutant: the owner is checked before the event's type, so deletions are filtered too.
PumpPodFiltered(before, after) ==
    LET n == Changed(before, after) IN
    IF after[n] = None /\ before[n].member
    THEN [kind |-> "delete", name |-> n, pod |-> before[n]]
    ELSE IF after[n] # None /\ after[n].member
    THEN [kind |-> "put", name |-> n, pod |-> after[n]]
    ELSE NoItem

\* A deletion is always forwarded, anything else only for a verified member.
PumpPod(before, after) ==
    LET n == Changed(before, after) IN
    IF after[n] = None
    THEN [kind |-> "delete", name |-> n, pod |-> before[n]]
    ELSE IF after[n].member
    THEN [kind |-> "put", name |-> n, pod |-> after[n]]
    ELSE NoItem

-----------------------------------------------------------------------------
(* observe: the fold, the store and the loop's shared steps.                *)

\* PodCollector.apply: a put upserts, a delete removes the same incarnation.
Apply(kept, item) ==
    IF item.kind = "put"
    THEN [kept EXCEPT ![item.name] = item.pod]
    ELSE IF kept[item.name] # None /\ kept[item.name].uid = item.pod.uid
    THEN [kept EXCEPT ![item.name] = None]
    ELSE kept

\* Mutant: the flag is computed after the cut.
PublishFlagsLate(kept) ==
    /\ snap' = [gen       |-> snap.gen + 1,
                stale     |-> FALSE,
                truncated |-> Cardinality(Held(View!Cut(kept))) > MaxPods,
                pods      |-> View!Cut(kept)]
    /\ backoff' = 1

\* loop.published and PodStore.publish.
Publish(kept) ==
    /\ snap' = [gen       |-> snap.gen + 1,
                stale     |-> FALSE,
                truncated |-> Cardinality(Held(kept)) > MaxPods,
                pods      |-> View!Cut(kept)]
    /\ backoff' = 1

\* PodStore.markStale: without a snapshot there is nothing to mark.
MarkStale == snap' = [snap EXCEPT !.stale = snap.gen > 0]

\* Mutant: the store is not told.
LoseContactSilently ==
    /\ UNCHANGED snap
    /\ backoff' = Lower(2 * backoff, BackoffMax)
    /\ pc' = "wait"

\* loseContact, then the entry of wait: the delay is taken, the next one doubled.
LoseContact ==
    /\ MarkStale
    /\ backoff' = Lower(2 * backoff, BackoffMax)
    /\ pc' = "wait"

\* The deferred stop of consume: the stream's context ends, its pump lets go.
Stop == stream' = "none" /\ offer' = NoItem

Fault == faults < MaxFaults /\ faults' = faults + 1

\* A request fails: a fault of the environment, or the context it was made under.
RequestFails ==
    /\ \/ Fault
       \/ cancelled /\ UNCHANGED faults
    /\ UNCHANGED <<hist, cancelled>>

-----------------------------------------------------------------------------
\* A pod that appears at a revision, owned by the Cluster or only labelled like it.
NewPod(rev, owned) == [uid |-> rev, member |-> owned, ready |-> FALSE]

Init ==
    /\ hist \in {<<pods>> : pods \in
           [Names -> {None} \cup {NewPod(1, owned) : owned \in BOOLEAN}]}
    /\ faults = 0
    /\ cancelled = FALSE
    /\ pc = "seed"
    /\ retained = Empty
    /\ backoff = 1
    /\ snap = [gen |-> 0, stale |-> FALSE, truncated |-> FALSE, pods |-> Empty]
    /\ stream = "none"
    /\ cursor = 0
    /\ offer = NoItem
    /\ seen = 0
    /\ complete = TRUE

-----------------------------------------------------------------------------
(* The API server and the operator (external to the program).               *)

Write(kind, n, pod) ==
    /\ kind \in Changes
    /\ Len(hist) < MaxRev
    /\ hist' = Append(hist, [Current EXCEPT ![n] = pod])
    /\ UNCHANGED <<faults, cancelled, pc, retained, backoff, snap,
                   stream, cursor, offer, seen, complete>>

Create(n) ==
    /\ Current[n] = None
    /\ \E owned \in BOOLEAN : Write("create", n, NewPod(Len(hist) + 1, owned))

Modify(n) ==
    /\ Current[n] # None
    /\ Write("modify", n, [Current[n] EXCEPT !.ready = ~@])

\* The controller owner reference is set, or removed (a cascade=orphan delete).
Adopt(n) ==
    /\ Current[n] # None
    /\ ~Current[n].member
    /\ Write("adopt", n, [Current[n] EXCEPT !.member = TRUE])

Orphan(n) ==
    /\ Current[n] # None
    /\ Current[n].member
    /\ Write("orphan", n, [Current[n] EXCEPT !.member = FALSE])

Delete(n) == Current[n] # None /\ Write("delete", n, None)

\* The process is told to stop: the root context is cancelled.
Cancel ==
    /\ ~cancelled
    /\ cancelled' = TRUE
    /\ UNCHANGED <<hist, faults, pc, retained, backoff, snap,
                   stream, cursor, offer, seen, complete>>

-----------------------------------------------------------------------------
(* The pump goroutine of fanIn.                                             *)

\* Read the next event; a converted item is then on offer until it is taken.
PumpRead ==
    /\ stream = "open"
    /\ offer = NoItem
    /\ cursor < Len(hist)
    /\ cursor' = cursor + 1
    /\ offer' = PumpPod(hist[cursor], hist[cursor + 1])
    /\ UNCHANGED <<serverVars, pc, retained, backoff, snap, stream, seen, complete>>

\* The watch ends: the server closes it, an error event, an undecodable object.
WatchEnd ==
    /\ stream = "open"
    /\ offer = NoItem
    /\ RequestFails
    /\ stream' = "closed"
    /\ UNCHANGED <<pc, retained, backoff, snap, cursor, offer, seen, complete>>

\* The send is guarded by the stream's context, which the root context ends.
PumpCancelled ==
    /\ stream = "open"
    /\ offer # NoItem
    /\ cancelled
    /\ stream' = "closed"
    /\ offer' = NoItem
    /\ UNCHANGED <<serverVars, pc, retained, backoff, snap, cursor, seen, complete>>

-----------------------------------------------------------------------------
(* The collector goroutine: loop.Run and consume.                           *)

\* Run asks for the list; a paged list is one consistent revision.
SeedAsk ==
    /\ pc = "seed"
    /\ ~cancelled
    /\ pc' = "listing"
    /\ cursor' = Len(hist)
    /\ UNCHANGED <<serverVars, retained, backoff, snap, stream, offer, seen, complete>>

\* The answer arrives: seed replaces the retained set, the loop publishes it.
SeedOK ==
    /\ pc = "listing"
    /\ LET list == FetchPods(hist[cursor]) IN
           /\ retained' = list.pods
           /\ complete' = list.complete
           /\ Publish(list.pods)
    /\ seen' = cursor
    /\ pc' = "seeded"
    /\ UNCHANGED <<serverVars, stream, cursor, offer>>

SeedFail ==
    /\ pc = "listing"
    /\ RequestFails
    /\ LoseContact
    /\ UNCHANGED <<retained, stream, cursor, offer, seen, complete>>

\* Mutant: the watch starts from now.
WatchOKFromNow ==
    /\ pc = "seeded"
    /\ pc' = "poll"
    /\ stream' = "open"
    /\ cursor' = Len(hist)
    /\ UNCHANGED <<serverVars, retained, backoff, snap, offer, seen, complete>>

\* follow: the watch starts after the revision the list answered for.
WatchOK ==
    /\ pc = "seeded"
    /\ pc' = "poll"
    /\ stream' = "open"
    /\ UNCHANGED <<serverVars, retained, backoff, snap, cursor, offer, seen, complete>>

WatchFail ==
    /\ pc = "seeded"
    /\ RequestFails
    /\ LoseContact
    /\ UNCHANGED <<retained, stream, cursor, offer, seen, complete>>

\* Either select of consume receives an item: fold it, publish, poll again.
Take ==
    /\ pc \in {"poll", "select"}
    /\ offer # NoItem
    /\ retained' = Apply(retained, offer)
    /\ Publish(Apply(retained, offer))
    /\ seen' = cursor
    /\ offer' = NoItem
    /\ pc' = "poll"
    /\ UNCHANGED <<serverVars, stream, cursor, complete>>

\* The first select finds nothing on offer and falls through to the second.
PollEmpty ==
    /\ pc = "poll"
    /\ stream = "open"
    /\ offer = NoItem
    /\ pc' = "select"
    /\ UNCHANGED <<serverVars, retained, backoff, snap, stream, cursor, offer, seen, complete>>

\* Mutant: a closed channel is not told from an empty one.
ConsumeEndsDeaf ==
    /\ pc = "select"
    /\ cancelled
    /\ pc' = "ended"
    /\ Stop
    /\ UNCHANGED <<serverVars, retained, backoff, snap, cursor, seen, complete>>

\* consume returns: the channel is closed or, in the second select, ctx is done.
ConsumeEnds ==
    /\ \/ pc \in {"poll", "select"} /\ stream = "closed"
       \/ pc = "select" /\ cancelled
    /\ pc' = "ended"
    /\ Stop
    /\ UNCHANGED <<serverVars, retained, backoff, snap, cursor, seen, complete>>

\* The watch ended without cancellation: contact is lost until the next seed.
WatchLost ==
    /\ pc = "ended"
    /\ ~cancelled
    /\ LoseContact
    /\ UNCHANGED <<serverVars, retained, stream, cursor, offer, seen, complete>>

\* The backoff elapses.
Waited ==
    /\ pc = "wait"
    /\ pc' = "seed"
    /\ UNCHANGED <<serverVars, retained, backoff, snap, stream, cursor, offer, seen, complete>>

\* Run returns: at its top, after consume, or out of an interrupted wait.
Exit ==
    /\ pc \in {"seed", "ended", "wait"}
    /\ cancelled
    /\ pc' = "done"
    /\ UNCHANGED <<serverVars, retained, backoff, snap, stream, cursor, offer, seen, complete>>

-----------------------------------------------------------------------------
Server == \E n \in Names : Create(n) \/ Modify(n) \/ Adopt(n) \/ Orphan(n) \/ Delete(n)

Pump == PumpRead \/ WatchEnd \/ PumpCancelled

Collector ==
    \/ SeedAsk \/ SeedOK \/ SeedFail \/ WatchOK \/ WatchFail
    \/ Take \/ PollEmpty \/ ConsumeEnds \/ WatchLost \/ Waited \/ Exit

Next == Server \/ Cancel \/ Pump \/ Collector

Spec == Init /\ [][Next]_vars

\* Goroutines are scheduled, requests carry a timeout and answer one way or the
\* other, and Wait returns.  Nothing is assumed of the server or of the failures.
Fairness == WF_vars(PumpRead) /\ WF_vars(Collector)

FairSpec == Spec /\ Fairness

-----------------------------------------------------------------------------
Roster == [Names -> Pod \cup {None}]

\* Types of every variable, for the proofs and the runs.
TypeOK ==
    /\ hist \in Seq(Roster) /\ hist # <<>>
    /\ faults \in Nat
    /\ cancelled \in BOOLEAN
    /\ pc \in {"seed", "listing", "seeded", "poll", "select", "ended", "wait", "done"}
    /\ retained \in Roster
    /\ backoff \in 1..BackoffMax
    /\ snap \in [gen : Nat, stale : BOOLEAN, truncated : BOOLEAN, pods : Roster]
    /\ stream \in {"none", "open", "closed"}
    /\ cursor \in 0..Len(hist)
    /\ offer \in Item \cup {NoItem}
    /\ seen \in 0..Len(hist)
    /\ complete \in BOOLEAN

\* However items, failures and re-seeds interleave, the roster a reader gets is
\* the member set the server had at ONE revision, cut at MaxPods: loop.go never
\* publishes half of a seed, or an item folded on top of the wrong seed.
ShownIsOneMoment ==
    snap.gen > 0 /\ complete => snap.pods = View!Cut(Members(hist[seen]))

\* A complete listing's roster that is not flagged Truncated leaves no member out.
CutIsFlagged ==
    snap.gen > 0 /\ complete /\ ~snap.truncated => snap.pods = Members(hist[seen])

\* While the loop is retrying, and until the next seed has been published, a
\* reader is never shown the last good roster as if it were current (markStale).
StaleWhenOutOfContact ==
    pc \in {"wait", "seed", "listing"} => snap.gen = 0 \/ snap.stale

\* A pod the server had already deleted at the revision shown is never in the
\* roster, nor is a later pod of the same name taken for it: not even one whose
\* owner was removed while it was retained, or one a cut listing skipped (pumpPod
\* forwards every deletion "so a formerly excluded name can never linger").
NoGhostPod ==
    \A n \in Held(snap.pods) :
        hist[seen][n] # None /\ hist[seen][n].uid = snap.pods[n].uid

\* The store implements the view PodView promises: one moment, never an earlier
\* one, contact reported honestly.
ImplementsView == View!ViewSpec

\* Once failures stop, and unless the process is told to stop, the reader ends up
\* with a fresh roster of what the server now holds.
Converged ==
    /\ snap.gen > 0
    /\ ~snap.stale
    /\ complete => snap.pods = View!Cut(Members(Current))
Converges == <>[](cancelled \/ Converged)

=============================================================================
