---------------------------- MODULE ResourceFeed ----------------------------
(***************************************************************************)
(* The other feeds of internal/observe and their adapters in internal/kube: *)
(* the same loop as PodFeed, with what varies from one to the next in a     *)
(* profile.  A feed lists its kinds one after the other, retains each kind  *)
(* by its own policy, and follows them all on one channel (fanIn): a pump   *)
(* goroutine a watch, every one of them stopped when the first returns.     *)
(* Lists and watches are of a namespace, so an adapter keeps what is a      *)
(* member of the cluster: an object may leave the cluster without leaving   *)
(* the namespace.                                                           *)
(*                                                                          *)
(* The backoff and cancellation, which no profile changes, are in PodFeed.  *)
(***************************************************************************)
EXTENDS Feeds, Retention, FiniteSetsExt, Functions

CONSTANTS
    Profiles,    \* the feeds explored
    Starting,    \* bound: the names a kind may start with
    Names,       \* object names, ordered
    MaxEvents    \* bound: changes and failures explored, and kinds they are spread over

ASSUME NamesAssumption == Names \subseteq Nat /\ IsFiniteSet(Names) /\ Names # {}
ASSUME BoundsAssumption == MaxEvents \in Nat /\ Starting \subseteq SUBSET Names

\* What a full kind drops first is what its page shows last; only the queue of
\* access requests is kept by one rule and shown by another.
RetainedAsShown(policy, order) ==
    \/ policy = "never"
    \/ policy = "lastName" /\ order = "name"
    \/ policy = "oldest" /\ order \in {"recency", "queue"}

\* Every feed follows finitely many kinds, and retains more of each than it shows;
\* permission to read a pinned object is required.
ASSUME ProfilesAssumption ==
    \A p \in Profiles :
        /\ IsFiniteSet(Range(p.source.kinds))
        /\ p.source.pinned => p.source.optional = {} /\ p.source.member = "any"
        /\ p.keep.slack \in Nat \ {0}
        /\ \A k \in Range(p.source.kinds) :
               RetainedAsShown(p.keep.policy[k], p.keep.order[k])

-----------------------------------------------------------------------------
VARIABLES
    profile,    \* the feed this behaviour is about
    hist,       \* server: hist[k] is the sequence of sets of objects of kind k
    refused,    \* server: kinds the console may not read
    faults,     \* environment: failures so far, of the ownership walk too
    phase,      \* the collector goroutine: where Run is
    fetched,    \* the listings of the fetch under way, one record a kind
    kept,       \* the collector: the retained set of each kind
    flag,       \* the collector: the sticky truncation flag of each kind
    read,       \* history variable: how much of hist[k] has been folded into kept[k]
    snap,       \* the store
    since,      \* history variable: the revision of each kind that was last seeded
    missed,     \* history variable: members the last seeds left out, by key
    up,         \* kinds whose pump goroutine is running
    cursor,     \* what each watch has delivered to its pump
    offer,      \* what each pump is blocked sending
    proven,     \* the watch's cache of the ownership walk: members, by key
    failed,     \* ... and those whose walk could not be read
    ended       \* the stream's context is cancelled

serverVars == <<hist, refused, faults>>
loopVars == <<phase, fetched, kept, flag, read, snap, since, missed>>
streamVars == <<up, cursor, offer, proven, failed, ended>>
vars == <<profile, serverVars, loopVars, streamVars>>

Kinds == Range(profile.source.kinds)
NoItem == [do |-> "none"]
Live(k) == hist[k][Len(hist[k])]
Mine(objects) == {x \in objects : x.mine}
Key(k, x) == <<k, x.name, x.uid>>

\* Instants are whole seconds, so two events may share one.
Instant(event) == 1 + event \div 2

\* An object as it is created.
Born(n, event) == [name |-> n, uid |-> event, at |-> Instant(event), open |-> TRUE,
                   mine |-> TRUE]

\* What was there first, some of it of one age.
Elder(n) == [name |-> n, uid |-> 0, at |-> n \div 2, open |-> TRUE, mine |-> TRUE]

NamesOf(k) == IF profile.source.pinned THEN {Min(Names)} ELSE Names

\* Mutant: no room for the entry that tells of truncation.
LimitOfThePage(k) == IF profile.keep.policy[k] = "never" THEN 0 ELSE MaxShown

\* The limit of retention: none for the profiles that never evict.
LimitOf(k) == IF profile.keep.policy[k] = "never" THEN 0 ELSE MaxShown + profile.keep.slack

Init ==
    /\ profile \in Profiles
    /\ \E present \in [Kinds -> Starting] :
           hist = [k \in Kinds |-> <<{Elder(n) : n \in present[k] \cap NamesOf(k)}>>]
    /\ refused = {}
    /\ faults = 0
    /\ phase = "fetch"
    /\ fetched = <<>>
    /\ kept = [k \in Kinds |-> {}]
    /\ flag = [k \in Kinds |-> FALSE]
    /\ read = [k \in Kinds |-> 1]
    /\ snap = [gen |-> 0, stale |-> FALSE, shown |-> [k \in Kinds |-> {}],
               flagged |-> {}, unobserved |-> {}]
    /\ since = [k \in Kinds |-> 1]
    /\ missed = {}
    /\ up = {}
    /\ cursor = [k \in Kinds |-> 1]
    /\ offer = [k \in Kinds |-> NoItem]
    /\ proven = {}
    /\ failed = {}
    /\ ended = FALSE

-----------------------------------------------------------------------------
(* The API server (external).                                               *)

Happened == FoldFunction(LAMBDA s, n : Len(s) - 1 + n, 0, hist)

\* One more change or failure is explored: of a feed of many kinds, fewer.
Explored == Happened + faults + Cardinality(Kinds) < MaxEvents

Record(k, members) ==
    /\ Explored
    /\ hist' = [hist EXCEPT ![k] = Append(@, members)]
    /\ UNCHANGED <<profile, refused, faults, loopVars, streamVars>>

Create(k, n) ==
    /\ Named(Live(k), n) = {}
    /\ Record(k, Live(k) \cup {Born(n, Happened + 1)})

\* A status changes: a request is decided, a backup completes, an event counts on.
Update(k, n) ==
    \E x \in Named(Live(k), n) :
        /\ x.open
        /\ Record(k, (Live(k) \ {x}) \cup {[x EXCEPT !.open = FALSE,
                  !.at = IF profile.keep.renews THEN Instant(Happened + 1) ELSE @]})

Delete(k, n) ==
    /\ Named(Live(k), n) # {}
    /\ Record(k, Live(k) \ Named(Live(k), n))

\* An object is given to another cluster, or back: the cluster it names or the owner
\* it has is changed.
Transfer(k, n) ==
    /\ profile.source.member = "declared"
    /\ \E x \in Named(Live(k), n) :
           Record(k, (Live(k) \ {x}) \cup {[x EXCEPT !.mine = ~x.mine]})

Fault == Explored /\ faults' = faults + 1

\* An operator changes the console's role; a watch already open lives on.
Regrant(k) ==
    /\ Fault
    /\ refused' = IF k \in refused THEN refused \ {k} ELSE refused \cup {k}
    /\ UNCHANGED <<profile, hist, loopVars, streamVars>>

-----------------------------------------------------------------------------
(* kube: the fetch.  Every kind is listed, or the whole fetch fails.        *)

Listed == DOMAIN fetched
NextKind == profile.source.kinds[Cardinality(Listed) + 1]
Fetching == phase = "fetch" /\ Listed # Kinds

\* The members a listing is read for: the page's bound, or all that events retain.
Enough(k) == IF profile.keep.renews THEN LimitOf(k) ELSE MaxShown

\* What a listing retains of the members: all of them, or those on the pages read until
\* enough were found, or until too many objects were examined, and others were to come.
Listings(k, members) ==
    {[items |-> members, cut |-> ~profile.source.whole /\ Cardinality(members) > MaxShown]} \cup
    {[items |-> part, cut |-> TRUE] : part \in
        {p \in SUBSET members :
            /\ ~profile.source.whole
            /\ \/ Cardinality(p) > Enough(k) /\ p # members
               \/ profile.source.member = "declared"
            /\ \A x \in p, y \in members \ p : x.name < y.name}}

FetchedKind(k, listing) ==
    /\ fetched' = [j \in Listed \cup {k} |->
           IF j = k
           THEN [items |-> listing.items, cut |-> listing.cut, observed |-> listing.observed,
                 missed |-> listing.missed, at |-> Len(hist[k])]
           ELSE fetched[j]]
    /\ UNCHANGED <<profile, hist, refused, phase, kept, flag, read, snap, since, missed, streamVars>>

ListKind ==
    /\ Fetching
    /\ NextKind \notin refused
    /\ \E l \in Listings(NextKind, Mine(Live(NextKind))) :
           FetchedKind(NextKind, [items |-> l.items, cut |-> l.cut, observed |-> TRUE, missed |-> {}])
    /\ UNCHANGED faults

\* poolerPodIsMember: a pod whose owners cannot be read is left out like a stranger.
ListUnproven ==
    /\ Fetching
    /\ NextKind \notin refused
    /\ profile.source.member = "proven"
    /\ Fault
    /\ \E out \in (SUBSET Live(NextKind)) \ {{}} :
           FetchedKind(NextKind, [items |-> Live(NextKind) \ out, cut |-> FALSE, observed |-> TRUE,
                                  missed |-> {Key(NextKind, x) : x \in out}])

\* "Not granted" and "none exist" are different claims.
ListRefused ==
    /\ Fetching
    /\ NextKind \in refused \cap profile.source.optional
    /\ FetchedKind(NextKind, [items |-> {}, cut |-> FALSE, observed |-> FALSE, missed |-> {}])
    /\ UNCHANGED faults

LoseContact ==
    /\ snap' = [snap EXCEPT !.stale = snap.gen > 0]
    /\ phase' = "wait"
    /\ fetched' = <<>>
    /\ UNCHANGED <<profile, hist, refused, kept, flag, read, since, missed>>

FetchFails ==
    /\ Fetching
    /\ \/ NextKind \in refused \ profile.source.optional /\ UNCHANGED faults
       \/ Fault
    /\ LoseContact
    /\ UNCHANGED streamVars

-----------------------------------------------------------------------------
(* observe: seed, publish, apply.                                           *)

\* Mutant: the flag is what this publication cut, not what was ever lost.
AdmittedForgetfully(k, retained, sticky) == Cardinality(retained[k]) > MaxShown

\* A kind's own word on truncation, before sharing.
Admitted(k, retained, sticky) == sticky[k] \/ Cardinality(retained[k]) > MaxShown

Publish(retained, sticky, observed) ==
    LET cut == {k \in Kinds : Admitted(k, retained, sticky)}
    IN  snap' = [gen        |-> snap.gen + 1,
                 stale      |-> FALSE,
                 shown      |-> [k \in Kinds |->
                     Bounded(retained[k], profile.keep.order[k], MaxShown)],
                 flagged    |-> IF profile.keep.shared /\ cut # {} THEN Kinds ELSE cut,
                 unobserved |-> Kinds \ observed]

\* The retained sets the items of a listing may leave, put one by one in name order.
PutAll(items, k) ==
    MapThenFoldSet(
        LAMBDA last, outcomes :
            UNION {Put(r, last, profile.keep.policy[k], LimitOf(k)) : r \in outcomes},
        {{}},
        LAMBDA x : x,
        LAMBDA part : CHOOSE x \in part : \A y \in part : y.name <= x.name,
        items)

\* collector.seed and published: the fetch replaces everything at once.
Seed ==
    /\ phase = "fetch"
    /\ Listed = Kinds
    /\ \E retained \in [Kinds -> UNION {PutAll(fetched[k].items, k) : k \in Kinds}] :
        /\ \A k \in Kinds : retained[k] \in PutAll(fetched[k].items, k)
        /\ kept' = retained
        /\ flag' = [k \in Kinds |-> fetched[k].cut \/ retained[k] # fetched[k].items]
        /\ Publish(retained, flag', {k \in Kinds : fetched[k].observed})
    /\ read' = [k \in Kinds |-> fetched[k].at]
    /\ since' = read'
    /\ missed' = UNION {fetched[k].missed : k \in Kinds}
    /\ phase' = "open"
    /\ UNCHANGED <<profile, serverVars, fetched, streamVars>>

Observed == {k \in Kinds : fetched[k].observed}

\* Mutant: the watches start at the present.
OpenWatchesFromNow ==
    /\ phase = "open"
    /\ Observed \cap refused = {}
    /\ phase' = "consume"
    /\ up' = Observed
    /\ cursor' = [k \in Kinds |-> Len(hist[k])]
    /\ offer' = [k \in Kinds |-> NoItem]
    /\ proven' = {}
    /\ failed' = {}
    /\ ended' = FALSE
    /\ UNCHANGED <<profile, serverVars, fetched, kept, flag, read, snap, since, missed>>

\* One watch for each kind the seed observed, all of them or none. A pinned
\* object is watched from the current state: it is delivered once as it is.
OpenWatches ==
    /\ phase = "open"
    /\ Observed \cap refused = {}
    /\ phase' = "consume"
    /\ up' = Observed
    /\ cursor' = [k \in Kinds |-> IF profile.source.pinned THEN Len(hist[k]) ELSE fetched[k].at]
    /\ offer' = [k \in Kinds |->
           IF profile.source.pinned /\ Live(k) # {}
           THEN [do |-> "put", item |-> CHOOSE x \in Live(k) : TRUE]
           ELSE NoItem]
    /\ proven' = {}
    /\ failed' = {}
    /\ ended' = FALSE
    /\ UNCHANGED <<profile, serverVars, fetched, kept, flag, read, snap, since, missed>>

OpenFails ==
    /\ phase = "open"
    /\ \/ Observed \cap refused # {} /\ UNCHANGED faults
       \/ Fault
    /\ LoseContact
    /\ UNCHANGED streamVars

-----------------------------------------------------------------------------
(* kube/stream.go: the pumps.                                               *)

EventAfter(k, i) ==
    LET gone == hist[k][i] \ hist[k][i + 1]
        come == hist[k][i + 1] \ hist[k][i]
    IN  IF come # {}
        THEN [do |-> "put", item |-> CHOOSE x \in come : TRUE]
        ELSE [do |-> "delete", item |-> CHOOSE x \in gone : TRUE]

Reads(k) == k \in up /\ offer[k] = NoItem /\ cursor[k] < Len(hist[k])

\* The pooler pods' walk is of a put; their deletions are forwarded unwalked, in effect.
Walked(event) == profile.source.member = "proven" /\ event.do = "put"

\* The event of a member is converted and offered.
PumpTakes(k) ==
    /\ Reads(k)
    /\ \E event \in {EventAfter(k, cursor[k])} :
        /\ profile.source.member = "declared" => event.item.mine
        /\ IF Walked(event)
           THEN Key(k, event.item) \notin failed /\ proven' = proven \cup {Key(k, event.item)}
           ELSE UNCHANGED proven
        /\ offer' = [offer EXCEPT ![k] = event]
    /\ cursor' = [cursor EXCEPT ![k] = @ + 1]
    /\ UNCHANGED <<profile, serverVars, loopVars, up, failed, ended>>

\* The event of an object that is no member, a deletion included, is skipped; so is a
\* put whose owners cannot be read, for as long as the watch lives: an owner that could
\* not be read once is not read again, for this pod or another of its replica set.
PumpSkips(k) ==
    /\ Reads(k)
    /\ \E event \in {EventAfter(k, cursor[k])} :
        \/ /\ profile.source.member = "declared" /\ ~event.item.mine
           /\ UNCHANGED <<faults, failed>>
        \/ /\ Walked(event) /\ Key(k, event.item) \notin proven
           /\ IF failed = {} THEN Fault ELSE UNCHANGED faults
           /\ failed' = failed \cup {Key(k, event.item)}
    /\ cursor' = [cursor EXCEPT ![k] = @ + 1]
    /\ read' = [read EXCEPT ![k] = cursor'[k]]
    /\ UNCHANGED <<profile, hist, refused, phase, fetched, kept, flag, snap, since, missed,
                   up, offer, proven, ended>>

\* Mutant: a stream goes on until its last pump returns.
ReturnsAlone(k) == up' = up \ {k} /\ UNCHANGED ended

\* The deferred stop: any pump returning tears the merged stream down.
Returns(k) == up' = up \ {k} /\ ended' = TRUE

\* The watch is closed by the server, or was stopped, or said something undecodable.
PumpEnds(k) ==
    /\ k \in up
    /\ offer[k] = NoItem
    /\ \/ ended /\ UNCHANGED faults
       \/ ~ended /\ Fault
    /\ Returns(k)
    /\ UNCHANGED <<profile, hist, refused, loopVars, cursor, offer, proven, failed>>

\* The send is guarded by the stream's context.
PumpLetsGo(k) ==
    /\ k \in up
    /\ offer[k] # NoItem
    /\ ended
    /\ Returns(k)
    /\ offer' = [offer EXCEPT ![k] = NoItem]
    /\ UNCHANGED <<profile, serverVars, loopVars, cursor, proven, failed>>

-----------------------------------------------------------------------------
(* observe/loop.go: consume.                                                *)

\* collector.apply: a pinned object is replaced whole, whatever it was before.
Applied(k, item) ==
    IF profile.source.pinned THEN {IF item.do = "put" THEN {item.item} ELSE {}}
    ELSE IF item.do = "put" THEN Put(kept[k], item.item, profile.keep.policy[k], LimitOf(k))
    ELSE {Remove(kept[k], item.item)}

Evicted(k, item, retained) ==
    ~profile.source.pinned /\ item.do = "put" /\ Cardinality(kept[k] \ retained) > Cardinality(Named(kept[k], item.item.name))

Consume(k) ==
    /\ phase = "consume"
    /\ offer[k] # NoItem
    /\ \E retained \in Applied(k, offer[k]) :
        /\ kept' = [kept EXCEPT ![k] = retained]
        /\ flag' = [flag EXCEPT ![k] = @ \/ Evicted(k, offer[k], retained)]
        /\ Publish(kept', flag', Kinds \ snap.unobserved)
    /\ read' = [read EXCEPT ![k] = cursor[k]]
    /\ offer' = [offer EXCEPT ![k] = NoItem]
    /\ UNCHANGED <<profile, serverVars, phase, fetched, since, missed, up, cursor, proven, failed, ended>>

\* The channel closes when every pump has returned.
StreamCloses ==
    /\ phase = "consume"
    /\ up = {}
    /\ LoseContact
    /\ UNCHANGED <<faults, streamVars>>

WaitEnds ==
    /\ phase = "wait"
    /\ phase' = "fetch"
    /\ UNCHANGED <<profile, serverVars, fetched, kept, flag, read, snap, since, missed, streamVars>>

-----------------------------------------------------------------------------
Server == \E k \in Kinds :
    \/ \E n \in NamesOf(k) : Create(k, n) \/ Update(k, n) \/ Delete(k, n) \/ Transfer(k, n)
    \/ Regrant(k)
Pump(k) == PumpTakes(k) \/ PumpSkips(k) \/ PumpEnds(k) \/ PumpLetsGo(k)
Collector ==
    \/ ListKind \/ ListUnproven \/ ListRefused \/ FetchFails \/ Seed \/ OpenWatches \/ OpenFails
    \/ (\E k \in Kinds : Consume(k)) \/ StreamCloses \/ WaitEnds

Next == Server \/ Collector \/ \E k \in Kinds : Pump(k)

Spec == Init /\ [][Next]_vars

AllKinds == UNION {Range(p.source.kinds) : p \in Profiles}

\* The two kinds of goroutines run; nothing is asked of the server.
FairSpec ==
    /\ Spec
    /\ WF_vars(Collector)
    /\ \A k \in AllKinds :
           WF_vars(PumpTakes(k) \/ PumpSkips(k) \/ PumpLetsGo(k) \/ (ended /\ PumpEnds(k)))

-----------------------------------------------------------------------------
\* Everything has its type; a pump that is down offers nothing.
TypeOK ==
    /\ phase \in {"fetch", "open", "consume", "wait"}
    /\ refused \subseteq Kinds /\ up \subseteq Kinds
    /\ snap.flagged \subseteq Kinds /\ snap.unobserved \subseteq profile.source.optional
    /\ \A k \in Kinds :
        /\ flag[k] \in BOOLEAN
        /\ read[k] \in 1..Len(hist[k]) /\ cursor[k] \in 1..Len(hist[k])
        /\ k \notin up => offer[k] = NoItem

\* The owners of a pooler pod could not be read, by the last listing or since.
Unproven(k, x) == Key(k, x) \in missed \cup failed

\* An object left the cluster, and not the namespace, after the last listing.
Strayed(k, x, i) ==
    \E j \in since[k]..i - 1 :
        /\ x \in Mine(hist[k][j])
        /\ \E y \in hist[k][j + 1] : Key(k, y) = Key(k, x) /\ ~y.mine

\* A page tells a revision of a kind: every member as it was, and beside them only what
\* left the cluster while watched (as the last event before told it), and but for the
\* pooler pods whose owners could not be read.
Tells(k, page, i) ==
    /\ \A x \in Mine(hist[k][i]) \ page : Unproven(k, x)
    /\ \A x \in page \ Mine(hist[k][i]) : Unproven(k, x) \/ Strayed(k, x, i)

\* A kind that is shown as observed and not truncated tells, object for object, what the
\* server held when the last list page or watch event folded into it was current:
\* no interleaving of several watches, and no eviction, removes anything silently.
UnflaggedIsComplete ==
    snap.gen > 0 /\ profile.keep.admits =>
        \A k \in Kinds \ (snap.flagged \cup snap.unobserved) :
            Tells(k, snap.shown[k], read[k])

\* A feed with nothing left to deliver tells the server's present state. The exceptions
\* are a pooler pod whose owners could not be read, an object that left the cluster, for
\* its events, its deletion among them, are skipped from then on, and the blind spot
\* kube/cluster.go admits: a pinned object deleted between its get and the start of its
\* watch is still shown as the get saw it.
BlindSpotsAreKnown ==
    \A k \in up :
        (phase = "consume" /\ offer[k] = NoItem /\ cursor[k] = Len(hist[k])
            /\ profile.keep.admits /\ k \notin snap.flagged) =>
        \/ Tells(k, snap.shown[k], Len(hist[k]))
        \/ /\ profile.source.pinned
           /\ Live(k) = {}
           /\ read[k] = fetched[k].at
           /\ snap.shown[k] = hist[k][fetched[k].at]

\* What a full kind evicts to make room for a watch event is an entry the page would
\* have cut anyway, unless another entry of the same instant could have gone instead.
\* The queue of access requests is the one exception: it shows the longest waiting first
\* and drops the oldest, for its retention takes it to be read newest first.
EvictedIsOffThePage ==
    \A k \in Kinds :
        (phase = "consume" /\ profile.keep.order[k] # "queue" /\ offer[k].do = "put"
            /\ Named(kept[k], offer[k].item.name) = {}) =>
        \A retained \in Applied(k, offer[k]) :
        \A x \in kept[k] \ retained :
            \/ x \notin Bounded(kept[k] \cup {offer[k].item}, profile.keep.order[k], MaxShown)
            \/ Cardinality(Evictees(kept[k], profile.keep.policy[k])) > 1

\* Once one of the merged watches has ended, the collector leaves the stream: it
\* never goes on publishing while a kind has silently stopped arriving.
HalfAWatchEnds ==
    (phase = "consume" /\ \E k \in Kinds \ snap.unobserved : k \notin up) ~> (phase = "wait")

=============================================================================
