------------------------------ MODULE Evidence ------------------------------
(***************************************************************************)
(* internal/evidence: the poller of the repository-evidence sidecar, its    *)
(* client, which assembles a backup collection page by page, and the store  *)
(* readers see; composed with the cross-check view that correlates what the *)
(* store holds with the operator's catalog.                                 *)
(*                                                                          *)
(* The sidecar is external: it publishes a revision, and a generation that  *)
(* moves with every completed scan; restarted, it may count both from the   *)
(* start again.  Nothing the console reads tells one life of the sidecar    *)
(* from the next: `life` is the model's own mark, no guard of the poller    *)
(* looks at it.  Healthy, warning and unhealthy items are one: the          *)
(* properties are about presence and absence.  Delays are a backoff level   *)
(* and a step.                                                              *)
(***************************************************************************)
EXTENDS CrossCheck

CONSTANTS
    Items,          \* backup IDs
    MaxItems,       \* MaxRepositoryBackups
    MaxPages,       \* maxAssemblyPages
    PageSizes,      \* how many items the sidecar may put on a page
    MaxBackoff,     \* the backoff's cap, in doublings
    MaxScans,       \* bound: completed scans, in all its lives
    MaxLives,       \* bound: lives of the sidecar
    MaxRefreshes,   \* bound: publications without a completed scan
    MaxFaults       \* bound: requests that fail, and pages that make no sense

ASSUME BoundsAssumption ==
    /\ {MaxItems, MaxPages, MaxBackoff, MaxScans, MaxLives, MaxRefreshes, MaxFaults} \subseteq Nat
    /\ MaxLives # 0 /\ PageSizes \subseteq Nat /\ IsFiniteSet(Items)

VARIABLES
    published,  \* sidecar: its current publication
    scanned,    \* sidecar: the collection of each <<life, generation>>
    faults,     \* bound: failed requests so far
    pc,         \* the poller goroutine
    report,     \* poller: the validated report being assembled for
    items,      \* client: the items assembled so far
    pages,      \* client: pages read so far
    cache,      \* poller: the last assembled collection
    backoff,    \* poller: the failure delay, in doublings
    store       \* what readers see

sidecarVars == <<published, scanned>>
pollerVars == <<pc, report, items, pages, cache, backoff>>
vars == <<sidecarVars, faults, pollerVars, store>>

SidecarUID == 1
NoScan ==
    [life |-> 1, revision |-> 1, generation |-> 0, uid |-> SidecarUID, sourceStale |-> FALSE]
NoCache == [assembled |-> FALSE, generation |-> 0, backups |-> <<>>, truncated |-> FALSE]

\* What a publication's report stands on.
Scan(publication) == <<publication.life, publication.generation>>
Collection(publication) ==
    IF publication.generation = 0 THEN <<>> ELSE scanned[Scan(publication)]

\* "request" stands for every kind one request fails with: timeout,
\* unauthenticated, busy, incompatible, identity mismatch, unavailable.
Failures == {"request", "invalid", "publication changed"}

Init ==
    /\ published = NoScan
    /\ scanned = [s \in {} |-> <<>>]
    /\ faults = 0
    /\ pc = "snapshot"
    /\ report = NoScan
    /\ items = <<>>
    /\ pages = 0
    /\ cache = NoCache
    /\ backoff = 0
    /\ store = [has |-> FALSE, failure |-> "none", stale |-> FALSE, report |-> NoScan,
                backups |-> <<>>, truncated |-> FALSE]

-----------------------------------------------------------------------------
(* Outside: the sidecar publishes.                                          *)

CompleteScan ==
    /\ Cardinality(DOMAIN scanned) < MaxScans
    /\ published' = [published EXCEPT !.revision = @ + 1, !.generation = @ + 1,
                                      !.sourceStale = FALSE]
    /\ \E found \in SUBSET Items :
        scanned' = [s \in DOMAIN scanned \cup {Scan(published')} |->
                        IF s \in DOMAIN scanned THEN scanned[s] ELSE SetToSeq(found)]
    /\ UNCHANGED <<faults, pollerVars, store>>

\* A refresh that failed: the same collection under another revision.
FailRefresh ==
    /\ published.revision - published.generation <= MaxRefreshes
    /\ published' = [published EXCEPT !.revision = @ + 1, !.sourceStale = TRUE]
    /\ UNCHANGED <<scanned, faults, pollerVars, store>>

\* It starts again, and counts again: what it scanned before is gone with it.
RestartSidecar ==
    /\ published.life < MaxLives
    /\ published' = [NoScan EXCEPT !.life = published.life + 1]
    /\ UNCHANGED <<scanned, faults, pollerVars, store>>

-----------------------------------------------------------------------------
(* The poller.                                                              *)

\* Store.publish: the report and its collection, together.
Publish(published_report, assembled) ==
    /\ store' = [has |-> TRUE, failure |-> "none", stale |-> FALSE, report |-> published_report,
                 backups |-> assembled.backups, truncated |-> assembled.truncated]
    /\ backoff' = 0
    /\ pc' = "wait"

\* Run on an error: markFailed and the next backoff.  What was being
\* assembled is discarded.
Fail(kind) ==
    /\ store' = [store EXCEPT !.failure = kind, !.stale = store.has]
    /\ backoff' = IF backoff < MaxBackoff THEN backoff + 1 ELSE backoff
    /\ pc' = "wait"
    /\ items' = <<>>
    /\ pages' = 0
    /\ UNCHANGED <<report, cache>>

\* Mutant: any assembled collection will do.
ReusableAlways(fetched) == cache.assembled /\ fetched.generation # 0

\* assemble: a report of the generation whose collection the poller already holds.
Reusable(fetched) == cache.assembled /\ cache.generation = fetched.generation

\* FetchSnapshot, and assemble up to its first request.
FetchSnapshot ==
    /\ pc = "snapshot"
    /\ report' = published
    /\ UNCHANGED <<sidecarVars, faults, pages, items>>
    /\ \/ /\ published.generation = 0
          /\ cache' = [NoCache EXCEPT !.assembled = TRUE]
          /\ Publish(published, cache')
       \/ /\ published.generation # 0
          /\ Reusable(published)
          /\ Publish(published, cache)
          /\ UNCHANGED cache
       \/ /\ published.generation # 0
          /\ ~Reusable(published)
          /\ pc' = "page"
          /\ UNCHANGED <<cache, backoff, store>>

\* FetchSnapshot and FetchBackups: any request may fail, for every reason
\* getJSON, the decoder, the validator and checkIdentity give.
RequestFails ==
    /\ pc \in {"snapshot", "page"}
    /\ faults < MaxFaults
    /\ faults' = faults + 1
    /\ Fail("request")
    /\ UNCHANGED sidecarVars

\* A page of another publication than the one asked for.
PageRefused(page) ==
    \/ page.revision # report.revision
    \/ page.generation # report.generation

\* FetchBackups on one page: the items up to the consumer's ceiling, and
\* whether it was reached.
Taken(page) == SubSeq(items \o page.items, 1,
                      IF Len(items) + Len(page.items) > MaxItems THEN MaxItems
                      ELSE Len(items) + Len(page.items))
Ceiling(page) == Len(items) + Len(page.items) > MaxItems

Assembled(taken, truncated) ==
    LET whole == [assembled |-> TRUE, generation |-> report.generation,
                  backups |-> taken, truncated |-> truncated] IN
    /\ cache' = whole
    /\ Publish(report, whole)
    /\ items' = <<>>
    /\ pages' = 0
    /\ UNCHANGED report

\* What became of one page.
ReadPage(page) ==
    \/ PageRefused(page) /\ Fail("invalid")
    \/ ~PageRefused(page) /\ Ceiling(page) /\ Assembled(Taken(page), TRUE)
    \/ ~PageRefused(page) /\ ~Ceiling(page) /\ page.last /\ Assembled(Taken(page), FALSE)
    \/ /\ ~PageRefused(page) /\ ~Ceiling(page) /\ ~page.last
       /\ pages + 1 < MaxPages
       /\ items' = Taken(page)
       /\ pages' = pages + 1
       /\ UNCHANGED <<pc, report, cache, backoff, store>>
    \/ /\ ~PageRefused(page) /\ ~Ceiling(page) /\ ~page.last
       /\ pages + 1 = MaxPages
       /\ Fail("invalid")

\* The sidecar's page of that size: what follows the items already read.
PageOf(size) ==
    LET all  == Collection(published)
        rest == SubSeq(all, Len(items) + 1, Len(all)) IN
    [revision |-> published.revision, generation |-> published.generation,
     items |-> SubSeq(rest, 1, IF size < Len(rest) THEN size ELSE Len(rest)),
     last |-> size >= Len(rest)]

\* The sidecar's answer while its current publication has the revision asked for.
FetchPage ==
    /\ pc = "page"
    /\ published.revision = report.revision
    /\ \E size \in PageSizes : ReadPage(PageOf(size))
    /\ UNCHANGED <<sidecarVars, faults>>

\* A page without an item that is not the last: a producer that misbehaves.
FetchEmptyPage ==
    /\ pc = "page"
    /\ published.revision = report.revision
    /\ faults < MaxFaults
    /\ faults' = faults + 1
    /\ ReadPage([PageOf(0) EXCEPT !.last = FALSE])
    /\ UNCHANGED sidecarVars

\* Mutant: the page is asked for again, of the publication that is gone.
PublicationChangedRetried ==
    /\ pc = "page"
    /\ published.revision # report.revision
    /\ store' = [store EXCEPT !.failure = "publication changed", !.stale = store.has]
    /\ UNCHANGED <<sidecarVars, faults, pollerVars>>

\* 409: the sidecar has moved on.
PublicationChanged ==
    /\ pc = "page"
    /\ published.revision # report.revision
    /\ Fail("publication changed")
    /\ UNCHANGED <<sidecarVars, faults>>

\* The sidecar answers with a page of its current publication instead.
FetchOtherPage ==
    /\ pc = "page"
    /\ published.revision # report.revision
    /\ faults < MaxFaults
    /\ faults' = faults + 1
    /\ ReadPage([revision |-> published.revision, generation |-> published.generation,
                 items |-> Collection(published), last |-> TRUE])
    /\ UNCHANGED sidecarVars

\* The interval with its jitter, or the backoff, has passed.
PollAgain ==
    /\ pc = "wait"
    /\ pc' = "snapshot"
    /\ UNCHANGED <<sidecarVars, faults, report, items, pages, cache, backoff, store>>

Poll == FetchSnapshot \/ FetchPage \/ PublicationChanged \/ PollAgain
Sidecar == CompleteScan \/ FailRefresh \/ RestartSidecar
Next == Sidecar \/ RequestFails \/ FetchEmptyPage \/ FetchOtherPage \/ Poll

Spec == Init /\ [][Next]_vars
FairSpec == Spec /\ WF_vars(Poll)

-----------------------------------------------------------------------------
(* Types: store.go, evidence.go.                                            *)

TypeOK ==
    /\ published.generation \in 0..MaxScans /\ published.life \in 1..MaxLives
    /\ pc \in {"snapshot", "page", "wait"}
    /\ pages \in 0..MaxPages - 1
    /\ backoff \in 0..MaxBackoff
    /\ Len(items) <= MaxItems
    /\ Len(store.backups) <= MaxItems
    /\ store.failure \in Failures \cup {"none"}
    /\ cache.generation \in 0..MaxScans

\* Two lives of the sidecar have published a collection under this generation.
CountedAgain(generation) ==
    \E life, other \in 1..MaxLives :
        /\ life # other
        /\ {<<life, generation>>, <<other, generation>>} \subseteq DOMAIN scanned

\* The pair a reader sees is one publication's: the collection beside a
\* report is that of the report's own generation, whole, or cut at the
\* ceiling and marked (poller.go: "a report and its collection always land
\* atomically or not at all").  The generation is all the poller compares:
\* one that two lives of the sidecar counted up to proves nothing.
OnePublication ==
    store.has /\ ~CountedAgain(store.report.generation) =>
        LET collection == Collection(store.report) IN
        /\ IsPrefix(store.backups, collection)
        /\ store.truncated <=> store.backups # collection

\* A discrepancy or an orphan is a conclusion from absence: no claim called
\* a discrepancy is in the collection the report stands on, no orphan belongs
\* to a Backup resource the cluster holds, shown or cut from the catalog, and
\* both are said of evidence in contact, bound to the observed cluster
\* (crosscheck.go: "a truncated collection cannot prove absence").  A generation
\* that was counted again is another's word; contact and cluster still hold.
AbsenceIsConcluded ==
    \A held \in SUBSET Items, stale, cut, behind \in BOOLEAN, uid \in 0..SidecarUID + 1 :
        \A claims \in IF cut THEN SUBSET held ELSE {held} :
            LET catalog == [claims |-> claims, stale |-> stale, truncated |-> cut]
                cluster == [uid |-> uid, stale |-> behind]
                present == Range(Collection(store.report))
                orphans == Orphans(store, catalog, cluster)
                denied  == {id \in claims : Outcome(id, store, catalog, cluster) = "discrepancy"} IN
            /\ denied \cap present = {} \/ CountedAgain(store.report.generation)
            /\ orphans \subseteq present \/ CountedAgain(store.report.generation)
            /\ orphans \cap held = {}
            /\ denied \cup orphans # {} => /\ store.failure = "none"
                                          /\ uid = store.report.uid

\* Whatever failed on the way, a sidecar that answers again is believed
\* again: what readers see ends up its current publication, not stale.
EventuallyCurrent ==
    <>[](store.has /\ ~store.stale /\ store.report = published)
==============================================================================
