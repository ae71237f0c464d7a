# TLA+ models of pgConsole

pgConsole is a read-mostly web console for one CloudNativePG cluster. It keeps no
database: a dozen collectors list and watch Kubernetes resources and publish
immutable snapshots, a history store folds the same watches into a bounded
timeline of revisions, a few pollers ask sidecars and exporters, a rule engine
turns the snapshots into verdicts, and the web layer renders whatever the stores
hold. What can go wrong in such a program is not a computation but an order: a
watch that ends between two items, a listing that was abandoned, a flush that
falls between two calls, a restart that resumes from half a mutation. That is
what these models are about.

All paths below are under `src/internal/` unless they start with `src/`.

## 1. Inventory

### Components, their state and how they meet

| Part | State it keeps | Operations | Meets |
|---|---|---|---|
| `observe/loop.go` shared collector loop | backoff, position in seed / publish / follow / consume | `Run`, `consume`, `published`, `loseContact`, `wait` | one goroutine per feed; reads a channel filled by `kube/stream.go`; writes one store |
| `observe/*.go` feeds and stores | retained set per kind (`keyed`), published snapshot (generation, stale, truncated) | `seed`, `follow`, `apply`, `publish`, `markStale`, `Current…` | read by web, diagnose, scrape, instancestatus, logstream |
| `observe/kubeversion.go` | last answer, stale mark | poll loop | web, diagnose |
| `kube/*.go` list and watch | none between calls, except ownership caches for the life of a watch | `Fetch…`, `Watch…`, one pump per watch | called by feeds; hands every accepted event to the history recorder |
| `kube/stream.go` | an unbuffered channel, a context, pump goroutines | `fanIn`, `Stop` | between watches and `consume` |
| `kube/record.go` | the listing being collected | `tap`, `recordEvent`, `seedRecord`, `add`, `commit` | calls `history.Recorder` from every pump and every list |
| `history/store.go` | timeline, per-object classification state, scope sets, totals, `evicted`, `seq`, `generation` | `Observe`, `Seed`, `Snapshot`, `Revision`, `NewPersistedStore` | called from all taps under one lock; calls the `Persister` under that lock |
| `history/bolt` | pending maps, the bbolt file | `Append`…`MarkEvicted`, `Run`/`flush`, `Open`, `Load` | its flush loop takes only the journal's own lock |
| `logstream` | followers by container, matcher coverage, ring buffers | `Run`/`reconcile`, `follow`, sinks' `Observe`/`Gap`/`Attached`/`Detached`/`Dropped` | roster from the pods store; findings to diagnose |
| `evidence` | last report, assembled backup collection, failure kind, backoff | `Run`, `assemble`, `publish`, `markFailed` | object-store sidecar; web, diagnose |
| `metrics`, `scrape` | rings per instance and series, counter baselines; a snapshot file | `Observe`, `Range`, `Export`/`Import`, `flush`; `sweep` | roster from the pods store; exporters |
| `instancestatus` | last reading per instance | `sweep`, `publish` | roster; instance managers |
| `diagnose` (+ `catalog`, `catalog/cnpg`, `triage`) | none: functions of one bundle of snapshots | `Run`, rules, playbooks | web |
| `ops`, `review` | CSRF key | `Issue`, `Verify`, `Execute`, `Decide` | web posts; Kubernetes writes |
| `application` | runners, server | `New`, `Listen`, `Serve` | starts and stops everything |
| `web`, `authz`, `identity`, `config`, `redact`, `src/cmd/pgconsole`, `src/hack/evidence-fingerprint` | none that changes | handlers, checks, parsing | |

### Hard behaviours, and what makes each part correct

* **Feeds.** The server, a pump and the collector step independently; requests
  and watches fail anywhere; cancellation lands anywhere. Correct: a roster is one
  moment of the server's past, moves forward only, is marked stale whenever
  contact is lost, says when it was cut, and comes back after failures.
* **Capture and the revision store.** Seventeen scopes write one store at their
  own pace; a scope may lose contact and re-seed at any time, and a listing that
  claims to be complete may miss a live object. Correct: the timeline tells a
  coherent life per object, its books balance through every eviction and rewrite,
  and a seeded scope knows what the server held, but of what was missed.
* **Journal.** Calls land around a flush that may fail, and a mutation is several
  calls. Correct: nothing called is lost while the process lives, the file is
  always one whole prefix of the calls, a restart resumes from a store equal to
  the one that wrote it, and a sequence in the file is never given to another revision.
* **Log following.** Followers are cancelled and restarted by a reconciler while
  they still have a last transition to report, after their successor has begun.
  Correct: a container nobody reads is not counted as read; a gap is recorded for
  every unread window.
* **Evidence.** Two fetches make one publication, either may fail, and the sidecar
  may start counting its generations again. Correct: a report and its collection
  are of one generation, or nothing is published.
* **Metrics.** Windows roll up at boundaries and survive kills through a renamed
  file. Correct: no sample is repeated or lost at the seam, a restart resumes from
  one of two whole snapshots.
* **Verdicts.** A check reads several sources, each observed, lost and observed
  again on its own. Correct: a check that reads clear had nothing to find, one that
  matched found what is there, a state held "at least since" was, a screen shows
  every finding once.
* **Operations.** A form outlives its token, its process and the object it is about;
  a request may be served after the handler gave up. Correct: what the server did
  was confirmed in time, for that very target; an accepted outcome was done; what is
  on record of a decision is one reviewer's.
* **Lifecycle.** Correct: everything started is waited for, and nothing runs on a
  closed resource.

`PROJECT.json` lists every hazard at its line, with the properties that cover it, or
the reason why none does.

## 2. The modules

```
PodView     <=refined by=  PodFeed        <- MCPodFeed        PodFeedProofs
Retention, Feeds        <- ResourceFeed   <- MCResourceFeed   ResourceFeedProofs
Timeline <- Capture                       <- MCCapture        HistoryProofs
WriteBehind <=refined by=  JournalMirror  <- MCJournalMirror  HistoryProofs
            Journal     <- JournalMirror
Capture, Journal        <- HistoryJournal <- MCHistoryJournal
                           LogFollow      <- MCLogFollow      LogFollowProofs
CrossCheck              <- Evidence       <- MCEvidence       EvidenceProofs
Window                  <- Sweeps         <- MCSweeps         SweepsProofs
Conditions <- Triage    <- Diagnosis      <- MCDiagnosis      DiagnosisProofs
Incidents               <- Diagnosis
                           Operations     <- MCOperations     OperationsProofs
```

(`<-` reads "is extended or instantiated by"; an MC module gives the constants
their values.) Every module keeps the names of the code where TLA+ allows it. A
definition whose comment starts with "Mutant" is a plausible bug of the one that
follows it; `PROJECT.json` says which property it breaks.

### One feed, end to end: `PodFeed`, refining `PodView`

`PodFeed` composes `kube/pods.go`, `kube/stream.go`, `observe/loop.go`,
`observe/keyed.go` and `observe/pods.go`: the pods feed is the one whose list is
paged, whose membership is verified and which most other parts read.

* `hist` is the server's past: one function from names to pods per revision.
  `Create`, `Modify`, `Adopt`, `Orphan`, `Delete` append to it (external).
* `pc` is where `loop.Run` and `consume` are: `seed` (top of the loop), `listing`
  (a request is out), `seeded` (published, watch not started), `poll` and `select`
  (the two selects of `consume`), `ended`, `wait`, `done`.
* `stream`, `cursor`, `offer` are `fanIn`: the channel is unbuffered, so `offer`
  is the one converted item a pump is blocked sending.
* `retained` is the feed's `keyed` set, `snap` the published snapshot.
* `seen` and `complete` are history variables: the revision that the roster
  reflects and whether the last listing was read to its end.

`SeedAsk`/`SeedOK`/`SeedFail` and `WatchOK`/`WatchFail` are the two requests of
`Run` with both outcomes; `SeedOK` is `seed` and the `published` that follows it;
`Take` is `apply` and `published` from either select; `PollEmpty` is the first
select's `default`; `ConsumeEnds` the two ways out of `consume`, with its deferred
`stop`; `LoseContact` is `loseContact` with the doubling at the entry of `wait`.
The pump goroutine is `PumpRead`, `WatchEnd`, `PumpCancelled`. `FetchPods` is
modelled with its pages: it stops at the first page after which it holds more than
`MaxPods` members, and the watch then follows all the same.

`PodView` is what a reader is promised, with no loop in it: a picture of the
members at one server state, cut, moving forward only, and an honest contact
flag. `PodFeed` implements it through `at <- seen`, `shown <- snap.pods`,
`fresh <- snap.gen > 0 /\ ~snap.stale`, `exact <- complete`.

### The other feeds: `Retention`, `Feeds`, `ResourceFeed`

Twelve more collectors share the loop, the primary lease's among them, and differ
in a profile: which kinds they list and watch, whether a refusal of a kind is recorded
or fails the fetch, what retention drops and how a page is ordered and cut.
`Feeds` is that table, one record per collector. `Retention` is `keyed.go` on a
set of items: put with and without a limit, remove, and the publication's cut.
`ResourceFeed` runs one profile, chosen at the start: kinds are listed one after
the other (`ListKind`, `ListRefused`, `FetchFails`), each has its own watch and
pump (`OpenWatches`, `PumpTakes`, `PumpSkips`, `PumpLetsGo`, `PumpEnds`), and all of
them feed one channel of which the collector takes one item at a time (`Consume`,
`StreamCloses`). A listing that is not whole in one request stops at either of two
ceilings: members kept, and objects examined.

Who is a member is the profile's too. A kind that declares its cluster, or carries its
owner, may be given to another one (`Transfer`): its pump passes over every event of
such an object, the deletion among them. Of a pooler pod membership is walked through
its owners, by requests that may fail: a listing then leaves it out (`ListUnproven`), a
pump skips it, and the cache of the walk (`proven`, `failed`) remembers either answer for
as long as the watch lives. `read`, `since` and `missed` are history variables: which
server state each kind reflects, which one was seeded, and who was left out then.

### History: `Timeline`, `Capture`

`Timeline` is `history/store.go` as operators on one record: `observe`, `append`,
`coalesce`, `evict`, `enforcePerObject`, `enforceBounds`, `delete`, `forget`,
`Seed`, `prime`. Each returns the store after the whole call, bounds enforced,
together with the calls it makes to the `Persister`, in order, in `out`. A
manifest is two digests; its size depends on the status digest, so a rewrite may
grow a revision. Clock readings are reduced to the one decision they take:
whether a transition falls inside the coalescing window.

`Capture` drives it: a server with unique UIDs; scopes that list (`Lists`), hand
the listing over whole (`CommitSeed`) or item by item when it was cut or an item
failed to convert (`CommitPartial`, `PartialItem`, `PartialDone`), record the
watch's events (`Record`) or drop one (`DropEvent`), and lose contact (`Disconnect`).
`Home` says which scope's membership rule accepts an object, when it does: a listing
that is committed as complete may have left a live one out, as the pooler pods' does
when an owner cannot be read, and an event of an object may be no member's or not
convert. The history variables `missed` (whose latest news was let go by) and `leftOut`
(who was ever missing from a complete listing) remember to whom that happened.

### The journal: `Journal`, `JournalMirror`, refining `WriteBehind`

`Journal` holds the actions of `history/bolt/bolt.go` over one key space: enqueue,
swap under the lock, commit or fail without it, merge back, final flush, close.
`JournalMirror` puts an arbitrary client beside it and a history variable `log`
of what the calls add up to; `WriteBehind` is the promise: the file holds what the
calls up to some moment add up to, and that moment only moves forward.

`HistoryJournal` extends `Capture` and `Journal` and composes them through restarts: a
call's writes (`WritesOf`) are keyed by bucket, a removed key holds `Gone`. A mutation
of the store fills `out`; `MirrorCall` makes its calls one at a time, while `store` is
locked (`Unlocked` guards the taps) but the flush loop is not. `Restart` reopens the
file, loads (`Loaded...`) and primes, possibly under another limit by object: `allowance`
is a history variable, what that limit comes to after priming. `Orderly` chooses between
a process that ends
with its taps idle and its last flush written, and one that is killed between any two
steps.

### Log following: `LogFollow`

The runner of `logstream/runner.go` (`Reconcile` dismisses and starts, `StopAll`
and `Returns` are the end of `Run`), one follower goroutine per container
(`Begin`, `Opens`, `OpenFails`, `Reads`, `StreamEnds`, `Reports`, `WaitEnds`,
`Leaves`), the matcher's unread set and the buffer's lines and gaps. A follower
outlives its cancellation until it has left, and `Reconcile` does not wait for that: the
next follower of its container may have begun. `spoke` is a history variable: which
follower the matcher last heard of a container from.

### Repository evidence: `CrossCheck`, `Evidence`

`Evidence` is the poller (`FetchSnapshot`, `FetchPage`, `PublicationChanged`,
`PollAgain`, and the failures of each), the client's assembly of a collection page
by page, the reuse of the last collection, and the store. The sidecar publishes a
revision and, with every completed scan, a generation; it may do either between
any two requests, and may start again and count both from the start (`RestartSidecar`):
`life`, which no guard of the console looks at, tells one count from the next.
`CrossCheck` is `web/crosscheck.go`, the view that sets the store beside the Backup
resources and concludes discrepancies and orphans.

### The sweeps: `Window`, `Sweeps`

`Window` is `internal/metrics`: `Observe`, the rings and rollups, the eviction of
an instance, what a chart reads, `Export` and `Import`. `Sweeps` runs the
exporters' sweep (`scrape`), the instance managers' sweep (`instancestatus`, with
its deadline), and the persister with its temporary file and rename, over pods
whose addresses change and a roster that may be cut, stale or not there. An address
is free for another pod the moment its own is gone, whatever a roster or a sweep under
way still says; a report carries who gave it (`by`), which the code cannot know.

### Verdicts: `Conditions`, `Triage`, `Incidents`, `Diagnosis`

`Conditions` is every kind of condition and detector of `diagnose`, as an operator
on an input of abstract facts that returns why it could not run or the subjects it
matched, with the reasons of `stale.go` in the order the code asks them.
`Triage` is the walk of a playbook, whose steps are answered from the same results.
`Incidents` is `groupIncidents` of `web/diagnostics.go`: parents, climbing through
loops, cards and their order. The catalogs are tables over these. Eight
steps, one of each shape, and two whole playbooks are written out.

`Diagnosis` lets the sources live: observed, lost, swept in part, switched off, a
clock; any list may be cut at its ceiling (`Lists`, `Cut`). `truth` is the cluster's
own: its facts, its instances, every change there was to record (`records`) and every
line nobody was listening for (`unheard`), whatever the console has observed of them.
The result of a check is a function of `in` alone, as `diagnose.Run` is of its `Input`;
`calm` and `ill` are history variables: when there was last nothing, or something, to
find by the truth (`Perfect`).

### Operations: `Operations`

The console's writes: a form with its token (`ConfirmPage`, `ReviewPanel`), its
submission through the level, origin and token checks (`SubmitOperation`,
`SubmitDecision`), the one request it sends, and the API server, which serves or
refuses it at any later moment (`Serve`, `Refuse`), even when the handler has given
up (`GiveUp`) or the process is another (`Restart`). The clock may be set back.

## 3. The runs

Bounds are small sets of interchangeable values, none smaller than what the hazard
needs. The constants named `MaxRev`, `MaxFaults`, `MaxLapses`, `MaxEvents`, `MaxCalls`,
`MaxRestarts`, `MaxFailures`, `Starting`, `MaxFollowers`, `MaxBreaks`, `MaxRosters`,
`MaxLines`, `MaxScans`, `MaxRefreshes`, `MaxForms`, `MaxLives`, `MaxNow`, `MaxPodChanges`,
`MaxFlushes` and `MaxCrashes`, and the `most` of a check, bound the exploration only. The others
(`MaxPods`, `MaxShown`, `MaxRevisions`, `MaxBytes`, `MaxItems`, `MaxPages`,
`PerContainer`, `Total`, `RawCap`, `RollCap`, `MaxInstances`, `MaxAge`) are limits of
the program, set low enough to be hit.

| Run | Question and properties | Bounds and why |
|---|---|---|
| `PodFeed` | Is a roster one moment (`ShownIsOneMoment`), flagged when cut (`CutIsFlagged`), is `PodView` implemented (`ImplementsView`), does it converge (`Converges`)? | two names (one may be replaced while the other is cut away: `MaxPods` 1), three revisions, two failures (one while recovering from another), a backoff cap that is no power of two; pods do not leave their cluster |
| `PodFeedForeign` | Is a deleted pod, or a former incarnation, ever shown (`NoGhostPod`), a roster out of contact ever unmarked (`StaleWhenOutOfContact`)? | three names over `MaxPods` 1 and pages of one: a listing stops after the second member, and a pod that was not listed is deleted or replaced later; adds `orphan`, four revisions, one failure |
| `ResourceFeed` | Is an unflagged page complete (`UnflaggedIsComplete`), a feed with nothing left to deliver current but for the blind spots it names (`BlindSpotsAreKnown`), was what retention dropped off the page (`EvictedIsOffThePage`), does a stream that lost one watch end (`HalfAWatchEnds`)? | all twelve profiles, three names over a page of one, two objects of each kind to start from, so that a listing reaches either ceiling and retention is full before the page is; instants coincide in pairs, so ties occur; up to three changes and failures for a feed of one kind, fewer for one of two |
| `Capture` | Do the books balance (`BooksBalance`), is a life coherent (`LivesAreCoherent`), an eviction admitted (`EvictedIsHonest`), the classification true (`KnowsTheServer`), every change told by the generation (`GenerationTells`)? | two objects, per-object bound 2, three revisions, four bytes: all three bounds bite, and coalescing can push a store over the byte bound; four server revisions and two lapses: an object is left out by a listing and deleted in effect, then born again, or an event of it is dropped and the next one recorded |
| `JournalMirror` | Is nothing lost (`NothingIsLost`), the file a prefix (`ImplementsWriteBehind`), everything durable in the end (`EventuallyDurable`)? | two keys, two values, three calls: one before the swap, one during the transaction, one after the merge; one failure |
| `HistoryJournal` | Do file and pending calls add up to the store (`MirrorIsExact`), which limits hold through a restart (`LimitsAfterRestart`), does a sequence stand for one revision (`SequencesNeverReturn`)? | one object, killed between any two steps, one restart, one failed flush; a limit by object of 3 or 1, drawn again at the restart, so that it is lowered under three retained revisions; three revisions and three bytes, so that one revision alone may be too large, evictions can empty the timeline, and a kill may leave the file over its bytes |
| `LogFollow` | Is an unread container admitted (`UnreadIsAdmitted`), a join of one follower's lines marked (`JoinsAreMarked`), a returned runner silent (`ReturnedMeansSilent`), every member followed (`EveryMemberIsFollowed`), does `Run` return (`RunReturns`)? | one container, three followers in succession, the next beginning while the last is leaving; three lines over a budget that trims them, two breaks, three rosters; several containers are covered by the proofs |
| `Evidence` | Is what is shown one publication (`OnePublication`), is an absence concluded (`AbsenceIsConcluded`), does the poller catch up (`EventuallyCurrent`)? | two backups over a ceiling of one, pages of one or two, two scans, in one life of the sidecar or in two, so that a generation is counted again; a refresh, two failures; the catalogs of the view are quantified over, all of them |
| `Sweeps` | Does a sweep account for all (`SweepAccountsForAll`), is a report its pod's (`ReportIsItsPods`), does no rate span an outage (`NoRateAcrossAnOutage`), is the window the last rates (`WindowIsTheLastRates`)? | two names, two addresses that pass from one to the other, room for one instance; a ring of two and a rollup ring of one, both wrap; each sweep on its own, a kill, a snapshot |
| `Diagnosis` | Is a clear verdict true (`ClearIsTrue`), a match current (`MatchIsCurrent`), a held state's clock a floor (`ClockIsAFloor`), a finding shown once (`EachFindingIsShownOnce`)? | every kind of check, one at a time, on two instances; three changes (four where a cut needs them), three instants against a minimum age of 2 and a horizon of 1; the lists that a check reads are cut at some publications |
| `Operations` | Was what the server did confirmed in time (`ConfirmedInTime`), an accepted outcome done (`AcceptedIsDone`), what is on record of a decision one reviewer's (`DecisionIsOne`)? | two submissions, two forms, two processes, a clock of three instants against an age of 1, one fault; submissions and users are interchangeable, hence the symmetry |
| `PromoteLinked` | Is a confirmation turned back only for its age (`TurnedBackForItsAge`)? | the links the console itself renders |

`PromoteLinked` ends in a violation: the property is what the page says, the trace
is what the code does (section 5). The others pass.

`ShownIsOneMoment` compares a set folded from items with a server state chosen by
the watch's position. `KnowsTheServer` relates the classification state to a past
server state, so an observation skipped or folded twice violates it.
`MirrorIsExact` loads, as a restart would, what the file, the transaction, the
pending maps and the calls not yet made add up to, and compares it with the store
at every step. `ClearIsTrue` and `MatchIsCurrent` compare a verdict with a truth
the check cannot see, at the age its sources are allowed to have.

Exceptions, each stated in the property itself, and described in section 5:

* `UnflaggedIsComplete` and `BlindSpotsAreKnown` except what left the cluster while it
  was watched and the pooler pods whose owners could not be read; the second also the
  pinned object deleted between its get and its watch. `EvictedIsOffThePage` exempts
  entries of one age, and the access review queue.
* `KnowsTheServer` excepts the objects whose latest news was let go by (`missed`);
  `LivesAreCoherent` and the count in `BooksBalance` those a listing that claimed to be
  complete left out (`leftOut`).
* `LimitsAfterRestart` says of the limit by object what priming leaves (`Allowed`).
* `UnreadIsAdmitted` excepts a container of which the matcher last heard from a follower
  that was dismissed; `JoinsAreMarked` is about the lines of one follower.
* `OnePublication` and `AbsenceIsConcluded` except a generation that two lives of the
  sidecar have counted up to (`CountedAgain`).
* `ReportIsItsPods` is about pods that are still there.
* `ClearIsTrue` excepts the two checks that cut the events before they look for theirs
  (`Quoting`), the two that read clear from readings of different moments (`Composed`),
  and what the code reads clear without having seen it: a list that was cut
  (`CutShort`), an instance whose exporter has never answered (`NeverAnswered`), pooler
  pods that were never listed (`NeverListed`), changes the timeline missed or has let
  go of (`Unrecorded`), lines written while no stream was open (`NeverHeard`). Whatever
  else a check clears, the cluster itself is asked. `MatchIsCurrent` excepts the check
  that quotes the log (`Past`) and the one that sets a source of the moment against one
  read up to `Horizon` earlier (`Joint`).
* `DecisionIsOne` says of a level beside a denial only that it was granted once.

A `screen` keeps its sources in contact: its cards are a function of the findings
alone, and what a source out of contact does is every other check's question.

`CHECK_DEADLOCK FALSE` is set where the program really stops (a cancelled
collector, a closed journal, a runner that returned) or where the bounds end a
behaviour. `Capture` has neither and is checked for deadlock.

### Fairness

| Specification | Fairness | Why |
|---|---|---|
| `PodFeed!FairSpec` | weak, of the collector and of the pump's read | goroutines are scheduled; a list request carries a timeout (`kube/pods.go:53`) and so answers one way or the other; `Wait` returns |
| `ResourceFeed!FairSpec` | weak, of the collector and of each kind's pump, whose own watch need not end | the same; the server may keep a watch open for ever, but once one pump has returned the stop is shared |
| `JournalMirror!FairSpec` | weak, of the flush loop | `Journal.Run` repeats it until cancelled; a call made after the final swap never reaches the file, so durability is promised while the journal is open |
| `LogFollow!FairSpec` | weak, of the runner and of each follower started | the ticker fires, delays pass, a stream that is told to stop ends; containers write when they like |
| `Evidence!FairSpec` | weak, of the poller | every request has a deadline (`evidence/client.go:221`); nothing is asked of the sidecar |

Nothing is assumed of servers, failures or cancellation, and no strong fairness is
needed: once the failures of a behaviour are spent, an enabled request stays so.

## 4. What is proved

TLAPS checks eight modules of proofs, for every value of the constants: any
finite sets, any bounds, any number of steps and failures. The assumptions are the
ASSUMEs named in the modules, which TLC evaluates on every run, and those in the
theorems' own statements. `ResourceFeed` asks two things of its profiles there:
that what a full kind drops first is what its page shows last, but for the queue, and
that a pinned object may be neither refused nor doubted (`ProfilesAssumption`, which
holds of the twelve), and that there is a name; `Timeline` that the mark of no object is
neither a content nor a state (`GoneAssumption`), which is what nil is in the code.
`Diagnosis` names two instances in the values it lets a source take, and asks that they
be instances and that no instance bear the name of one of the Cluster's states, and that
they be finitely many (`NamesAssumption`); of a check, that it varies what its rule
consults, and cuts only what is a list with a ceiling (`SourcesAssumption`); of a screen,
that the causes its checks declare are relations (`RelationsAssumption`). `Consulted` is
the table of what is consulted, rule by rule, from `stale.go`.

The library's induction theorems take an operator and cannot be used. Where a fold,
a ring or a recursive function has to be followed through all its steps, the proof
takes a least counterexample instead: `Least` and `Minimal` get it from `WFMin` of
the library, for a set of numbers and a set of parts of a finite set. A recursive
function is a CHOOSE, so it is first shown to exist (`FoldIsDefined`, `Recursion`);
then the chosen one unfolds. `SelectSeq` and the sorts of the community modules are
opaque to the provers: `Window`, `Timeline` and `Incidents` order by rank (`inOrder`,
`order`, `inTurn`), the checks count the positions of a list (`EventMatch`,
`SeriesAbove`), and the log buffer drops from the front by a count, as the code does.

**The feed** (`PodFeedProofs`). That `snap.pods` is a past member set says nothing
of the item on offer, so what TLC checks is not inductive. `Base` adds the types
(`TypeOK`), that successive revisions differ in one name and never swap one
incarnation for another (`HistOK`), and where the goroutines are relative to each
other (`FlowOK`): an item on offer is exactly the conversion of the event at
`cursor`, a stream exists only while consuming, `snap.pods` is the cut of
`retained`. From it:

* `TypesHold`, `StaleHolds`.
* `NoGhostHolds`: `GhostInv` says that the retained set agrees in incarnations with
  the revision the watch has passed. It survives abandoned listings and orphaned
  pods.
* `MomentHolds` and `ViewHolds`: `ExactInv` says that after a complete listing the
  retained set *is* the member set there. It needs the assumption that retained
  pods are not orphaned, `"orphan" \notin Changes` in the theorems; without it the
  pump skips an event that matters, and the statement is false.
* `CutHolds`, under the same assumption: an unflagged roster was not cut, by
  `WithinTheBound` (a set of at most `MaxPods` names is its own cut) and `FlagInv`
  (the flag is the comparison of what is retained with the bound).

The lemmas carry one event each: what `PumpPod` returns and what `Apply` makes of
it (`ChangedIsTheOne`, `SkipKeeps`, `FoldTracks`), what a complete or a cut listing
contains (`ListIsMembers`).

**The other feeds** (`ResourceFeedProofs`). For any table of profiles. `FeedInv` is
what the three properties have in common: a listing is part of one revision and,
unless cut, all of its members but those it left out (`FetchInv`, `ListingOf`); an
unflagged kind tells what was last folded in (`KeptInv`, `Told`); an offer is the next
change to fold in, and a pump with nothing on offer has passed what is read
(`StreamInv`). To tell a revision (`Tells`) is to retain its members, but for those that
a listing missed, and to retain nothing else, but for what strayed to another cluster and
pods whose owners could not be proved: a skipped event keeps it because the one object it
is about is one of those. `UnflaggedHolds` and `BlindSpotHolds` are then a comparison of
what is shown with what is retained. `EvictedHolds` is about orders: what the policy drops
ranks after everything the bound keeps, or is tied with another such entry.
`PutAllKeepsParts` is what the fold over a listing's items retains of them.

**The history** (`HistoryProofs`), for `CaptureSpec`: any objects, contents, scopes and
bounds. Every mutation is a recursion over evictions, or over a listing whose every
item is a mutation with evictions of its own. `FoldOfASequence` unrolls a fold into
a run; `EnforceBoundsRuns`, `EndAllRuns` and `SeeAllRuns` are the runs of the code's
three loops, and each proof goes along the run by a least counterexample. What the
steps carry are three relations between a store and a later one: `Trimmed` (revisions
went, the mark came, what is known of the objects did not change), `Recorded` (one
object's content is recorded and every other's kept) and `Seeded` (so for each of
the listed ones). `CaptureInv` adds to what the store is (`Store`, `Honest`) what the
server was (`HistInv`: its revisions differ in one object), where a scope is in it
(`ScopesInv`) and that a scope that has seeded knows each of its objects as it was there,
but for those whose latest news it let go by (`KnownInv`, `missed`). `KnowsHolds`,
`HonestHolds` and `GenerationHolds` follow.

**The timeline** (`HistoryProofs`), for `CaptureSpec`. What the revisions say of each
other is not inductive on its own: whether the next revision may follow an object's
newest depends on what the store still knows of the object, on what was evicted from
under it, and on whether the object can come back. `TimelineInv` is `CaptureInv` and

* `Sound(store, leftOut)`: the numbers ascend along the timeline, the byte total is the
  sum of the costs (`Sums`), each object's revisions are a `Life`, a live object's count
  and coalescing target are its own (`Figures`), every bound holds (`Bounded`), and the
  newest revision of an object that is known says what is known of it (`Speaks`);
* `HeardInv` and `GhostsInv`: what the timeline or the states speak of was at the
  server by where its scope is, and an object the timeline still speaks of but the
  states no longer know (`Buried`) is gone from there on. With `NeverReused`, the
  server's promise about UIDs, it follows that an object observed for the first time has
  left no revisions behind, unless it was left out.

The second argument is the objects that a listing which claimed to be complete left out.
Of such an object the newest revision may be a death that nobody saw (`Unseen`), and it
may be born again after it; its count then starts over, and is no more than what the
timeline holds of it. Everything else is said of it as of any other.

Three relations carry a step. An eviction takes an object's oldest (`Oldest`), so a
life without it is one and its newest stays (`LifeWithoutOldest`); a revision that is
added or rewritten keeps the life (`LifeGoesOn`, `LifeRewritten`); and a mutation, or a
run of them over a listing, makes nothing known but what it observed and leaves nothing
behind but what it deleted (`Follows`, `RunFollows`). `BooksHold`, `BoundsHolds` and
`LivesHold` follow; for the total, `TotalIs` shows that the code's running figure and
the fold of the property are one number.

**The journal** (`HistoryProofs`). `IInv` is `TypeOK /\ Standing`: the file is
`log[at]`, the file with what is in flight is `log[cut]`, and with what is pending
it is the last of `log`. `MergeAssociates` is the lemma everything rests on:
merging a failed transaction back under newer calls is the same as never having
swapped. `TypesHold`, `NothingIsLostHolds` and the refinement `WriteBehindHolds`
follow.

**The store and its journal through restarts** (`HistoryProofs`), for `HistorySpec` with a
journal attached: the hypothesis is `Persisted`, since a store without one makes no
calls and has nothing to mirror. That the sum reads back as the store is not inductive.
It does not say that the calls to come never lower the file's counter, that a restart
finds no revision above it, or that what stands under a key belongs there. `JournalInv`
adds:

* `Filings`: pending writes, writes in flight and file hold under each key what its
  bucket holds, a revision under its own sequence;
* `Topped` and `Rises`: no revision in the file is above the file's counter, and the
  counter does not fall from the file to what is being written and from there to what is
  pending. It is what survives any cut of the calls by a swap, a failure or a kill, and
  `SequencesHold` reads it off a commit: a number the file has counted as issued stands
  there for the revision it stood for, or for none;
* `Carries`: the calls that remain of the mutation in progress lead (`Leads`), one by one,
  from what was called to a file that `Holds` the store's revisions, objects, counter and
  mark.

A mutation, and each eviction of its loops, extends the calls by its own and the store
by the same (`EvictCarries` and its like for the other operations, then along the runs
of the loops as for the timeline). A call that is made moves from the calls to come to
what is pending, and `Leads` is the same run without its first step. A restart forgets
both: the file alone is primed from, `RevisionsLoaded` and `SeqLoaded` say that
reading a file back gives its revisions in the order of their numbers and its counter,
and the trim of `prime` is one more run, mirrored call by call. `MirrorHolds` and
`SequencesHold` follow, for any number of restarts, orderly or not, and
`HistoryTypesHold` with them. What the store loads after a kill is a store of one
moment of the calls, possibly inside a mutation (section 5); the invariant does not
say that its books balance, which is why `BooksHold` and `LivesHold` are about
`CaptureSpec`.

**The followers** (`LogFollowProofs`). `SilentInv` says that a container called unread
has a follower that is still there, and that `Run` returns to no follower:
`SilentHolds`, for any containers. `AdmittedInv` adds that whom the runner knows is that
member's and was not told to stop (`RunningIsItsOwn`), that any older one was
(`OneEach`, which needs how `Reconcile` numbers several new followers at once,
`RankGrows`), whom the matcher last heard of a container from (`SpokeIsItsOwn`), and that
a follower that has the last word is called unread before it opens or waits (`Speaking`):
`AdmittedHolds`, with no assumption on who leaves when. What it excepts is the last word
of a follower that was dismissed. `JoinInv` says of a container's last retained entry
that it is a marker, or the line its follower stands at, or of a follower that is past
reading and will mark the gap before it opens again. Both bounds drop from the front
(`OwnDrops`, `AllDrops`), so what is left ends as it did or is empty: `JoinsHold`, for any
bounds. How the clock orders the entries does not matter.

**The evidence** (`EvidenceProofs`). `EInv` says of every stage of an assembly that
what was read is a prefix of the scan of the report's own life and generation
(`Assembling`), that the cache is the whole collection of a scan (`CacheIsWhole`), and
that the store is of the report's (`StoreIsWhole`), unless two lives of the sidecar have
counted up to that generation (`CountedAgain`): `OnePublicationHolds`. A failure marks
what it leaves in place (`FailureIsMarked`), hence `AbsenceHolds`, for every
catalog and every Cluster beside it.

**The sweeps** (`SweepsProofs`). `SInv` says that an entry of the roster or of a sweep
under way names a pod that was there, and that as long as that pod still is, the address
of the entry is its own (`Known`), since no two pods have one at a time
(`OneAddressEach`); whoever answers there afterwards, a report filed under a pod that is
still there was given by it (`Filed`). `AccountsHolds` and `ReportsHold` are two of its
conjuncts.

`WInv` is the invariant of the metrics window. It relates every ring to the
history variable `rates`: the ring holds the last of what was pushed into it, at the
positions its laps put them, the open bucket is the rates of the unfinished
interval, every closed one the rates of its own, and a baseline is `Never` or a reading
of this process, since `Import` brings none back; the snapshot being written and the
one on disk are each the window of one moment. A ring is followed by its laps: `n`
pushes are so many whole turns and a rest, and `refill`, which `Import` uses, starts a
ring over at the first. `NoRateHolds` reads off the baselines; `WindowHolds` adds that
the columns of a chart are the rates in order (`InOrder`), and that the breaks
between them are where no sweep was (`GapBreaks`).

**The clocks** (`DiagnosisProofs`). `HInv` says that no held state began, and no
clock of one started, after now, and that out of contact every clock is older than
the loss: `ClockHolds`.

**The verdicts** (`DiagnosisProofs`), for any checks, any number of instances, any
bounds, horizon and span; what a source may show is the module's (`Values`,
`InstanceValues`). That a clear is true and a match current is not inductive: a verdict
says nothing of the readings it was not given, and those decide the next one.
`GhostInv` is

* `TypesInv`: what each source holds. A snapshot that is neither stale nor cut is what
  there is, and a held Cluster has a clock for each of its states;
  An instance manager that gives no version never did (`NamedInv`), and the timeline
  holds no change that was not made (`HistoryInv`);
* `Witnessed`: the ghosts at the moment. What a console in contact with everything
  would find now has `ill` at now, and what it would not has `calm` at now;
* `ReadingsTold`, `SamplesTold`: every reading and every sample that is kept, however
  old, was true when it was taken: what it says against its subject was there to find
  then, what it does not say was not.

The rest is by kinds of rule. One that reads snapshots alone (`OfMoment`) either gives
its reason or matches nothing that is not there, and all that is unless a list was cut
(`Finds`, `Agrees`, `MomentLately`, from a lemma for each rule, as `ScheduleFound` for
`scheduleFiring`): the reasons it asks for are exactly those that could tell the two
apart, but for pooler pods that were never listed. One that counts in the timeline counts
no more than was made, and no less unless something went unrecorded (`RecordsGrow`,
`HistoryLately`, `PastCalm`, which is the log's too). One that reads a sweep
(`InstantsLately`, `ReportsLately`, `SeriesLately`) judges readings that are current, and
each tells of a moment at most `Horizon` ago; a series needs two samples of the trailing
`Span`. `DriftLately`, `PoolerLately` and `AgreementLately` are the others. `GhostsClear`
and `GhostsMatch` put them together: `ClearHolds` and `MatchHolds`. The exceptions are
those of section 3, and each is a fact about what the code looked at (`CutShort`,
`NeverAnswered`, `NeverListed`, `Unrecorded`, `NeverHeard`): of everything else a clear
verdict is compared with the cluster's own `truth`.

The proof is what found the exception `Composed` of `ClearIsTrue`. Two checks conclude from
several readings at once, and each reading was true of its own moment; their
conjunction need not have been of any (section 5). The run's bounds had hidden it.

**The incidents** (`DiagnosisProofs`). `OneParent`, `EachFindingIsInOneIncident` and
`CardsShowEachOnce` need no specification: they are about `parentOf`, the climb and the
cards of `groupIncidents`, for any list of findings and any declared causes. A climb
that would never end, because the declared causes loop, is refused, and the finding
heads its own incident. Where a climb ends, the climb of each finding it passes through
ends too (`ClimbIs`, `ClimbEnds`), so a cause has the root of what follows from it and
is one step nearer to it (`CauseIsAbove`): the two are in one card, and the sort of a
chain by depth puts the cause first. Ranking a finite set by how many come before each
is a sort (`InTurn`), used for the chains and for the cards, whose order is by severity
first. `EachFindingHolds` adds that what a screen's run yields is such a list whatever
its sources hold (`RunIsListed`), which takes the types of `GhostInv`.

**The operations** (`OperationsProofs`). `Inv` says that a token is bound to the
form and the process that issued it, that every request sent was confirmed by a
form in time, and that two backups done have two names: `ConfirmedHolds`,
`AcceptedHolds`. What is on record of a request is one served submission's, and its level
was granted by a served approval of it, by the decision itself or, under a denial, by
an earlier one: `DecisionHolds`.

**Model-checked only.** Liveness (`Converges`, `HalfAWatchEnds`,
`EventuallyDurable`, `EveryMemberIsFollowed`, `RunReturns`, `EventuallyCurrent`)
and anything about ENABLED. Of safety, `LimitsAfterRestart`: retention is proved for
`CaptureSpec`, where the process lives (`BoundsHolds`, which no run repeats), and the run
of `HistoryJournal` checks it through a restart with a lowered limit, as far as it
holds there (section 5).

## 5. Known divergences

Where the code and what is said of it disagree, or where a model had to be kept
away from something it would otherwise break on. Only the first has a run.

* **Promotion cannot be confirmed from the console's own link** (`PromoteLinked`).
  The link names no instance, so the token of the form is bound to none, and the
  instance the reader fills in never verifies: "confirmation expired or invalid".
  The other way round, a confirmation of any other operation opened with
  `?instance=` mints a token that no submission verifies (`web/ops.go`).
* **The truncation of an abandoned listing is forgotten** (`kube/pods.go:86`).
  `FetchPods` stops once it holds more than `MaxPods` members, and the flag is
  recomputed from what is retained: when deletions bring that under the bound, the
  roster looks whole and is not. `CutIsFlagged` is therefore about complete
  listings. A pod whose owner reference is removed stays in the roster
  (`kube/pods.go:126` against `:143`). An item on offer may be dropped at shutdown
  (`observe/loop.go:167`).
* **What leaves the cluster stays shown.** A watch event on an object that is no member
  is dropped before its type is looked at (`kube/backups.go:315`,
  `kube/databases.go:189`, `kube/infrastructure.go:377`). An object edited to name
  another cluster, or given another owner, stays on the page as it last was, unflagged,
  and its deletion is dropped the same way; only the next listing removes it.
* **A pooler pod whose owners could not be read** is left out of the listing, or its
  event passed over, with a log line and no flag (`kube/poolerpods.go:74-82`,
  `:243-265`); the failure is remembered for the life of the watch. The listing is
  recorded as complete all the same (`kube/poolerpods.go:85`), so the timeline tells a
  deletion that was none, and a second birth when a later listing can prove the pod. The
  count of its revisions then starts over and its limit by object may be exceeded.
* **An event whose object does not convert is not recorded** (`kube/record.go:97-101`),
  and the timeline does not say so.
* **A watch that is denied for good is retried at the initial delay**
  (`observe/loop.go:203`): each successful seed resets the backoff, against
  `observe/collector.go:23`. A follower's backoff, the other way round, is never
  reset (`logstream/runner.go:198`), so a container restarted a few times a day is
  re-attached after the longest delay.
* **The access review queue** shows the longest waiting first
  (`observe/accessreview.go:184-199`), while its retention drops the oldest because
  "the queue is read newest-first" (`:220-223`). A flood pushes a waiting request
  off the page. Events over the bound are dropped without a flag
  (`observe/events.go:182`), deliberately; quotas report no cut at all.
* **One deletion is recorded twice** (`history/store.go:339-344`): the pods watch
  forwards the deletion of a pooler's pod, the store forgets the object, the slower
  watch's modification re-creates it and its deletion is recorded again. `Capture`
  has one scope for it.
* **Half a mutation can reach the file** (`history/bolt/bolt.go:237`): a flush may
  swap between two calls of one mutation, and a kill then leaves the revision
  without its object, or an eviction without its mark. `MirrorIsExact` counts the
  calls not made yet. The generation goes back at a restart
  (`history/store.go:131`, `:287`, against "monotonic across the restart").
* **Priming re-enforces less than it says** (`history/store.go:157` against `:98-102`):
  the limit by object costs a live object one revision at most, and an object that is
  gone none, so a file written under a higher limit stays above the new one until
  later changes or the two other limits wear it down (`Allowed`).
* **A sequence may be issued twice** (`history/history.go:131`, `:263`,
  `history/bolt/bolt.go:87-89`): one that was issued, and shown to a reader as the
  handle of a revision, but not flushed before a kill was never counted, and the next
  process gives it to another revision.
* **Log following.** A dismissed follower drops its container's coverage on its way
  out, and may report the stream it was opening, possibly after its successor has said
  that it is not reading (`logstream/runner.go:171`, `:115-142`): until the successor
  speaks again an unread container counts as read, or as none. At startup nothing is unread
  until the first follower began (`diagnose/stale.go:234-270`, `runner.go:98-110`), and a
  reconnection cancelled in its delay joins two lines of one container without a
  marker when another follower takes over (`runner.go:176` against
  `buffer.go:97-100`); `JoinsAreMarked` is about the lines of one follower. `Forget`
  of matcher and buffer is never called.
* **The evidence** (`evidence/poller.go:66-70`, `:143`). The collection is kept for as
  long as the generation is equal, and a page is checked for its revision and its
  generation alone (`evidence/client.go:315`). A sidecar that starts over and counts up
  to the same generation has the old collection shown, or the pages of two scans joined,
  under its new report.
* **The sweeps.** Nothing verifies who answers: readings are filed under the pod whose
  address the roster gave, and the certificate of the status port names a Service of the
  cluster, any of whose pods presents it (`instancestatus/instancestatus.go:282-310`). A
  pod that took over the address of one that is gone answers in its name until a roster
  no longer holds it. A roster out of contact is swept by the exporters' sweep as it is
  (`scrape/scrape.go:120`), so a reading may be filed under a pod that is no longer
  there, and a pod recreated under its name yields a rate across both. With fewer
  tracked instances than the roster has, they evict each other every sweep.
* **Verdicts that clear without having looked**, against "stale data can neither clear a
  check nor match one" (`src/web/docs/guides/diagnostics.md:63`) and the head of
  `diagnose/stale.go:24-31`: a check whose list was cut at its ceiling, except the few
  that ask; an instant or series check over an instance whose exporter never answered;
  a container check over pooler pods never listed (`stale.go:105`, as its comment
  says); a timeline check over changes that capture missed while it was out of contact,
  or has evicted (`stale.go:214`); a log check over lines written while no stream was
  open, before or between followers. `ClearIsTrue` excepts each by name. `AllOf` clears
  when its lead matches nothing (`diagnose/rule.go:1426` against `:1403`).
* **Other verdicts.** `EventMatch` is unavailable or not depending on the order of its
  events (`rule.go:457`). The quota detector keeps the
  three newest warnings before it looks for a quota in them
  (`diagnose/eventbacked.go:34-55`), so a refusal hides behind three others, against
  `src/web/docs/guides/diagnostics.md:62`. The primary disagreement check may match up to
  `Horizon` after a switchover (`rule.go:1520`). Two verdicts clear on readings of
  several moments, each true of its own: the drift of instance managers
  (`diagnose/instancestatus.go:312`), when an upgrade passes along three instances
  between their reports, and the step of a playbook that asks whether the pooler is up
  (`diagnose/triage/playbooks.go:88`), whose checks read the pooler now and its queue
  over `Span`; at no one moment need there have been nothing to find. The clock of a
  held state is kept across lost contact (`observe/store.go:49-65` against
  `diagnostics.md:298`), which is the exception `ClockIsAFloor` makes.
* **Pages.** Events on this cluster's ScheduledBackups are dropped, neither admitted
  nor withheld, when Backups were cut and schedules were not, against "an unreadable
  catalog withholds its kind rather than guessing" (`web/viewmodel.go:240-243`). The
  disagreement view says that no pod carries the primary label when the roster is
  stale or cut. The cluster state reads current while its snapshot is stale, a
  playbook when its steps are off or do not apply.
* **Cross-check.** A backup completed after the scan is reported as a discrepancy
  until the next one.
* **Decisions** are not restricted to pending requests by the console
  (`observe/accessreview.go:76-78`). A denial names no level, and the merge leaves that of
  an earlier approval beside it (`kube/ops.go:147-149`), against "the level granted by an
  approval, else empty" (`web/accessreview.go:94-95`) and "empty until approved"
  (`observe/accessreview.go:65-66`). A token binds a request's name, not its UID. A
  promotion's target is not looked up in the roster. A write whose request timed out may
  still land: `AcceptedIsDone` says nothing of failed outcomes.

## 6. What is not modelled, and why

* Conversions of Kubernetes objects into displayed fields, manifest normalisation,
  hashing and diffing, exporter text, page rendering, configuration parsing, the
  redaction of error texts, the rules' wording: no state, and no order matters in
  them. They are half of the code.
* `diagnose/catalog` and `catalog/cnpg`: tables over `Conditions`, of which a kind
  is modelled once. Their relation graph has 66 edges among 152 checks, no loop and
  no cause that is missing; `Incidents` does not rely on it.
* `observe/kubeversion.go`: one request repeated, one value kept.
* `application` and `src/cmd/pgconsole`: listening, serving and draining are
  `net/http`'s; what ends what, and in which order, is in `HistoryJournal`'s orderly
  stop.
* A pod past the roster's ceiling is not followed by the log runner; `LogFollow` takes
  its rosters as they come.
* In the feed, the remembered operator image of a pods snapshot. In the metrics
  window, the extremes of a series. In the log sinks, which patterns match a line.

Left for later, in this order: two scopes of `Capture` whose watches overlap, once
the store keeps what it forgot for as long as the slower watch may speak of it;
the composition of the roster (`PodView`) with `LogFollow` and `Sweeps`, which take
their rosters from an arbitrary publisher now; several sources of one screen out of
contact; lemmas about `Timeline`'s operators one call at a time, where no fold is
needed.
