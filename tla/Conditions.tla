----------------------------- MODULE Conditions -----------------------------
(***************************************************************************)
(* internal/diagnose: what every check of the diagnostics screen concludes  *)
(* from the published snapshots.  An input holds, per source, whether it    *)
(* was ever observed, whether contact has been lost since, and its facts;   *)
(* a facts record keeps what the checks tell apart.  A result is the reason *)
(* the check could not run, or the subjects it matched: an instance, pod or *)
(* named object, or the cluster.                                            *)
(***************************************************************************)
EXTENDS Integers, Sequences, FiniteSets

CONSTANTS
    Instances,  \* names the per-object checks judge
    MinAge,     \* how long a state must hold: MinAge, Grace, Within, Since
    Horizon,    \* the age past which a sweep's reading is refused
    Span        \* SeriesAbove.For, HistoryChanges.Within

ASSUME TimesAssumption == {MinAge, Horizon, Span} \subseteq Nat

Cluster == "cluster"    \* clusterSubject
Nil == -1               \* a nil pointer in the facts

Unavailable(reason) == [because |-> reason, on |-> {}]
Matches(subjects) == [because |-> "", on |-> subjects]
Clear == Matches({})
OnCluster(holds) == Matches(IF holds THEN {Cluster} ELSE {})

\* The early returns: a check runs once none of its sources has a reason.
Unless(reason, result) == IF reason # "" THEN Unavailable(reason) ELSE result
Or(first, second) == IF first # "" THEN first ELSE second

-----------------------------------------------------------------------------
(* stale.go: the reasons a source is not judged.                            *)

\* Mutant: a snapshot serves as long as there is one.
unreadUnlessSeen(source) == IF source.has THEN "" ELSE "unobserved"

unread(source) ==
    IF ~source.has THEN "unobserved" ELSE IF source.stale THEN "stale" ELSE ""

clusterUnavailable(in) ==
    Or(unread(in.cluster), IF in.cluster.facts.present THEN "" ELSE "absent")

\* A deployment without poolers has no roster of their pods.
poolerPodsUnavailable(in) ==
    IF in.poolerPods.has /\ in.poolerPods.stale THEN "stale" ELSE ""

offUnless(on) == IF on THEN "" ELSE "off"
sourceOff(reason) == reason = "off"

evidenceUnavailable(in) ==
    LET report == in.evidence.facts IN
    Or(unread(in.evidence),
        Or(IF report.scanned THEN "" ELSE "no completed scan",
            Or(IF report.sourceStale THEN "stale" ELSE "",
                IF report.known THEN "" ELSE "unrecognised")))

\* A log's silence counts once every container is being read.
logsIncomplete(in) ==
    Or(unread(in.pods), IF in.logs.unread = {} THEN "" ELSE "unread")

-----------------------------------------------------------------------------
(* status.go and rule.go: the Cluster.                                      *)

heldKeys(facts) ==
    {<<"phase", facts.phase>>}
    \cup {<<"listed", n>> : n \in facts.listed}
    \cup {<<n, facts.timelines[n]>> : n \in {n \in Instances : facts.timelines[n] > 0}}
    \cup (IF facts.switching THEN {<<"switching">>} ELSE {})
    \cup (IF Nil \notin {facts.ready, facts.desired} /\ facts.ready < facts.desired
          THEN {<<"short", facts.ready, facts.desired>>} ELSE {})

\* What a held state is about.
subjectOf(key) ==
    CASE key[1] = "listed"      -> key[2]
      [] key[1] \in Instances   -> key[1]
      [] OTHER                  -> Cluster

\* heldEvidence, of the states that would match: none may be without a
\* clock, and those match that have held long enough.
Held(in, keys) ==
    IF \E k \in keys : k \notin DOMAIN in.cluster.since THEN Unavailable("no record yet")
    ELSE Matches({subjectOf(k) : k \in {k \in keys : in.now - in.cluster.since[k] >= MinAge}})

OnTheCluster(in, result) == Unless(clusterUnavailable(in), result)

ClusterCondition(in) == OnTheCluster(in,
    LET condition == in.cluster.facts.condition IN
    CASE ~condition.set          -> Clear
      [] condition.since = Nil   -> Unavailable("no transition time")
      [] OTHER                   -> OnCluster(in.now - condition.since >= MinAge))

ClusterPhase(in) == OnTheCluster(in, OnCluster(in.cluster.facts.phase = "bad"))

ClusterPhaseHeld(in) == OnTheCluster(in,
    Held(in, {<<"phase", in.cluster.facts.phase>>} \cap {<<"phase", "bad">>}))

StatusListed(in) == OnTheCluster(in,
    Held(in, {<<"listed", n>> : n \in in.cluster.facts.listed}))

ReplicaSwitchStuck(in) == OnTheCluster(in,
    Held(in, IF in.cluster.facts.switching THEN {<<"switching">>} ELSE {}))

InstancesShort(in) == OnTheCluster(in,
    LET facts == in.cluster.facts IN
    IF Nil \in {facts.desired, facts.ready} THEN Unavailable("no count")
    ELSE Held(in, IF facts.ready < facts.desired
                  THEN {<<"short", facts.ready, facts.desired>>} ELSE {}))

TimelineDivergence(in) == OnTheCluster(in,
    LET facts == in.cluster.facts IN
    IF facts.timeline = Nil THEN Unavailable("no timeline")
    ELSE Held(in, {<<n, facts.timelines[n]>> :
                      n \in {n \in Instances : facts.timelines[n] \notin {0, facts.timeline}}}))

PrimaryFailing(in) == OnTheCluster(in,
    LET since == in.cluster.facts.failingSince IN
    OnCluster(since # Nil /\ in.now - since >= MinAge))

\* Expiring within a window, or with none, expired.
CertificateExpiring(in, within) == OnTheCluster(in,
    Matches({n \in Instances :
        LET left == in.cluster.facts.expires[n] - in.now IN
        left <= within /\ (within > 0 => left > 0)}))

\* RoleUnreconcilable and TablespaceError: the names the operator reports.
Reported(in) == OnTheCluster(in, Matches(in.cluster.facts.reported))

moving(facts) == facts.target # "" /\ facts.target # facts.current

PrimaryMismatch(in) == OnTheCluster(in,
    LET facts == in.cluster.facts IN
    OnCluster(/\ "" \notin {facts.current, facts.target}
              /\ facts.current # facts.target
              /\ facts.targetAt # Nil
              /\ in.now - facts.targetAt >= MinAge))

-----------------------------------------------------------------------------
(* The primary lease, the quorum, the image catalogs.                       *)

OnTheLease(in, result) == Unless(Or(unread(in.lease), clusterUnavailable(in)), result)

PrimaryLeaseExpired(in) == OnTheLease(in,
    LET lease == in.lease.facts
        facts == in.cluster.facts IN
    CASE ~lease.present -> Clear
      [] lease.present /\ lease.holder = "" ->
            OnCluster(/\ facts.current # "" /\ ~moving(facts)
                      /\ lease.renewed # Nil => in.now - lease.renewed >= MinAge)
      [] lease.present /\ lease.holder # "" /\ lease.renewed = Nil -> Unavailable("no renewal time")
      [] OTHER -> OnCluster(in.now - (lease.renewed + lease.duration) >= MinAge))

PrimaryLeaseHolderMismatch(in) == OnTheLease(in,
    LET lease == in.lease.facts
        facts == in.cluster.facts IN
    OnCluster(/\ lease.present
              /\ "" \notin {lease.holder, facts.current}
              /\ ~moving(facts)
              /\ lease.holder # facts.current))

QuorumStandbysShort(in) == Unless(unread(in.quorum),
    LET quorum == in.quorum.facts IN
    CASE ~quorum.present \/ quorum.number <= 0 -> Clear
      [] quorum.present /\ quorum.number > 0 /\ quorum.cut -> Unavailable("cut")
      [] OTHER -> OnCluster(quorum.standbys < quorum.number))

\* resolveCatalog: the lookup, or the reason there is none.
resolveCatalog(in) ==
    LET ref  == in.cluster.facts.catalogRef
        list == in.catalogs.facts IN
    CASE clusterUnavailable(in) # ""          -> [why |-> clusterUnavailable(in), is |-> "none"]
      [] clusterUnavailable(in) = "" /\ ~ref  -> [why |-> "", is |-> "none"]
      [] clusterUnavailable(in) = "" /\ ref /\ unread(in.catalogs) # ""
                                              -> [why |-> unread(in.catalogs), is |-> "none"]
      [] OTHER ->
            CASE list.listed  -> [why |-> "", is |-> "found"]
              [] ~list.listed /\ list.cut  -> [why |-> "cut", is |-> "none"]
              [] OTHER        -> [why |-> "", is |-> "absent"]

ImageCatalogMissing(in) ==
    Unless(resolveCatalog(in).why, OnCluster(resolveCatalog(in).is = "absent"))

ImageCatalogLacksMajor(in) == Unless(resolveCatalog(in).why,
    LET major  == in.cluster.facts.major
        images == in.catalogs.facts.images IN
    CASE resolveCatalog(in).is # "found" -> Clear
      [] resolveCatalog(in).is = "found" /\ major = Nil -> Unavailable("no major version")
      [] OTHER -> IF major \in images THEN Clear
                  ELSE Unless(IF in.catalogs.facts.imagesCut THEN "cut" ELSE "", OnCluster(TRUE)))

-----------------------------------------------------------------------------
(* Pods, poolers, claims, quotas, declared objects.                         *)

\* A container's reason; the poolers' pods are judged too when there are any.
ContainerState(in) == Unless(Or(unread(in.pods), poolerPodsUnavailable(in)),
    Matches({n \in Instances : \/ in.pods.facts.reason[n] = "bad"
                               \/ in.poolerPods.has /\ in.poolerPods.facts.reason[n] = "bad"}))

imagePull(in) == Unless(unread(in.pods),
    Matches({n \in Instances : in.pods.facts.reason[n] = "bad"}))

PoolerPhase(in) == Unless(unread(in.poolers),
    Matches({n \in Instances : in.poolers.facts.phase[n] = "bad"}))

PoolerShort(in) == Unless(unread(in.poolers),
    Matches({n \in Instances : LET declared == in.poolers.facts.declared[n] IN
                               declared # Nil /\ in.poolers.facts.ready[n] < declared}))

volumeBinding(in) == Unless(unread(in.infrastructure),
    OnCluster(\E n \in Instances : in.infrastructure.facts.phase[n] \notin {"", "Bound"}))

quotaExhausted(in) == Unless(unread(in.quotas), Matches(in.quotas.facts.exhausted))

DeclaredObjectFailed(in) == Unless(unread(in.databases), Matches(in.databases.facts.refused))

-----------------------------------------------------------------------------
(* The backups and their object store.                                      *)

OnBackups(in, result) == Unless(unread(in.backups), result)

BackupPhase(in) == OnBackups(in,
    Matches({n \in Instances : LET b == in.backups.facts.backup[n] IN
                               b.phase = "bad" /\ in.now - b.created >= MinAge}))

ScheduledBackupSuspended(in) == OnBackups(in,
    Matches({n \in Instances : in.backups.facts.schedule[n].suspended}))

ScheduledBackupOverdue(in) == OnBackups(in,
    Matches({n \in Instances : LET s == in.backups.facts.schedule[n] IN
        ~s.suspended /\ s.next # Nil /\ in.now - s.next >= MinAge}))

backupCadence(in) == OnBackups(in,
    Matches({n \in Instances : LET s == in.backups.facts.schedule[n] IN
        ~s.suspended /\ s.often}))

\* recoveryWindow: the store's report, none when it is not referenced.
OnTheStore(in, result) == OnBackups(in,
    Unless(IF in.backups.facts.store = "unreadable" THEN "unreadable" ELSE "", result))

StoreBackupFailed(in) == OnTheStore(in,
    LET facts == in.backups.facts IN
    OnCluster(/\ facts.store = "present" /\ facts.lastFailed # Nil
              /\ facts.lastGood # Nil => facts.lastFailed > facts.lastGood))

StoreNoBackup(in) == OnTheStore(in,
    LET facts == in.backups.facts IN
    OnCluster(/\ facts.store = "present" /\ facts.lastGood = Nil
              /\ \E n \in Instances : /\ facts.schedule[n].created # Nil
                                      /\ in.now - facts.schedule[n].created >= MinAge))

-----------------------------------------------------------------------------
(* Events, newest first.                                                    *)

maxQuoted == 3

\* warningEvents: the newest of the reasons, at most maxQuoted.
warningEvents(events, reasons) ==
    LET found == {i \in DOMAIN events : events[i].reason \in reasons} IN
    {events[i] : i \in {i \in found : Cardinality({j \in found : j < i}) < maxQuoted}}

quotaRefusal(in) == Unless(unread(in.events),
    LET quoted == warningEvents(in.events.facts.list, {"FailedCreate", "FailedScheduling"}) IN
    OnCluster(\E e \in quoted : e.quota))

podScheduling(in) == Unless(unread(in.events),
    LET quoted == warningEvents(in.events.facts.list, {"FailedScheduling"}) IN
    OnCluster(\E e \in quoted : ~e.quota))

\* eventAdmitted: an event on a Backup is the cluster's when its catalog
\* lists it.
admitted(in, e) == e.kind = "Backup" => in.backups.facts.backup[e.object].phase # ""

\* The events are looked at in order, until maxQuoted are quoted or one
\* cannot be attributed.
EventMatch(in, kinds) == Unless(unread(in.events),
    LET list == in.events.facts.list
        accepted == {i \in DOMAIN list : list[i].reason = "bad" /\ list[i].kind \in kinds}
        quotedBefore(i) == Cardinality({j \in accepted : j < i /\ admitted(in, list[j])})
        examined == {i \in accepted : quotedBefore(i) < maxQuoted}
        asBackup == \E i \in examined : list[i].kind = "Backup" IN
    Unless(IF asBackup THEN unread(in.backups) ELSE "",
        Matches({list[i].object : i \in {i \in examined :
                    /\ admitted(in, list[i]) /\ quotedBefore(i) = 0}})))

-----------------------------------------------------------------------------
(* The exporters' readings, each with the time it was taken.                *)

\* Mutant: a reading is current whatever its age.
currentAtAnyAge(in, reading) == in.now >= reading.at

\* freshness.current: what a sweep stopped refreshing is refused.
current(in, reading) == in.now - reading.at <= Horizon

\* Nothing matched is a clear only when nothing was refused.
Judged(subjects, refused) ==
    IF subjects = {} /\ refused # {} THEN Unavailable("refused") ELSE Matches(subjects)

\* InstantNonZero, InstantZero: on each instance that reports the key.
Instant(in, bad) == Unless(offUnless(in.metrics.on),
    LET readings == in.metrics.readings
        refused  == {n \in DOMAIN readings : ~current(in, readings[n])} IN
    Judged({n \in DOMAIN readings \ refused : readings[n].value = bad}, refused))

\* InstantShortfall: expected and observed are read by one sweep.
InstantShortfall(in) == Unless(offUnless(in.metrics.on),
    LET readings == in.metrics.readings
        refused  == {n \in DOMAIN readings : ~current(in, readings[n])} IN
    Judged({n \in DOMAIN readings \ refused :
               readings[n].expected > 0 /\ readings[n].value < readings[n].expected}, refused))

PrimaryDisagreement(in) == Unless(Or(clusterUnavailable(in), offUnless(in.metrics.on)),
    LET facts    == in.cluster.facts
        readings == in.metrics.readings
        refused  == {n \in DOMAIN readings : ~current(in, readings[n])} IN
    CASE facts.current = "" -> Unavailable("no primary")
      [] facts.current # "" /\ moving(facts) -> Clear
      [] OTHER -> Judged({n \in DOMAIN readings \ refused :
                             (readings[n].value = 0) # (n = facts.current)}, refused))

\* SeriesAbove: the samples of one series, oldest first; sustained takes
\* those of the span.
SeriesAbove(in) == Unless(offUnless(in.metrics.on),
    LET samples  == in.metrics.samples
        last(n)  == samples[n][Len(samples[n])]
        refused  == {n \in DOMAIN samples : ~current(in, last(n))}
        above    == {n \in DOMAIN samples \ refused : last(n).value = 1}
        trailing(n) == {i \in DOMAIN samples[n] : samples[n][i].at >= in.now - Span}
        unjudged == {n \in above : Cardinality(trailing(n)) < 2}
        breached == {n \in above \ unjudged : \A i \in trailing(n) : samples[n][i].value = 1} IN
    Judged(breached, refused \cup unjudged))

-----------------------------------------------------------------------------
(* instancestatus.go: the instance managers' reports.                       *)

\* statusOf and finish.
freshReports(in) ==
    LET readings == in.status.readings IN
    [n \in {n \in DOMAIN readings : current(in, readings[n])} |-> readings[n]]

OnReports(in, subjects) == Unless(offUnless(in.status.on),
    IF ~in.status.swept THEN Unavailable("not swept yet")
    ELSE Judged(subjects, (DOMAIN in.status.readings \cup in.status.failing) \ DOMAIN freshReports(in)))

\* InstanceFlagSet, InstanceReadyWAL, InstanceSlotInactive: a field of the
\* report; PrimaryOnly and ReplicaOnly look at one role.
flagged(fresh) == {n \in DOMAIN fresh : fresh[n].value = 1}
flaggedReplica(fresh) == {n \in DOMAIN fresh : fresh[n].value = 1 /\ ~fresh[n].primary}

InstanceFlagSet(in) == OnReports(in, flagged(freshReports(in)))
ReplicaFlagSet(in) == OnReports(in, flaggedReplica(freshReports(in)))

\* InstanceArchiveFailing: the last failure is after the last success.
archiveFailing(fresh) == {n \in DOMAIN fresh :
    /\ fresh[n].failed # Nil
    /\ fresh[n].archived # Nil => fresh[n].failed > fresh[n].archived}
InstanceArchiveFailing(in) == OnReports(in, archiveFailing(freshReports(in)))

\* InstanceManagerDrift: a report that gives no version is passed over.
NoVersion == 2
drifting(fresh) ==
    IF Cardinality({fresh[n].value : n \in DOMAIN fresh} \ {NoVersion}) < 2 THEN {} ELSE {Cluster}
InstanceManagerDrift(in) == OnReports(in, drifting(freshReports(in)))

-----------------------------------------------------------------------------
(* The repository, the logs, the timeline.                                  *)

RepositoryState(in) == Unless(Or(offUnless(in.evidence.on), evidenceUnavailable(in)),
    OnCluster(in.evidence.facts.state = "unhealthy"))

\* logMatches: a line seen was seen, whatever is unread.
logMatches(in) == Unless(offUnless(in.logs.on),
    IF in.logs.observed # {} THEN Matches(in.logs.observed)
    ELSE Unless(logsIncomplete(in), Clear))

\* windowed: an object's records of the span.
windowed(in, n) == {e \in in.history.entries : e.name = n /\ e.at >= in.now - Span}

\* HistoryIncarnations and HistoryChanges with two asked for.
HistoryIncarnations(in) == Unless(offUnless(in.history.on),
    Matches({n \in Instances : Cardinality({e.uid : e \in windowed(in, n)}) >= 2}))
HistoryChanges(in) == Unless(offUnless(in.history.on),
    Matches({n \in Instances : Cardinality(windowed(in, n)) >= 2}))

-----------------------------------------------------------------------------
(* AllOf, and a rule's version pins.                                        *)

subjectsAgree(a, b) == Cluster \in {a, b} \/ a = b

\* AllOf of two branches: the second is evaluated once the first matched.
AllOf(lead, other) ==
    IF lead.because # "" \/ lead.on = {} THEN lead
    ELSE IF other.because # "" THEN other
    ELSE Matches({s \in lead.on : \E o \in other.on : subjectsAgree(s, o)})

\* evaluateRule: the pin, on what was last reported however old, then When.
evaluateRule(in, pin, when) ==
    LET known == in.cluster.has /\ in.cluster.facts.present /\ in.cluster.facts.major # Nil
        outcome == CASE sourceOff(when.because) -> "off"
                     [] when.because \notin {"", "off"} -> "unavailable"
                     [] when = Clear             -> "clear"
                     [] OTHER                    -> "matched" IN
    IF pin = Nil THEN outcome
    ELSE IF ~known THEN "unavailable"
    ELSE IF in.cluster.facts.major # pin THEN "not applicable"
    ELSE outcome
==============================================================================
