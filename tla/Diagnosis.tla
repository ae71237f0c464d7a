----------------------------- MODULE Diagnosis ------------------------------
(***************************************************************************)
(* One check of the diagnostics screen over sources that come, change and   *)
(* go: watched snapshots that are observed, lost and observed again, sweeps *)
(* that read some instances and not others, log streams that close, and a   *)
(* clock.  The verdict is what diagnose.Run would answer at each moment.    *)
(* The truth is beside it: what a console that sees everything would hold.  *)
(***************************************************************************)
EXTENDS Triage, Incidents

CONSTANTS
    Checks,     \* [rule, pin, varies, most, relations]: a check, what of its
                \* sources varies, how often (a bound), and of a screen of
                \* several checks the causes each declares
    MaxNow      \* bound: the clock

ASSUME BoundsAssumption == MaxNow \in Nat

VARIABLES
    check,      \* the check looked at
    truth,      \* what there is to observe
    in,         \* diagnose.Input: what the console holds, and the time
    changes,    \* bound: changes so far
    begun,      \* when each held state of the Cluster began
    lost,       \* when contact with the Cluster was last lost
    calm,       \* per subject, when there was last nothing to find
    ill         \* per subject, when there was last something to find

vars == <<check, truth, in, changes, begun, lost, calm, ill>>

Watched == {"cluster", "pods", "poolerPods", "poolers", "backups", "events", "infrastructure",
            "quotas", "quorum", "lease", "catalogs", "databases", "evidence"}
Swept == {"metrics", "status"}
Subjects == Instances \cup {Cluster}
Never == -100

\* The names the values below use; none is taken for what a state is named by.
ASSUME NamesAssumption ==
    /\ IsFiniteSet(Instances) /\ {"a", "b"} \subseteq Instances
    /\ Instances \cap {Cluster, "phase", "listed", "switching", "short"} = {}

\* Checks that keep the samples of a series.
Sustained == {"SeriesAbove", "poolerUp"}

\* The sources each rule consults.
ClusterRules == {"ClusterCondition", "ClusterPhase", "ClusterPhaseHeld", "StatusListed",
    "ReplicaSwitchStuck", "InstancesShort", "TimelineDivergence", "PrimaryFailing",
    "CertificateExpiring", "CertificateExpired", "Reported", "PrimaryMismatch",
    "primaryNamed", "operatorSilent"}
BackupRules == {"BackupPhase", "ScheduledBackupSuspended", "ScheduledBackupOverdue",
    "backupCadence", "StoreBackupFailed", "StoreNoBackup", "scheduleFiring"}
StatusRules == {"InstanceFlagSet", "ReplicaFlagSet", "InstanceArchiveFailing", "InstanceManagerDrift"}
MetricRules == {"InstantNonZero", "InstantZero", "InstantShortfall", "SeriesAbove"}
EventRules == {"quotaRefusal", "podScheduling", "EventMatch"}
HistoryRules == {"HistoryIncarnations", "HistoryChanges"}
RulesOfOne == ClusterRules \cup BackupRules \cup StatusRules \cup MetricRules \cup EventRules
    \cup HistoryRules \cup {"PoolerPhase", "PoolerShort", "imagePull", "volumeBinding",
    "quotaExhausted", "DeclaredObjectFailed", "QuorumStandbysShort", "RepositoryState"}
RulesOfMany == {"PrimaryLeaseExpired", "PrimaryLeaseHolderMismatch", "ImageCatalogMissing",
    "ImageCatalogLacksMajor", "definitionRefused", "ContainerState", "BackupEvent", "logMatches",
    "PrimaryDisagreement", "AllOfPodAndPooler", "layer", "AllOfClusterAndPod", "instanceReady",
    "writeService", "poolerUp", "cannotConnect", "screen"}

Consulted(rule) ==
    CASE rule \in ClusterRules                 -> {"cluster"}
      [] rule \in BackupRules                  -> {"backups"}
      [] rule \in StatusRules                  -> {"status"}
      [] rule \in MetricRules                  -> {"metrics"}
      [] rule \in EventRules                   -> {"events"}
      [] rule \in HistoryRules                 -> {"history"}
      [] rule \in {"PoolerPhase", "PoolerShort"} -> {"poolers"}
      [] rule = "imagePull"                    -> {"pods"}
      [] rule = "volumeBinding"                -> {"infrastructure"}
      [] rule = "quotaExhausted"               -> {"quotas"}
      [] rule = "DeclaredObjectFailed"         -> {"databases"}
      [] rule = "QuorumStandbysShort"          -> {"quorum"}
      [] rule = "RepositoryState"              -> {"evidence"}
      [] rule \in {"PrimaryLeaseExpired", "PrimaryLeaseHolderMismatch"} -> {"lease", "cluster"}
      [] rule \in {"ImageCatalogMissing", "ImageCatalogLacksMajor", "definitionRefused"} ->
            {"catalogs", "cluster"}
      [] rule = "ContainerState"               -> {"pods", "poolerPods"}
      [] rule = "BackupEvent"                  -> {"events", "backups"}
      [] rule = "logMatches"                   -> {"logs", "pods"}
      [] rule = "PrimaryDisagreement"          -> {"metrics", "cluster"}
      [] rule \in {"AllOfPodAndPooler", "layer"} -> {"pods", "poolers"}
      [] rule \in {"AllOfClusterAndPod", "instanceReady"} -> {"cluster", "pods"}
      [] rule = "writeService"                 -> {"infrastructure", "cluster"}
      [] rule = "poolerUp"                     -> {"poolers", "metrics"}
      [] rule = "cannotConnect"                -> {"cluster", "infrastructure", "pods"}
      [] rule = "screen"                       -> {"cluster", "pods", "metrics"}

\* The lists with a ceiling.
Lists == {"pods", "poolerPods", "poolers", "backups", "events", "infrastructure", "databases"}

\* A check varies what its rule consults; any list may be cut at its ceiling.
ASSUME SourcesAssumption ==
    \A c \in Checks :
        /\ c.rule \in RulesOfOne \cup RulesOfMany
        /\ {v[1] : v \in c.varies} = Consulted(c.rule)
        /\ \A v \in c.varies : v[2] = "cut" => v[1] \in Lists

\* A screen's checks declare causes, in order of preference.
ASSUME RelationsAssumption ==
    \A c \in Checks : c.rule = "screen" =>
        \A id \in {"image-pull", "instant", "primary-failing"} :
            c.relations[id] \in Relations

\* The sources of the check, the only ones kept.
Read == {v[1] : v \in check.varies}

-----------------------------------------------------------------------------
(* The facts of the watched sources: calm to start with, and the values a   *)
(* field may take, times among them those of the moment.                    *)

\* The names in their order.
Named == CHOOSE names \in [1..Cardinality(Instances) -> Instances] :
             \A n \in Instances : \E i \in DOMAIN names : names[i] = n

Each(v) == [n \in Instances |-> v]

CalmFacts == [
    cluster |-> [present |-> TRUE, phase |-> "ok", condition |-> [set |-> FALSE, since |-> Nil],
        listed |-> {}, timeline |-> 1, timelines |-> Each(1), failingSince |-> Nil,
        expires |-> Each(MaxNow + 2 * MinAge), reported |-> {}, switching |-> FALSE, desired |-> 1,
        ready |-> 1, current |-> "a", target |-> "a", targetAt |-> Nil, major |-> 1,
        catalogRef |-> TRUE],
    pods |-> [reason |-> Each(""), ready |-> Each(TRUE), cut |-> FALSE],
    poolerPods |-> [reason |-> Each(""), cut |-> FALSE],
    poolers |-> [phase |-> Each("ok"), declared |-> Each(1), ready |-> Each(1), cut |-> FALSE],
    backups |-> [backup |-> Each([phase |-> "", created |-> 0]),
        schedule |-> Each([suspended |-> FALSE, next |-> Nil, often |-> FALSE, created |-> Nil]),
        store |-> "none", lastGood |-> Nil, lastFailed |-> Nil, cut |-> FALSE],
    events |-> [list |-> <<>>, cut |-> FALSE],
    infrastructure |-> [phase |-> Each("Bound"), services |-> {"read-write"}, cut |-> FALSE],
    quotas |-> [exhausted |-> {}],
    quorum |-> [present |-> TRUE, number |-> 1, standbys |-> 1, cut |-> FALSE],
    lease |-> [present |-> TRUE, holder |-> "a", renewed |-> 0, duration |-> MaxNow],
    catalogs |-> [listed |-> TRUE, cut |-> FALSE, images |-> {1}, imagesCut |-> FALSE],
    databases |-> [refused |-> {}, cut |-> FALSE],
    evidence |-> [scanned |-> TRUE, sourceStale |-> FALSE, known |-> TRUE, state |-> "healthy"]]

SomeInstances == {{}, {"a"}, {"a", "b"}}
OnA(bad, good) == {Each(good), [Each(good) EXCEPT !["a"] = bad]}

\* The values a field of a source may take at a moment.
ClusterValues(field, now) ==
    CASE field \in {"present", "switching", "catalogRef"} -> BOOLEAN
      [] field = "phase"                  -> {"ok", "bad"}
      [] field = "condition"              -> [set : BOOLEAN, since : {Nil, now}]
      [] field \in {"listed", "reported"} -> SomeInstances
      [] field = "timeline"               -> {Nil, 1, 2}
      [] field = "timelines"              -> OnA(2, 1) \cup OnA(0, 1)
      [] field \in {"failingSince", "targetAt"} -> {Nil, now}
      [] field = "expires"                -> OnA(now + MinAge, MaxNow + 2 * MinAge)
      [] field = "desired"                -> {1, 2}
      [] field = "ready"                  -> {Nil, 0, 1}
      [] field \in {"current", "target"}  -> {"", "a", "b"}
      [] field = "major"                  -> {Nil, 1, 2}

BackupValues(field, now) ==
    CASE field = "backup"   -> OnA([phase |-> "bad", created |-> now], [phase |-> "", created |-> 0])
      [] field = "schedule" -> {Each(s) : s \in [suspended : BOOLEAN, next : {Nil, now},
                                                 often : BOOLEAN, created : {Nil, now}]}
      [] field = "store"    -> {"none", "present", "unreadable"}
      [] field \in {"lastGood", "lastFailed"} -> {Nil, now}

Values(source, field, now) ==
    CASE source = "cluster" -> ClusterValues(field, now)
      [] source = "backups" -> BackupValues(field, now)
      [] source \in {"pods", "poolerPods"} /\ field = "reason" -> OnA("bad", "")
      [] source = "pods" /\ field = "ready"       -> {Each(TRUE), Each(FALSE), [Each(FALSE) EXCEPT !["a"] = TRUE]}
      [] source = "poolers" /\ field = "phase"    -> OnA("bad", "ok")
      [] source = "poolers" /\ field = "declared" -> OnA(Nil, 1)
      [] source = "poolers" /\ field = "ready"    -> OnA(0, 1)
      [] source = "infrastructure" /\ field = "phase"    -> OnA("Pending", "Bound") \cup OnA("", "Bound")
      [] source = "infrastructure" /\ field = "services" -> SUBSET {"read-write"}
      [] source \in {"quotas", "databases"}       -> SomeInstances
      [] source \in {"quorum", "lease"} /\ field = "present" -> BOOLEAN
      [] source = "quorum" /\ field # "present"   -> {0, 1, 2}
      [] source = "lease" /\ field = "holder"     -> {"", "a", "b"}
      [] source = "lease" /\ field = "renewed"    -> {Nil, now}
      [] source = "catalogs" /\ field = "listed"  -> BOOLEAN
      [] source = "catalogs" /\ field = "images"  -> {{}, {1}, {2}}
      [] source = "evidence" /\ field = "state"   -> {"healthy", "unhealthy", "unknown"}
      [] source = "evidence" /\ field # "state"   -> BOOLEAN

\* A list cut at its ceiling: what the checks look for is past it.
Cut(source, facts) ==
    CASE source = "pods"           -> [facts EXCEPT !.reason = Each(""), !.ready = Each(FALSE)]
      [] source = "poolerPods"     -> [facts EXCEPT !.reason = Each("")]
      [] source = "poolers"        -> [facts EXCEPT !.phase = Each("ok"), !.declared = Each(Nil)]
      [] source = "events"         -> [facts EXCEPT !.list = <<>>]
      [] source = "infrastructure" -> [facts EXCEPT !.phase = Each("Bound"), !.services = {}]
      [] source = "databases"      -> [facts EXCEPT !.refused = {}]
      [] source = "backups"        -> [facts EXCEPT !.backup = CalmFacts.backups.backup,
                                                    !.schedule = CalmFacts.backups.schedule]

\* What a publication shows: all of it, or a list cut at its bound.
Shown(source, facts) ==
    CASE source = "catalogs" ->
            {facts, [facts EXCEPT !.listed = FALSE, !.cut = TRUE],
                    [facts EXCEPT !.images = {}, !.imagesCut = TRUE]}
      [] source = "quorum" /\ facts.standbys > 0 ->
            {facts, [facts EXCEPT !.standbys = @ - 1, !.cut = TRUE]}
      [] <<source, "cut">> \in check.varies -> {facts, [Cut(source, facts) EXCEPT !.cut = TRUE]}
      [] OTHER -> {facts}

-----------------------------------------------------------------------------
(* A screen of three checks: what an exporter reports of a pod, what the    *)
(* pod's containers wait for, and the operator's word on the primary.       *)

ByID == <<"image-pull", "instant", "primary-failing">>
Severity == [id \in {"image-pull", "instant", "primary-failing"} |-> IF id = "image-pull" THEN 2 ELSE 1]

\* evaluateRule: a finding for each match, with what its check declares.
finding(id, pod, at) ==
    [check |-> id, pod |-> pod, at |-> at, severity |-> Severity[id], relations |-> check.relations[id]]

findingsOf(input) ==
    LET failing == input.cluster.facts IN
    {finding("image-pull", n, NoTime) : n \in imagePull(input).on}
    \cup {finding("instant", n, input.metrics.readings[n].at) : n \in Instant(input, 1).on}
    \cup {finding("primary-failing", failing.current, failing.failingSince) : s \in PrimaryFailing(input).on}

\* Run: most severe first, then by ID.
inOrder(f, g) ==
    LET place(h) == CHOOSE i \in DOMAIN ByID : ByID[i] = h.check
        pod(h) == CHOOSE i \in DOMAIN Named : Named[i] = h.pod IN
    IF f.severity # g.severity THEN f.severity > g.severity
    ELSE place(f) < place(g) \/ (f.check = g.check /\ f.pod # g.pod /\ pod(f) < pod(g))
Run(input) ==
    LET found == findingsOf(input) IN inTurn([f \in found |-> {g \in found : inOrder(g, f)}])

-----------------------------------------------------------------------------
(* The verdict.                                                             *)

\* layerViews: a layer matched when a check of it did, is current when one
\* ran and none could not, and makes no claim when all are switched off.
layerViews(results) ==
    LET all == {results[i] : i \in DOMAIN results} IN
    IF \E r \in all : r.on # {} THEN Matches(UNION {r.on : r \in all})
    ELSE IF \E r \in all : r.because \notin {"", "off"} THEN Unavailable("could not run")
    ELSE IF Clear \in all THEN Clear ELSE Unavailable("off")

Evaluate(rule, input) ==
    CASE rule = "ClusterCondition" -> ClusterCondition(input)
      [] rule = "ClusterPhase" -> ClusterPhase(input)
      [] rule = "ClusterPhaseHeld" -> ClusterPhaseHeld(input)
      [] rule = "StatusListed" -> StatusListed(input)
      [] rule = "ReplicaSwitchStuck" -> ReplicaSwitchStuck(input)
      [] rule = "InstancesShort" -> InstancesShort(input)
      [] rule = "TimelineDivergence" -> TimelineDivergence(input)
      [] rule = "PrimaryFailing" -> PrimaryFailing(input)
      [] rule = "CertificateExpiring" -> CertificateExpiring(input, MinAge)
      [] rule = "CertificateExpired" -> CertificateExpiring(input, 0)
      [] rule = "Reported" -> Reported(input)
      [] rule = "PrimaryMismatch" -> PrimaryMismatch(input)
      [] rule = "PrimaryLeaseExpired" -> PrimaryLeaseExpired(input)
      [] rule = "PrimaryLeaseHolderMismatch" -> PrimaryLeaseHolderMismatch(input)
      [] rule = "QuorumStandbysShort" -> QuorumStandbysShort(input)
      [] rule = "ImageCatalogMissing" -> ImageCatalogMissing(input)
      [] rule = "ImageCatalogLacksMajor" -> ImageCatalogLacksMajor(input)
      [] rule = "ContainerState" -> ContainerState(input)
      [] rule = "imagePull" -> imagePull(input)
      [] rule = "PoolerPhase" -> PoolerPhase(input)
      [] rule = "PoolerShort" -> PoolerShort(input)
      [] rule = "volumeBinding" -> volumeBinding(input)
      [] rule = "quotaExhausted" -> quotaExhausted(input)
      [] rule = "DeclaredObjectFailed" -> DeclaredObjectFailed(input)
      [] rule = "BackupPhase" -> BackupPhase(input)
      [] rule = "ScheduledBackupSuspended" -> ScheduledBackupSuspended(input)
      [] rule = "ScheduledBackupOverdue" -> ScheduledBackupOverdue(input)
      [] rule = "backupCadence" -> backupCadence(input)
      [] rule = "StoreBackupFailed" -> StoreBackupFailed(input)
      [] rule = "StoreNoBackup" -> StoreNoBackup(input)
      [] rule = "quotaRefusal" -> quotaRefusal(input)
      [] rule = "podScheduling" -> podScheduling(input)
      [] rule = "EventMatch" -> EventMatch(input, {"Pod"})
      [] rule = "BackupEvent" -> EventMatch(input, {"Backup"})
      [] rule = "InstantNonZero" -> Instant(input, 1)
      [] rule = "InstantZero" -> Instant(input, 0)
      [] rule = "InstantShortfall" -> InstantShortfall(input)
      [] rule = "PrimaryDisagreement" -> PrimaryDisagreement(input)
      [] rule = "SeriesAbove" -> SeriesAbove(input)
      [] rule = "InstanceFlagSet" -> InstanceFlagSet(input)
      [] rule = "ReplicaFlagSet" -> ReplicaFlagSet(input)
      [] rule = "InstanceArchiveFailing" -> InstanceArchiveFailing(input)
      [] rule = "InstanceManagerDrift" -> InstanceManagerDrift(input)
      [] rule = "RepositoryState" -> RepositoryState(input)
      [] rule = "logMatches" -> logMatches(input)
      [] rule = "HistoryIncarnations" -> HistoryIncarnations(input)
      [] rule = "HistoryChanges" -> HistoryChanges(input)
      [] rule = "AllOfPodAndPooler" -> AllOf(imagePull(input), PoolerPhase(input))
      [] rule = "AllOfClusterAndPod" -> AllOf(ClusterPhase(input), imagePull(input))
      [] rule = "primaryNamed" -> Answered(primaryNamed(input))
      [] rule = "instanceReady" -> Answered(instanceReady(input))
      [] rule = "writeService" -> Answered(writeService(input))
      [] rule = "poolerUp" -> Answered(poolerUp(input))
      [] rule = "scheduleFiring" -> Answered(scheduleFiring(input))
      [] rule = "definitionRefused" -> Answered(definitionRefused(input))
      [] rule = "cannotConnect" -> Walked(cannotConnect(input))
      [] rule = "operatorSilent" -> Walked(operatorSilent(input))
      [] rule = "layer" -> layerViews(<<imagePull(input), PoolerPhase(input)>>)
      [] rule = "screen" -> Unavailable("of its checks, one by one")

result == Evaluate(check.rule, in)
outcome == evaluateRule(in, check.pin, result)

\* What a sweep brings back of an instance.
readingOf(state, now) ==
    [value |-> state.value, expected |-> state.expected, primary |-> state.primary,
     failed |-> state.failed, archived |-> state.archived, at |-> now]

\* What a console would hold that sees everything there is, and has heard and
\* recorded everything there was.
Perfect(input, real) ==
    [s \in {"now"} \cup Read |->
        CASE s = "now" -> input.now
          [] s = "cluster" -> [has |-> TRUE, stale |-> FALSE, facts |-> real.facts[s],
                               since |-> input[s].since]
          [] s = "evidence" -> [on |-> TRUE, has |-> TRUE, stale |-> FALSE, facts |-> real.facts[s]]
          [] s \in Watched \ {"cluster", "evidence"} ->
                [has |-> TRUE, stale |-> FALSE, facts |-> real.facts[s]]
          [] s \in Swept -> [on |-> TRUE, swept |-> TRUE, failing |-> {},
                readings |-> [n \in Instances |-> readingOf(real.instances[n], input.now)],
                samples |-> [n \in Instances |-> [i \in 1..2 |-> readingOf(real.instances[n], input.now)]]]
          [] s = "logs" -> [on |-> TRUE, observed |-> input[s].observed \cup real.unheard,
                            unread |-> {}]
          [] s = "history" -> [on |-> TRUE, entries |-> real.records]]

\* What there is to find.
Found(input, real) == Evaluate(check.rule, Perfect(input, real)).on

\* The ghosts, at the end of a step.
Witness ==
    /\ calm' = [s \in Subjects |-> IF s \in Found(in', truth') THEN calm[s] ELSE in'.now]
    /\ ill' = [s \in Subjects |-> IF s \in Found(in', truth') THEN in'.now ELSE ill[s]]
    /\ UNCHANGED check

-----------------------------------------------------------------------------
CalmInstance == [value |-> 0, expected |-> 1, primary |-> FALSE, failed |-> Nil, archived |-> Nil]

\* The values a sweep may find on an instance.
InstanceValues(now) ==
    CASE check.rule = "InstanceArchiveFailing" ->
            [value : {0}, expected : {1}, primary : {FALSE}, failed : {Nil, now}, archived : {Nil, now}]
      [] check.rule = "ReplicaFlagSet" ->
            [value : {0, 1}, expected : {1}, primary : BOOLEAN, failed : {Nil}, archived : {Nil}]
      [] check.rule = "InstantShortfall" ->
            [value : {0, 1}, expected : {0, 1}, primary : {FALSE}, failed : {Nil}, archived : {Nil}]
      [] OTHER -> [value : {0, 1}, expected : {1}, primary : {FALSE}, failed : {Nil}, archived : {Nil}]

\* Some instance managers may not say their version, and never do (a bound).
Roster ==
    IF check.rule = "InstanceManagerDrift"
    THEN [Instances -> {CalmInstance, [CalmInstance EXCEPT !.value = NoVersion]}]
    ELSE {Each(CalmInstance)}

Blank(source) == [has |-> FALSE, stale |-> FALSE, facts |-> CalmFacts[source]]

\* Nothing is observed yet.
Init ==
    /\ check \in Checks
    /\ \E instances \in Roster :
        truth = [facts |-> [s \in Watched \cap Read |-> CalmFacts[s]], instances |-> instances,
                 unheard |-> {}, records |-> {}]
    /\ \E on \in (IF check.varies \cap {<<"metrics", "on">>, <<"status", "on">>, <<"logs", "on">>,
                                        <<"evidence", "on">>} = {} THEN {TRUE} ELSE BOOLEAN) :
        in = [s \in {"now"} \cup Read |->
            CASE s = "now" -> 0
              [] s = "cluster" -> [has |-> FALSE, stale |-> FALSE, facts |-> CalmFacts[s], since |-> <<>>]
              [] s = "evidence" -> [on |-> on, has |-> FALSE, stale |-> FALSE, facts |-> CalmFacts[s]]
              [] s \in Watched \ {"cluster", "evidence"} -> Blank(s)
              [] s = "metrics" -> [on |-> on, readings |-> <<>>, samples |-> <<>>]
              [] s = "status" -> [on |-> on, swept |-> FALSE, readings |-> <<>>, failing |-> {}]
              [] s = "logs" -> [on |-> on, observed |-> {}, unread |-> Instances]
              [] s = "history" -> [on |-> TRUE, entries |-> {}]]
    /\ changes = 0
    /\ begun = [k \in (IF "cluster" \in Read THEN heldKeys(CalmFacts.cluster) ELSE {}) |-> 0]
    /\ lost = Never
    /\ calm = [s \in Subjects |-> IF s \in Found(in, truth) THEN Never ELSE 0]
    /\ ill = [s \in Subjects |-> IF s \in Found(in, truth) THEN 0 ELSE Never]

\* Mutant: a state keeps the clock of the one it took the place of.
publishRunning(facts) ==
    [has |-> TRUE, stale |-> FALSE, facts |-> facts,
     since |-> [k \in heldKeys(facts) |->
                   LET earlier == {in.cluster.since[o] : o \in DOMAIN in.cluster.since} IN
                   IF earlier # {} THEN CHOOSE t \in earlier : \A u \in earlier : t <= u
                   ELSE in.now]]

\* Store.publish of the Cluster: a state present before keeps its clock.
publish(facts) ==
    [has |-> TRUE, stale |-> FALSE, facts |-> facts,
     since |-> [k \in heldKeys(facts) |->
                   IF in.cluster.has /\ k \in DOMAIN in.cluster.since THEN in.cluster.since[k]
                   ELSE in.now]]

Published(source, facts) ==
    CASE source = "cluster"  -> publish(facts)
      [] source = "evidence" -> [on |-> in.evidence.on, has |-> TRUE, stale |-> FALSE, facts |-> facts]
      [] OTHER -> [has |-> TRUE, stale |-> FALSE, facts |-> facts]

\* A source is observed, for the first time or again.
Observe(source) ==
    /\ ~in[source].has \/ in[source].stale
    /\ \E shown \in Shown(source, truth.facts[source]) :
        in' = [in EXCEPT ![source] = Published(source, shown)]
    /\ UNCHANGED <<truth, changes, begun, lost>>
    /\ Witness

\* Bound: a screen's sources stay in contact.
Lose(source) ==
    /\ in[source].has /\ ~in[source].stale
    /\ check.rule # "screen"
    /\ in' = [in EXCEPT ![source].stale = TRUE]
    /\ lost' = IF source = "cluster" THEN in.now ELSE lost
    /\ UNCHANGED <<truth, changes, begun>>
    /\ Witness

\* The facts change, and a source in contact shows it.
Becomes(source, facts) ==
    /\ changes < check.most
    /\ changes' = changes + 1
    /\ truth' = [truth EXCEPT !.facts[source] = facts]
    /\ begun' = IF source # "cluster" THEN begun
                ELSE [k \in heldKeys(facts) |-> IF k \in DOMAIN begun THEN begun[k] ELSE in.now]
    /\ IF in[source].has /\ ~in[source].stale
       THEN \E shown \in Shown(source, facts) : in' = [in EXCEPT ![source] = Published(source, shown)]
       ELSE UNCHANGED in
    /\ UNCHANGED lost
    /\ Witness

Change(source) ==
    \E v \in check.varies :
        /\ v[1] = source /\ source # "events" /\ v[2] \notin {"on", "cut"}
        /\ \E value \in Values(source, v[2], in.now) :
            /\ value # truth.facts[source][v[2]]
            /\ Becomes(source, [truth.facts[source] EXCEPT ![v[2]] = value])

\* The events the checks tell apart.
Emitted == [reason : {"FailedCreate", "FailedScheduling"}, quota : BOOLEAN, kind : {"Pod"}, object : {"a"}]
           \cup [reason : {"bad"}, quota : {FALSE}, kind : {"Pod", "Backup"}, object : {"a"}]
WantedEvents ==
    IF check.rule \in {"EventMatch", "BackupEvent"} THEN {e \in Emitted : e.reason = "bad"}
    ELSE {e \in Emitted : e.reason # "bad"}

Emit ==
    /\ "events" \in Read
    /\ \E e \in WantedEvents :
        Becomes("events", [truth.facts.events EXCEPT !.list = <<e>> \o @])

\* One instance stands for those that are judged alone.
Varying ==
    CASE check.rule \in {"InstanceManagerDrift", "screen"} -> Instances
      [] check.rule = "PrimaryDisagreement"  -> {"b"}
      [] OTHER                               -> {"a"}

InstanceChanges ==
    /\ Swept \cap Read # {}
    /\ changes < check.most
    /\ changes' = changes + 1
    /\ \E n \in Varying, v \in InstanceValues(in.now) :
        /\ v # truth.instances[n] /\ truth.instances[n].value # NoVersion
        /\ truth' = [truth EXCEPT !.instances[n] = v]
    /\ UNCHANGED <<in, begun, lost>>
    /\ Witness

\* One sweep reads some instances; the status sweep names the others.
Sweep(source) ==
    /\ in[source].on
    /\ \E read \in SUBSET Instances :
        LET read2(store) == [n \in DOMAIN store \cup read |->
                IF n \in read THEN readingOf(truth.instances[n], in.now) ELSE store[n]]
            more(store) == [n \in DOMAIN store \cup read |->
                IF n \notin read THEN store[n]
                ELSE (IF n \in DOMAIN store THEN store[n] ELSE <<>>)
                         \o <<readingOf(truth.instances[n], in.now)>>] IN
        in' = [in EXCEPT ![source] =
                IF source = "metrics"
                THEN [on |-> TRUE, readings |-> read2(@.readings),
                      samples |-> IF check.rule \in Sustained THEN more(@.samples) ELSE <<>>]
                ELSE [on |-> TRUE, swept |-> TRUE, readings |-> read2(@.readings),
                      failing |-> Instances \ read]]
    /\ source = "metrics" /\ check.rule \in Sustained =>
        \A n \in DOMAIN in.metrics.samples :
            in.metrics.samples[n][Len(in.metrics.samples[n])].at < in.now
    /\ UNCHANGED <<truth, changes, begun, lost>>
    /\ Witness

\* A line is heard when its stream is open, missed otherwise.
WriteLine ==
    /\ "logs" \in Read
    /\ changes < check.most
    /\ changes' = changes + 1
    /\ \E n \in Instances :
        IF n \in in.logs.unread \/ ~in.logs.on
        THEN truth' = [truth EXCEPT !.unheard = @ \cup {n}] /\ UNCHANGED in
        ELSE in' = [in EXCEPT !.logs.observed = @ \cup {n}] /\ UNCHANGED truth
    /\ UNCHANGED <<begun, lost>>
    /\ Witness

\* A stream opens; what was written before stays unheard.
OpenStream(n) ==
    /\ "logs" \in Read /\ in.logs.on /\ n \in in.logs.unread
    /\ in' = [in EXCEPT !.logs.unread = @ \ {n}]
    /\ UNCHANGED <<truth, changes, begun, lost>>
    /\ Witness

StreamCloses(n) ==
    /\ "logs" \in Read /\ in.logs.on /\ n \notin in.logs.unread
    /\ in' = [in EXCEPT !.logs.unread = @ \cup {n}]
    /\ UNCHANGED <<truth, changes, begun, lost>>
    /\ Witness

\* An object changes, in this incarnation or another: the timeline may miss it,
\* and may let go of what it had.
Record ==
    /\ "history" \in Read
    /\ changes < check.most
    /\ changes' = changes + 1
    /\ \E n \in Instances, uid \in {1, 2} :
        LET record == [name |-> n, uid |-> uid, at |-> in.now, seq |-> changes] IN
        /\ truth' = [truth EXCEPT !.records = @ \cup {record}]
        /\ \E kept \in SUBSET (in.history.entries \cup {record}) :
            in' = [in EXCEPT !.history.entries = kept]
    /\ UNCHANGED <<begun, lost>>
    /\ Witness

Tick ==
    /\ in.now < MaxNow
    /\ in' = [in EXCEPT !.now = @ + 1]
    /\ UNCHANGED <<truth, changes, begun, lost>>
    /\ Witness

Next ==
    \/ \E s \in Watched \cap Read : Observe(s)
    \/ \E s \in Watched \cap Read : Lose(s)
    \/ \E s \in Watched \cap Read : Change(s)
    \/ \E s \in Swept \cap Read : Sweep(s)
    \/ \E n \in Instances : OpenStream(n) \/ StreamCloses(n)
    \/ InstanceChanges \/ Emit \/ WriteLine \/ Record \/ Tick

Spec == Init /\ [][Next]_vars

-----------------------------------------------------------------------------
\* How old what a check rests on may be: what a sweep last read, or what
\* must have held for a while.
Slack ==
    CASE check.rule \in Sustained -> IF Span > Horizon THEN Span ELSE Horizon
      [] check.rule \notin Sustained /\ Swept \cap Read # {} -> Horizon
      [] OTHER -> 0

\* A check that sets a source of the moment against one read earlier.
Joint == {"PrimaryDisagreement"}
\* Checks that quote what once happened.
Past == {"logMatches"}
\* Checks that read clear from readings of several moments, each as it was then.
Composed == {"InstanceManagerDrift", "poolerUp"}
\* Checks that cut the events before they look for theirs.
Quoting == {"quotaRefusal", "podScheduling"}

\* What the code reads clear without having looked.
\* A list that reached its ceiling: the flag is shown beside it, and is asked for
\* only where an absence is (rule.go, resources.go; triage/facts.go).
CutShort == \E s \in Lists \cap Read : in[s].facts.cut
\* An instance whose exporter has never answered (rule.go: the readings there are).
NeverAnswered == IF "metrics" \in Read THEN Instances \ DOMAIN in.metrics.readings ELSE {}
\* Pooler pods that were never listed (stale.go, poolerPodsUnavailable).
NeverListed ==
    IF "poolerPods" \notin Read \/ in.poolerPods.has THEN {}
    ELSE {n \in Instances : truth.facts.poolerPods.reason[n] = "bad"}
\* Changes the timeline missed or let go of (timeline.go: the entries there are).
Unrecorded ==
    IF "history" \notin Read THEN {}
    ELSE {e.name : e \in {e \in truth.records \ in.history.entries : e.at >= in.now - Span}}
\* Lines written while no stream was open, once one is again (stale.go, logsIncomplete).
NeverHeard == IF "logs" \in Read THEN truth.unheard \ in.logs.unread ELSE {}

Overlooked == NeverAnswered \cup NeverListed \cup Unrecorded \cup NeverHeard

\* A check that reads clear rules its subjects out: as recently as its sources are
\* read, there was nothing to find (stale.go, diagnostics.md: "stale data can neither
\* clear a check nor match one"), except what is named above, where the code reads
\* clear on what it has not seen.
ClearIsTrue ==
    outcome = "clear" /\ check.rule \notin Quoting \cup Composed /\ ~CutShort =>
        \A s \in Subjects \ Overlooked : in.now - calm[s] <= Slack

\* A check that matched found what was there as recently.
MatchIsCurrent ==
    outcome = "matched" /\ check.rule \notin Joint \cup Past =>
        \A s \in result.on : in.now - ill[s] <= Slack

\* "Unchanged since at least": a state has held since the console's clock of
\* it says, unless contact was lost in between.
ClockIsAFloor ==
    "cluster" \in Read /\ in.cluster.has /\ ~in.cluster.stale =>
        \A k \in DOMAIN in.cluster.since :
            k \in DOMAIN begun => in.cluster.since[k] >= begun[k] \/ lost >= in.cluster.since[k]

\* Every finding of a run is shown once, whatever loops the catalogs declare;
\* one that is shown beneath another comes after what it follows from, in
\* the same card; and no card is above a worse one (web/diagnostics.go,
\* groupIncidents: "a warning-severity cause holding a critical consequence
\* is a critical story, and the screen reads worst first").
EachFindingIsShownOnce ==
    check.rule = "screen" =>
        LET findings == Run(in) IN
        /\ EachOnce(findings, cards(findings))
        /\ CauseFirst(parentOf(findings), cards(findings))
        /\ WorstFirst(findings, cards(findings))
==============================================================================
