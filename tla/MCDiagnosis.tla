---------------------------- MODULE MCDiagnosis ----------------------------
(* Every check, each with the fields of its sources that it tells apart. *)
EXTENDS Diagnosis

TwoInstances == {"a", "b"}

Unrelated == [id \in {"image-pull", "instant", "primary-failing"} |-> <<>>]
Of(rule, source, fields) ==
    [rule |-> rule, pin |-> Nil, most |-> 3, varies |-> {<<source, f>> : f \in fields},
     relations |-> Unrelated]
Upto(most, one) == [one EXCEPT !.most = most]
With(one, source, fields) == [one EXCEPT !.varies = @ \cup {<<source, f>> : f \in fields}]

OfCluster == {
    Of("ClusterCondition", "cluster", {"present", "condition"}),
    [Of("ClusterPhase", "cluster", {"phase", "major"}) EXCEPT !.pin = 1],
    Of("ClusterPhaseHeld", "cluster", {"phase"}),
    Of("StatusListed", "cluster", {"listed"}),
    Of("ReplicaSwitchStuck", "cluster", {"switching"}),
    Of("InstancesShort", "cluster", {"desired", "ready"}),
    Of("TimelineDivergence", "cluster", {"timeline", "timelines"}),
    Of("PrimaryFailing", "cluster", {"failingSince"}),
    Of("CertificateExpiring", "cluster", {"expires"}),
    Of("CertificateExpired", "cluster", {"expires"}),
    Of("Reported", "cluster", {"reported", "present"}),
    Of("PrimaryMismatch", "cluster", {"current", "target", "targetAt"})}

OfTwo == {
    Upto(2, With(Of("PrimaryLeaseExpired", "lease", {"present", "holder", "renewed"}), "cluster", {"target"})),
    Upto(2, With(Of("PrimaryLeaseHolderMismatch", "lease", {"holder"}), "cluster", {"current", "target"})),
    With(Of("ImageCatalogMissing", "catalogs", {"listed"}), "cluster", {"catalogRef"}),
    Upto(2, With(Of("ImageCatalogLacksMajor", "catalogs", {"images"}), "cluster", {"major"})),
    Upto(2, With(Of("ContainerState", "pods", {"reason", "cut"}), "poolerPods", {"reason", "cut"})),
    Upto(2, With(Of("BackupEvent", "events", {"list", "cut"}), "backups", {"backup", "cut"})),
    With(Of("logMatches", "logs", {"on"}), "pods", {"reason"}),
    Upto(2, With(Of("PrimaryDisagreement", "metrics", {"value"}), "cluster", {"current"})),
    Upto(2, With(Of("AllOfPodAndPooler", "pods", {"reason", "cut"}), "poolers", {"phase", "cut"})),
    Upto(2, With(Of("layer", "pods", {"reason", "cut"}), "poolers", {"phase", "cut"})),
    With(Of("AllOfClusterAndPod", "cluster", {"phase"}), "pods", {"reason", "cut"})}

OfOne == {
    Of("QuorumStandbysShort", "quorum", {"present", "number", "standbys"}),
    Of("imagePull", "pods", {"reason", "cut"}),
    Of("PoolerPhase", "poolers", {"phase", "cut"}),
    Of("PoolerShort", "poolers", {"declared", "ready", "cut"}),
    Of("volumeBinding", "infrastructure", {"phase", "cut"}),
    Of("quotaExhausted", "quotas", {"exhausted"}),
    Of("DeclaredObjectFailed", "databases", {"refused", "cut"}),
    Of("BackupPhase", "backups", {"backup", "cut"}),
    Upto(2, Of("ScheduledBackupSuspended", "backups", {"schedule", "cut"})),
    Upto(2, Of("ScheduledBackupOverdue", "backups", {"schedule", "cut"})),
    Upto(2, Of("backupCadence", "backups", {"schedule", "cut"})),
    Of("StoreBackupFailed", "backups", {"store", "lastGood", "lastFailed"}),
    Upto(2, Of("StoreNoBackup", "backups", {"store", "lastGood", "schedule", "cut"})),
    Upto(4, Of("quotaRefusal", "events", {"list"})),
    Of("podScheduling", "events", {"list", "cut"}),
    Of("EventMatch", "events", {"list", "cut"}),
    Of("InstantNonZero", "metrics", {"on", "value"}),
    Of("InstantZero", "metrics", {"value"}),
    Upto(2, Of("InstantShortfall", "metrics", {"value"})),
    Upto(2, Of("SeriesAbove", "metrics", {"value"})),
    Of("InstanceFlagSet", "status", {"on", "value"}),
    Upto(2, Of("ReplicaFlagSet", "status", {"value"})),
    Upto(2, Of("InstanceArchiveFailing", "status", {"value"})),
    Of("InstanceManagerDrift", "status", {"value"}),
    Of("RepositoryState", "evidence", {"on", "scanned", "sourceStale", "known", "state"}),
    Upto(2, Of("HistoryIncarnations", "history", {"list"})),
    Of("HistoryChanges", "history", {"list"})}

OfSteps == {
    Of("primaryNamed", "cluster", {"present", "current", "phase"}),
    Upto(2, With(Of("definitionRefused", "cluster", {"present", "phase", "catalogRef"}), "catalogs", {"listed"})),
    Upto(2, With(Of("instanceReady", "pods", {"ready", "reason", "cut"}), "cluster", {"ready"})),
    Upto(2, With(Of("writeService", "infrastructure", {"services", "cut"}), "cluster", {"major", "phase"})),
    Upto(2, With(With(Of("poolerUp", "poolers", {"phase"}), "metrics", {"on"}), "metrics", {"value"})),
    Upto(2, Of("scheduleFiring", "backups", {"schedule", "cut"})),
    Upto(1, With(With(Of("cannotConnect", "cluster", {"present", "current"}),
                      "infrastructure", {"services", "cut"}), "pods", {"ready", "cut"})),
    Of("operatorSilent", "cluster", {"phase"})}

\* Of a screen: a chain on one pod and in a window, that is a loop without
\* its first cause.
On(cause, within) == [cause |-> cause, samePod |-> TRUE, within |-> within]
ChainOrLoop == [Unrelated EXCEPT !["instant"] = <<On("primary-failing", 1), On("image-pull", 0)>>,
                                 !["image-pull"] = <<On("instant", 0)>>]

OfScreens == {[With(With(Of("screen", "cluster", {"failingSince"}), "pods", {"reason"}),
                    "metrics", {"value"}) EXCEPT !.most = 4, !.relations = ChainOrLoop]}

AllChecks == OfCluster \cup OfTwo \cup OfOne \cup OfSteps \cup OfScreens
==============================================================================
