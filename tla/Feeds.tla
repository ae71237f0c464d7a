-------------------------------- MODULE Feeds --------------------------------
(***************************************************************************)
(* What varies from one feed of internal/observe to the next, as a record   *)
(* the loop of ResourceFeed runs.  A source is the adapter in internal/kube *)
(* that lists and watches:                                                  *)
(*   kinds     the kinds it lists, in order                                 *)
(*   optional  kinds whose refusal is recorded instead of failing the fetch *)
(*   pinned    one object named in the configuration, read by get and       *)
(*             watched from the current state                               *)
(*   whole     one request, never abandoned at the bound                    *)
(*   member    whose objects are kept: any; those whose content declares    *)
(*             this cluster; those whose owners, read one by one, prove it  *)
(* A keeping is the collector in internal/observe that folds and publishes: *)
(*   policy    which retained item a full kind drops                        *)
(*   order     the order of the page                                        *)
(*   slack     how far retention goes beyond the page                       *)
(*   admits    listings and evictions set a truncation flag                 *)
(*   shared    one flag for all kinds                                       *)
(*   renews    an update is a new occurrence                                *)
(***************************************************************************)
EXTENDS Naturals, Sequences

CONSTANT MaxShown    \* the publication bound: MaxBackups and its like

ASSUME MaxShownAssumption == MaxShown \in Nat \ {0}

Source(kinds) == [kinds |-> kinds, optional |-> {}, pinned |-> FALSE, whole |-> FALSE,
                  member |-> "any"]

Keeping(policy, order) ==
    [policy |-> policy, order |-> order, slack |-> 1,
     admits |-> TRUE, shared |-> FALSE, renews |-> FALSE]

ByName(kinds) ==
    [Keeping([k \in kinds |-> "lastName"], [k \in kinds |-> "name"])
     EXCEPT !.shared = TRUE]

NeverEvicting(kinds) ==
    [Keeping([k \in kinds |-> "never"], [k \in kinds |-> "name"])
     EXCEPT !.shared = TRUE]

-----------------------------------------------------------------------------
(* Two of a source's kinds stand for the rest when they differ in nothing   *)
(* but their type.                                                          *)

Declared(kinds) == [Source(kinds) EXCEPT !.member = "declared"]
BackupSource == Declared(<<"Backup", "ScheduledBackup">>)
DatabaseSource == Declared(<<"Database", "DatabaseRole">>)
PoolerSource == Declared(<<"Pooler">>)
ImageCatalogSource == Source(<<"ImageCatalog">>)
EventSource == Source(<<"Event">>)
AccessReviewSource == Source(<<"AccessRequest">>)

\* One unpaged list request each.
QuotaSource == [Source(<<"ResourceQuota">>) EXCEPT !.whole = TRUE]
PoolerPodSource == [Source(<<"Pod">>) EXCEPT !.whole = TRUE, !.member = "proven"]

\* Services and claims are required; snapshots and the seven child kinds are optional.
InfrastructureSource ==
    [Declared(<<"Service", "VolumeSnapshot">>) EXCEPT !.optional = {"VolumeSnapshot"}]

\* An object named in the configuration; its absence is an observation.
Pinned(kind) == [Source(<<kind>>) EXCEPT !.pinned = TRUE, !.whole = TRUE]
ClusterSource == Pinned("Cluster")
FailoverQuorumSource == Pinned("FailoverQuorum")
PrimaryLeaseSource == Pinned("Lease")

-----------------------------------------------------------------------------
BackupKeeping ==
    Keeping([Backup |-> "oldest", ScheduledBackup |-> "lastName"],
            [Backup |-> "recency", ScheduledBackup |-> "name"])

DatabaseKeeping == ByName({"Database", "DatabaseRole"})
PoolerKeeping == ByName({"Pooler"})
ImageCatalogKeeping == ByName({"ImageCatalog"})

\* The bound of quotas is not reported.
QuotaKeeping == [ByName({"ResourceQuota"}) EXCEPT !.admits = FALSE]

\* Three times as many events are kept as shown; evictions are deliberately silent.
EventKeeping ==
    [Keeping([Event |-> "oldest"], [Event |-> "recency"])
     EXCEPT !.slack = 2 * MaxShown, !.admits = FALSE, !.renews = TRUE]

AccessReviewKeeping ==
    Keeping([AccessRequest |-> "oldest"], [AccessRequest |-> "queue"])

InfrastructureKeeping == NeverEvicting({"Service", "VolumeSnapshot"})
PoolerPodKeeping == NeverEvicting({"Pod"})
ClusterKeeping == NeverEvicting({"Cluster"})
FailoverQuorumKeeping == NeverEvicting({"FailoverQuorum"})
PrimaryLeaseKeeping == NeverEvicting({"Lease"})

-----------------------------------------------------------------------------
Feed(source, keeping) == [source |-> source, keep |-> keeping]

BackupCatalog == Feed(BackupSource, BackupKeeping)
DatabaseObjects == Feed(DatabaseSource, DatabaseKeeping)
Poolers == Feed(PoolerSource, PoolerKeeping)
ImageCatalogs == Feed(ImageCatalogSource, ImageCatalogKeeping)
Quotas == Feed(QuotaSource, QuotaKeeping)
Events == Feed(EventSource, EventKeeping)
AccessReview == Feed(AccessReviewSource, AccessReviewKeeping)
Infrastructure == Feed(InfrastructureSource, InfrastructureKeeping)
PoolerPods == Feed(PoolerPodSource, PoolerPodKeeping)
Cluster == Feed(ClusterSource, ClusterKeeping)
FailoverQuorum == Feed(FailoverQuorumSource, FailoverQuorumKeeping)
PrimaryLease == Feed(PrimaryLeaseSource, PrimaryLeaseKeeping)

=============================================================================
