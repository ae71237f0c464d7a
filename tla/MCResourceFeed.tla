--------------------------- MODULE MCResourceFeed ---------------------------
(* Instances of ResourceFeed for TLC. *)
EXTENDS ResourceFeed

EveryFeed ==
    {BackupCatalog, DatabaseObjects, Poolers, ImageCatalogs, Quotas, Events, AccessReview,
     Infrastructure, PoolerPods, Cluster, FailoverQuorum, PrimaryLease}
ThreeNames == {1, 2, 3}
Two == {{1, 2}}

=============================================================================
