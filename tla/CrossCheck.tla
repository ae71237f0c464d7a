----------------------------- MODULE CrossCheck -----------------------------
(***************************************************************************)
(* internal/web/crosscheck.go: the operator's Backup catalog beside the      *)
(* repository's own evidence.  A claim is a completed, repository-backed     *)
(* Backup with a backup ID; the claims no repository view is expected of are *)
(* left out.  A source is a record; its fields are those the view reads.     *)
(***************************************************************************)
EXTENDS Naturals, FiniteSets, SequencesExt

\* clusterIdentityMatch: the evidence is bound to a cluster UID, which the
\* console's own observation must carry.
identity(report, cluster) ==
    CASE cluster.uid = 0                               -> "unknown"
      [] cluster.uid # 0 /\ cluster.uid # report.uid   -> "mismatch"
      [] cluster.uid = report.uid /\ cluster.stale     -> "historical"
      [] OTHER                                         -> "current"

\* degradedReason: what makes every outcome unknown; "" when nothing does.
degradedReason(evidence, catalog, cluster) ==
    IF ~evidence.has THEN "no contact"
    ELSE IF evidence.report.generation = 0 THEN "no scan"
    ELSE IF identity(evidence.report, cluster) \in {"mismatch", "unknown"}
         THEN identity(evidence.report, cluster)
    ELSE IF catalog.stale THEN "catalog stale"
    ELSE IF evidence.stale \/ evidence.report.sourceStale THEN "evidence stale"
    ELSE IF identity(evidence.report, cluster) = "historical" THEN "cluster stale"
    ELSE ""

\* Mutant: a truncated collection is taken for a whole one.
OutcomeOfACut(id, evidence, catalog, cluster) ==
    IF degradedReason(evidence, catalog, cluster) # "" THEN "unknown"
    ELSE IF id \in Range(evidence.backups) THEN "agreement"
    ELSE "discrepancy"

\* correlateRow and matchOutcome, for one claimed backup ID.
Outcome(id, evidence, catalog, cluster) ==
    IF degradedReason(evidence, catalog, cluster) # "" THEN "unknown"
    ELSE IF id \in Range(evidence.backups) THEN "agreement"
    ELSE IF evidence.truncated THEN "unknown"
    ELSE "discrepancy"

\* buildOrphans: repository backups no resource accounts for, when absence
\* can be concluded.
Orphans(evidence, catalog, cluster) ==
    IF \/ degradedReason(evidence, catalog, cluster) # ""
       \/ catalog.truncated
       \/ evidence.truncated
    THEN {}
    ELSE Range(evidence.backups) \ catalog.claims
==============================================================================
