------------------------------- MODULE Sweeps -------------------------------
(***************************************************************************)
(* The two sweeps over the pod roster: internal/scrape, which records every *)
(* exporter's readings in the metrics window, with the persister that saves *)
(* the window to a file; and internal/instancestatus, which keeps the last  *)
(* report of every instance manager beside what the last sweep could not    *)
(* read.                                                                    *)
(*                                                                          *)
(* Pods and their addresses are the cluster's: an address may go to another *)
(* pod the moment its own is gone, and neither sweep asks who answers there *)
(* (instancestatus.go, TLSConfig: the identity of the endpoint rests on the *)
(* pod IP the API server reported).  The clock moves with the sweeps.  A    *)
(* deployment runs either sweep or both.                                    *)
(***************************************************************************)
EXTENDS Window

CONSTANTS
    Names,          \* instance names
    Deployments,    \* which sweeps are configured: sets of "status", "metrics"
    Addresses,      \* pod IPs, positive numbers
    MaxNow,         \* bound, per deployment: sweeps and restarts
    MaxPodChanges,  \* bound, per deployment: changes of the pods
    MaxFlushes,     \* bound: snapshots written
    MaxCrashes      \* bound, per deployment: process ends

ASSUME SweepsAssumption ==
    /\ Deployments \subseteq SUBSET {"status", "metrics"}
    /\ Addresses \subseteq Nat \ {0}
    /\ {MaxNow, MaxPodChanges, MaxCrashes} \subseteq [Deployments -> Nat]
    /\ MaxFlushes \in Nat

VARIABLES
    configured, \* the sweeps this deployment runs
    pods,       \* cluster: each name's pod
    podChanges, \* bound: their changes so far
    roster,     \* the pod store's snapshot
    now,        \* the clock
    sweep,      \* the status sweep under way
    reports,    \* instancestatus.Store: the readings and the failures
    scrape,     \* the metrics sweep under way
    window,     \* metrics.Store
    life,       \* the process: up, taking its final snapshot, down
    flush,      \* the persister: the snapshot being written
    file,       \* the snapshot file
    flushes,    \* bound: snapshots so far
    outages,    \* when the process started again
    rates,      \* per instance, every rate of its window, oldest first
    saved       \* the same, as of the file

clusterVars == <<configured, pods, podChanges, roster>>
statusVars == <<sweep, reports>>
metricsVars == <<scrape, window, rates>>
diskVars == <<flush, file, flushes, saved>>
vars == <<clusterVars, now, statusVars, metricsVars, life, diskVars, outages>>

NoAddress == 0
Idle == [on |-> FALSE]
NoSnapshot == <<>>

Init ==
    /\ configured \in Deployments
    /\ pods = [n \in Names |-> [uid |-> 1, ip |-> NoAddress, deleting |-> FALSE]]
    /\ podChanges = 0
    /\ roster = [known |-> FALSE]
    /\ now = 1
    /\ sweep = Idle
    /\ reports = [readings |-> <<>>, failing |-> {}, swept |-> {}, at |-> Never,
                   cut |-> FALSE]
    /\ scrape = Idle
    /\ window = <<>>
    /\ life = "up"
    /\ flush = Idle
    /\ file = NoSnapshot
    /\ flushes = 0
    /\ outages = {}
    /\ rates = <<>>
    /\ saved = <<>>

-----------------------------------------------------------------------------
(* Outside: pods come and go; the pod collector publishes or loses contact. *)

\* No pod that is there has it, whatever a roster still says.
Free(ip) == \A n \in Names : pods[n].ip # ip

StartPod(n) ==
    /\ pods[n].ip = NoAddress
    /\ podChanges < MaxPodChanges[configured]
    /\ podChanges' = podChanges + 1
    /\ \E ip \in Addresses : Free(ip) /\ pods' = [pods EXCEPT ![n].ip = ip]
    /\ UNCHANGED <<configured, roster, now, statusVars, metricsVars, life, diskVars, outages>>

DeletePod(n) ==
    /\ ~pods[n].deleting
    /\ podChanges < MaxPodChanges[configured]
    /\ podChanges' = podChanges + 1
    /\ pods' = [pods EXCEPT ![n].deleting = TRUE]
    /\ UNCHANGED <<configured, roster, now, statusVars, metricsVars, life, diskVars, outages>>

\* The pod is gone, its deletion seen or not, and another of its name takes
\* its place.
RecreatePod(n) ==
    /\ podChanges < MaxPodChanges[configured]
    /\ podChanges' = podChanges + 1
    /\ pods' = [pods EXCEPT ![n] = [uid |-> @.uid + 1, ip |-> NoAddress, deleting |-> FALSE]]
    /\ UNCHANGED <<configured, roster, now, statusVars, metricsVars, life, diskVars, outages>>

\* CurrentPods after a publication: the pods as they are, cut or whole.
PublishRoster ==
    /\ \E shown \in SUBSET Names :
        roster' = [known |-> TRUE, stale |-> FALSE, truncated |-> shown # Names,
                   pods |-> {[name |-> n, uid |-> pods[n].uid, ip |-> pods[n].ip,
                              deleting |-> pods[n].deleting] : n \in shown}]
    /\ UNCHANGED <<configured, pods, podChanges, now, statusVars, metricsVars, life, diskVars, outages>>

LoseContact ==
    /\ roster.known /\ ~roster.stale
    /\ roster' = [roster EXCEPT !.stale = TRUE]
    /\ UNCHANGED <<configured, pods, podChanges, now, statusVars, metricsVars, life, diskVars, outages>>

Outside ==
    \/ \E n \in Names : StartPod(n) \/ DeletePod(n) \/ RecreatePod(n)
    \/ PublishRoster
    \/ LoseContact

-----------------------------------------------------------------------------
(* instancestatus: one sweep of the status ports.                           *)

\* sweep's early return.
Sweepable == roster.known /\ ~roster.stale

BeginSweep ==
    /\ "status" \in configured
    /\ life = "up" /\ ~sweep.on
    /\ Sweepable
    /\ now < MaxNow[configured]
    /\ now' = now + 1
    /\ sweep' = [on |-> TRUE, at |-> now', members |-> roster.pods, todo |-> roster.pods,
                 fresh |-> <<>>, failing |-> {}, cut |-> roster.truncated, late |-> FALSE]
    /\ UNCHANGED <<clusterVars, reports, metricsVars, life, diskVars, outages>>

\* The sweep's deadline, one interval.
SweepDeadline ==
    /\ sweep.on /\ ~sweep.late
    /\ sweep' = [sweep EXCEPT !.late = TRUE]
    /\ UNCHANGED <<clusterVars, now, reports, metricsVars, life, diskVars, outages>>

Unreadable(m) == m.deleting \/ m.ip = NoAddress \/ sweep.late

\* Mutant: a pod the deadline leaves unread is passed over.
ReadMemberUnlessLate(m) ==
    /\ sweep.on
    /\ m \in sweep.todo
    /\ \/ /\ sweep.late \/ Unreadable(m) \/ (\A n \in Names : pods[n].ip # m.ip)
          /\ sweep' = [sweep EXCEPT !.todo = @ \ {m},
                                    !.failing = IF sweep.late THEN @ ELSE @ \cup {m.name}]
       \/ \E n \in Names :
            /\ ~Unreadable(m)
            /\ pods[n].ip = m.ip
            /\ sweep' = [sweep EXCEPT !.todo = @ \ {m},
                 !.fresh = [o \in DOMAIN @ \cup {m.name} |->
                     IF o = m.name THEN [uid |-> m.uid, by |-> <<n, pods[n].uid>>, at |-> sweep.at]
                     ELSE @[o]]]
    /\ UNCHANGED <<clusterVars, now, reports, metricsVars, life, diskVars, outages>>

\* The loop's body: a member is read, whoever answers at its address, or
\* recorded as unread.
ReadMember(m) ==
    /\ sweep.on
    /\ m \in sweep.todo
    /\ \/ sweep' = [sweep EXCEPT !.todo = @ \ {m}, !.failing = @ \cup {m.name}]
       \/ \E n \in Names :
            /\ ~Unreadable(m)
            /\ pods[n].ip = m.ip
            /\ sweep' = [sweep EXCEPT !.todo = @ \ {m},
                 !.fresh = [o \in DOMAIN @ \cup {m.name} |->
                     IF o = m.name THEN [uid |-> m.uid, by |-> <<n, pods[n].uid>>, at |-> sweep.at]
                     ELSE @[o]]]
    /\ UNCHANGED <<clusterVars, now, reports, metricsVars, life, diskVars, outages>>

\* Mutant: a previous reading stays beside the failure, whoever gave it.
RetainedByName(m) == m.name \in DOMAIN reports.readings

\* Store.publish: a previous reading stays beside the failure when it came
\* from the same pod.
Retained(m) ==
    /\ m.name \in DOMAIN reports.readings
    /\ reports.readings[m.name].uid = m.uid

PublishSweep ==
    /\ sweep.on /\ sweep.todo = {}
    /\ LET kept == {m.name : m \in {m \in sweep.members : Retained(m)}} IN
       reports' = [readings |-> [n \in DOMAIN sweep.fresh \cup kept |->
                                    IF n \in DOMAIN sweep.fresh THEN sweep.fresh[n]
                                    ELSE reports.readings[n]],
                   failing  |-> sweep.failing,
                   swept    |-> sweep.members,
                   at       |-> sweep.at,
                   cut      |-> sweep.cut]
    /\ sweep' = Idle
    /\ UNCHANGED <<clusterVars, now, metricsVars, life, diskVars, outages>>

StatusSweep ==
    \/ BeginSweep \/ SweepDeadline \/ PublishSweep
    \/ sweep.on /\ \E m \in sweep.todo : ReadMember(m)

-----------------------------------------------------------------------------
(* scrape: one sweep of the exporters.  A stale roster is swept too.        *)

BeginScrape ==
    /\ "metrics" \in configured
    /\ life = "up" /\ ~scrape.on
    /\ roster.known
    /\ now < MaxNow[configured]
    /\ now' = now + 1
    /\ scrape' = [on |-> TRUE, at |-> now',
                  todo |-> {e.name : e \in {e \in roster.pods :
                                               e.ip # NoAddress /\ ~e.deleting}}]
    /\ UNCHANGED <<clusterVars, statusVars, window, rates, life, diskVars, outages>>

\* The ghost: a rate the reading added follows those of its instance, one
\* just tracked has none, one evicted is forgotten.
Recorded(name, tracked) ==
    LET before == IF name \in DOMAIN window THEN window[name].raw ELSE newInstance.raw
        after  == tracked[name].raw
        known  == IF name \in DOMAIN window THEN rates[name] ELSE <<>> IN
    rates' = [n \in DOMAIN tracked |->
                IF n # name THEN rates[n]
                ELSE IF after = before THEN known
                ELSE Append(known, [since |-> window[name].prevAt, at |-> scrape.at])]

\* One exporter: it answers, with any value of a counter that grows and may
\* start again, or it does not.
ScrapeOne(name) ==
    /\ scrape.on
    /\ name \in scrape.todo
    /\ scrape' = [scrape EXCEPT !.todo = @ \ {name}]
    /\ \/ UNCHANGED <<window, rates>>
       \/ \E value \in 0..1 :
            /\ window' \in Observe(window, name, scrape.at, value)
            /\ Recorded(name, window')
    /\ UNCHANGED <<clusterVars, now, statusVars, life, diskVars, outages>>

EndScrape ==
    /\ scrape.on /\ scrape.todo = {}
    /\ scrape' = Idle
    /\ UNCHANGED <<clusterVars, now, statusVars, window, rates, life, diskVars, outages>>

Scraping == BeginScrape \/ EndScrape \/ (scrape.on /\ \E n \in scrape.todo : ScrapeOne(n))

-----------------------------------------------------------------------------
(* persist: the snapshot file.                                              *)

\* flush up to the sync: the temporary file holds one export.
WriteTemp ==
    /\ "metrics" \in configured
    /\ life \in {"up", "final"} /\ ~flush.on
    /\ flushes < MaxFlushes
    /\ flushes' = flushes + 1
    /\ flush' = [on |-> TRUE, state |-> Export(window), rates |-> rates]
    /\ UNCHANGED <<clusterVars, now, statusVars, metricsVars, life, file, saved, outages>>

\* The rename, and the end of the process after its final snapshot.
RenameTemp ==
    /\ flush.on
    /\ file' = flush.state
    /\ saved' = flush.rates
    /\ flush' = Idle
    /\ life' = IF life = "final" THEN "down" ELSE life
    /\ UNCHANGED <<clusterVars, now, statusVars, metricsVars, flushes, outages>>

\* Any step of flush failed: the previous snapshot stands.
FlushFails ==
    /\ flush.on
    /\ flush' = Idle
    /\ life' = IF life = "final" THEN "down" ELSE life
    /\ UNCHANGED <<clusterVars, now, statusVars, metricsVars, file, saved, flushes, outages>>

Shutdown ==
    /\ life = "up" /\ ~flush.on
    /\ Cardinality(outages) < MaxCrashes[configured]
    /\ life' = "final"
    /\ UNCHANGED <<clusterVars, now, statusVars, metricsVars, diskVars, outages>>

Kill ==
    /\ life \in {"up", "final"}
    /\ Cardinality(outages) < MaxCrashes[configured]
    /\ life' = "down"
    /\ flush' = Idle
    /\ UNCHANGED <<clusterVars, now, statusVars, metricsVars, file, flushes, saved, outages>>

\* A new process: the window is the snapshot's, saved once more before
\* anything is served, and everything else is empty.
Restart ==
    /\ life = "down"
    /\ now < MaxNow[configured]
    /\ now' = now + 1
    /\ life' = "up"
    /\ outages' = outages \cup {now'}
    /\ window' = Import(file)
    /\ file' = Export(window')
    /\ rates' = saved
    /\ UNCHANGED saved
    /\ roster' = [known |-> FALSE]
    /\ sweep' = Idle
    /\ scrape' = Idle
    /\ reports' = [readings |-> <<>>, failing |-> {}, swept |-> {}, at |-> Never,
                   cut |-> FALSE]
    /\ UNCHANGED <<configured, pods, podChanges, flush, flushes>>

Persisting == WriteTemp \/ RenameTemp \/ FlushFails \/ Shutdown \/ Kill \/ Restart

Next == Outside \/ StatusSweep \/ Scraping \/ Persisting
Spec == Init /\ [][Next]_vars

-----------------------------------------------------------------------------
\* Every member a sweep was given was read by that sweep or is named as
\* unread: an incomplete sweep never reads as a complete one (instancestatus.go, sweep).
SweepAccountsForAll ==
    \A m \in reports.swept :
        \/ m.name \in reports.failing
        \/ m.name \in DOMAIN reports.readings /\ reports.readings[m.name].at = reports.at

\* A report stands under a pod of the roster that was swept, and is that pod's
\* own as long as the pod is there: not its predecessor's of the same name, and
\* not a neighbour's.  Who has taken over the address of a pod that is gone may
\* answer for it, for nothing in a sweep asks: such a report stands until a
\* sweep of a roster that no longer holds the pod (Store.publish).
ReportIsItsPods ==
    \A n \in DOMAIN reports.readings :
        LET reading == reports.readings[n] IN
        /\ \E m \in reports.swept : m.name = n /\ m.uid = reading.uid
        /\ \A m \in reports.swept : m.name = n => m.uid = reading.uid
        /\ pods[n].uid = reading.uid => reading.by = <<n, reading.uid>>

\* No rate is claimed across a restart: the downtime reads as a gap
\* (persist.go: baselines are deliberately not persisted).
NoRateAcrossAnOutage ==
    \A n \in DOMAIN window :
        LET kept == each(window[n].raw) IN
        \A i \in DOMAIN kept : \A restart \in outages :
            ~(kept[i].since < restart /\ restart <= kept[i].at)

LastOf(entries, n) == SubSeq(entries, IF Len(entries) > n THEN Len(entries) - n + 1 ELSE 1, Len(entries))

Tells(raw, roll, open, all) ==
    /\ raw = LastOf(all, RawCap)
    /\ \A b \in Range(roll) \cup {open} :
        b.count > 0 => b.count = Cardinality({i \in DOMAIN all : bucketOf(all[i]) = b.start})

\* A chart has every value there is, oldest first, and no line between two
\* that are more than a step and a half apart.
DrawsNoLineAcross(n) ==
    \A tier \in Tiers :
        LET axis == rows(window, tier)
            kept == points(window[n], tier) IN
        /\ kept \subseteq Range(axis)
        /\ \A i \in 2..Len(axis) :
            /\ axis[i - 1] < axis[i]
            /\ {axis[i - 1], axis[i]} \subseteq kept => 2 * (axis[i] - axis[i - 1]) <= 3 * step(tier)

\* The window holds the last rates that were computed, in order, and its
\* buckets all the rates of their time, whatever wrapped around, was
\* evicted or restored; the file is the window of one moment; and a span
\* without a sweep is drawn as a gap (metrics/store.go, Range).
WindowIsTheLastRates ==
    /\ DOMAIN rates = DOMAIN window
    /\ \A n \in DOMAIN window :
        /\ Tells(each(window[n].raw), each(window[n].roll), window[n].open, rates[n])
        /\ DrawsNoLineAcross(n)
    /\ DOMAIN saved = DOMAIN file
    /\ \A n \in DOMAIN file : Tells(file[n].raw, file[n].roll, file[n].open, saved[n])
    /\ Cardinality(DOMAIN window) <= MaxInstances
==============================================================================
