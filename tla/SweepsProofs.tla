----------------------------- MODULE SweepsProofs -----------------------------
(***************************************************************************)
(* Proofs about Sweeps, for any pods, addresses, limits of the window and   *)
(* number of sweeps, restarts and changes of the roster.  Of the status     *)
(* sweep: every member is accounted for, and a report is of the pod it      *)
(* stands under.  Of the metrics window: it holds the last rates that were  *)
(* computed, whatever wrapped, was evicted or was restored, none of them    *)
(* across an outage, and a chart draws no line over a gap.                  *)
(***************************************************************************)
EXTENDS Sweeps, FiniteSetTheorems, SequenceTheorems, TLAPS

PodType == [uid : Nat, ip : Addresses \cup {NoAddress}, deleting : BOOLEAN]

\* No two pods have one address.
OneAddressEach ==
    \A m, n \in Names : pods[m].ip = pods[n].ip /\ pods[m].ip # NoAddress => m = n

PodsInv == pods \in [Names -> PodType] /\ OneAddressEach

\* One entry a name.
OneEach(entries) == \A d, e \in entries : d.name = e.name => d = e

\* An entry names a pod that was there: as long as it still is, the address of
\* the entry is its own.
Known(there, e) ==
    /\ e.name \in Names /\ e.uid \in Nat
    /\ e.uid <= there[e.name].uid
    /\ there[e.name].uid = e.uid /\ e.ip # NoAddress => there[e.name].ip = e.ip

Reached(there, entries) == \A e \in entries : Known(there, e)

\* A report filed under n: of a pod that was there, its own if it still is.
Filed(there, n, reading) ==
    /\ n \in Names /\ reading.uid \in Nat
    /\ reading.uid <= there[n].uid
    /\ there[n].uid = reading.uid => reading.by = <<n, reading.uid>>

RosterInv ==
    roster.known =>
        /\ roster = [known |-> TRUE, stale |-> roster.stale, truncated |-> roster.truncated,
                     pods |-> roster.pods]
        /\ OneEach(roster.pods)
        /\ Reached(pods, roster.pods)

\* A sweep under way has every field.
SweepForm(s) ==
    DOMAIN s = {"on", "at", "members", "todo", "fresh", "failing", "cut", "late"}

\* What the sweep under way holds is what it will publish.
SweepInv ==
    sweep.on =>
        /\ SweepForm(sweep)
        /\ OneEach(sweep.members) /\ Reached(pods, sweep.members)
        /\ sweep.todo \subseteq sweep.members
        /\ \A m \in sweep.members \ sweep.todo :
              m.name \in sweep.failing \/ m.name \in DOMAIN sweep.fresh
        /\ \A n \in DOMAIN sweep.fresh :
              /\ sweep.fresh[n].at = sweep.at
              /\ Filed(pods, n, sweep.fresh[n])
              /\ \E m \in sweep.members : m.name = n /\ m.uid = sweep.fresh[n].uid

ReportsInv == \A n \in DOMAIN reports.readings : Filed(pods, n, reports.readings[n])

SInv ==
    /\ PodsInv /\ RosterInv /\ SweepInv /\ ReportsInv
    /\ SweepAccountsForAll /\ ReportIsItsPods

\* The deadline changes nothing else of a sweep.
LEMMA LateUpdate ==
  ASSUME NEW s, SweepForm(s), NEW v, NEW u, u = [s EXCEPT !.late = v]
  PROVE  /\ SweepForm(u) /\ u.on = s.on /\ u.at = s.at /\ u.members = s.members
         /\ u.todo = s.todo /\ u.fresh = s.fresh /\ u.failing = s.failing
BY DEF SweepForm

\* Nothing is known or swept at the start.
LEMMA SweepsInit == Init => SInv
<1> SUFFICES ASSUME Init PROVE SInv
  OBVIOUS
<1>1. PodsInv
  BY DEF Init, PodsInv, PodType, OneAddressEach, NoAddress
<1>2. RosterInv /\ SweepInv
  BY DEF Init, RosterInv, SweepInv, Idle
<1>3. SweepAccountsForAll /\ ReportIsItsPods /\ ReportsInv
  BY DEF Init, SweepAccountsForAll, ReportIsItsPods, ReportsInv
<1> QED BY <1>1, <1>2, <1>3 DEF SInv

\* A step that leaves pods, roster, sweep and reports alone.
LEMMA OthersKeepSInv ==
  ASSUME SInv, UNCHANGED <<pods, roster, sweep, reports>>
  PROVE  SInv'
BY DEF SInv, PodsInv, OneAddressEach, RosterInv, OneEach, Reached, Known, SweepInv, Filed,
       ReportsInv, SweepAccountsForAll, ReportIsItsPods

\* A change of one pod: it keeps its identity and its address, once it has
\* one, or it is another pod.
LEMMA PodChangeKeeps ==
  ASSUME SInv, NEW n \in Names, NEW put \in PodType, pods' = [pods EXCEPT ![n] = put],
         UNCHANGED <<roster, sweep, reports>>,
         \/ put.ip = NoAddress /\ put.uid = pods[n].uid + 1
         \/ put.ip = pods[n].ip /\ put.uid = pods[n].uid
         \/ Free(put.ip) /\ pods[n].ip = NoAddress /\ put.uid = pods[n].uid
  PROVE  SInv'
<1>1. /\ pods' \in [Names -> PodType] /\ pods'[n] = put
      /\ \A m \in Names : m # n => pods'[m] = pods[m]
  BY DEF SInv, PodsInv
<1>2. PodsInv'
  <2>1. OneAddressEach'
    <3> SUFFICES ASSUME NEW l \in Names, NEW m \in Names, pods'[l].ip = pods'[m].ip,
                        pods'[l].ip # NoAddress, l # m
                 PROVE  FALSE
      BY DEF OneAddressEach
    <3>1. CASE put.ip = pods[n].ip
      <4>1. \A k \in Names : pods'[k].ip = pods[k].ip
        BY <1>1, <3>1
      <4> QED BY <4>1 DEF SInv, PodsInv, OneAddressEach
    <3>2. CASE Free(put.ip)
      BY <1>1, <3>2 DEF SInv, PodsInv, OneAddressEach, Free
    <3>3. CASE put.ip = NoAddress
      BY <1>1, <3>3 DEF SInv, PodsInv, OneAddressEach
    <3> QED BY <3>1, <3>2, <3>3
  <2> QED BY <1>1, <2>1 DEF PodsInv
<1>3. /\ \A m \in Names : pods[m].uid \in Nat /\ pods[m].uid <= pods'[m].uid
      /\ \A m \in Names : pods[m].uid = pods'[m].uid => pods[m].ip \in {NoAddress, pods'[m].ip}
  BY <1>1 DEF SInv, PodsInv, PodType
<1>4. RosterInv' /\ SweepInv'
  <2>1. \A e : Known(pods, e) => Known(pods', e)
    BY <1>1, <1>3 DEF Known, SInv, PodsInv, PodType
  <2>2. \A m, reading : Filed(pods, m, reading) => Filed(pods', m, reading)
    BY <1>1, <1>3 DEF Filed, SInv, PodsInv, PodType
  <2> QED BY <2>1, <2>2 DEF SInv, RosterInv, SweepInv, OneEach, Reached
<1>5. ReportsInv'
  BY <1>1, <1>3 DEF SInv, ReportsInv, Filed, PodsInv, PodType
<1>6. SweepAccountsForAll'
  BY DEF SInv, SweepAccountsForAll
<1>7. ReportIsItsPods'
  BY <1>1, <1>3 DEF SInv, ReportIsItsPods, ReportsInv, Filed, PodsInv, PodType
<1> QED BY <1>2, <1>4, <1>5, <1>6, <1>7 DEF SInv

\* The cluster's changes, one pod each.
LEMMA PodsKeepSInv ==
  ASSUME SInv, NEW n \in Names, StartPod(n) \/ DeletePod(n) \/ RecreatePod(n)
  PROVE  SInv'
<1>1. pods[n] \in PodType /\ pods[n].uid \in Nat
  <2>1. pods[n] \in PodType
    BY DEF SInv, PodsInv
  <2> QED BY <2>1 DEF PodType
<1>2. CASE StartPod(n)
  <2>1. PICK ip \in Addresses :
           Free(ip) /\ pods' = [pods EXCEPT ![n].ip = ip] /\ pods[n].ip = NoAddress
    BY <1>2 DEF StartPod
  <2> DEFINE put == [pods[n] EXCEPT !.ip = ip]
  <2>2. put \in PodType /\ put.ip = ip /\ put.uid = pods[n].uid
    BY <1>1 DEF PodType
  <2>3. pods' = [pods EXCEPT ![n] = put] /\ UNCHANGED <<roster, sweep, reports>>
    BY <1>2, <2>1 DEF StartPod, statusVars
  <2> HIDE DEF put
  <2> QED BY <2>1, <2>2, <2>3, PodChangeKeeps
<1>3. CASE DeletePod(n)
  <2> DEFINE put == [pods[n] EXCEPT !.deleting = TRUE]
  <2>1. put \in PodType /\ put.ip = pods[n].ip /\ put.uid = pods[n].uid
    BY <1>1 DEF PodType
  <2>2. pods' = [pods EXCEPT ![n] = put] /\ UNCHANGED <<roster, sweep, reports>>
    BY <1>3 DEF DeletePod, statusVars
  <2> HIDE DEF put
  <2> QED BY <2>1, <2>2, PodChangeKeeps
<1>4. CASE RecreatePod(n)
  <2> DEFINE put == [uid |-> pods[n].uid + 1, ip |-> NoAddress, deleting |-> FALSE]
  <2>1. put \in PodType /\ put.ip = NoAddress /\ put.uid = pods[n].uid + 1
    BY <1>1 DEF PodType
  <2>2. pods' = [pods EXCEPT ![n] = put] /\ UNCHANGED <<roster, sweep, reports>>
    BY <1>4 DEF RecreatePod, statusVars
  <2> HIDE DEF put
  <2> QED BY <2>1, <2>2, PodChangeKeeps
<1> QED BY <1>2, <1>3, <1>4

\* A roster published is the pods as they are; a stale one keeps its entries.
LEMMA RosterKeepsSInv ==
  ASSUME SInv, PublishRoster \/ LoseContact
  PROVE  SInv'
<1>1. UNCHANGED <<pods, sweep, reports>>
  BY DEF PublishRoster, LoseContact, statusVars
<1>2. CASE PublishRoster
  <2> DEFINE entry(n) == [name |-> n, uid |-> pods[n].uid, ip |-> pods[n].ip,
                          deleting |-> pods[n].deleting]
  <2>1. PICK shown \in SUBSET Names :
          roster' = [known |-> TRUE, stale |-> FALSE, truncated |-> shown # Names,
                     pods |-> {entry(n) : n \in shown}]
    BY <1>2, Zenon DEF PublishRoster
  <2>2. \A n : entry(n).name = n /\ entry(n).uid = pods[n].uid /\ entry(n).ip = pods[n].ip
    OBVIOUS
  <2> DEFINE entries == {entry(n) : n \in shown}
  <2>3. \A e \in entries : \E n \in Names : e = entry(n)
    OBVIOUS
  <2> HIDE DEF entry
  <2>4. \A d, e \in entries : d.name = e.name => d = e
    BY <2>2, <2>3
  <2>5. \A e \in entries : Known(pods, e)
    <3> SUFFICES ASSUME NEW e \in entries PROVE Known(pods, e)
      OBVIOUS
    <3>1. PICK m \in Names : e = entry(m)
      BY <2>3
    <3> QED BY <3>1, <2>2 DEF Known, SInv, PodsInv, PodType
  <2> HIDE DEF entries
  <2>6. /\ roster' = [known |-> TRUE, stale |-> FALSE, truncated |-> shown # Names, pods |-> entries]
        /\ roster'.pods = entries
    BY <2>1 DEF entries
  <2>7. RosterInv'
    BY <1>1, <2>4, <2>5, <2>6 DEF RosterInv, OneEach, Reached, Known
  <2> QED BY <1>1, <2>7 DEF SInv, PodsInv, OneAddressEach, SweepInv, ReportsInv, Filed, OneEach, Reached, Known,
                SweepAccountsForAll, ReportIsItsPods
<1>3. CASE LoseContact
  <2>1. roster.known /\ roster' = [roster EXCEPT !.stale = TRUE]
    BY <1>3 DEF LoseContact
  <2>2. RosterInv'
    BY <1>1, <2>1 DEF SInv, RosterInv, OneEach, Reached, Known
  <2> QED BY <1>1, <2>2 DEF SInv, PodsInv, OneAddressEach, SweepInv, ReportsInv, Filed, OneEach, Reached, Known,
                SweepAccountsForAll, ReportIsItsPods
<1> QED BY <1>2, <1>3

\* A sweep begins with the roster in contact, one entry a name.
LEMMA BeginKeepsSInv ==
  ASSUME SInv, BeginSweep
  PROVE  SInv'
<1>1. /\ roster.known /\ ~roster.stale
      /\ sweep' = [on |-> TRUE, at |-> now', members |-> roster.pods, todo |-> roster.pods,
                   fresh |-> <<>>, failing |-> {}, cut |-> roster.truncated, late |-> FALSE]
      /\ UNCHANGED <<pods, roster, reports>>
  BY DEF BeginSweep, Sweepable, clusterVars
<1>2. OneEach(roster.pods) /\ Reached(pods, roster.pods)
  BY <1>1 DEF SInv, RosterInv
<1>3. SweepInv'
  BY <1>1, <1>2 DEF SweepInv, SweepForm, OneEach, Reached, Known
<1> QED BY <1>1, <1>3 DEF SInv, PodsInv, OneAddressEach, RosterInv, ReportsInv, Filed, OneEach, Reached, Known,
                SweepAccountsForAll, ReportIsItsPods

\* The deadline only makes what is left unreadable.
LEMMA DeadlineKeepsSInv ==
  ASSUME SInv, SweepDeadline
  PROVE  SInv'
<1>1. sweep.on /\ sweep' = [sweep EXCEPT !.late = TRUE] /\ UNCHANGED <<pods, roster, reports>>
  BY DEF SweepDeadline, clusterVars
<1>2. SweepForm(sweep)
  BY <1>1 DEF SInv, SweepInv
<1>3. /\ SweepForm(sweep') /\ sweep'.at = sweep.at /\ sweep'.members = sweep.members
      /\ sweep'.todo = sweep.todo /\ sweep'.fresh = sweep.fresh /\ sweep'.failing = sweep.failing
  BY <1>1, <1>2, LateUpdate
<1>4. SweepInv'
  BY <1>1, <1>3 DEF SInv, SweepInv, OneEach, Reached, Known, Filed
<1> QED BY <1>1, <1>4 DEF SInv, PodsInv, OneAddressEach, RosterInv, ReportsInv, Filed, OneEach, Reached, Known,
                SweepAccountsForAll, ReportIsItsPods

\* One member: unread, it is named; read, whoever answered at its address is
\* the pod it names or that pod is gone, because a pod keeps its address.
LEMMA ReadKeepsSInv ==
  ASSUME SInv, NEW m \in sweep.todo, ReadMember(m)
  PROVE  SInv'
<1>1. sweep.on /\ UNCHANGED <<pods, roster, reports>>
  BY Zenon DEF ReadMember, clusterVars
<1>2. /\ SweepForm(sweep)
      /\ OneEach(sweep.members) /\ Reached(pods, sweep.members)
      /\ sweep.todo \subseteq sweep.members
      /\ \A o \in sweep.members \ sweep.todo :
            o.name \in sweep.failing \/ o.name \in DOMAIN sweep.fresh
      /\ \A n \in DOMAIN sweep.fresh :
            /\ sweep.fresh[n].at = sweep.at
            /\ Filed(pods, n, sweep.fresh[n])
            /\ \E o \in sweep.members : o.name = n /\ o.uid = sweep.fresh[n].uid
  BY <1>1 DEF SInv, SweepInv
<1>3. CASE sweep' = [sweep EXCEPT !.todo = @ \ {m}, !.failing = @ \cup {m.name}]
  <2>1. SweepInv'
    <3>1. /\ sweep'.members = sweep.members /\ sweep'.todo = sweep.todo \ {m}
          /\ sweep'.failing = sweep.failing \cup {m.name} /\ sweep'.fresh = sweep.fresh
          /\ sweep'.at = sweep.at
          /\ SweepForm(sweep')
      <4> DEFINE rest == sweep.todo \ {m}
                 failing == sweep.failing \cup {m.name}
      <4>1. sweep' = [sweep EXCEPT !.todo = rest, !.failing = failing]
        BY <1>3, Zenon
      <4> HIDE DEF rest, failing
      <4>2. /\ sweep'.members = sweep.members /\ sweep'.todo = rest
            /\ sweep'.failing = failing /\ sweep'.fresh = sweep.fresh
            /\ sweep'.at = sweep.at /\ SweepForm(sweep')
        <5>1. SweepForm(sweep)
          BY <1>2
        <5> QED BY <4>1, <5>1 DEF SweepForm
      <4> QED BY <4>2, Zenon DEF rest, failing
    <3> QED BY <1>1, <1>2, <3>1 DEF SweepInv, OneEach, Reached, Known, Filed
  <2> QED BY <1>1, <2>1 DEF SInv, PodsInv, OneAddressEach, RosterInv, ReportsInv, Filed, OneEach, Reached, Known,
                SweepAccountsForAll, ReportIsItsPods
<1>4. ASSUME NEW n \in Names, ~Unreadable(m), pods[n].ip = m.ip,
             sweep' = [sweep EXCEPT !.todo = @ \ {m},
                 !.fresh = [o \in DOMAIN @ \cup {m.name} |->
                     IF o = m.name THEN [uid |-> m.uid, by |-> <<n, pods[n].uid>>, at |-> sweep.at]
                     ELSE @[o]]]
      PROVE  SInv'
  <2>1. Filed(pods, m.name, [uid |-> m.uid, by |-> <<n, pods[n].uid>>, at |-> sweep.at])
    <3>1. Known(pods, m) /\ m.ip # NoAddress
      BY <1>2, <1>4 DEF Unreadable, Reached
    <3>2. pods[m.name].uid = m.uid => n = m.name
      BY <1>4, <3>1 DEF Known, SInv, PodsInv, OneAddressEach
    <3> QED BY <3>1, <3>2 DEF Known, Filed
  <2> DEFINE fresh == [o \in DOMAIN sweep.fresh \cup {m.name} |->
                         IF o = m.name THEN [uid |-> m.uid, by |-> <<n, pods[n].uid>>, at |-> sweep.at]
                         ELSE sweep.fresh[o]]
  <2>2. /\ sweep'.members = sweep.members /\ sweep'.todo = sweep.todo \ {m}
        /\ sweep'.failing = sweep.failing /\ sweep'.fresh = fresh
        /\ sweep'.at = sweep.at
        /\ SweepForm(sweep')
    <3> DEFINE rest == sweep.todo \ {m}
    <3>1. sweep' = [sweep EXCEPT !.todo = rest, !.fresh = fresh]
      BY <1>4, Zenon
    <3> HIDE DEF fresh, rest
    <3>2. /\ sweep'.members = sweep.members /\ sweep'.todo = rest
          /\ sweep'.failing = sweep.failing /\ sweep'.fresh = fresh
          /\ sweep'.at = sweep.at /\ SweepForm(sweep')
      <4>1. SweepForm(sweep)
        BY <1>2
      <4> QED BY <3>1, <4>1 DEF SweepForm
    <3> QED BY <3>2, Zenon DEF rest
  <2>3. /\ DOMAIN fresh = DOMAIN sweep.fresh \cup {m.name}
        /\ fresh[m.name] = [uid |-> m.uid, by |-> <<n, pods[n].uid>>, at |-> sweep.at]
        /\ \A o \in DOMAIN sweep.fresh : o # m.name => fresh[o] = sweep.fresh[o]
    OBVIOUS
  <2> HIDE DEF fresh
  <2>4. \A o \in DOMAIN fresh :
           /\ fresh[o].at = sweep.at
           /\ Filed(pods, o, fresh[o])
           /\ \E k \in sweep.members : k.name = o /\ k.uid = fresh[o].uid
    <3> SUFFICES ASSUME NEW o \in DOMAIN fresh
                 PROVE  /\ fresh[o].at = sweep.at
                        /\ Filed(pods, o, fresh[o])
                        /\ \E k \in sweep.members : k.name = o /\ k.uid = fresh[o].uid
      OBVIOUS
    <3>1. CASE o = m.name
      <4>1. fresh[o].at = sweep.at /\ fresh[o].uid = m.uid
        BY <2>3, <3>1
      <4> QED BY <1>2, <2>1, <2>3, <3>1, <4>1
    <3>2. CASE o # m.name
      BY <1>2, <2>3, <3>2
    <3> QED BY <3>1, <3>2
  <2>5. \A o \in sweep'.members \ sweep'.todo :
           o.name \in sweep'.failing \/ o.name \in DOMAIN sweep'.fresh
    BY <1>2, <2>2, <2>3
  <2>6. SweepInv'
    <3>1. Reached(pods', sweep.members)
      BY <1>1, <1>2 DEF Reached, Known
    <3>2. \A o \in DOMAIN fresh : Filed(pods', o, fresh[o])
      BY <1>1, <2>4 DEF Filed
    <3> QED BY <1>2, <2>2, <2>4, <2>5, <3>1, <3>2 DEF SweepInv, OneEach
  <2> QED BY <1>1, <2>6 DEF SInv, PodsInv, OneAddressEach, RosterInv, ReportsInv, Filed, OneEach, Reached, Known,
                SweepAccountsForAll, ReportIsItsPods
<1> QED BY <1>3, <1>4 DEF ReadMember

\* Everything was read or named; what is kept beside it was read of the pod
\* that bears the name in this sweep.
LEMMA PublishKeepsSInv ==
  ASSUME SInv, PublishSweep
  PROVE  SInv'
<1> DEFINE kept == {m.name : m \in {m \in sweep.members : Retained(m)}}
           readings == [n \in DOMAIN sweep.fresh \cup kept |->
                          IF n \in DOMAIN sweep.fresh THEN sweep.fresh[n]
                          ELSE reports.readings[n]]
<1>1. /\ sweep.on /\ sweep.todo = {} /\ sweep' = Idle
      /\ UNCHANGED <<pods, roster>>
  BY DEF PublishSweep, clusterVars
<1>2. reports' = [readings |-> readings, failing |-> sweep.failing, swept |-> sweep.members,
                  at |-> sweep.at, cut |-> sweep.cut]
  BY Zenon DEF PublishSweep
<1>3. /\ DOMAIN readings = DOMAIN sweep.fresh \cup kept
      /\ \A n \in DOMAIN sweep.fresh : readings[n] = sweep.fresh[n]
      /\ \A n \in kept : n \notin DOMAIN sweep.fresh => readings[n] = reports.readings[n]
  OBVIOUS
<1>4. \A n \in kept : \E m \in sweep.members : m.name = n /\ Retained(m)
  OBVIOUS
<1> HIDE DEF readings, kept
<1>5. /\ OneEach(sweep.members)
      /\ \A m \in sweep.members : m.name \in sweep.failing \/ m.name \in DOMAIN sweep.fresh
      /\ \A n \in DOMAIN sweep.fresh :
            /\ sweep.fresh[n].at = sweep.at
            /\ Filed(pods, n, sweep.fresh[n])
            /\ \E m \in sweep.members : m.name = n /\ m.uid = sweep.fresh[n].uid
  BY <1>1 DEF SInv, SweepInv
<1>6. /\ reports'.readings = readings /\ reports'.failing = sweep.failing
      /\ reports'.swept = sweep.members /\ reports'.at = sweep.at
  BY <1>2
<1>7. SweepAccountsForAll'
  BY <1>3, <1>5, <1>6 DEF SweepAccountsForAll
<1>8. \A n \in DOMAIN readings :
        Filed(pods, n, readings[n]) /\ \E m \in sweep.members : m.name = n /\ m.uid = readings[n].uid
  <2> SUFFICES ASSUME NEW n \in DOMAIN readings
               PROVE  /\ Filed(pods, n, readings[n])
                      /\ \E m \in sweep.members : m.name = n /\ m.uid = readings[n].uid
    OBVIOUS
  <2>1. CASE n \in DOMAIN sweep.fresh
    BY <1>3, <1>5, <2>1
  <2>2. CASE n \notin DOMAIN sweep.fresh
    <3>1. PICK m \in sweep.members : m.name = n /\ Retained(m)
      BY <1>3, <1>4, <2>2
    <3>2. readings[n] = reports.readings[n] /\ n \in DOMAIN reports.readings
          /\ reports.readings[n].uid = m.uid
      BY <1>3, <2>2, <3>1 DEF Retained
    <3> QED BY <3>1, <3>2 DEF SInv, ReportsInv
  <2> QED BY <2>1, <2>2
<1>9. ReportsInv' /\ ReportIsItsPods'
  BY <1>1, <1>5, <1>6, <1>8 DEF ReportsInv, ReportIsItsPods, Filed, OneEach
<1>10. SweepInv'
  BY <1>1 DEF SweepInv, Idle
<1> QED BY <1>1, <1>7, <1>9, <1>10 DEF SInv, PodsInv, OneAddressEach, RosterInv, OneEach, Reached, Known

\* A new process knows no roster and has no report.
LEMMA RestartKeepsSInv ==
  ASSUME SInv, Restart
  PROVE  SInv'
<1>1. /\ UNCHANGED pods /\ roster' = [known |-> FALSE] /\ sweep' = Idle
      /\ reports' = [readings |-> <<>>, failing |-> {}, swept |-> {}, at |-> Never, cut |-> FALSE]
  BY DEF Restart
<1>2. PodsInv' /\ RosterInv' /\ SweepInv'
  BY <1>1 DEF SInv, PodsInv, OneAddressEach, RosterInv, SweepInv, Idle
<1>3. SweepAccountsForAll' /\ ReportIsItsPods' /\ ReportsInv'
  BY <1>1 DEF SweepAccountsForAll, ReportIsItsPods, ReportsInv
<1> QED BY <1>2, <1>3 DEF SInv

\* Every step.
LEMMA SweepsNext == SInv /\ [Next]_vars => SInv'
<1> SUFFICES ASSUME SInv, [Next]_vars PROVE SInv'
  OBVIOUS
<1>1. CASE Outside
  BY <1>1, PodsKeepSInv, RosterKeepsSInv DEF Outside
<1>2. CASE StatusSweep
  BY <1>2, BeginKeepsSInv, DeadlineKeepsSInv, ReadKeepsSInv, PublishKeepsSInv DEF StatusSweep
<1>3. CASE Scraping
  <2>1. UNCHANGED <<pods, roster, sweep, reports>>
    BY <1>3 DEF Scraping, BeginScrape, EndScrape, ScrapeOne, clusterVars, statusVars
  <2> QED BY <2>1, OthersKeepSInv
<1>4. CASE Persisting
  <2>1. CASE Restart
    BY <2>1, RestartKeepsSInv
  <2>2. CASE WriteTemp \/ RenameTemp \/ FlushFails \/ Shutdown \/ Kill
    <3>1. UNCHANGED <<pods, roster, sweep, reports>>
      BY <2>2 DEF WriteTemp, RenameTemp, FlushFails, Shutdown, Kill, clusterVars, statusVars
    <3> QED BY <3>1, OthersKeepSInv
  <2> QED BY <1>4, <2>1, <2>2 DEF Persisting
<1>5. CASE UNCHANGED vars
  <2>1. UNCHANGED <<pods, roster, sweep, reports>>
    BY <1>5 DEF vars, clusterVars, statusVars
  <2> QED BY <2>1, OthersKeepSInv
<1> QED BY <1>1, <1>2, <1>3, <1>4, <1>5 DEF Next

\* The invariant: what a roster, a sweep under way and the reports name was
\* there, and is where they say as long as it still is.
THEOREM SweepsInvHolds == Spec => []SInv
BY SweepsInit, SweepsNext, PTL DEF Spec

\* Every member a status sweep was given was read by it or is named as
\* unread (instancestatus.go, sweep and publish), whatever the roster, the
\* deadline and the restarts did meanwhile.
THEOREM AccountsHolds == Spec => []SweepAccountsForAll
<1>1. SInv => SweepAccountsForAll
  BY DEF SInv
<1> QED BY <1>1, SweepsInvHolds, PTL

\* A report under a name, of this sweep or kept beside its failure, is of a pod
\* of the roster, and was given by that pod unless the pod is gone, whoever takes
\* over its address and when (Store.publish).
THEOREM ReportsHold == Spec => []ReportIsItsPods
<1>1. SInv => ReportIsItsPods
  BY DEF SInv
<1> QED BY <1>1, SweepsInvHolds, PTL

-----------------------------------------------------------------------------
(* The rings of the metrics window.                                          *)

\* A set of numbers has a least element.
LEMMA Least ==
  ASSUME NEW T, T \subseteq Nat, T # {}
  PROVE  \E x \in T : \A y \in T : x <= y
<1> DEFINE R == OpToRel(<, Nat)
<1>1. IsWellFoundedOn(R, Nat)
  BY NatLessThanWellFounded
<1>2. \E x \in T : \A y \in T : ~(<<y, x>> \in R)
  <2> HIDE DEF R
  <2> QED BY <1>1, WFMin
<1>3. \A x, y \in Nat : y < x => <<y, x>> \in R
  BY DEF OpToRel
<1> HIDE DEF R
<1>4. \A x, y \in T : ~(y < x) => x <= y
  OBVIOUS
<1> QED BY <1>2, <1>3, <1>4

\* A ring of a type: the slots that were written are of it.
Rings(cap, Entry) ==
    {ring \in [buf : [1..cap -> Entry \cup {<<>>}], next : 1..cap, full : BOOLEAN] :
        \A i \in 1..cap : i < ring.next \/ ring.full => ring.buf[i] \in Entry}

\* A new ring.
LEMMA NewRing ==
  ASSUME NEW cap \in Nat \ {0}, NEW Entry
  PROVE  newRing(cap) \in Rings(cap, Entry)
BY DEF newRing, Rings

\* The parts of a ring.
LEMMA RingParts ==
  ASSUME NEW cap \in Nat \ {0}, NEW Entry, NEW ring \in Rings(cap, Entry)
  PROVE  /\ ring = [buf |-> ring.buf, next |-> ring.next, full |-> ring.full]
         /\ ring.buf \in [1..cap -> Entry \cup {<<>>}]
         /\ Len(ring.buf) = cap
         /\ ring.next \in 1..cap /\ ring.full \in BOOLEAN
         /\ \A i \in 1..cap : i < ring.next \/ ring.full => ring.buf[i] \in Entry
<1>1. ring \in [buf : [1..cap -> Entry \cup {<<>>}], next : 1..cap, full : BOOLEAN]
  BY Zenon DEF Rings
<1>2. /\ ring = [buf |-> ring.buf, next |-> ring.next, full |-> ring.full]
      /\ ring.buf \in [1..cap -> Entry \cup {<<>>}]
      /\ ring.next \in 1..cap /\ ring.full \in BOOLEAN
  BY <1>1
<1>3. Len(ring.buf) = cap
  BY <1>2
<1>4. \A i \in 1..cap : i < ring.next \/ ring.full => ring.buf[i] \in Entry
  BY Zenon DEF Rings
<1> QED BY <1>2, <1>3, <1>4

\* A ring after one push.
Pushed(ring, v, after, cap, Entry) ==
    /\ after \in Rings(cap, Entry)
    /\ after.buf[ring.next] = v
    /\ \A i \in 1..cap : i # ring.next => after.buf[i] = ring.buf[i]
    /\ ring.next = cap => after.next = 1 /\ after.full = TRUE
    /\ ring.next < cap => after.next = ring.next + 1 /\ after.full = ring.full

\* push writes one slot.
LEMMA PushParts ==
  ASSUME NEW cap \in Nat \ {0}, NEW Entry, NEW ring \in Rings(cap, Entry), NEW v \in Entry
  PROVE  Pushed(ring, v, push(ring, v), cap, Entry)
<1> DEFINE put == [ring.buf EXCEPT ![ring.next] = v]
<1>1. /\ ring.buf \in [1..cap -> Entry \cup {<<>>}]
      /\ Len(ring.buf) = cap
      /\ ring.next \in 1..cap /\ ring.full \in BOOLEAN
      /\ \A i \in 1..cap : i < ring.next \/ ring.full => ring.buf[i] \in Entry
  BY RingParts
<1>2. /\ put \in [1..cap -> Entry \cup {<<>>}] /\ put[ring.next] = v
      /\ \A i \in 1..cap : i # ring.next => put[i] = ring.buf[i]
  BY <1>1
<1>3. push(ring, v) = [buf |-> put, next |-> IF ring.next = cap THEN 1 ELSE ring.next + 1,
                       full |-> ring.full \/ ring.next = cap]
  BY <1>1 DEF push
<1> HIDE DEF put
<1>4. CASE ring.next = cap
  <2>1. push(ring, v) = [buf |-> put, next |-> 1, full |-> TRUE]
    BY <1>3, <1>4
  <2>2. \A i \in 1..cap : put[i] \in Entry
    BY <1>1, <1>2, <1>4
  <2>3. push(ring, v) \in Rings(cap, Entry)
    BY <1>2, <2>1, <2>2 DEF Rings
  <2>4. push(ring, v).buf = put /\ push(ring, v).next = 1 /\ push(ring, v).full = TRUE
    BY <2>1
  <2>5. ~(ring.next < cap)
    BY <1>4
  <2> QED BY <1>2, <2>3, <2>4, <2>5, Zenon DEF Pushed
<1>5. CASE ring.next < cap
  <2>1. push(ring, v) = [buf |-> put, next |-> ring.next + 1, full |-> ring.full]
    <3>1. (ring.next = cap) = FALSE
      BY <1>1, <1>5
    <3>2. (ring.full \/ FALSE) = ring.full
      BY <1>1
    <3> QED BY <1>3, <3>1, <3>2
  <2>2. \A i \in 1..cap : i < ring.next + 1 \/ ring.full => put[i] \in Entry
    BY <1>1, <1>2, <1>5
  <2>3. push(ring, v) \in Rings(cap, Entry)
    BY <1>1, <1>2, <1>5, <2>1, <2>2 DEF Rings
  <2>4. /\ push(ring, v).buf = put /\ push(ring, v).next = ring.next + 1
        /\ push(ring, v).full = ring.full
    BY <2>1
  <2>5. ring.next # cap
    BY <1>1, <1>5
  <2> QED BY <1>2, <2>3, <2>4, <2>5, Zenon DEF Pushed
<1>6. ring.next = cap \/ ring.next < cap
  BY <1>1
<1> QED BY <1>4, <1>5, <1>6, Zenon

\* A larger type.
LEMMA RingsGrow ==
  ASSUME NEW cap \in Nat \ {0}, NEW Entry, NEW More, Entry \subseteq More,
         NEW ring \in Rings(cap, Entry)
  PROVE  ring \in Rings(cap, More)
<1>1. /\ ring = [buf |-> ring.buf, next |-> ring.next, full |-> ring.full]
      /\ ring.buf \in [1..cap -> Entry \cup {<<>>}]
      /\ ring.next \in 1..cap /\ ring.full \in BOOLEAN
      /\ \A i \in 1..cap : i < ring.next \/ ring.full => ring.buf[i] \in Entry
  BY RingParts
<1>2. ring.buf \in [1..cap -> More \cup {<<>>}]
  BY <1>1
<1>3. \A i \in 1..cap : i < ring.next \/ ring.full => ring.buf[i] \in More
  BY <1>1
<1>4. ring \in [buf : [1..cap -> More \cup {<<>>}], next : 1..cap, full : BOOLEAN]
  BY <1>1, <1>2
<1> QED BY <1>3, <1>4 DEF Rings

\* each: how many entries, and which.
LEMMA EachParts ==
  ASSUME NEW cap \in Nat \ {0}, NEW Entry, NEW ring \in Rings(cap, Entry)
  PROVE  /\ each(ring) \in Seq(Entry)
         /\ ~ring.full => /\ Len(each(ring)) = ring.next - 1
                          /\ \A i \in 1..ring.next - 1 : each(ring)[i] = ring.buf[i]
         /\ ring.full => /\ Len(each(ring)) = cap
                         /\ \A i \in 1..cap :
                              each(ring)[i] = IF i <= cap - ring.next + 1 THEN ring.buf[ring.next + i - 1]
                                              ELSE ring.buf[i - (cap - ring.next + 1)]
<1> DEFINE buf == ring.buf
           next == ring.next
           newer == SubSeq(buf, 1, next - 1)
           older == SubSeq(buf, next, cap)
<1>1. /\ Len(buf) = cap /\ next \in 1..cap /\ ring.full \in BOOLEAN
      /\ \A i \in 1..cap : i < next \/ ring.full => buf[i] \in Entry
  BY RingParts
<1>2. each(ring) = (IF ring.full THEN older ELSE <<>>) \o newer
  BY <1>1 DEF each
<1> HIDE DEF buf, next
<1>3. /\ newer \in Seq(Entry) /\ Len(newer) = next - 1
      /\ \A i \in 1..next - 1 : newer[i] = buf[i]
  <2>1. \A i \in 1..next - 1 : buf[i] \in Entry
    BY <1>1
  <2>2. 1 \in Int /\ next - 1 \in Int
    BY <1>1
  <2>3. /\ newer \in Seq(Entry)
        /\ Len(newer) = IF 1 <= next - 1 THEN (next - 1) - 1 + 1 ELSE 0
        /\ \A i \in 1..((next - 1) - 1 + 1) : newer[i] = buf[1 + i - 1]
    BY <2>1, <2>2, SubSeqProperties
  <2> HIDE DEF newer
  <2> QED BY <2>3, <1>1
<1>4. CASE ~ring.full
  <2>1. each(ring) = newer
    <3>1. each(ring) = <<>> \o newer
      BY <1>2, <1>4
    <3> HIDE DEF newer
    <3> QED BY <1>3, <3>1, ConcatEmptySeq
  <2> HIDE DEF newer
  <2> QED BY <1>3, <1>4, <2>1 DEF next, buf
<1>5. CASE ring.full
  <2>1. /\ older \in Seq(Entry) /\ Len(older) = cap - next + 1
        /\ \A i \in 1..(cap - next + 1) : older[i] = buf[next + i - 1]
    <3>1. \A i \in next..cap : buf[i] \in Entry
      BY <1>1, <1>5
    <3>2. next \in Int /\ cap \in Int
      BY <1>1
    <3>3. /\ older \in Seq(Entry)
          /\ Len(older) = IF next <= cap THEN cap - next + 1 ELSE 0
          /\ \A i \in 1..(cap - next + 1) : older[i] = buf[next + i - 1]
      BY <3>1, <3>2, SubSeqProperties
    <3> HIDE DEF older
    <3> QED BY <3>3, <1>1
  <2>2. each(ring) = older \o newer
    BY <1>2, <1>5
  <2> HIDE DEF older, newer
  <2>3. /\ each(ring) \in Seq(Entry) /\ Len(each(ring)) = Len(older) + Len(newer)
        /\ \A i \in 1..(Len(older) + Len(newer)) : each(ring)[i] =
                IF i <= Len(older) THEN older[i] ELSE newer[i - Len(older)]
    BY <1>3, <2>1, <2>2, ConcatProperties
  <2>4. Len(each(ring)) = cap
    BY <1>1, <1>3, <2>1, <2>3
  <2>5. \A i \in 1..cap : each(ring)[i] = IF i <= cap - next + 1 THEN buf[next + i - 1]
                                          ELSE buf[i - (cap - next + 1)]
    <3> SUFFICES ASSUME NEW i \in 1..cap
                 PROVE  each(ring)[i] = IF i <= cap - next + 1 THEN buf[next + i - 1]
                                        ELSE buf[i - (cap - next + 1)]
      OBVIOUS
    <3>1. each(ring)[i] = IF i <= Len(older) THEN older[i] ELSE newer[i - Len(older)]
      BY <1>1, <1>3, <2>1, <2>3
    <3>2. CASE i <= cap - next + 1
      <4>1. each(ring)[i] = older[i] /\ i \in 1..(cap - next + 1)
        BY <1>1, <2>1, <3>1, <3>2
      <4> QED BY <2>1, <3>2, <4>1
    <3>3. CASE ~(i <= cap - next + 1)
      <4>1. each(ring)[i] = newer[i - (cap - next + 1)] /\ i - (cap - next + 1) \in 1..next - 1
        BY <1>1, <2>1, <3>1, <3>3
      <4> QED BY <1>3, <3>3, <4>1
    <3> QED BY <3>2, <3>3
  <2> QED BY <1>5, <2>3, <2>4, <2>5 DEF next, buf
<1> QED BY <1>4, <1>5

Rate == [since : Nat, at : Nat]

\* A ring after `all' was pushed: it is in a lap that began when b of them had been.
LapFrom(ring, all, cap, b) ==
    /\ ring.next = Len(all) - b + 1
    /\ \A i \in 1..cap : i < ring.next => ring.buf[i] = all[b + i]
    /\ ring.full => b >= cap /\ \A i \in 1..cap : i >= ring.next => ring.buf[i] = all[b - cap + i]
    /\ ~ring.full => b = 0

Laps(ring, all, cap) ==
    ring \in Rings(cap, Rate) /\ \E b \in 0..Len(all) : LapFrom(ring, all, cap, b)

\* Nothing was pushed.
LEMMA NewLaps ==
  ASSUME NEW cap \in Nat \ {0}
  PROVE  Laps(newRing(cap), <<>>, cap)
<1>1. newRing(cap) \in Rings(cap, Rate)
  BY NewRing
<1>2. Len(<<>>) = 0
  OBVIOUS
<1>3. LapFrom(newRing(cap), <<>>, cap, 0)
  BY <1>2 DEF LapFrom, newRing
<1> QED BY <1>1, <1>2, <1>3 DEF Laps

\* What a sequence is after one more.
LEMMA Appended ==
  ASSUME NEW S, NEW all \in Seq(S), NEW v \in S
  PROVE  /\ Append(all, v) \in Seq(S) /\ Len(all) \in Nat
         /\ Len(Append(all, v)) = Len(all) + 1
         /\ Append(all, v)[Len(all) + 1] = v
         /\ \A i \in 1..Len(all) : Append(all, v)[i] = all[i]
OBVIOUS

\* A push goes on with the lap or begins the next.
LEMMA PushLaps ==
  ASSUME NEW cap \in Nat \ {0}, NEW all \in Seq(Rate), NEW ring, Laps(ring, all, cap), NEW rate \in Rate
  PROVE  Laps(push(ring, rate), Append(all, rate), cap)
<1> DEFINE after == push(ring, rate)
           more == Append(all, rate)
           n == Len(all)
<1>1. ring \in Rings(cap, Rate)
  BY DEF Laps
<1>2. PICK b \in 0..Len(all) : LapFrom(ring, all, cap, b)
  BY DEF Laps
<1>3. Pushed(ring, rate, after, cap, Rate)
  BY <1>1, PushParts
<1>4. ring.next \in 1..cap
  BY <1>1, RingParts
<1>5. more[n + 1] = rate /\ Len(more) = n + 1 /\ n \in Nat /\ \A i \in 1..n : more[i] = all[i]
  BY Appended
<1> HIDE DEF after, more, n
<1>10. /\ after \in Rings(cap, Rate)
       /\ after.buf[ring.next] = rate
       /\ \A i \in 1..cap : i # ring.next => after.buf[i] = ring.buf[i]
       /\ ring.next = cap => after.next = 1 /\ after.full = TRUE
       /\ ring.next < cap => after.next = ring.next + 1 /\ after.full = ring.full
  BY <1>3, Zenon DEF Pushed
<1>6. /\ b \in 0..n /\ ring.next = n - b + 1
      /\ \A i \in 1..cap : i < ring.next => ring.buf[i] = all[b + i]
      /\ ring.full => b >= cap /\ \A i \in 1..cap : i >= ring.next => ring.buf[i] = all[b - cap + i]
      /\ ~ring.full => b = 0
  BY <1>2 DEF LapFrom, n
<1>7. CASE ring.next < cap
  <2>1. \A i \in 1..cap : i < after.next => after.buf[i] = more[b + i]
    <3> SUFFICES ASSUME NEW i \in 1..cap, i < after.next PROVE after.buf[i] = more[b + i]
      OBVIOUS
    <3>1. CASE i = ring.next
      BY <1>10, <1>5, <1>6, <3>1
    <3>2. CASE i < ring.next
      <4>1. b + i \in 1..n
        BY <1>5, <1>6, <3>2
      <4> QED BY <1>10, <1>4, <1>5, <1>6, <3>2, <4>1
    <3> QED BY <1>10, <1>4, <1>7, <3>1, <3>2
  <2>2. ASSUME after.full, NEW i \in 1..cap, i >= after.next PROVE after.buf[i] = more[b - cap + i]
    <3>1. ring.full /\ after.next = ring.next + 1
      BY <1>10, <1>7, <2>2
    <3>2. i >= ring.next /\ i # ring.next
      BY <1>4, <2>2, <3>1
    <3>3. after.buf[i] = all[b - cap + i] /\ b >= cap
      BY <1>10, <1>6, <3>1, <3>2
    <3>4. b - cap + i \in 1..n
      BY <1>5, <1>6, <3>3
    <3> QED BY <1>5, <3>3, <3>4
  <2>3. LapFrom(after, more, cap, b)
    BY <1>10, <1>4, <1>5, <1>6, <1>7, <2>1, <2>2 DEF LapFrom
  <2>4. b \in 0..Len(more)
    BY <1>5, <1>6
  <2> QED BY <1>10, <2>3, <2>4 DEF Laps, after, more
<1>8. CASE ring.next = cap
  <2> DEFINE c == n + 1
  <2>1. ASSUME NEW i \in 1..cap PROVE after.buf[i] = more[c - cap + i]
    <3>1. c - cap + i = b + i
      BY <1>4, <1>5, <1>6, <1>8
    <3>2. CASE i = cap
      <4>1. b + i = n + 1
        BY <1>4, <1>5, <1>6, <1>8, <3>2
      <4> QED BY <1>10, <1>5, <1>8, <3>1, <3>2, <4>1
    <3>3. CASE i < cap
      <4>1. b + i \in 1..n
        BY <1>5, <1>6, <1>8, <3>3
      <4>2. i < ring.next /\ i # ring.next
        BY <1>4, <1>8, <3>3
      <4>3. after.buf[i] = all[b + i]
        BY <1>10, <1>6, <4>2
      <4> QED BY <1>5, <3>1, <4>1, <4>3
    <3> QED BY <3>2, <3>3
  <2>2. c >= cap /\ c \in 0..Len(more) /\ after.next = Len(more) - c + 1
    BY <1>10, <1>4, <1>5, <1>6, <1>8
  <2> HIDE DEF c
  <2>3. LapFrom(after, more, cap, c)
    BY <1>10, <1>8, <2>1, <2>2 DEF LapFrom
  <2> QED BY <1>10, <2>2, <2>3 DEF Laps, after, more
<1>9. ring.next < cap \/ ring.next = cap
  BY <1>4
<1> QED BY <1>7, <1>8, <1>9

\* The last n of a sequence.
LEMMA LastParts ==
  ASSUME NEW S, NEW all \in Seq(S), NEW n \in Nat
  PROVE  /\ LastOf(all, n) \in Seq(S)
         /\ Len(all) > n => /\ Len(LastOf(all, n)) = n
                            /\ \A i \in 1..n : LastOf(all, n)[i] = all[Len(all) - n + i]
         /\ Len(all) <= n => LastOf(all, n) = all
<1> DEFINE len == Len(all)
<1>1. len \in Nat /\ \A i \in 1..len : all[i] \in S
  BY ElementOfSeq
<1>2. CASE len > n
  <2> DEFINE m == len - n + 1
             last == SubSeq(all, m, len)
  <2>1. LastOf(all, n) = last
    BY <1>2 DEF LastOf
  <2>2. m \in Int /\ len \in Int /\ m >= 1 /\ m <= len + 1
    BY <1>1, <1>2
  <2>3. \A i \in m..len : all[i] \in S
    BY <1>1, <2>2
  <2>4. /\ last \in Seq(S) /\ Len(last) = IF m <= len THEN len - m + 1 ELSE 0
        /\ \A i \in 1..(len - m + 1) : last[i] = all[m + i - 1]
    <3> HIDE DEF m, len
    <3> QED BY <2>2, <2>3, SubSeqProperties
  <2> HIDE DEF last
  <2>5. len - m + 1 = n /\ (n = 0 \/ m <= len) /\ \A i \in 1..n : m + i - 1 = len - n + i
    BY <1>1, <1>2
  <2>6. Len(last) = n
    BY <2>4, <2>5, <2>2, <1>1
  <2> QED BY <1>1, <1>2, <2>1, <2>4, <2>5, <2>6
<1>3. CASE ~(len > n)
  <2>1. LastOf(all, n) = all
    BY <1>3, SubSeqFull DEF LastOf
  <2> QED BY <1>1, <1>3, <2>1
<1> QED BY <1>2, <1>3

\* What each passes, after any number of laps, is the last that was pushed.
LEMMA EachIsLast ==
  ASSUME NEW cap \in Nat \ {0}, NEW all \in Seq(Rate), NEW ring, Laps(ring, all, cap)
  PROVE  each(ring) = LastOf(all, cap)
<1> DEFINE n == Len(all)
           kept == each(ring)
           last == LastOf(all, cap)
<1>1. ring \in Rings(cap, Rate)
  BY DEF Laps
<1>2. PICK b \in 0..Len(all) : LapFrom(ring, all, cap, b)
  BY DEF Laps
<1>3. /\ n \in Nat /\ b \in 0..n /\ ring.next = n - b + 1
      /\ \A i \in 1..cap : i < ring.next => ring.buf[i] = all[b + i]
      /\ ring.full => b >= cap /\ \A i \in 1..cap : i >= ring.next => ring.buf[i] = all[b - cap + i]
      /\ ~ring.full => b = 0
  BY <1>2 DEF LapFrom
<1>4. ring.next \in 1..cap /\ ring.full \in BOOLEAN
  BY <1>1, RingParts
<1>5. /\ kept \in Seq(Rate)
      /\ ~ring.full => /\ Len(kept) = ring.next - 1
                       /\ \A i \in 1..ring.next - 1 : kept[i] = ring.buf[i]
      /\ ring.full => /\ Len(kept) = cap
                      /\ \A i \in 1..cap :
                           kept[i] = IF i <= cap - ring.next + 1 THEN ring.buf[ring.next + i - 1]
                                     ELSE ring.buf[i - (cap - ring.next + 1)]
  BY <1>1, EachParts
<1>6. /\ last \in Seq(Rate)
      /\ n > cap => /\ Len(last) = cap
                    /\ \A i \in 1..cap : last[i] = all[n - cap + i]
      /\ n <= cap => last = all
  BY LastParts
<1> HIDE DEF n, kept, last
<1>7. CASE ~ring.full
  <2>1. n <= cap /\ n = ring.next - 1 /\ Len(kept) = n
    BY <1>3, <1>4, <1>5, <1>7
  <2>2. \A i \in 1..n : kept[i] = all[i]
    BY <1>3, <1>4, <1>5, <1>7, <2>1
  <2>3. kept = all
    BY <1>5, <2>1, <2>2, SeqEqual DEF n
  <2> QED BY <1>6, <2>1, <2>3 DEF kept, last
<1>8. CASE ring.full
  <2>1. n >= cap /\ Len(kept) = cap
    BY <1>3, <1>4, <1>5, <1>8
  <2>2. ASSUME NEW i \in 1..cap PROVE kept[i] = all[n - cap + i]
    <3>1. CASE i <= cap - ring.next + 1
      <4>1. kept[i] = ring.buf[ring.next + i - 1]
        BY <1>5, <1>8, <3>1
      <4>2. ring.next + i - 1 \in 1..cap /\ ring.next + i - 1 >= ring.next
        BY <1>4, <3>1
      <4>3. ring.buf[ring.next + i - 1] = all[b - cap + (ring.next + i - 1)]
        BY <1>3, <1>8, <4>2
      <4>4. b - cap + (ring.next + i - 1) = n - cap + i
        BY <1>3
      <4> QED BY <4>1, <4>3, <4>4
    <3>2. CASE ~(i <= cap - ring.next + 1)
      <4> DEFINE j == i - (cap - ring.next + 1)
      <4>1. kept[i] = ring.buf[j]
        BY <1>5, <1>8, <3>2
      <4>2. j \in 1..cap /\ j < ring.next /\ b + j = n - cap + i
        BY <1>3, <1>4, <3>2
      <4> HIDE DEF j
      <4> QED BY <1>3, <4>1, <4>2
    <3> QED BY <3>1, <3>2
  <2>3. Len(last) = cap /\ \A i \in 1..cap : last[i] = all[n - cap + i]
    <3>1. CASE n > cap
      BY <1>6, <3>1
    <3>2. CASE n = cap
      <4>1. last = all /\ Len(last) = cap
        BY <1>3, <1>6, <3>2 DEF n
      <4>2. \A i \in 1..cap : n - cap + i = i
        BY <1>3, <3>2
      <4> QED BY <4>1, <4>2
    <3> QED BY <1>3, <2>1, <3>1, <3>2
  <2>4. kept = last
    BY <1>5, <1>6, <2>1, <2>2, <2>3, SeqEqual
  <2> QED BY <2>4 DEF kept, last
<1> QED BY <1>4, <1>7, <1>8

-----------------------------------------------------------------------------
(* Rings restored from a snapshot.                                           *)

\* A ring filled once, up to n entries.
Filled(cap, entries, n) ==
    [buf  |-> [i \in 1..cap |-> IF i <= n THEN entries[i] ELSE <<>>],
     next |-> IF n = cap THEN 1 ELSE n + 1,
     full |-> n = cap]

\* Filling goes on by a push.
LEMMA FillStep ==
  ASSUME NEW cap \in Nat \ {0}, NEW Entry, NEW entries \in Seq(Entry), NEW n \in 1..Len(entries),
         n <= cap
  PROVE  push(Filled(cap, entries, n - 1), entries[n]) = Filled(cap, entries, n)
<1> DEFINE ring == Filled(cap, entries, n - 1)
           was == [i \in 1..cap |-> IF i <= n - 1 THEN entries[i] ELSE <<>>]
           put == [was EXCEPT ![n] = entries[n]]
<1>1. Len(entries) \in Nat /\ n \in Nat
  OBVIOUS
<1>2. ring = [buf |-> was, next |-> n, full |-> FALSE]
  <2>1. ring = [buf |-> was, next |-> IF n - 1 = cap THEN 1 ELSE n - 1 + 1, full |-> n - 1 = cap]
    BY Zenon DEF Filled
  <2>2. (n - 1 = cap) = FALSE /\ n - 1 + 1 = n
    BY <1>1
  <2> HIDE DEF ring, was
  <2> QED BY <2>1, <2>2
<1>3. Len(was) = cap /\ DOMAIN was = 1..cap
  OBVIOUS
<1>4. put = [i \in 1..cap |-> IF i <= n THEN entries[i] ELSE <<>>]
  <2>1. DOMAIN put = 1..cap
    OBVIOUS
  <2>2. ASSUME NEW i \in 1..cap PROVE put[i] = IF i <= n THEN entries[i] ELSE <<>>
    <3>1. CASE i = n
      BY <1>1, <3>1
    <3>2. CASE i # n
      <4>1. i <= n - 1 <=> i <= n
        BY <1>1, <3>2
      <4> QED BY <3>2, <4>1
    <3> QED BY <3>1, <3>2
  <2>3. put = [i \in 1..cap |-> put[i]]
    BY <2>1
  <2> HIDE DEF put
  <2> QED BY <2>2, <2>3
<1> HIDE DEF was, put
<1>5. push(ring, entries[n]) = [buf |-> [was EXCEPT ![n] = entries[n]],
                                next |-> IF n = cap THEN 1 ELSE n + 1, full |-> FALSE \/ n = cap]
  <2> HIDE DEF ring
  <2>1. ring.buf = was /\ ring.next = n /\ ring.full = FALSE
    BY <1>2
  <2> QED BY <1>3, <2>1 DEF push
<1>6. push(ring, entries[n]) = [buf |-> put, next |-> IF n = cap THEN 1 ELSE n + 1, full |-> n = cap]
  BY <1>5 DEF put
<1> QED BY <1>4, <1>6 DEF Filled

\* refill, of no more than the ring has slots for.
LEMMA Refills ==
  ASSUME NEW cap \in Nat \ {0}, NEW Entry, NEW entries \in Seq(Entry), Len(entries) <= cap
  PROVE  refill(cap, entries) = Filled(cap, entries, Len(entries))
<1> DEFINE N == Len(entries)
           Def(f) == f = [n \in 0..N |-> IF n = 0 THEN newRing(cap) ELSE push(f[n - 1], entries[n])]
           fill == [n \in 0..N |-> Filled(cap, entries, n)]
           chosen == CHOOSE f : Def(f)
<1>1. N \in Nat
  OBVIOUS
<1>2. Filled(cap, entries, 0) = newRing(cap)
  <2>1. [i \in 1..cap |-> IF i <= 0 THEN entries[i] ELSE <<>>] = [i \in 1..cap |-> <<>>]
    <3>1. \A i \in 1..cap : ~(i <= 0)
      OBVIOUS
    <3> QED BY <3>1
  <2>2. (0 = cap) = FALSE /\ 0 + 1 = 1
    OBVIOUS
  <2> QED BY <2>1, <2>2, Zenon DEF Filled, newRing
<1>3. Def(fill)
  <2>1. ASSUME NEW n \in 0..N
        PROVE  Filled(cap, entries, n) = IF n = 0 THEN newRing(cap) ELSE push(fill[n - 1], entries[n])
    <3>1. CASE n = 0
      BY <1>2, <3>1
    <3>2. CASE n # 0
      <4>1. n \in 1..N /\ n <= cap /\ n - 1 \in 0..N
        BY <1>1, <3>2
      <4>2. fill[n - 1] = Filled(cap, entries, n - 1)
        BY <4>1
      <4>3. push(Filled(cap, entries, n - 1), entries[n]) = Filled(cap, entries, n)
        BY <4>1, FillStep
      <4> QED BY <3>2, <4>2, <4>3
    <3> QED BY <3>1, <3>2
  <2> QED BY <2>1
<1>4. Def(chosen)
  <2> HIDE DEF Def, fill
  <2> QED BY <1>3, Zenon
<1>5. refill(cap, entries) = chosen[N]
  BY DEF refill
<1> HIDE DEF chosen
<1>6. \A n \in 0..N : chosen[n] = Filled(cap, entries, n)
  <2> DEFINE T == {n \in 0..N : chosen[n] # Filled(cap, entries, n)}
  <2> SUFFICES ASSUME T # {} PROVE FALSE
    OBVIOUS
  <2>1. PICK n \in T : \A m \in T : n <= m
    <3>1. T \subseteq Nat
      BY <1>1
    <3> HIDE DEF T
    <3> QED BY <3>1, Least
  <2>2. n \in 0..N /\ chosen[n] # Filled(cap, entries, n)
    OBVIOUS
  <2>3. chosen[n] = IF n = 0 THEN newRing(cap) ELSE push(chosen[n - 1], entries[n])
    BY <1>4, <2>2
  <2>4. n # 0
    BY <1>2, <2>2, <2>3
  <2>5. n \in 1..N /\ n <= cap /\ n - 1 \in 0..N /\ ~(n <= n - 1)
    BY <1>1, <2>2, <2>4
  <2>6. chosen[n - 1] = Filled(cap, entries, n - 1)
    BY <2>1, <2>5
  <2>7. push(Filled(cap, entries, n - 1), entries[n]) = Filled(cap, entries, n)
    BY <2>5, FillStep
  <2> QED BY <2>2, <2>3, <2>4, <2>6, <2>7
<1> QED BY <1>1, <1>5, <1>6

\* What was restored is of its type.
LEMMA RefillRings ==
  ASSUME NEW cap \in Nat \ {0}, NEW Entry, NEW entries \in Seq(Entry), Len(entries) <= cap
  PROVE  refill(cap, entries) \in Rings(cap, Entry)
<1> DEFINE n == Len(entries)
           buf == [i \in 1..cap |-> IF i <= n THEN entries[i] ELSE <<>>]
           next == IF n = cap THEN 1 ELSE n + 1
           full == n = cap
<1>1. n \in Nat /\ \A i \in 1..n : entries[i] \in Entry
  BY ElementOfSeq
<1>2. refill(cap, entries) = [buf |-> buf, next |-> next, full |-> full]
  BY Refills DEF Filled
<1>3. buf \in [1..cap -> Entry \cup {<<>>}]
  BY <1>1
<1>4. next \in 1..cap /\ full \in BOOLEAN
  BY <1>1
<1>5. \A i \in 1..cap : i < next \/ full => buf[i] \in Entry
  BY <1>1
<1> HIDE DEF buf, next, full
<1> QED BY <1>2, <1>3, <1>4, <1>5 DEF Rings

\* A ring restored from the last that were pushed is as if they all had been.
LEMMA RefillLaps ==
  ASSUME NEW cap \in Nat \ {0}, NEW all \in Seq(Rate)
  PROVE  Laps(refill(cap, LastOf(all, cap)), all, cap)
<1> DEFINE n == Len(all)
           last == LastOf(all, cap)
           ring == refill(cap, last)
<1>0. n \in Nat
  OBVIOUS
<1>1. /\ last \in Seq(Rate)
      /\ n > cap => /\ Len(last) = cap
                    /\ \A i \in 1..cap : last[i] = all[n - cap + i]
      /\ n <= cap => last = all
  BY LastParts
<1>2. Len(last) <= cap
  <2> HIDE DEF last
  <2> QED BY <1>0, <1>1
<1> HIDE DEF last
<1>3. ring \in Rings(cap, Rate)
  BY <1>1, <1>2, RefillRings
<1>4. ring = Filled(cap, last, Len(last))
  BY <1>1, <1>2, Refills
<1> HIDE DEF ring
<1>5. CASE n < cap
  <2>1. last = all /\ Len(last) = n
    BY <1>0, <1>1, <1>5
  <2>2. /\ ring.next = n + 1 /\ ring.full = FALSE
        /\ \A i \in 1..cap : i <= n => ring.buf[i] = all[i]
    <3>1. ring = [buf |-> [i \in 1..cap |-> IF i <= n THEN all[i] ELSE <<>>],
                  next |-> IF n = cap THEN 1 ELSE n + 1, full |-> n = cap]
      BY <1>4, <2>1, Zenon DEF Filled
    <3>2. (n = cap) = FALSE
      BY <1>0, <1>5
    <3> QED BY <3>1, <3>2
  <2>3. LapFrom(ring, all, cap, 0)
    BY <1>0, <2>2 DEF LapFrom
  <2> QED BY <1>0, <1>3, <2>3 DEF Laps, ring, last
<1>6. CASE n >= cap
  <2>1. Len(last) = cap /\ \A i \in 1..cap : last[i] = all[n - cap + i]
    <3>1. CASE n = cap
      <4>1. \A i \in 1..cap : n - cap + i = i
        BY <1>0, <3>1
      <4> QED BY <1>1, <3>1, <4>1
    <3> QED BY <1>0, <1>1, <1>6, <3>1
  <2>2. ring.next = 1 /\ ring.full = TRUE /\ \A i \in 1..cap : ring.buf[i] = all[n - cap + i]
    <3>1. ring = [buf |-> [i \in 1..cap |-> IF i <= cap THEN last[i] ELSE <<>>],
                  next |-> IF cap = cap THEN 1 ELSE cap + 1, full |-> cap = cap]
      BY <1>4, <2>1, Zenon DEF Filled
    <3>2. ring.next = 1 /\ ring.full = TRUE
      BY <3>1
    <3>3. \A i \in 1..cap : ring.buf[i] = last[i]
      BY <3>1
    <3> QED BY <2>1, <3>2, <3>3
  <2>3. LapFrom(ring, all, cap, n)
    BY <1>0, <1>6, <2>2 DEF LapFrom
  <2> QED BY <1>0, <1>3, <2>3 DEF Laps, ring, last
<1> QED BY <1>0, <1>5, <1>6

\* A push of a rate later than all the others leaves another ring.
LEMMA PushChanges ==
  ASSUME NEW cap \in Nat \ {0}, NEW all \in Seq(Rate), NEW ring, Laps(ring, all, cap), NEW rate \in Rate,
         \A i \in 1..Len(all) : all[i].at < rate.at
  PROVE  push(ring, rate) # ring
<1> SUFFICES ASSUME push(ring, rate) = ring PROVE FALSE
  OBVIOUS
<1>1. ring \in Rings(cap, Rate)
  BY DEF Laps
<1>2. PICK b \in 0..Len(all) : LapFrom(ring, all, cap, b)
  BY DEF Laps
<1>3. Pushed(ring, rate, ring, cap, Rate)
  BY <1>1, PushParts
<1>4. ring.next \in 1..cap
  BY <1>1, RingParts
<1>5. ring.next = cap /\ ring.next = 1 /\ ring.full = TRUE /\ ring.buf[1] = rate
  BY <1>3, <1>4 DEF Pushed
<1>6. ring.buf[1] = all[b] /\ b \in 1..Len(all)
  BY <1>2, <1>5 DEF LapFrom
<1>7. all[b].at < rate.at /\ all[b] = rate /\ rate.at \in Nat
  BY <1>5, <1>6 DEF Rate
<1> QED BY <1>7

-----------------------------------------------------------------------------
(* One rate, one reading, one instance.                                      *)

\* A rollup bucket.
Bucket == [start : Int, count : Nat]

\* The multiple below a number.
LEMMA Remainder ==
  ASSUME NEW x \in Nat, NEW R \in Nat, R > 0
  PROVE  /\ x \div R \in Int /\ x % R \in Int /\ 0 <= x % R /\ x % R < R
         /\ x - (x % R) = R * (x \div R)
<1>1. x \div R \in Int /\ x % R \in Int /\ 0 <= x % R /\ x % R < R
  OBVIOUS
<1>2. x % R = x - R * (x \div R)
  OBVIOUS
<1> DEFINE u == R * (x \div R)
           r == x % R
<1>3. u \in Int /\ r \in Int /\ r = x - u
  BY <1>1, <1>2
<1> HIDE DEF u, r
<1>4. x - r = u
  BY <1>3
<1>5. x - (x % R) = R * (x \div R)
  BY <1>4 DEF u, r
<1> QED BY <1>1, <1>5, Zenon

\* Multiples are in the order of their factors.
LEMMA Multiples ==
  ASSUME NEW R \in Nat, R > 0, NEW p \in Int, NEW q \in Int
  PROVE  p <= q => R * p <= R * q
BY SMTT(30)

\* The buckets are in the order of the rates.
LEMMA BucketsInOrder ==
  ASSUME NEW a \in Rate, NEW b \in Rate, a.at <= b.at
  PROVE  bucketOf(a) \in Int /\ bucketOf(b) \in Int /\ bucketOf(a) <= bucketOf(b)
<1> DEFINE R == RollupEvery
           x == a.at
           y == b.at
           p == x \div R
           q == y \div R
           r == x % R
           s == y % R
           u == R * p
           v == R * q
<1>1. R \in Nat /\ R > 0 /\ x \in Nat /\ y \in Nat /\ x <= y
  BY LimitsAssumption DEF Rate
<1>2. bucketOf(a) = x - r /\ bucketOf(b) = y - s
  BY Zenon DEF bucketOf
<1> HIDE DEF x, y, R
<1>3. p \in Int /\ r \in Int /\ 0 <= r /\ r < R /\ x - r = u
  BY <1>1, Remainder
<1>4. q \in Int /\ s \in Int /\ 0 <= s /\ s < R /\ y - s = v
  BY <1>1, Remainder
<1> HIDE DEF p, q, r, s
<1>5. u \in Int /\ v \in Int
  BY <1>1, <1>3, <1>4
<1>6. u <= v
  <2> SUFFICES ASSUME ~(p <= q) PROVE FALSE
    BY <1>1, <1>3, <1>4, Multiples
  <2>1. q + 1 <= p /\ q + 1 \in Int
    BY <1>3, <1>4
  <2>2. R * (q + 1) <= u
    BY <1>1, <1>3, <2>1, Multiples
  <2>3. R * (q + 1) = v + R
    BY <1>1, <1>4
  <2> HIDE DEF u, v
  <2>4. v + R <= u
    BY <2>2, <2>3
  <2> QED BY <1>1, <1>3, <1>4, <1>5, <2>4
<1> HIDE DEF u, v
<1>7. bucketOf(a) = u /\ bucketOf(b) = v
  BY <1>2, <1>3, <1>4
<1> QED BY <1>5, <1>6, <1>7

Count(all, start) == Cardinality({i \in 1..Len(all) : bucketOf(all[i]) = start})

\* How many rates of a time there are after one more.
LEMMA CountAppended ==
  ASSUME NEW all \in Seq(Rate), NEW rate \in Rate, NEW start
  PROVE  /\ Count(all, start) \in Nat
         /\ Count(all, start) = 0 <=> \A i \in 1..Len(all) : bucketOf(all[i]) # start
         /\ bucketOf(rate) # start => Count(Append(all, rate), start) = Count(all, start)
         /\ bucketOf(rate) = start => Count(Append(all, rate), start) = Count(all, start) + 1
<1> DEFINE n == Len(all)
           more == Append(all, rate)
           had == {i \in 1..n : bucketOf(all[i]) = start}
           has == {i \in 1..n + 1 : bucketOf(more[i]) = start}
<1>1. /\ n \in Nat /\ Len(more) = n + 1 /\ more[n + 1] = rate
      /\ \A i \in 1..n : more[i] = all[i]
  BY Appended
<1>2. Count(all, start) = Cardinality(had) /\ Count(more, start) = Cardinality(has)
  BY <1>1 DEF Count
<1> HIDE DEF n, more
<1>3. IsFiniteSet(had)
  <2>1. IsFiniteSet(1..n)
    BY <1>1, FS_Interval
  <2>2. had \subseteq 1..n
    OBVIOUS
  <2> HIDE DEF had
  <2> QED BY <2>1, <2>2, FS_Subset
<1>4. n + 1 \notin had
  BY <1>1
<1>5. bucketOf(rate) # start => has = had
  BY <1>1
<1>6. bucketOf(rate) = start => has = had \cup {n + 1}
  BY <1>1
<1>7. had = {} <=> \A i \in 1..n : bucketOf(all[i]) # start
  OBVIOUS
<1> HIDE DEF had, has
<1>8. Cardinality(had) \in Nat /\ (Cardinality(had) = 0 <=> had = {})
  BY <1>3, FS_CardinalityType, FS_EmptySet
<1>9. Cardinality(had \cup {n + 1}) = Cardinality(had) + 1
  BY <1>3, <1>4, FS_AddElement
<1> QED BY <1>2, <1>5, <1>6, <1>7, <1>8, <1>9 DEF n, more

Upto(all, time) == \A i \in 1..Len(all) : all[i].at <= time

\* The open bucket has all the rates of its time, which is the latest.
OpenTells(open, all) ==
    /\ open \in Bucket
    /\ open.count = 0 <=> Len(all) = 0
    /\ open.count = Count(all, open.start)
    /\ \A i \in 1..Len(all) : bucketOf(all[i]) <= open.start

\* The buckets that may be closed while this one is open.
Closed(open, all) ==
    {b \in Bucket : b.count > 0 /\ b.count = Count(all, b.start) /\ b.start < open.start}

InstanceForm == {"raw", "roll", "open", "prev", "prevAt", "instant", "lastAt"}

\* The rings and the open bucket of an instance tell of its rates.
RingsTell(inst, all) ==
    /\ DOMAIN inst = InstanceForm
    /\ Laps(inst.raw, all, RawCap)
    /\ OpenTells(inst.open, all)
    /\ inst.roll \in Rings(RollCap, Closed(inst.open, all))

\* The bounds are positive.
LEMMA Limits == RawCap \in Nat \ {0} /\ RollCap \in Nat \ {0} /\ MaxInstances \in Nat \ {0}
BY LimitsAssumption

\* A rate goes into the open bucket, or closes it and opens the next.
LEMMA AppendTells ==
  ASSUME NEW inst, NEW all \in Seq(Rate), NEW rate \in Rate, RingsTell(inst, all), Upto(all, rate.at)
  PROVE  /\ RingsTell(append(inst, rate), Append(all, rate))
         /\ append(inst, rate).raw = push(inst.raw, rate)
         /\ append(inst, rate).prevAt = inst.prevAt
<1> DEFINE start == bucketOf(rate)
           open == inst.open
           closes == open.count > 0 /\ open.start # start
           fresh == closes \/ open.count = 0
           put == IF fresh THEN [start |-> start, count |-> 1] ELSE [open EXCEPT !.count = @ + 1]
           rolls == IF closes THEN push(inst.roll, open) ELSE inst.roll
           pushed == push(inst.raw, rate)
           after == append(inst, rate)
           more == Append(all, rate)
           n == Len(all)
<1>1. after = [inst EXCEPT !.raw = pushed, !.roll = rolls, !.open = put]
  BY Zenon DEF append
<1>2. DOMAIN inst = InstanceForm
  BY DEF RingsTell
<1>3. /\ DOMAIN after = InstanceForm /\ after.raw = pushed /\ after.roll = rolls /\ after.open = put
      /\ after.prevAt = inst.prevAt
  <2> HIDE DEF after, pushed, rolls, put
  <2> QED BY <1>1, <1>2 DEF InstanceForm
<1>4. Laps(pushed, more, RawCap)
  BY PushLaps, Limits DEF RingsTell
<1>5. /\ open \in Bucket /\ open.count \in Nat /\ open.start \in Int
      /\ open.count = 0 <=> n = 0
      /\ open.count = Count(all, open.start)
      /\ \A i \in 1..n : bucketOf(all[i]) <= open.start
  <2>1. OpenTells(open, all)
    BY DEF RingsTell
  <2>2. open \in Bucket
    BY <2>1 DEF OpenTells
  <2> QED BY <2>1, <2>2 DEF OpenTells, Bucket
<1>6. start \in Int /\ \A i \in 1..n : bucketOf(all[i]) \in Int /\ bucketOf(all[i]) <= start
  <2>1. bucketOf(rate) \in Int
    <3>1. rate.at <= rate.at
      BY DEF Rate
    <3> QED BY <3>1, BucketsInOrder
  <2>2. ASSUME NEW i \in 1..n PROVE bucketOf(all[i]) \in Int /\ bucketOf(all[i]) <= bucketOf(rate)
    <3>1. all[i] \in Rate /\ all[i].at <= rate.at
      BY <2>2, ElementOfSeq DEF Upto
    <3> QED BY <3>1, BucketsInOrder
  <2> QED BY <2>1, <2>2
<1>7. /\ n \in Nat /\ Len(more) = n + 1 /\ more[n + 1] = rate
      /\ \A i \in 1..n : more[i] = all[i]
  BY Appended
<1>8. \A s : /\ Count(all, s) \in Nat
             /\ Count(all, s) = 0 <=> \A i \in 1..n : bucketOf(all[i]) # s
             /\ start # s => Count(more, s) = Count(all, s)
             /\ start = s => Count(more, s) = Count(all, s) + 1
  BY CountAppended
<1> HIDE DEF after, pushed, more, n, start, open
\* What was open was of the latest time, so the new one is no earlier.
<1>9. open.count > 0 => open.start <= start
  <2> SUFFICES ASSUME open.count > 0 PROVE open.start <= start
    OBVIOUS
  <2>1. Count(all, open.start) # 0
    BY <1>5
  <2>2. PICK i \in 1..n : bucketOf(all[i]) = open.start
    BY <1>8, <2>1
  <2> QED BY <1>6, <2>2
<1>10. /\ put \in Bucket /\ put.start = start /\ put.count = Count(more, start) /\ put.count # 0
  <2>1. CASE fresh
    <3>1. put = [start |-> start, count |-> 1]
      BY <2>1
    <3>2. \A i \in 1..n : bucketOf(all[i]) # start
      <4>1. CASE closes
        <5>1. open.start < start
          BY <1>5, <1>6, <1>9, <4>1
        <5> QED BY <1>5, <1>6, <5>1
      <4>2. CASE open.count = 0
        BY <1>5, <1>7, <4>2
      <4> QED BY <2>1, <4>1, <4>2
    <3>3. Count(all, start) = 0
      BY <1>8, <3>2
    <3>4. Count(more, start) = 1
      BY <1>8, <3>3
    <3> HIDE DEF put
    <3> QED BY <1>6, <3>1, <3>4 DEF Bucket
  <2>2. CASE ~fresh
    <3>1. put = [open EXCEPT !.count = @ + 1]
      BY <2>2
    <3>2. open.start = start /\ open.count > 0
      BY <1>5, <2>2
    <3>3. put = [start |-> open.start, count |-> open.count + 1]
      BY <1>5, <3>1 DEF Bucket
    <3> HIDE DEF put
    <3>4. Count(more, start) = open.count + 1
      BY <1>5, <1>8, <3>2
    <3> QED BY <1>5, <1>6, <3>2, <3>3, <3>4 DEF Bucket
  <2> QED BY <2>1, <2>2
<1>11. OpenTells(put, more)
  <2> HIDE DEF put
  <2>1. \A i \in 1..n + 1 : bucketOf(more[i]) <= start
    <3> SUFFICES ASSUME NEW i \in 1..n + 1 PROVE bucketOf(more[i]) <= start
      OBVIOUS
    <3>1. CASE i = n + 1
      BY <1>6, <1>7, <3>1 DEF start
    <3>2. CASE i # n + 1
      <4>1. i \in 1..n
        BY <1>7, <3>2
      <4> QED BY <1>6, <1>7, <4>1
    <3> QED BY <3>1, <3>2
  <2>2. ~(Len(more) = 0)
    BY <1>7
  <2> QED BY <1>7, <1>10, <2>1, <2>2 DEF OpenTells
<1>12. rolls \in Rings(RollCap, Closed(put, more))
  <2>1. inst.roll \in Rings(RollCap, Closed(open, all))
    BY DEF RingsTell, open
  <2>2. Closed(open, all) \subseteq Closed(put, more)
    <3> SUFFICES ASSUME NEW b \in Closed(open, all) PROVE b \in Closed(put, more)
      OBVIOUS
    <3>1. /\ b \in Bucket /\ b.count > 0 /\ b.count = Count(all, b.start) /\ b.start < open.start
      BY DEF Closed
    <3>2. b.start \in Int /\ b.count \in Nat
      BY <3>1 DEF Bucket
    <3>3. PICK i \in 1..n : bucketOf(all[i]) = b.start
      BY <1>8, <3>1, <3>2
    <3>4. open.count > 0
      BY <1>5, <1>7, <3>3
    <3>5. b.start < start /\ b.start # start
      BY <1>5, <1>6, <1>9, <3>1, <3>2, <3>4
    <3>6. Count(more, b.start) = b.count
      BY <1>8, <3>1, <3>5
    <3> HIDE DEF put
    <3> QED BY <1>10, <3>1, <3>5, <3>6 DEF Closed
  <2>3. inst.roll \in Rings(RollCap, Closed(put, more))
    <3> HIDE DEF put
    <3> QED BY <2>1, <2>2, RingsGrow, Limits
  <2>4. CASE closes
    <3>1. open.start < start /\ start # open.start
      BY <1>5, <1>6, <1>9, <2>4
    <3>2. Count(more, open.start) = open.count
      BY <1>5, <1>8, <3>1
    <3>3. open.count > 0
      BY <2>4
    <3>4. rolls = push(inst.roll, open)
      BY <2>4
    <3> HIDE DEF put
    <3>5. open \in Closed(put, more)
      BY <1>5, <1>10, <3>1, <3>2, <3>3 DEF Closed
    <3>6. Pushed(inst.roll, open, push(inst.roll, open), RollCap, Closed(put, more))
      BY <2>3, <3>5, PushParts, Limits
    <3> QED BY <3>4, <3>6 DEF Pushed
  <2>5. CASE ~closes
    BY <2>3, <2>5
  <2> QED BY <2>4, <2>5
<1> HIDE DEF put, rolls
<1>13. RingsTell(after, more)
  BY <1>3, <1>4, <1>11, <1>12 DEF RingsTell
<1> QED BY <1>3, <1>13 DEF after, more, pushed

\* Rates of time gone by, none of them across an outage.
Told(all, time, restarts) ==
    /\ all \in Seq(Rate)
    /\ \A i \in 1..Len(all) :
        /\ all[i].at <= time
        /\ \A restart \in restarts : ~(all[i].since < restart /\ restart <= all[i].at)

\* A tracked instance tells of the rates computed for it, and computes the next from
\* a reading no earlier than any of them, and since the last restart.
InstanceTells(inst, all, time, restarts) ==
    /\ RingsTell(inst, all)
    /\ inst.prevAt \in Nat
    /\ inst.prevAt # Never =>
        /\ inst.prevAt <= time /\ Upto(all, inst.prevAt)
        /\ \A restart \in restarts : restart <= inst.prevAt

\* The clock, and the restarts it has seen.
Clock(time, restarts) ==
    /\ time \in Nat /\ restarts \subseteq Nat
    /\ \A restart \in restarts : restart <= time

\* No rate yet.
LEMMA NewTells ==
  ASSUME NEW time, NEW restarts
  PROVE  InstanceTells(newInstance, <<>>, time, restarts) /\ Told(<<>>, time, restarts)
<1>1. Len(<<>>) = 0 /\ <<>> \in Seq(Rate)
  OBVIOUS
<1>2. /\ DOMAIN newInstance = InstanceForm /\ newInstance.raw = newRing(RawCap)
      /\ newInstance.roll = newRing(RollCap) /\ newInstance.open = NoBucket
      /\ newInstance.prevAt = Never
  <2> DEFINE raw == newRing(RawCap)
             roll == newRing(RollCap)
  <2> HIDE DEF raw, roll
  <2>1. newInstance = [raw |-> raw, roll |-> roll, open |-> NoBucket,
                       prev |-> 0, prevAt |-> Never, instant |-> Never, lastAt |-> Never]
    BY DEF newInstance, raw, roll
  <2> QED BY <2>1 DEF InstanceForm, raw, roll
<1>3. Laps(newRing(RawCap), <<>>, RawCap)
  BY NewLaps, Limits
<1>4. newRing(RollCap) \in Rings(RollCap, Closed(NoBucket, <<>>))
  BY NewRing, Limits
<1>5. OpenTells(NoBucket, <<>>)
  <2>1. Count(<<>>, 0) = 0
    <3>1. {i \in 1..Len(<<>>) : bucketOf(<<>>[i]) = 0} = {}
      BY <1>1
    <3> QED BY <3>1, FS_EmptySet DEF Count
  <2>2. NoBucket.count = 0 /\ NoBucket.start = 0 /\ NoBucket \in Bucket
    BY DEF NoBucket, Bucket
  <2> QED BY <1>1, <2>1, <2>2 DEF OpenTells
<1>6. RingsTell(newInstance, <<>>)
  BY <1>2, <1>3, <1>4, <1>5 DEF RingsTell
<1> QED BY <1>1, <1>2, <1>6 DEF InstanceTells, Told, Never

\* What one reading makes of an instance and its rates: it adds one, or none.
Reads(inst, all, after, rate, at, time, restarts) ==
    \/ /\ after.raw = inst.raw
       /\ InstanceTells(after, all, time, restarts)
    \/ /\ after.raw # inst.raw
       /\ Told(Append(all, rate), time, restarts)
       /\ InstanceTells(after, Append(all, rate), time, restarts)
       /\ Upto(Append(all, rate), at)

\* Observe on a tracked instance, with a sweep that began after the last restart.
LEMMA ObservedTells ==
  ASSUME NEW time, NEW restarts, Clock(time, restarts),
         NEW inst, NEW all, Told(all, time, restarts), InstanceTells(inst, all, time, restarts),
         NEW at \in Nat, at <= time, \A restart \in restarts : restart <= at, Upto(all, at), NEW value
  PROVE  Reads(inst, all, observed(inst, at, value), [since |-> inst.prevAt, at |-> at], at,
               time, restarts)
<1> DEFINE seen == [inst EXCEPT !.lastAt = at, !.instant = at, !.prev = value, !.prevAt = at]
           rate == [since |-> inst.prevAt, at |-> at]
           more == Append(all, rate)
<1>1. all \in Seq(Rate) /\ Len(all) \in Nat
  BY DEF Told
<1>2. RingsTell(inst, all) /\ DOMAIN inst = InstanceForm /\ inst.prevAt \in Nat
  BY DEF InstanceTells, RingsTell
<1>3. /\ DOMAIN seen = InstanceForm /\ seen.raw = inst.raw /\ seen.roll = inst.roll
      /\ seen.open = inst.open /\ seen.prevAt = at
  BY <1>2 DEF InstanceForm
<1> HIDE DEF seen
<1>4. RingsTell(seen, all)
  BY <1>2, <1>3 DEF RingsTell
<1>5. CASE noRate(inst, at, value)
  <2>1. observed(inst, at, value) = seen
    BY <1>5 DEF observed, seen
  <2>2. InstanceTells(seen, all, time, restarts)
    BY <1>3, <1>4 DEF InstanceTells
  <2> QED BY <1>3, <2>1, <2>2 DEF Reads
<1>6. CASE ~noRate(inst, at, value)
  <2>1. observed(inst, at, value) = append(seen, rate)
    BY <1>6 DEF observed, seen
  <2>2. inst.prevAt # Never /\ inst.prevAt < at
    BY <1>2, <1>6 DEF noRate
  <2>3. /\ Upto(all, inst.prevAt) /\ inst.prevAt <= time
        /\ \A restart \in restarts : restart <= inst.prevAt
    BY <2>2 DEF InstanceTells
  <2>4. rate \in Rate /\ rate.at = at /\ rate.since = inst.prevAt
    BY <1>2 DEF Rate
  <2> HIDE DEF rate
  <2>5. /\ RingsTell(append(seen, rate), more)
        /\ append(seen, rate).raw = push(inst.raw, rate)
        /\ append(seen, rate).prevAt = at
    BY <1>1, <1>3, <1>4, <2>4, AppendTells
  <2>6. push(inst.raw, rate) # inst.raw
    <3>1. Laps(inst.raw, all, RawCap)
      BY <1>2 DEF RingsTell
    <3>2. \A i \in 1..Len(all) : all[i].at < rate.at
      <4> SUFFICES ASSUME NEW i \in 1..Len(all) PROVE all[i].at < at
        BY <2>4
      <4>1. all[i].at \in Nat
        <5>1. all[i] \in Rate
          BY <1>1, ElementOfSeq
        <5> QED BY <5>1 DEF Rate
      <4>2. all[i].at <= inst.prevAt
        BY <2>3 DEF Upto
      <4> QED BY <1>2, <2>2, <4>1, <4>2
    <3> QED BY <1>1, <2>4, <3>1, <3>2, PushChanges, Limits
  <2>7. /\ more \in Seq(Rate) /\ Len(more) = Len(all) + 1 /\ more[Len(all) + 1] = rate
        /\ \A i \in 1..Len(all) : more[i] = all[i]
    BY <1>1, <2>4, Appended
  <2> HIDE DEF more
  <2>8. Upto(more, at)
    <3> SUFFICES ASSUME NEW i \in 1..Len(more) PROVE more[i].at <= at
      BY DEF Upto
    <3>1. CASE i = Len(all) + 1
      BY <2>4, <2>7, <3>1
    <3>2. CASE i # Len(all) + 1
      <4>1. i \in 1..Len(all)
        BY <1>1, <2>7, <3>2
      <4> QED BY <2>7, <4>1 DEF Upto
    <3> QED BY <3>1, <3>2
  <2>9. Told(more, time, restarts)
    <3>1. ASSUME NEW i \in 1..Len(more)
          PROVE  /\ more[i].at <= time
                 /\ \A restart \in restarts : ~(more[i].since < restart /\ restart <= more[i].at)
      <4>1. CASE i = Len(all) + 1
        <5>1. more[i].at = at /\ more[i].since = inst.prevAt
          BY <2>4, <2>7, <4>1
        <5>2. \A restart \in restarts : restart \in Nat /\ ~(inst.prevAt < restart)
          BY <1>2, <2>3 DEF Clock
        <5> QED BY <5>1, <5>2
      <4>2. CASE i # Len(all) + 1
        <5>1. i \in 1..Len(all)
          BY <1>1, <2>7, <4>2
        <5> QED BY <2>7, <5>1 DEF Told
      <4> QED BY <4>1, <4>2
    <3> QED BY <2>7, <3>1 DEF Told
  <2> DEFINE after == append(seen, rate)
  <2>10. InstanceTells(after, more, time, restarts)
    <3> HIDE DEF after
    <3>1. RingsTell(after, more) /\ after.prevAt = at
      BY <2>5 DEF after
    <3> QED BY <3>1, <2>8 DEF InstanceTells
  <2> QED BY <2>1, <2>5, <2>6, <2>8, <2>9, <2>10 DEF Reads, rate, more
<1> QED BY <1>5, <1>6

-----------------------------------------------------------------------------
(* The window and its snapshots.                                             *)

\* No more instances than are allowed.
Tracked(names) == IsFiniteSet(names) /\ Cardinality(names) <= MaxInstances

\* The window tells of the rates of every instance.
WindowTells(w, all, time, restarts) ==
    /\ Tracked(DOMAIN w)
    /\ DOMAIN all = DOMAIN w
    /\ \A n \in DOMAIN w : Told(all[n], time, restarts) /\ InstanceTells(w[n], all[n], time, restarts)

\* What a snapshot has of an instance tells of the rates too.
EntryTells(entry, all) ==
    /\ entry.raw = LastOf(all, RawCap)
    /\ OpenTells(entry.open, all)
    /\ entry.roll \in Seq(Closed(entry.open, all))
    /\ Len(entry.roll) <= RollCap

SnapshotTells(state, all, time, restarts) ==
    /\ Tracked(DOMAIN state)
    /\ DOMAIN all = DOMAIN state
    /\ \A n \in DOMAIN state : Told(all[n], time, restarts) /\ EntryTells(state[n], all[n])

\* Rates stay told as the clock moves, and when a process starts later than all of them.
LEMMA ToldLater ==
  ASSUME NEW time \in Nat, NEW restarts, NEW all, Told(all, time, restarts),
         NEW later \in Nat, time <= later, NEW more \in SUBSET Nat,
         \A restart \in more : restart \in restarts \/ restart > time
  PROVE  Told(all, later, more)
<1>1. all \in Seq(Rate)
  BY DEF Told
<1> SUFFICES ASSUME NEW i \in 1..Len(all)
             PROVE  /\ all[i].at <= later
                    /\ \A restart \in more : ~(all[i].since < restart /\ restart <= all[i].at)
  BY <1>1 DEF Told
<1>2. all[i].at \in Nat
  <2>1. all[i] \in Rate
    BY <1>1, ElementOfSeq
  <2> QED BY <2>1 DEF Rate
<1>3. /\ all[i].at <= time
      /\ \A restart \in restarts : ~(all[i].since < restart /\ restart <= all[i].at)
  BY DEF Told
<1> QED BY <1>2, <1>3

\* A later clock.
LEMMA WindowLater ==
  ASSUME NEW time \in Nat, NEW restarts \in SUBSET Nat, NEW w, NEW all,
         WindowTells(w, all, time, restarts), NEW later \in Nat, time <= later
  PROVE  WindowTells(w, all, later, restarts)
<1>1. ASSUME NEW n \in DOMAIN w
      PROVE  Told(all[n], later, restarts) /\ InstanceTells(w[n], all[n], later, restarts)
  <2>1. Told(all[n], time, restarts) /\ InstanceTells(w[n], all[n], time, restarts)
    BY DEF WindowTells
  <2>2. Told(all[n], later, restarts)
    BY <2>1, ToldLater
  <2>3. InstanceTells(w[n], all[n], later, restarts)
    <3>1. w[n].prevAt \in Nat
      BY <2>1 DEF InstanceTells
    <3>2. w[n].prevAt <= time => w[n].prevAt <= later
      BY <3>1
    <3> QED BY <2>1, <3>2 DEF InstanceTells
  <2> QED BY <2>2, <2>3
<1> QED BY <1>1 DEF WindowTells

\* A later clock, and a restart later than all that the snapshot tells.
LEMMA SnapshotLater ==
  ASSUME NEW time \in Nat, NEW restarts, NEW state, NEW all, SnapshotTells(state, all, time, restarts),
         NEW later \in Nat, time <= later, NEW more \in SUBSET Nat,
         \A restart \in more : restart \in restarts \/ restart > time
  PROVE  SnapshotTells(state, all, later, more)
<1>1. ASSUME NEW n \in DOMAIN state PROVE Told(all[n], later, more)
  <2>1. Told(all[n], time, restarts)
    BY DEF SnapshotTells
  <2> QED BY <2>1, ToldLater
<1> QED BY <1>1 DEF SnapshotTells

\* An export is of the window's moment.
LEMMA ExportTells ==
  ASSUME NEW time, NEW restarts, NEW w, NEW all, WindowTells(w, all, time, restarts)
  PROVE  SnapshotTells(Export(w), all, time, restarts)
<1>1. DOMAIN Export(w) = DOMAIN w
  BY DEF Export
<1>2. ASSUME NEW n \in DOMAIN w PROVE EntryTells(Export(w)[n], all[n])
  <2> DEFINE entry == Export(w)[n]
             raw == each(w[n].raw)
             roll == each(w[n].roll)
  <2>1. entry = [raw |-> raw, roll |-> roll, open |-> w[n].open, lastAt |-> w[n].lastAt]
    BY DEF Export
  <2>2. /\ all[n] \in Seq(Rate) /\ Laps(w[n].raw, all[n], RawCap) /\ OpenTells(w[n].open, all[n])
        /\ w[n].roll \in Rings(RollCap, Closed(w[n].open, all[n]))
    BY DEF WindowTells, Told, InstanceTells, RingsTell
  <2>3. raw = LastOf(all[n], RawCap)
    BY <2>2, EachIsLast, Limits
  <2>4. roll \in Seq(Closed(w[n].open, all[n])) /\ Len(roll) <= RollCap
    <3> DEFINE ring == w[n].roll
               Entry == Closed(w[n].open, all[n])
    <3>1. ring \in Rings(RollCap, Entry) /\ RollCap \in Nat \ {0}
      BY <2>2, Limits
    <3> HIDE DEF ring, Entry
    <3>2. /\ each(ring) \in Seq(Entry)
          /\ ~ring.full => Len(each(ring)) = ring.next - 1
          /\ ring.full => Len(each(ring)) = RollCap
      BY <3>1, EachParts
    <3>3. ring.next \in 1..RollCap
      BY <3>1, RingParts
    <3>4. Len(each(ring)) <= RollCap
      BY <3>1, <3>2, <3>3
    <3> QED BY <3>2, <3>4 DEF ring, Entry
  <2> HIDE DEF raw, roll, entry
  <2>5. entry.raw = raw /\ entry.roll = roll /\ entry.open = w[n].open
    BY <2>1
  <2>6. EntryTells(entry, all[n])
    BY <2>2, <2>3, <2>4, <2>5 DEF EntryTells
  <2> QED BY <2>6 DEF entry
<1> QED BY <1>1, <1>2 DEF WindowTells, SnapshotTells

\* An import tells what the snapshot told, and has no reading to compute a rate from.
LEMMA ImportTells ==
  ASSUME NEW time, NEW restarts, NEW state, NEW all, SnapshotTells(state, all, time, restarts)
  PROVE  WindowTells(Import(state), all, time, restarts)
<1>1. DOMAIN Import(state) = DOMAIN state
  BY DEF Import
<1>2. ASSUME NEW n \in DOMAIN state PROVE InstanceTells(Import(state)[n], all[n], time, restarts)
  <2> DEFINE inst == Import(state)[n]
             raw == refill(RawCap, state[n].raw)
             roll == refill(RollCap, state[n].roll)
             open == state[n].open
             last == state[n].lastAt
  <2>1. inst = [newInstance EXCEPT !.raw = raw, !.roll = roll, !.open = open, !.lastAt = last]
    BY DEF Import
  <2>2. DOMAIN newInstance = InstanceForm /\ newInstance.prevAt = Never
    <3>1. newInstance.prevAt = Never
      BY DEF newInstance
    <3>2. InstanceTells(newInstance, <<>>, time, restarts)
      BY NewTells
    <3> QED BY <3>1, <3>2 DEF InstanceTells, RingsTell
  <2>3. /\ DOMAIN inst = InstanceForm /\ inst.raw = raw /\ inst.roll = roll /\ inst.open = open
        /\ inst.prevAt = Never
    <3> HIDE DEF inst, raw, roll, open, last
    <3> QED BY <2>1, <2>2 DEF InstanceForm
  <2>4. /\ all[n] \in Seq(Rate) /\ state[n].raw = LastOf(all[n], RawCap) /\ OpenTells(open, all[n])
        /\ state[n].roll \in Seq(Closed(open, all[n])) /\ Len(state[n].roll) <= RollCap
    BY DEF SnapshotTells, Told, EntryTells
  <2>5. Laps(raw, all[n], RawCap)
    BY <2>4, RefillLaps, Limits
  <2>6. roll \in Rings(RollCap, Closed(open, all[n]))
    BY <2>4, RefillRings, Limits
  <2> HIDE DEF inst, raw, roll, open
  <2>7. RingsTell(inst, all[n])
    BY <2>3, <2>4, <2>5, <2>6 DEF RingsTell
  <2>8. InstanceTells(inst, all[n], time, restarts)
    BY <2>3, <2>7 DEF InstanceTells, Never
  <2> QED BY <2>8 DEF inst
<1> QED BY <1>1, <1>2 DEF WindowTells, SnapshotTells

\* evictForLocked leaves room for one more.
LEMMA EvictLeavesRoom ==
  ASSUME NEW w, Tracked(DOMAIN w), NEW name, name \notin DOMAIN w, NEW gone \in evictable(w)
  PROVE  Tracked((DOMAIN w \ gone) \cup {name})
<1> DEFINE names == DOMAIN w
           least == {n \in names : \A o \in names : w[n].lastAt <= w[o].lastAt}
<1>1. IsFiniteSet(names) /\ Cardinality(names) \in Nat /\ Cardinality(names) <= MaxInstances
      /\ MaxInstances \in Nat
  BY Limits, FS_CardinalityType DEF Tracked
<1>2. CASE Cardinality(names) < MaxInstances
  <2>1. gone = {}
    BY <1>2 DEF evictable
  <2>2. (names \ gone) \cup {name} = names \cup {name}
    BY <2>1
  <2>3. IsFiniteSet(names \cup {name}) /\ Cardinality(names \cup {name}) = Cardinality(names) + 1
    BY <1>1, FS_AddElement
  <2> HIDE DEF names
  <2>4. Cardinality(names \cup {name}) <= MaxInstances
    BY <1>1, <1>2, <2>3
  <2> QED BY <2>2, <2>3, <2>4 DEF Tracked, names
<1>3. CASE ~(Cardinality(names) < MaxInstances)
  <2>1. gone \in {{n} : n \in least}
    BY <1>3 DEF evictable
  <2>2. PICK n \in names : gone = {n}
    BY <2>1
  <2> HIDE DEF names
  <2>3. IsFiniteSet(names \ {n}) /\ Cardinality(names \ {n}) = Cardinality(names) - 1
    BY <1>1, FS_RemoveElement
  <2> DEFINE rest == names \ {n}
  <2>4. name \notin rest
    BY DEF names
  <2> HIDE DEF rest
  <2>5. IsFiniteSet(rest \cup {name}) /\ Cardinality(rest \cup {name}) = Cardinality(rest) + 1
    BY <2>3, <2>4, FS_AddElement DEF rest
  <2>6. Cardinality(rest \cup {name}) <= MaxInstances
    BY <1>1, <2>3, <2>5 DEF rest
  <2> QED BY <2>2, <2>5, <2>6 DEF Tracked, rest, names
<1> QED BY <1>2, <1>3

\* The rates after one reading left the window w2 of w (Recorded).
RatesAfter(w, all, name, w2, at) ==
    LET before == IF name \in DOMAIN w THEN w[name].raw ELSE newInstance.raw
        after  == w2[name].raw
        known  == IF name \in DOMAIN w THEN all[name] ELSE <<>> IN
    [n \in DOMAIN w2 |->
        IF n # name THEN all[n]
        ELSE IF after = before THEN known
        ELSE Append(known, [since |-> w[name].prevAt, at |-> at])]

\* One reading of one exporter.
LEMMA ObserveTells ==
  ASSUME NEW time, NEW restarts, Clock(time, restarts), NEW w, NEW all,
         WindowTells(w, all, time, restarts), NEW at \in Nat, at <= time,
         \A restart \in restarts : restart <= at, \A n \in DOMAIN w : Upto(all[n], at),
         NEW name, NEW value, NEW w2 \in Observe(w, name, at, value),
         NEW all2, all2 = RatesAfter(w, all, name, w2, at)
  PROVE  /\ WindowTells(w2, all2, time, restarts)
         /\ \A n \in DOMAIN w2 : Upto(all2[n], at)
<1> DEFINE inst == IF name \in DOMAIN w THEN w[name] ELSE newInstance
           known == IF name \in DOMAIN w THEN all[name] ELSE <<>>
           obs == observed(inst, at, value)
           rate == [since |-> inst.prevAt, at |-> at]
           Fine(n) == /\ Told(all2[n], time, restarts) /\ InstanceTells(w2[n], all2[n], time, restarts)
                      /\ Upto(all2[n], at)
<1>1. /\ InstanceTells(inst, known, time, restarts) /\ Told(known, time, restarts) /\ Upto(known, at)
  <2>1. CASE name \in DOMAIN w
    BY <2>1 DEF WindowTells
  <2>2. CASE name \notin DOMAIN w
    <3>1. Len(<<>>) = 0
      OBVIOUS
    <3>2. Upto(<<>>, at)
      BY <3>1 DEF Upto
    <3> QED BY <2>2, <3>2, NewTells
  <2> QED BY <2>1, <2>2
<1>2. Reads(inst, known, obs, rate, at, time, restarts)
  <2> HIDE DEF inst, known
  <2> QED BY <1>1, ObservedTells
<1>3. /\ name \in DOMAIN w2 /\ w2[name] = obs
      /\ \A n \in DOMAIN w2 : n # name => n \in DOMAIN w /\ w2[n] = w[n]
      /\ Tracked(DOMAIN w2)
  <2>1. CASE name \in DOMAIN w
    <3>1. w2 = [w EXCEPT ![name] = observed(w[name], at, value)]
      BY <2>1 DEF Observe
    <3>2. inst = w[name]
      BY <2>1
    <3> HIDE DEF inst
    <3> QED BY <2>1, <3>1, <3>2 DEF WindowTells
  <2>2. CASE name \notin DOMAIN w
    <3>1. PICK gone \in evictable(w) :
             w2 = [n \in (DOMAIN w \ gone) \cup {name} |->
                     IF n = name THEN observed(newInstance, at, value) ELSE w[n]]
      BY <2>2 DEF Observe
    <3>2. inst = newInstance
      BY <2>2
    <3>3. Tracked(DOMAIN w)
      BY DEF WindowTells
    <3>4. Tracked((DOMAIN w \ gone) \cup {name})
      BY <2>2, <3>3, EvictLeavesRoom
    <3> HIDE DEF inst
    <3> QED BY <3>1, <3>2, <3>4
  <2> QED BY <2>1, <2>2
<1>4. /\ DOMAIN all2 = DOMAIN w2
      /\ \A n \in DOMAIN w2 : n # name => all2[n] = all[n]
      /\ w2[name].raw = inst.raw => all2[name] = known
      /\ w2[name].raw # inst.raw =>
            all2[name] = Append(known, [since |-> w[name].prevAt, at |-> at])
  <2>1. inst.raw = IF name \in DOMAIN w THEN w[name].raw ELSE newInstance.raw
    OBVIOUS
  <2> HIDE DEF inst, known, obs
  <2> QED BY <1>3, <2>1 DEF RatesAfter, known
<1>5. \A n \in DOMAIN w2 : n # name => Fine(n)
  <2> SUFFICES ASSUME NEW n \in DOMAIN w2, n # name PROVE Fine(n)
    OBVIOUS
  <2>1. n \in DOMAIN w /\ w2[n] = w[n] /\ all2[n] = all[n]
    BY <1>3, <1>4
  <2> QED BY <2>1 DEF WindowTells
<1>6. Fine(name)
  <2>1. CASE w2[name].raw = inst.raw
    <3>1. all2[name] = known /\ obs.raw = inst.raw
      BY <1>3, <1>4, <2>1
    <3>2. InstanceTells(obs, known, time, restarts)
      <4> HIDE DEF obs, known, inst, rate
      <4> QED BY <1>2, <3>1 DEF Reads
    <3> HIDE DEF obs, known, inst
    <3> QED BY <1>1, <1>3, <3>1, <3>2
  <2>2. CASE w2[name].raw # inst.raw
    <3>1. name \in DOMAIN w
      <4> SUFFICES ASSUME name \notin DOMAIN w PROVE FALSE
        OBVIOUS
      <4>1. inst = newInstance /\ newInstance.prevAt = Never
        BY DEF newInstance
      <4>2. DOMAIN inst = InstanceForm
        <5> HIDE DEF inst, known
        <5> QED BY <1>1 DEF InstanceTells, RingsTell
      <4>3. obs = [inst EXCEPT !.lastAt = at, !.instant = at, !.prev = value, !.prevAt = at]
        <5> HIDE DEF inst
        <5> QED BY <4>1 DEF observed, noRate
      <4> HIDE DEF inst, obs
      <4>4. obs.raw = inst.raw
        BY <4>2, <4>3 DEF InstanceForm
      <4> QED BY <1>3, <2>2, <4>4
    <3>2. inst = w[name]
      BY <3>1
    <3>3. all2[name] = Append(known, rate) /\ obs.raw # inst.raw
      BY <1>3, <1>4, <2>2, <3>2
    <3> HIDE DEF obs, known, inst, rate
    <3>4. /\ Told(Append(known, rate), time, restarts)
          /\ InstanceTells(obs, Append(known, rate), time, restarts)
          /\ Upto(Append(known, rate), at)
      BY <1>2, <3>3 DEF Reads
    <3> QED BY <1>3, <3>3, <3>4
  <2> QED BY <2>1, <2>2
<1> HIDE DEF inst, known, obs, rate
<1>7. \A n \in DOMAIN w2 : Fine(n)
  BY <1>5, <1>6
<1> QED BY <1>3, <1>4, <1>7 DEF WindowTells

-----------------------------------------------------------------------------
(* The invariant of the window.                                              *)

\* A sweep under way began after the last restart, and no rate is later.
ScrapeInv ==
    scrape.on =>
        /\ DOMAIN scrape = {"on", "at", "todo"}
        /\ scrape.at \in Nat /\ scrape.at <= now
        /\ \A restart \in outages : restart <= scrape.at
        /\ \A n \in DOMAIN window : Upto(rates[n], scrape.at)

\* What is being written, and what was, tell of the rates of their moments.
SnapshotInv ==
    /\ flush.on => SnapshotTells(flush.state, flush.rates, now, outages)
    /\ SnapshotTells(file, saved, now, outages)

\* The window, the snapshots and the sweep under way.
WInv ==
    /\ Clock(now, outages)
    /\ ScrapeInv
    /\ WindowTells(window, rates, now, outages)
    /\ SnapshotInv

\* Nothing is tracked at the start.
LEMMA WindowInit == Init => WInv
<1> SUFFICES ASSUME Init PROVE WInv
  OBVIOUS
<1>1. DOMAIN <<>> = {}
  OBVIOUS
<1>2. Tracked({})
  BY Limits, FS_EmptySet DEF Tracked
<1>3. Clock(now, outages) /\ ScrapeInv
  BY DEF Init, Clock, ScrapeInv, Idle
<1>4. WindowTells(<<>>, <<>>, now, outages) /\ SnapshotTells(<<>>, <<>>, now, outages)
  BY <1>1, <1>2 DEF WindowTells, SnapshotTells
<1>5. window = <<>> /\ rates = <<>> /\ file = <<>> /\ saved = <<>> /\ ~flush.on
  BY DEF Init, NoSnapshot, Idle
<1> QED BY <1>3, <1>4, <1>5 DEF WInv, SnapshotInv

\* A step of anything else: the clock may move.
LEMMA OthersKeepWInv ==
  ASSUME WInv, UNCHANGED <<window, rates, scrape, flush, file, saved, outages>>, now' \in {now, now + 1}
  PROVE  WInv'
<1>1. /\ now \in Nat /\ now' \in Nat /\ now <= now' /\ outages \in SUBSET Nat
      /\ \A restart \in outages : restart <= now
  BY DEF WInv, Clock
<1>2. Clock(now, outages)'
  <2>1. \A restart \in outages : restart \in Nat /\ restart <= now'
    BY <1>1
  <2> QED BY <1>1, <2>1 DEF Clock
<1>3. ScrapeInv'
  BY <1>1 DEF WInv, ScrapeInv
<1>4. WindowTells(window, rates, now', outages)
  BY <1>1, WindowLater DEF WInv
<1>5. SnapshotTells(file, saved, now', outages)
  BY <1>1, SnapshotLater DEF WInv, SnapshotInv
<1>6. flush.on => SnapshotTells(flush.state, flush.rates, now', outages)
  BY <1>1, SnapshotLater DEF WInv, SnapshotInv
<1>7. WindowTells(window, rates, now, outages)'
  BY <1>4
<1>8. SnapshotInv'
  BY <1>5, <1>6 DEF SnapshotInv
<1> QED BY <1>2, <1>3, <1>7, <1>8 DEF WInv

\* A sweep begins: every restart and every rate is earlier.
LEMMA BeginScrapeKeepsWInv ==
  ASSUME WInv, BeginScrape
  PROVE  WInv'
<1>1. /\ now' = now + 1 /\ scrape'.on /\ scrape'.at = now' /\ DOMAIN scrape' = {"on", "at", "todo"}
      /\ UNCHANGED <<window, rates, flush, file, saved, outages>>
  BY DEF BeginScrape, diskVars
<1>2. /\ now \in Nat /\ now' \in Nat /\ now <= now' /\ outages \in SUBSET Nat
      /\ \A restart \in outages : restart <= now
  BY <1>1 DEF WInv, Clock
<1>3. Clock(now, outages)'
  <2>1. \A restart \in outages : restart \in Nat /\ restart <= now'
    BY <1>2
  <2> QED BY <1>1, <1>2, <2>1 DEF Clock
<1>4. WindowTells(window, rates, now', outages)
  BY <1>2, WindowLater DEF WInv
<1>5. SnapshotTells(file, saved, now', outages)
  BY <1>2, SnapshotLater DEF WInv, SnapshotInv
<1>6. flush.on => SnapshotTells(flush.state, flush.rates, now', outages)
  BY <1>2, SnapshotLater DEF WInv, SnapshotInv
<1>7. ScrapeInv'
  <2>1. \A n \in DOMAIN window : Upto(rates[n], now')
    BY <1>4 DEF WindowTells, Told, Upto
  <2>2. \A restart \in outages : restart <= now'
    BY <1>2
  <2> QED BY <1>1, <1>2, <2>1, <2>2 DEF ScrapeInv, Upto
<1>8. WindowTells(window, rates, now, outages)'
  BY <1>1, <1>4
<1>9. SnapshotInv'
  BY <1>1, <1>5, <1>6 DEF SnapshotInv
<1> QED BY <1>3, <1>7, <1>8, <1>9 DEF WInv

\* One exporter answers or does not.
LEMMA ScrapeOneKeepsWInv ==
  ASSUME WInv, NEW name, ScrapeOne(name)
  PROVE  WInv'
<1>1. /\ scrape.on /\ scrape' = [scrape EXCEPT !.todo = @ \ {name}]
      /\ UNCHANGED <<now, flush, file, saved, outages>>
  BY DEF ScrapeOne, diskVars
<1>2. /\ DOMAIN scrape = {"on", "at", "todo"} /\ scrape.at \in Nat /\ scrape.at <= now
      /\ \A restart \in outages : restart <= scrape.at
      /\ \A n \in DOMAIN window : Upto(rates[n], scrape.at)
  BY <1>1 DEF WInv, ScrapeInv
<1>3. DOMAIN scrape' = {"on", "at", "todo"} /\ scrape'.at = scrape.at
  BY <1>1, <1>2
<1>4. Clock(now, outages)' /\ SnapshotInv'
  BY <1>1 DEF WInv, SnapshotInv
<1>5. /\ WindowTells(window', rates', now, outages)
      /\ \A n \in DOMAIN window' : Upto(rates'[n], scrape.at)
  <2>1. CASE UNCHANGED <<window, rates>>
    BY <1>2, <2>1 DEF WInv
  <2>2. ASSUME NEW value \in 0..1, window' \in Observe(window, name, scrape.at, value),
               Recorded(name, window')
        PROVE  <1>5
    <3>1. rates' = RatesAfter(window, rates, name, window', scrape.at)
      BY <2>2, Zenon DEF Recorded, RatesAfter
    <3>2. Clock(now, outages) /\ WindowTells(window, rates, now, outages)
      BY DEF WInv
    <3> DEFINE at == scrape.at
               w2 == window'
               all2 == rates'
    <3>3. /\ at \in Nat /\ at <= now /\ \A restart \in outages : restart <= at
          /\ \A n \in DOMAIN window : Upto(rates[n], at)
          /\ w2 \in Observe(window, name, at, value)
          /\ all2 = RatesAfter(window, rates, name, w2, at)
      BY <1>2, <2>2, <3>1
    <3> HIDE DEF at, w2, all2
    <3>4. /\ WindowTells(w2, all2, now, outages)
          /\ \A n \in DOMAIN w2 : Upto(all2[n], at)
      BY <3>2, <3>3, ObserveTells
    <3> QED BY <3>4 DEF at, w2, all2
  <2> QED BY <2>1, <2>2 DEF ScrapeOne
<1>6. WindowTells(window, rates, now, outages)'
  BY <1>1, <1>5
<1>7. ScrapeInv'
  BY <1>1, <1>2, <1>3, <1>5 DEF ScrapeInv, Upto
<1> QED BY <1>4, <1>6, <1>7 DEF WInv

\* A snapshot is taken, put in place, or lost.
LEMMA FlushKeepsWInv ==
  ASSUME WInv, EndScrape \/ WriteTemp \/ RenameTemp \/ FlushFails \/ Shutdown \/ Kill
  PROVE  WInv'
<1>1. UNCHANGED <<now, outages, window, rates>> /\ scrape' \in {scrape, Idle}
  BY DEF EndScrape, WriteTemp, RenameTemp, FlushFails, Shutdown, Kill, metricsVars
<1>2. Clock(now, outages)' /\ WindowTells(window, rates, now, outages)'
  BY <1>1 DEF WInv
<1>3. ScrapeInv'
  BY <1>1 DEF WInv, ScrapeInv, Idle, Upto
<1>4. SnapshotInv'
  <2>1. CASE WriteTemp
    <3>1. UNCHANGED <<file, saved>> /\ flush'.state = Export(window) /\ flush'.rates = rates
      BY <2>1 DEF WriteTemp
    <3>2. SnapshotTells(Export(window), rates, now, outages)
      BY ExportTells DEF WInv
    <3> QED BY <1>1, <3>1, <3>2 DEF WInv, SnapshotInv
  <2>2. CASE RenameTemp
    BY <1>1, <2>2 DEF WInv, SnapshotInv, RenameTemp, Idle
  <2>3. CASE FlushFails \/ Kill \/ Shutdown \/ EndScrape
    <3>1. UNCHANGED <<file, saved>> /\ flush' \in {flush, Idle}
      BY <2>3 DEF FlushFails, Kill, Shutdown, EndScrape, diskVars
    <3> QED BY <1>1, <3>1 DEF WInv, SnapshotInv, Idle
  <2> QED BY <2>1, <2>2, <2>3
<1> QED BY <1>2, <1>3, <1>4 DEF WInv

\* A new process has the window of the file, with no reading to compute a rate from.
LEMMA RestartKeepsWInv ==
  ASSUME WInv, Restart
  PROVE  WInv'
<1>1. /\ now' = now + 1 /\ outages' = outages \cup {now'} /\ window' = Import(file)
      /\ file' = Export(window') /\ rates' = saved /\ saved' = saved /\ scrape' = Idle /\ flush' = flush
  BY DEF Restart
<1>2. /\ now \in Nat /\ now' \in Nat /\ now <= now' /\ outages \in SUBSET Nat
      /\ \A restart \in outages : restart <= now
  BY <1>1 DEF WInv, Clock
<1>3. /\ outages' \in SUBSET Nat
      /\ \A restart \in outages' : restart \in outages \/ restart > now
  BY <1>1, <1>2
<1>4. Clock(now, outages)'
  BY <1>1, <1>2, <1>3 DEF Clock
<1>5. SnapshotTells(file, saved, now', outages')
  BY <1>2, <1>3, SnapshotLater DEF WInv, SnapshotInv
<1>6. WindowTells(Import(file), saved, now', outages')
  BY <1>5, ImportTells
<1>7. SnapshotTells(Export(Import(file)), saved, now', outages')
  BY <1>6, ExportTells
<1>8. flush.on => SnapshotTells(flush.state, flush.rates, now', outages')
  BY <1>2, <1>3, SnapshotLater DEF WInv, SnapshotInv
<1>9. WindowTells(window, rates, now, outages)'
  BY <1>1, <1>6
<1>10. SnapshotInv'
  BY <1>1, <1>7, <1>8 DEF SnapshotInv
<1>11. ScrapeInv'
  BY <1>1 DEF ScrapeInv, Idle
<1> QED BY <1>4, <1>9, <1>10, <1>11 DEF WInv

\* Every step.
LEMMA WindowNext == WInv /\ [Next]_vars => WInv'
<1> SUFFICES ASSUME WInv, [Next]_vars PROVE WInv'
  OBVIOUS
<1>1. CASE Outside \/ StatusSweep \/ UNCHANGED vars
  <2>1. UNCHANGED <<window, rates, scrape, flush, file, saved, outages>> /\ now' \in {now, now + 1}
    BY <1>1 DEF Outside, StartPod, DeletePod, RecreatePod, PublishRoster, LoseContact, StatusSweep,
        BeginSweep, SweepDeadline, ReadMember, PublishSweep, vars, clusterVars, statusVars,
        metricsVars, diskVars
  <2> QED BY <2>1, OthersKeepWInv
<1>2. CASE Scraping
  BY <1>2, BeginScrapeKeepsWInv, ScrapeOneKeepsWInv, FlushKeepsWInv DEF Scraping
<1>3. CASE Persisting
  BY <1>3, FlushKeepsWInv, RestartKeepsWInv DEF Persisting
<1> QED BY <1>1, <1>2, <1>3 DEF Next

\* The invariant.
THEOREM WindowInvHolds == Spec => []WInv
BY WindowInit, WindowNext, PTL DEF Spec

\* What the window retains of an instance, and what the file does, is told by its rates.
LEMMA KeptIsTold ==
  ASSUME NEW time, NEW restarts, NEW w, NEW all, WindowTells(w, all, time, restarts), NEW n \in DOMAIN w
  PROVE  /\ each(w[n].raw) = LastOf(all[n], RawCap)
         /\ each(w[n].roll) \in Seq(Closed(w[n].open, all[n]))
         /\ OpenTells(w[n].open, all[n])
         /\ Told(all[n], time, restarts)
<1>1. /\ all[n] \in Seq(Rate) /\ Laps(w[n].raw, all[n], RawCap) /\ OpenTells(w[n].open, all[n])
      /\ w[n].roll \in Rings(RollCap, Closed(w[n].open, all[n]))
      /\ Told(all[n], time, restarts)
  BY DEF WindowTells, Told, InstanceTells, RingsTell
<1>2. each(w[n].raw) = LastOf(all[n], RawCap)
  BY <1>1, EachIsLast, Limits
<1>3. each(w[n].roll) \in Seq(Closed(w[n].open, all[n]))
  BY <1>1, EachParts, Limits
<1> QED BY <1>1, <1>2, <1>3

\* An entry of the last n is an entry.
LEMMA LastIsOfAll ==
  ASSUME NEW S, NEW all \in Seq(S), NEW n \in Nat, NEW i \in DOMAIN LastOf(all, n)
  PROVE  \E j \in 1..Len(all) : LastOf(all, n)[i] = all[j]
<1> DEFINE last == LastOf(all, n)
           len == Len(all)
<1>1. /\ last \in Seq(S)
      /\ len > n => /\ Len(last) = n
                    /\ \A k \in 1..n : last[k] = all[len - n + k]
      /\ len <= n => last = all
  BY LastParts
<1>2. len \in Nat
  OBVIOUS
<1> HIDE DEF last
<1>3. i \in 1..Len(last)
  BY <1>1 DEF last
<1>4. CASE len > n
  <2>1. i \in 1..n /\ last[i] = all[len - n + i] /\ len - n + i \in 1..len
    BY <1>1, <1>2, <1>3, <1>4
  <2> QED BY <2>1 DEF last
<1>5. CASE len <= n
  BY <1>1, <1>3, <1>5 DEF last
<1> QED BY <1>2, <1>4, <1>5

\* No rate of the window spans a restart of the process, however often it was killed,
\* saved and restored, whichever instances were evicted: baselines stay out of the
\* snapshot (persist.go), so the first reading after a restart gives no rate.
THEOREM NoRateHolds == Spec => []NoRateAcrossAnOutage
<1>1. WInv => NoRateAcrossAnOutage
  <2> SUFFICES ASSUME WInv, NEW n \in DOMAIN window,
                      NEW i \in DOMAIN each(window[n].raw), NEW restart \in outages
               PROVE  ~(each(window[n].raw)[i].since < restart /\ restart <= each(window[n].raw)[i].at)
    BY DEF NoRateAcrossAnOutage
  <2>1. each(window[n].raw) = LastOf(rates[n], RawCap) /\ Told(rates[n], now, outages)
    BY KeptIsTold DEF WInv
  <2>2. PICK j \in 1..Len(rates[n]) : each(window[n].raw)[i] = rates[n][j]
    BY <2>1, LastIsOfAll, Limits DEF Told
  <2> QED BY <2>1, <2>2 DEF Told
<1> QED BY <1>1, WindowInvHolds, PTL

-----------------------------------------------------------------------------
(* The axis of a chart.                                                      *)

\* The image of a finite set.
LEMMA FiniteImage ==
  ASSUME NEW S, IsFiniteSet(S), NEW f, DOMAIN f = S, NEW T, T = {f[x] : x \in S}
  PROVE  IsFiniteSet(T)
<1> DEFINE g == [x \in S |-> f[x]]
<1>1. g \in Surjection(S, T)
  BY DEF Surjection
<1> HIDE DEF g
<1> QED BY <1>1, FS_Surjection

\* A finite set of numbers in order: all of it, each once.
Ordered(s, times) ==
    /\ s \in [1..Cardinality(times) -> times]
    /\ \A t \in times : \E k \in 1..Cardinality(times) : s[k] = t
    /\ \A i, k \in 1..Cardinality(times) : i < k => s[i] < s[k]

\* A time has as many before it as its place says, and no two times have the same place.
LEMMA InOrder ==
  ASSUME NEW times \in SUBSET Int, IsFiniteSet(times)
  PROVE  Ordered(inOrder(times), times) /\ Cardinality(times) \in Nat
<1> DEFINE n == Cardinality(times)
           before(t) == {u \in times : u < t}
           rank == [t \in times |-> Cardinality(before(t))]
           s == inOrder(times)
<1>1. n \in Nat
  BY FS_CardinalityType
<1>2. ASSUME NEW t \in times
      PROVE  /\ IsFiniteSet(before(t)) /\ rank[t] = Cardinality(before(t))
             /\ rank[t] \in 0..(n - 1)
  <2>1. before(t) \in SUBSET times /\ t \in times /\ t \notin before(t)
    OBVIOUS
  <2> HIDE DEF before
  <2>2. IsFiniteSet(before(t)) /\ Cardinality(before(t)) <= n /\ (n = Cardinality(before(t)) => times = before(t))
    BY <2>1, FS_Subset
  <2>3. Cardinality(before(t)) \in Nat
    BY <2>2, FS_CardinalityType
  <2>4. Cardinality(before(t)) # n
    BY <2>1, <2>2
  <2> QED BY <1>1, <2>2, <2>3, <2>4
<1>3. ASSUME NEW t \in times, NEW u \in times, t < u
      PROVE  rank[t] < rank[u]
  <2>1. before(t) \in SUBSET before(u) /\ t \in before(u) /\ t \notin before(t)
    <3>1. t \in Int /\ u \in Int
      OBVIOUS
    <3>2. ASSUME NEW x \in before(t) PROVE x \in before(u)
      <4>1. x \in times /\ x \in Int /\ x < t
        OBVIOUS
      <4> QED BY <1>3, <3>1, <4>1
    <3>3. t \in before(u) /\ t \notin before(t)
      BY <1>3, <3>1
    <3> QED BY <3>2, <3>3
  <2>2. IsFiniteSet(before(u)) /\ rank[t] = Cardinality(before(t)) /\ rank[u] = Cardinality(before(u))
        /\ rank[t] \in Nat /\ rank[u] \in Nat
    BY <1>1, <1>2
  <2> HIDE DEF before, rank
  <2>3. Cardinality(before(t)) <= Cardinality(before(u))
        /\ (Cardinality(before(u)) = Cardinality(before(t)) => before(u) = before(t))
    BY <2>1, <2>2, FS_Subset
  <2>4. Cardinality(before(t)) # Cardinality(before(u))
    BY <2>1, <2>3
  <2> QED BY <2>2, <2>3, <2>4
<1> HIDE DEF before
<1>4. \A t, u \in times : rank[t] = rank[u] => t = u
  <2> SUFFICES ASSUME NEW t \in times, NEW u \in times, rank[t] = rank[u], t # u PROVE FALSE
    OBVIOUS
  <2>1. rank[t] \in Int /\ rank[u] \in Int
    BY <1>1, <1>2
  <2> HIDE DEF rank
  <2>2. CASE t < u
    <3>1. rank[t] < rank[u]
      BY <1>3, <2>2
    <3> QED BY <2>1, <3>1
  <2>3. CASE u < t
    <3>1. rank[u] < rank[t]
      BY <1>3, <2>3
    <3> QED BY <2>1, <3>1
  <2> QED BY <2>2, <2>3
<1>5. ASSUME NEW k \in 0..(n - 1) PROVE \E t \in times : rank[t] = k
  <2> SUFFICES ASSUME \A t \in times : rank[t] # k PROVE FALSE
    OBVIOUS
  <2> DEFINE others == (0..(n - 1)) \ {k}
  <2>1. IsFiniteSet(0..(n - 1)) /\ Cardinality(0..(n - 1)) = n
    <3>1. 0 \in Int /\ n - 1 \in Int
      BY <1>1
    <3>2. IsFiniteSet(0..(n - 1)) /\ Cardinality(0..(n - 1)) = IF 0 > n - 1 THEN 0 ELSE n - 1 - 0 + 1
      BY <3>1, FS_Interval
    <3> QED BY <1>1, <1>5, <3>2
  <2>2. IsFiniteSet(others) /\ Cardinality(others) = n - 1
    BY <2>1, FS_RemoveElement
  <2>3. rank \in [times -> others]
    BY <1>2
  <2>4. Cardinality(others) < Cardinality(times)
    BY <1>1, <2>2
  <2> HIDE DEF others, rank
  <2>5. \E t, u \in times : t # u /\ rank[t] = rank[u]
    BY <2>2, <2>3, <2>4, FS_PigeonHole
  <2> QED BY <1>4, <2>5
<1>6. ASSUME NEW k \in 1..n PROVE s[k] \in times /\ rank[s[k]] = k - 1
  <2>1. k - 1 \in 0..(n - 1)
    BY <1>1
  <2>2. \E t \in times : Cardinality({u \in times : u < t}) = k - 1
    BY <1>5, <2>1 DEF before
  <2>3. s[k] = CHOOSE t \in times : Cardinality({u \in times : u < t}) = k - 1
    BY DEF inOrder
  <2>4. s[k] \in times /\ Cardinality({u \in times : u < s[k]}) = k - 1
    BY <2>2, <2>3
  <2> QED BY <2>4 DEF before
<1>7. DOMAIN s = 1..n
  BY DEF inOrder
<1>8. s \in [1..n -> times]
  <2>1. s = [k \in 1..n |-> s[k]]
    BY DEF inOrder
  <2> HIDE DEF s
  <2> QED BY <1>6, <2>1
<1> HIDE DEF s
<1>9. ASSUME NEW t \in times PROVE \E k \in 1..n : s[k] = t
  <2> DEFINE k == rank[t] + 1
  <2>1. k \in 1..n /\ k - 1 = rank[t]
    <3>1. rank[t] \in 0..(n - 1)
      BY <1>2
    <3> HIDE DEF rank
    <3> QED BY <1>1, <3>1
  <2> HIDE DEF k, rank
  <2>2. s[k] = t
    BY <1>4, <1>6, <2>1
  <2> QED BY <2>1, <2>2
<1>10. ASSUME NEW i \in 1..n, NEW k \in 1..n, i < k PROVE s[i] < s[k]
  <2>1. s[i] \in times /\ s[k] \in times /\ rank[s[i]] = i - 1 /\ rank[s[k]] = k - 1
    BY <1>6
  <2> HIDE DEF rank
  <2>2. s[i] \in Int /\ s[k] \in Int
    BY <2>1
  <2>3. s[i] # s[k]
    BY <1>1, <1>10, <2>1
  <2>4. ~(s[k] < s[i])
    <3> SUFFICES ASSUME s[k] < s[i] PROVE FALSE
      OBVIOUS
    <3>1. rank[s[k]] < rank[s[i]]
      BY <1>3, <2>1
    <3> QED BY <1>1, <1>10, <2>1, <3>1
  <2> QED BY <2>2, <2>3, <2>4
<1> QED BY <1>1, <1>8, <1>9, <1>10 DEF Ordered, s

\* The blocks up to the i-th, one after the other.
Flattenings(blocks, n) ==
    {f \in [1..n -> Seq(Int)] :
        \A i \in 1..n : f[i] = IF i = 1 THEN blocks[i] ELSE f[i - 1] \o blocks[i]}

\* One after the other, the blocks make one sequence.
LEMMA FlatteningExists ==
  ASSUME NEW n \in Nat \ {0}, NEW blocks \in [1..n -> Seq(Int)]
  PROVE  Flattenings(blocks, n) # {}
<1> DEFINE T == {m \in 1..n : Flattenings(blocks, m) = {}}
<1>0. n \in 1..n
  OBVIOUS
<1> SUFFICES ASSUME T # {} PROVE FALSE
  BY <1>0
<1>1. PICK m \in T : \A o \in T : m <= o
  <2>1. T \subseteq Nat
    OBVIOUS
  <2> HIDE DEF T
  <2> QED BY <2>1, Least
<1>2. m \in 1..n /\ Flattenings(blocks, m) = {}
  OBVIOUS
<1>3. CASE m = 1
  <2> DEFINE f == [i \in 1..1 |-> blocks[i]]
  <2>1. f \in [1..1 -> Seq(Int)] /\ f[1] = blocks[1]
    BY <1>2, <1>3
  <2>2. \A i \in 1..1 : i = 1
    OBVIOUS
  <2> HIDE DEF f
  <2>3. f \in Flattenings(blocks, 1)
    BY <2>1, <2>2 DEF Flattenings
  <2> QED BY <1>2, <1>3, <2>3
<1>4. CASE m # 1
  <2>1. m - 1 \in 1..n /\ ~(m <= m - 1) /\ m \in Nat /\ m > 1
    BY <1>2, <1>4
  <2>2. Flattenings(blocks, m - 1) # {}
    BY <1>1, <2>1
  <2>3. PICK f \in Flattenings(blocks, m - 1) : TRUE
    BY <2>2
  <2>4. /\ f \in [1..(m - 1) -> Seq(Int)]
        /\ \A i \in 1..(m - 1) : f[i] = IF i = 1 THEN blocks[i] ELSE f[i - 1] \o blocks[i]
    BY <2>3 DEF Flattenings
  <2> DEFINE g == [i \in 1..m |-> IF i = m THEN f[m - 1] \o blocks[m] ELSE f[i]]
  <2>5. f[m - 1] \o blocks[m] \in Seq(Int)
    <3>1. f[m - 1] \in Seq(Int) /\ blocks[m] \in Seq(Int)
      BY <1>2, <2>1, <2>4
    <3> QED BY <3>1, ConcatProperties
  <2>6. /\ g \in [1..m -> Seq(Int)] /\ g[m] = f[m - 1] \o blocks[m]
        /\ \A i \in 1..(m - 1) : g[i] = f[i]
    <3> DEFINE last == f[m - 1] \o blocks[m]
    <3> HIDE DEF last
    <3>1. g = [i \in 1..m |-> IF i = m THEN last ELSE f[i]] /\ last \in Seq(Int)
      BY <2>5 DEF last
    <3> HIDE DEF g
    <3>2. g \in [1..m -> Seq(Int)] /\ g[m] = last /\ \A i \in 1..(m - 1) : g[i] = f[i]
      BY <2>1, <2>4, <3>1
    <3> QED BY <3>2 DEF last
  <2> HIDE DEF g
  <2>7. ASSUME NEW i \in 1..m PROVE g[i] = IF i = 1 THEN blocks[i] ELSE g[i - 1] \o blocks[i]
    <3>1. CASE i = m
      <4>1. i # 1 /\ i - 1 \in 1..(m - 1)
        BY <2>1, <3>1
      <4> QED BY <2>6, <3>1, <4>1
    <3>2. CASE i # m
      <4>1. i \in 1..(m - 1) /\ (i # 1 => i - 1 \in 1..(m - 1))
        BY <2>1, <3>2
      <4> QED BY <2>4, <2>6, <4>1
    <3> QED BY <3>1, <3>2
  <2>8. g \in Flattenings(blocks, m)
    BY <2>6, <2>7 DEF Flattenings
  <2> QED BY <1>2, <2>8
<1> QED BY <1>3, <1>4

\* FlattenSeq is that sequence.
LEMMA FlattenSeqIs ==
  ASSUME NEW n \in Nat \ {0}, NEW blocks \in [1..n -> Seq(Int)]
  PROVE  \E f \in Flattenings(blocks, n) : FlattenSeq(blocks) = f[n]
<1> DEFINE Def(g) == g = [i \in 1..n |-> IF i = 1 THEN blocks[i] ELSE g[i - 1] \o blocks[i]]
           chosen == CHOOSE g : Def(g)
<1>1. PICK f \in Flattenings(blocks, n) : TRUE
  BY FlatteningExists
<1>2. /\ f \in [1..n -> Seq(Int)]
      /\ \A i \in 1..n : f[i] = IF i = 1 THEN blocks[i] ELSE f[i - 1] \o blocks[i]
  BY <1>1 DEF Flattenings
<1>3. Def(f)
  BY <1>2
<1>4. Def(chosen)
  <2> HIDE DEF Def
  <2> QED BY <1>3, Zenon
<1>5. Len(blocks) = n
  OBVIOUS
<1>6. FlattenSeq(blocks) = chosen[n]
  BY <1>5 DEF FlattenSeq
<1> HIDE DEF chosen
<1>7. \A i \in 1..n : chosen[i] = f[i]
  <2> DEFINE T == {i \in 1..n : chosen[i] # f[i]}
  <2> SUFFICES ASSUME T # {} PROVE FALSE
    OBVIOUS
  <2>1. PICK i \in T : \A o \in T : i <= o
    <3>1. T \subseteq Nat
      OBVIOUS
    <3> HIDE DEF T
    <3> QED BY <3>1, Least
  <2>2. i \in 1..n /\ chosen[i] # f[i]
    OBVIOUS
  <2>3. chosen[i] = IF i = 1 THEN blocks[i] ELSE chosen[i - 1] \o blocks[i]
    BY <1>4, <2>2
  <2>4. i # 1
    BY <1>2, <2>2, <2>3
  <2>5. i - 1 \in 1..n /\ ~(i <= i - 1)
    BY <2>2, <2>4
  <2>6. chosen[i - 1] = f[i - 1]
    BY <2>1, <2>5
  <2> QED BY <1>2, <2>2, <2>3, <2>4, <2>6
<1> QED BY <1>1, <1>6, <1>7

\* Two rows next to each other: in order, and no more than a step and a half apart when
\* both of them are times.
Apart(a, b, times, every) == a < b /\ ({a, b} \subseteq times => 2 * (b - a) <= 3 * every)

Axis(axis, times, every) ==
    axis \in Seq(Int) /\ \A k \in 2..Len(axis) : Apart(axis[k - 1], axis[k], times, every)

\* One more row.
LEMMA AxisGrows ==
  ASSUME NEW times, NEW every, NEW axis, Axis(axis, times, every), Len(axis) >= 1,
         NEW v \in Int, Apart(axis[Len(axis)], v, times, every)
  PROVE  /\ Axis(Append(axis, v), times, every)
         /\ Len(Append(axis, v)) = Len(axis) + 1
         /\ Append(axis, v)[Len(axis) + 1] = v
         /\ \A k \in 1..Len(axis) : Append(axis, v)[k] = axis[k]
<1> DEFINE more == Append(axis, v)
           n == Len(axis)
<1>1. axis \in Seq(Int) /\ n \in Nat
  BY DEF Axis
<1>2. /\ more \in Seq(Int) /\ Len(more) = n + 1 /\ more[n + 1] = v
      /\ \A k \in 1..n : more[k] = axis[k]
  BY <1>1, Appended
<1> HIDE DEF more
<1>3. ASSUME NEW k \in 2..n + 1 PROVE Apart(more[k - 1], more[k], times, every)
  <2>1. CASE k = n + 1
    <3>1. k - 1 = n /\ n \in 1..n
      BY <1>1, <2>1
    <3> QED BY <1>2, <2>1, <3>1
  <2>2. CASE k # n + 1
    <3>1. k \in 1..n /\ k - 1 \in 1..n /\ k \in 2..n
      BY <1>1, <2>2
    <3> QED BY <1>2, <3>1 DEF Axis
  <2> QED BY <2>1, <2>2
<1> QED BY <1>2, <1>3 DEF Axis, more

\* The axis after i times.
DrawnTo(axis, s, i, times, every) ==
    /\ Axis(axis, times, every) /\ Len(axis) >= 1 /\ axis[Len(axis)] = s[i]
    /\ \A j \in 1..i : \E k \in 1..Len(axis) : axis[k] = s[j]

\* A step and a half is at least a step.
LEMMA StepAndAHalf ==
  ASSUME NEW every \in Nat \ {0}, NEW d \in Int
  PROVE  /\ d > (every * 3) \div 2 => d > every
         /\ ~(d > (every * 3) \div 2) => 2 * d <= 3 * every
OBVIOUS

\* The next time follows, after a row where nothing is if it is too far.
LEMMA DrawnNext ==
  ASSUME NEW times \in SUBSET Int, IsFiniteSet(times), NEW s, Ordered(s, times), NEW every \in Nat \ {0},
         NEW i \in 2..Cardinality(times), NEW axis, DrawnTo(axis, s, i - 1, times, every),
         NEW block, block = IF i > 1 /\ s[i] - s[i - 1] > (every * 3) \div 2
                            THEN <<s[i - 1] + every, s[i]>> ELSE <<s[i]>>
  PROVE  DrawnTo(axis \o block, s, i, times, every)
<1> DEFINE n == Cardinality(times)
           a == s[i - 1]
           b == s[i]
           m == a + every
           len == Len(axis)
<1>1. n \in Nat /\ i \in 1..n /\ i - 1 \in 1..n /\ i > 1
  BY FS_CardinalityType
<1>2. a \in times /\ b \in times /\ a \in Int /\ b \in Int /\ a < b
  <2>1. a \in times /\ b \in times
    BY <1>1 DEF Ordered
  <2>2. i - 1 < i
    BY <1>1
  <2>3. a < b
    BY <1>1, <2>2, Zenon DEF Ordered
  <2> QED BY <2>1, <2>3
<1>3. axis \in Seq(Int) /\ len \in Nat /\ len >= 1 /\ axis[len] = a /\ Axis(axis, times, every)
  BY DEF DrawnTo, Axis
<1>4. \A j \in 1..i : j = i \/ \E k \in 1..len : axis[k] = s[j]
  <2> SUFFICES ASSUME NEW j \in 1..i, j # i PROVE \E k \in 1..len : axis[k] = s[j]
    OBVIOUS
  <2>1. j \in 1..(i - 1)
    BY <1>1
  <2> QED BY <2>1 DEF DrawnTo
<1> HIDE DEF a, b, n, len
<1>5. CASE b - a > (every * 3) \div 2
  <2>1. block = <<m, b>>
    BY <1>1, <1>5 DEF a, b, m
  <2>2. a < m /\ m < b /\ m \in Int
    <3>1. b - a \in Int /\ b - a > every
      <4>1. b - a \in Int
        BY <1>2
      <4> QED BY <1>5, <4>1, StepAndAHalf
    <3> QED BY <1>2, <3>1
  <2>3. m \notin times
    <3> SUFFICES ASSUME m \in times PROVE FALSE
      OBVIOUS
    <3>1. PICK k \in 1..n : s[k] = m
      BY DEF Ordered, n
    <3>2. k < i - 1 \/ k = i - 1 \/ k = i \/ k > i
      BY <1>1
    <3>3. k < i - 1 => s[k] < a
      BY <1>1 DEF Ordered, n, a
    <3>4. k > i => b < s[k]
      BY <1>1 DEF Ordered, n, b
    <3> QED BY <1>2, <2>2, <3>1, <3>2, <3>3, <3>4 DEF a, b
  <2> HIDE DEF m
  <2> DEFINE one == Append(axis, m)
             two == Append(one, b)
  <2>4. /\ Axis(one, times, every) /\ Len(one) = len + 1 /\ one[len + 1] = m
        /\ \A k \in 1..len : one[k] = axis[k]
    <3>1. Apart(axis[len], m, times, every)
      BY <1>3, <2>2, <2>3 DEF Apart
    <3> QED BY <1>3, <2>2, <3>1, AxisGrows DEF len
  <2> HIDE DEF one
  <2>5. /\ Axis(two, times, every) /\ Len(two) = len + 2 /\ two[len + 2] = b
        /\ \A k \in 1..(len + 1) : two[k] = one[k]
    <3>1. Apart(one[len + 1], b, times, every)
      BY <2>2, <2>3, <2>4 DEF Apart
    <3>2. Len(one) >= 1 /\ len + 1 + 1 = len + 2
      BY <1>3, <2>4
    <3> QED BY <1>2, <2>4, <3>1, <3>2, AxisGrows
  <2>6. axis \o block = two
    <3>1. block \in Seq(Int) /\ Len(block) = 2 /\ block[1] = m /\ block[2] = b
      BY <1>2, <2>1, <2>2
    <3>2. /\ axis \o block \in Seq(Int) /\ Len(axis \o block) = len + 2
          /\ \A k \in 1..(len + 2) : (axis \o block)[k] = IF k <= len THEN axis[k] ELSE block[k - len]
      BY <1>3, <3>1, ConcatProperties DEF len
    <3> HIDE DEF two
    <3>3. \A k \in 1..(len + 2) : k <= len \/ (k = len + 1 /\ k - len = 1) \/ (k = len + 2 /\ k - len = 2)
      BY <1>3
    <3>4. ASSUME NEW k \in 1..(len + 2) PROVE (axis \o block)[k] = two[k]
      <4>1. CASE k <= len
        <5>1. k \in 1..len /\ k \in 1..(len + 1)
          BY <1>3, <4>1
        <5> QED BY <2>4, <2>5, <3>2, <4>1, <5>1
      <4>2. CASE k = len + 1 /\ k - len = 1
        <5>1. ~(k <= len) /\ k \in 1..(len + 1)
          BY <1>3, <4>2
        <5> QED BY <2>4, <2>5, <3>1, <3>2, <4>2, <5>1
      <4>3. CASE k = len + 2 /\ k - len = 2
        <5>1. ~(k <= len)
          BY <1>3, <4>3
        <5> QED BY <2>5, <3>1, <3>2, <4>3, <5>1
      <4> QED BY <3>3, <4>1, <4>2, <4>3
    <3> QED BY <2>5, <3>2, <3>4, SeqEqual DEF Axis
  <2> HIDE DEF two
  <2>7. \A j \in 1..i : \E k \in 1..(len + 2) : two[k] = s[j]
    <3> SUFFICES ASSUME NEW j \in 1..i PROVE \E k \in 1..(len + 2) : two[k] = s[j]
      OBVIOUS
    <3>1. CASE j = i
      <4>1. len + 2 \in 1..(len + 2)
        BY <1>3
      <4> QED BY <2>5, <3>1, <4>1 DEF b
    <3>2. CASE j # i
      <4>1. PICK k \in 1..len : axis[k] = s[j]
        BY <1>4, <3>2
      <4>2. k \in 1..(len + 1) /\ k \in 1..(len + 2)
        BY <1>3
      <4> QED BY <2>4, <2>5, <4>1, <4>2
    <3> QED BY <3>1, <3>2
  <2>8. Len(two) >= 1 /\ two[Len(two)] = s[i]
    BY <1>3, <2>5 DEF b
  <2> QED BY <2>5, <2>6, <2>7, <2>8 DEF DrawnTo
<1>6. CASE ~(b - a > (every * 3) \div 2)
  <2>1. block = <<b>>
    BY <1>6 DEF a, b
  <2> DEFINE one == Append(axis, b)
  <2>2. Apart(axis[len], b, times, every)
    <3>1. b - a \in Int
      BY <1>2
    <3>2. 2 * (b - a) <= 3 * every
      BY <1>6, <3>1, StepAndAHalf
    <3> QED BY <1>2, <1>3, <3>2 DEF Apart
  <2>3. /\ Axis(one, times, every) /\ Len(one) = len + 1 /\ one[len + 1] = b
        /\ \A k \in 1..len : one[k] = axis[k]
    BY <1>2, <1>3, <2>2, AxisGrows DEF len
  <2>4. axis \o block = one
    <3>1. block \in Seq(Int) /\ Len(block) = 1 /\ block[1] = b
      BY <1>2, <2>1
    <3>2. /\ axis \o block \in Seq(Int) /\ Len(axis \o block) = len + 1
          /\ \A k \in 1..(len + 1) : (axis \o block)[k] = IF k <= len THEN axis[k] ELSE block[k - len]
      BY <1>3, <3>1, ConcatProperties DEF len
    <3> HIDE DEF one
    <3>3. \A k \in 1..(len + 1) : k \in 1..len \/ (k = len + 1 /\ k - len = 1 /\ ~(k <= len))
      BY <1>3
    <3>4. ASSUME NEW k \in 1..(len + 1) PROVE (axis \o block)[k] = one[k]
      <4>1. CASE k \in 1..len
        <5>1. k <= len
          BY <1>3, <4>1
        <5> QED BY <2>3, <3>2, <4>1, <5>1
      <4>2. CASE k = len + 1 /\ k - len = 1 /\ ~(k <= len)
        BY <2>3, <3>1, <3>2, <4>2
      <4> QED BY <3>3, <4>1, <4>2
    <3> QED BY <2>3, <3>2, <3>4, SeqEqual DEF Axis
  <2> HIDE DEF one
  <2>5. \A j \in 1..i : \E k \in 1..(len + 1) : one[k] = s[j]
    <3> SUFFICES ASSUME NEW j \in 1..i PROVE \E k \in 1..(len + 1) : one[k] = s[j]
      OBVIOUS
    <3>1. CASE j = i
      <4>1. len + 1 \in 1..(len + 1)
        BY <1>3
      <4> QED BY <2>3, <3>1, <4>1 DEF b
    <3>2. CASE j # i
      <4>1. PICK k \in 1..len : axis[k] = s[j]
        BY <1>4, <3>2
      <4>2. k \in 1..(len + 1)
        BY <1>3
      <4> QED BY <2>3, <4>1, <4>2
    <3> QED BY <3>1, <3>2
  <2>6. Len(one) >= 1 /\ one[Len(one)] = s[i]
    BY <1>3, <2>3 DEF b
  <2> QED BY <2>3, <2>4, <2>5, <2>6 DEF DrawnTo
<1> QED BY <1>5, <1>6

\* The axis of all the times.
DrawnAll(axis, times, every) ==
    Axis(axis, times, every) /\ \A t \in times : \E k \in 1..Len(axis) : axis[k] = t

\* withGapBreaksLocked on the sorted times.
LEMMA GapBreaks ==
  ASSUME NEW times \in SUBSET Int, IsFiniteSet(times), NEW every \in Nat \ {0},
         NEW axis, axis = withGapBreaks(inOrder(times), every)
  PROVE  DrawnAll(axis, times, every)
<1> DEFINE n == Cardinality(times)
           s == inOrder(times)
           Block(i) == IF i > 1 /\ s[i] - s[i - 1] > (every * 3) \div 2
                       THEN <<s[i - 1] + every, s[i]>> ELSE <<s[i]>>
           blocks == [i \in 1..n |-> Block(i)]
<1>1. Ordered(s, times) /\ n \in Nat
  BY InOrder
<1>2. DOMAIN s = 1..n
  BY DEF inOrder
<1>3. axis = FlattenSeq(blocks)
  BY <1>2 DEF withGapBreaks
<1> HIDE DEF s
<1>4. CASE n = 0
  <2>1. times = {}
    BY <1>4, FS_EmptySet
  <2>2. blocks = [i \in 1..0 |-> Block(i)]
    BY <1>4
  <2> HIDE DEF Block, blocks
  <2>3. blocks \in [1..0 -> Int] /\ blocks \in Seq(Int) /\ Len(blocks) = 0
    <3>1. 1..0 = {}
      OBVIOUS
    <3>2. blocks \in [1..0 -> Int]
      BY <2>2, <3>1
    <3> QED BY <3>2
  <2>4. axis = blocks
    BY <1>3, <2>3 DEF FlattenSeq
  <2>5. 2..Len(axis) = {}
    BY <2>3, <2>4
  <2> QED BY <2>1, <2>3, <2>4, <2>5 DEF Axis, DrawnAll
<1>5. CASE n # 0
  <2>1. \A i \in 1..n : s[i] \in Int /\ s[i] \in times
    BY <1>1 DEF Ordered
  <2>2. ASSUME NEW i \in 1..n PROVE Block(i) \in Seq(Int)
    <3>1. CASE i > 1 /\ s[i] - s[i - 1] > (every * 3) \div 2
      <4>1. i - 1 \in 1..n
        BY <1>1, <3>1
      <4>2. s[i - 1] + every \in Int /\ s[i] \in Int
        BY <2>1, <4>1
      <4>3. Block(i) = <<s[i - 1] + every, s[i]>>
        BY <3>1
      <4> HIDE DEF Block
      <4> QED BY <4>2, <4>3
    <3>2. CASE ~(i > 1 /\ s[i] - s[i - 1] > (every * 3) \div 2)
      <4>1. Block(i) = <<s[i]>> /\ s[i] \in Int
        BY <2>1, <3>2
      <4> HIDE DEF Block
      <4> QED BY <4>1
    <3> QED BY <3>1, <3>2
  <2>3. blocks \in [1..n -> Seq(Int)] /\ \A i \in 1..n : blocks[i] = Block(i)
    <3> HIDE DEF Block
    <3> QED BY <2>2
  <2>4. n \in Nat \ {0}
    BY <1>1, <1>5
  <2> HIDE DEF blocks
  <2>5. PICK f \in Flattenings(blocks, n) : axis = f[n]
    BY <1>3, <2>3, <2>4, FlattenSeqIs
  <2>6. \A i \in 1..n : f[i] = IF i = 1 THEN Block(i) ELSE f[i - 1] \o Block(i)
    <3> HIDE DEF Block
    <3> QED BY <2>3, <2>5 DEF Flattenings
  <2>7. \A i \in 1..n : DrawnTo(f[i], s, i, times, every)
    <3> DEFINE T == {i \in 1..n : ~DrawnTo(f[i], s, i, times, every)}
    <3> SUFFICES ASSUME T # {} PROVE FALSE
      OBVIOUS
    <3>1. PICK i \in T : \A o \in T : i <= o
      <4>1. T \subseteq Nat
        BY <1>1
      <4> HIDE DEF T
      <4> QED BY <4>1, Least
    <3>2. i \in 1..n /\ ~DrawnTo(f[i], s, i, times, every)
      OBVIOUS
    <3>3. CASE i = 1
      <4>1. Block(1) = <<s[1]>>
        OBVIOUS
      <4> HIDE DEF Block
      <4>2. f[1] = <<s[1]>> /\ s[1] \in Int
        BY <2>1, <2>6, <3>2, <3>3, <4>1
      <4> DEFINE first == f[1]
      <4>3. first \in Seq(Int) /\ Len(first) = 1 /\ first[1] = s[1]
        BY <4>2
      <4> HIDE DEF first
      <4>4. 2..Len(first) = {} /\ 1..1 = {1} /\ 1 \in 1..Len(first)
        BY <4>3
      <4>5. DrawnTo(first, s, 1, times, every)
        BY <4>3, <4>4 DEF DrawnTo, Axis
      <4> QED BY <3>2, <3>3, <4>5 DEF first
    <3>4. CASE i # 1
      <4>1. i - 1 \in 1..n /\ ~(i <= i - 1) /\ i \in 2..n
        BY <1>1, <3>2, <3>4
      <4>2. DrawnTo(f[i - 1], s, i - 1, times, every)
        BY <3>1, <4>1
      <4>3. f[i] = f[i - 1] \o Block(i)
        <5> HIDE DEF Block
        <5> QED BY <2>6, <3>2, <3>4
      <4> DEFINE block == Block(i)
      <4>4. block = IF i > 1 /\ s[i] - s[i - 1] > (every * 3) \div 2
                    THEN <<s[i - 1] + every, s[i]>> ELSE <<s[i]>>
        OBVIOUS
      <4> HIDE DEF block
      <4>5. DrawnTo(f[i - 1] \o block, s, i, times, every)
        BY <1>1, <4>1, <4>2, <4>4, DrawnNext
      <4> QED BY <3>2, <4>3, <4>5 DEF block
    <3> QED BY <3>3, <3>4
  <2>8. DrawnTo(axis, s, n, times, every)
    BY <2>4, <2>5, <2>7
  <2> QED BY <1>1, <2>8 DEF DrawnTo, Ordered, DrawnAll
<1> QED BY <1>4, <1>5

\* The points of an instance: finitely many times.
LEMMA PointsAreTimes ==
  ASSUME NEW inst, NEW all \in Seq(Rate), RingsTell(inst, all), NEW tier \in Tiers
  PROVE  points(inst, tier) \in SUBSET Int /\ IsFiniteSet(points(inst, tier))
<1>1. CASE tier = "raw"
  <2> DEFINE q == each(inst.raw)
             g == [i \in 1..Len(q) |-> q[i].at]
             T == {g[i] : i \in 1..Len(q)}
  <2>1. q \in Seq(Rate)
    BY EachParts, Limits DEF RingsTell, Laps
  <2> HIDE DEF q
  <2>2. Len(q) \in Nat /\ DOMAIN q = 1..Len(q) /\ \A i \in 1..Len(q) : q[i].at \in Nat
    <3>1. \A i \in 1..Len(q) : q[i] \in Rate
      BY <2>1, ElementOfSeq
    <3> QED BY <2>1, <3>1 DEF Rate
  <2>3. points(inst, tier) = T
    BY <1>1, <2>2 DEF points, Range, q
  <2>4. IsFiniteSet(1..Len(q))
    BY <2>2, FS_Interval
  <2>5. T \in SUBSET Int
    BY <2>2
  <2>6. DOMAIN g = 1..Len(q)
    OBVIOUS
  <2>7. IsFiniteSet(T)
    <3> HIDE DEF g
    <3> QED BY <2>4, <2>6, FiniteImage
  <2> QED BY <2>3, <2>5, <2>7
<1>2. CASE tier # "raw"
  <2> DEFINE q == each(inst.roll)
             g == [i \in 1..Len(q) |-> q[i].start]
             T == {g[i] : i \in 1..Len(q)}
             U == T \cup {inst.open.start}
  <2>1. q \in Seq(Closed(inst.open, all)) /\ inst.open \in Bucket
    BY EachParts, Limits DEF RingsTell, OpenTells
  <2> HIDE DEF q
  <2>2. Len(q) \in Nat /\ DOMAIN q = 1..Len(q) /\ \A i \in 1..Len(q) : q[i].start \in Int
    <3>1. \A i \in 1..Len(q) : q[i] \in Bucket
      BY <2>1, ElementOfSeq DEF Closed
    <3> QED BY <2>1, <3>1 DEF Bucket
  <2>3. points(inst, tier) \in SUBSET U
    BY <1>2, <2>2 DEF points, Range, q
  <2>4. IsFiniteSet(1..Len(q))
    BY <2>2, FS_Interval
  <2>5. U \in SUBSET Int
    BY <2>1, <2>2 DEF Bucket
  <2>6. DOMAIN g = 1..Len(q)
    OBVIOUS
  <2>7. IsFiniteSet(T)
    <3> HIDE DEF g
    <3> QED BY <2>4, <2>6, FiniteImage
  <2> HIDE DEF T
  <2>8. IsFiniteSet(U)
    BY <2>7, FS_AddElement
  <2> HIDE DEF U
  <2> QED BY <2>3, <2>5, <2>8, FS_Subset
<1> QED BY <1>1, <1>2

\* The chart of an instance, on the axis of them all.
LEMMA ChartHolds ==
  ASSUME WInv, NEW n \in DOMAIN window
  PROVE  DrawsNoLineAcross(n)
<1> SUFFICES ASSUME NEW tier \in Tiers
             PROVE  /\ points(window[n], tier) \subseteq Range(rows(window, tier))
                    /\ \A i \in 2..Len(rows(window, tier)) :
                         /\ rows(window, tier)[i - 1] < rows(window, tier)[i]
                         /\ {rows(window, tier)[i - 1], rows(window, tier)[i]} \subseteq points(window[n], tier)
                              => 2 * (rows(window, tier)[i] - rows(window, tier)[i - 1]) <= 3 * step(tier)
  BY DEF DrawsNoLineAcross
<1> DEFINE f == [m \in DOMAIN window |-> points(window[m], tier)]
           sets == {f[m] : m \in DOMAIN window}
           times == UNION {points(window[m], tier) : m \in DOMAIN window}
           axis == rows(window, tier)
           every == step(tier)
           kept == points(window[n], tier)
<1>1. \A m \in DOMAIN window : f[m] \in SUBSET Int /\ IsFiniteSet(f[m])
  <2> SUFFICES ASSUME NEW m \in DOMAIN window PROVE f[m] \in SUBSET Int /\ IsFiniteSet(f[m])
    OBVIOUS
  <2>1. rates[m] \in Seq(Rate) /\ RingsTell(window[m], rates[m])
    BY DEF WInv, WindowTells, Told, InstanceTells
  <2> QED BY <2>1, PointsAreTimes
<1>2. IsFiniteSet(DOMAIN window) /\ DOMAIN f = DOMAIN window
  BY DEF WInv, WindowTells, Tracked
<1>3. times = UNION sets
  OBVIOUS
<1>4. kept \in SUBSET times
  OBVIOUS
<1>5. IsFiniteSet(sets)
  <2> HIDE DEF f
  <2> QED BY <1>2, FiniteImage
<1> HIDE DEF f
<1>6. IsFiniteSet(times) /\ times \in SUBSET Int
  <2>1. \A T \in sets : T \in SUBSET Int /\ IsFiniteSet(T)
    BY <1>1
  <2> HIDE DEF sets, times
  <2>2. IsFiniteSet(UNION sets)
    BY <1>5, <2>1, FS_UNION
  <2> QED BY <1>3, <2>1, <2>2
<1>7. every \in Nat \ {0}
  BY LimitsAssumption DEF step
<1>8. axis = withGapBreaks(inOrder(times), every)
  BY DEF rows
<1> HIDE DEF axis, every, times, kept
<1>9. Axis(axis, times, every) /\ \A t \in times : \E k \in 1..Len(axis) : axis[k] = t
  <2>1. DrawnAll(axis, times, every)
    BY <1>6, <1>7, <1>8, GapBreaks
  <2> QED BY <2>1 DEF DrawnAll
<1>10. axis \in Seq(Int) /\ DOMAIN axis = 1..Len(axis)
  BY <1>9 DEF Axis
<1>11. kept \subseteq Range(axis)
  BY <1>4, <1>9, <1>10 DEF Range
<1>12. \A i \in 2..Len(axis) :
         /\ axis[i - 1] < axis[i]
         /\ {axis[i - 1], axis[i]} \subseteq kept => 2 * (axis[i] - axis[i - 1]) <= 3 * every
  <2> SUFFICES ASSUME NEW i \in 2..Len(axis)
               PROVE  /\ axis[i - 1] < axis[i]
                      /\ {axis[i - 1], axis[i]} \subseteq kept => 2 * (axis[i] - axis[i - 1]) <= 3 * every
    OBVIOUS
  <2>1. Apart(axis[i - 1], axis[i], times, every)
    BY <1>9 DEF Axis
  <2> QED BY <1>4, <2>1 DEF Apart
<1> QED BY <1>11, <1>12 DEF axis, every, kept

\* What tells of the rates says what the run's property asks.
LEMMA TellsAll ==
  ASSUME NEW raw, NEW roll, NEW open, NEW all \in Seq(Rate), raw = LastOf(all, RawCap),
         OpenTells(open, all), roll \in Seq(Closed(open, all))
  PROVE  Tells(raw, roll, open, all)
<1>1. DOMAIN all = 1..Len(all) /\ DOMAIN roll = 1..Len(roll)
  BY LenProperties
<1>2. ASSUME NEW b \in Range(roll) \cup {open}
      PROVE  b.count = Cardinality({i \in DOMAIN all : bucketOf(all[i]) = b.start})
  <2>1. CASE b = open
    BY <1>1, <2>1 DEF OpenTells, Count
  <2>2. CASE b \in Range(roll)
    <3>1. PICK i \in 1..Len(roll) : b = roll[i]
      BY <1>1, <2>2 DEF Range
    <3>2. b \in Closed(open, all)
      BY <3>1, ElementOfSeq
    <3> QED BY <1>1, <3>2 DEF Closed, Count
  <2> QED BY <2>1, <2>2
<1> QED BY <1>2 DEF Tells

\* The window holds the last rates that were computed, in order, and its buckets all the
\* rates of their time, however often a ring wrapped, an instance was evicted or the
\* process restored; the file is the window of one moment; and a chart draws no line over
\* a span without a sweep (metrics/store.go, persist.go).
THEOREM WindowHolds == Spec => []WindowIsTheLastRates
<1>1. WInv => WindowIsTheLastRates
  <2> SUFFICES ASSUME WInv PROVE WindowIsTheLastRates
    OBVIOUS
  <2>1. WindowTells(window, rates, now, outages) /\ SnapshotTells(file, saved, now, outages)
    BY DEF WInv, SnapshotInv
  <2>2. ASSUME NEW n \in DOMAIN window
        PROVE  Tells(each(window[n].raw), each(window[n].roll), window[n].open, rates[n])
    <3>1. /\ each(window[n].raw) = LastOf(rates[n], RawCap)
          /\ each(window[n].roll) \in Seq(Closed(window[n].open, rates[n]))
          /\ OpenTells(window[n].open, rates[n]) /\ Told(rates[n], now, outages)
      BY <2>1, KeptIsTold
    <3> QED BY <3>1, TellsAll DEF Told
  <2>3. ASSUME NEW n \in DOMAIN file
        PROVE  Tells(file[n].raw, file[n].roll, file[n].open, saved[n])
    <3>1. Told(saved[n], now, outages) /\ EntryTells(file[n], saved[n])
      BY <2>1 DEF SnapshotTells
    <3> QED BY <3>1, TellsAll DEF Told, EntryTells
  <2>4. \A n \in DOMAIN window : DrawsNoLineAcross(n)
    BY ChartHolds
  <2>5. /\ DOMAIN rates = DOMAIN window /\ DOMAIN saved = DOMAIN file
        /\ Cardinality(DOMAIN window) <= MaxInstances
    BY <2>1 DEF WindowTells, SnapshotTells, Tracked
  <2> QED BY <2>2, <2>3, <2>4, <2>5 DEF WindowIsTheLastRates
<1> QED BY <1>1, WindowInvHolds, PTL
==============================================================================
