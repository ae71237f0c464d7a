---------------------------- MODULE PodFeedProofs ----------------------------
(***************************************************************************)
(* Proofs about PodFeed, for every set of names, every bound and every      *)
(* number of failures.                                                      *)
(*                                                                          *)
(* The argument.  Successive revisions differ in one name (HistOK), so an   *)
(* event can be undone from the revisions around it.  The watch's position  *)
(* (Behind) is the last event whose effect the retained set already has;    *)
(* the item on offer is exactly the next event (FlowOK).  A fold therefore  *)
(* carries an agreement between the retained set and hist[Behind] to one    *)
(* with the revision after it; a seed re-establishes it from nothing.       *)
(***************************************************************************)
EXTENDS PodFeed, FiniteSetTheorems, TLAPS

\* One event: a single name changes, and an incarnation is never swapped for another.
Step(before, after) ==
    \E n \in Names :
        /\ after[n] # before[n]
        /\ \A m \in Names \ {n} : after[m] = before[m]
        /\ before[n] # None /\ after[n] # None => after[n].uid = before[n].uid
        /\ /\ "orphan" \notin Changes
           /\ before[n] # None
           /\ before[n].member
           /\ after[n] # None
           => after[n].member

HistOK == \A i \in 2..Len(hist) : Step(hist[i - 1], hist[i])

\* Where the goroutines are, relative to each other.
FlowOK ==
    /\ pc \in {"poll", "select"} <=> stream # "none"
    /\ offer # NoItem =>
           /\ stream = "open"
           /\ cursor >= 2
           /\ offer = PumpPod(hist[cursor - 1], hist[cursor])
    /\ pc \in {"listing", "seeded", "poll", "select"} => cursor >= 1
    /\ seen <= cursor
    /\ pc = "seeded" => seen = cursor
    /\ snap.gen > 0 => seen >= 1
    /\ snap.gen = 0 => retained = Empty
    /\ snap.pods = View!Cut(retained)

\* The state every proof below stands on.
Base == TypeOK /\ HistOK /\ FlowOK
-----------------------------------------------------------------------------
\* What the rosters' operators return is a roster.
LEMMA RosterTypes ==
    ASSUME NEW pods \in Roster
    PROVE  /\ Members(pods) \in Roster
           /\ View!Cut(pods) \in Roster
           /\ FetchPods(pods).pods \in Roster
           /\ FetchPods(pods).complete \in BOOLEAN
  BY DEF Members, View!Members, View!Cut, FetchPods, Roster

\* A complete listing is the whole member set; any listing is a part of it.
LEMMA ListIsMembers ==
    ASSUME NEW pods \in Roster
    PROVE  /\ FetchPods(pods).complete => FetchPods(pods).pods = Members(pods)
           /\ \A n \in Names : FetchPods(pods).pods[n] # None => FetchPods(pods).pods[n] = pods[n]
  BY DEF FetchPods, Members, View!Members, Held, View!Held, Roster

\* Changed finds the one name that differs.
LEMMA ChangedIsTheOne ==
    ASSUME NEW before \in Roster, NEW after \in Roster, Step(before, after)
    PROVE  LET n == Changed(before, after) IN
           /\ n \in Names
           /\ after[n] # before[n]
           /\ \A m \in Names \ {n} : after[m] = before[m]
           /\ before[n] # None /\ after[n] # None => after[n].uid = before[n].uid
           /\ /\ "orphan" \notin Changes
              /\ before[n] # None
              /\ before[n].member
              /\ after[n] # None
              => after[n].member
  <1>1. PICK n \in Names : 
          /\ after[n] # before[n]
          /\ \A m \in Names \ {n} : after[m] = before[m]
          /\ before[n] # None /\ after[n] # None => after[n].uid = before[n].uid
          /\ /\ "orphan" \notin Changes
             /\ before[n] # None
             /\ before[n].member
             /\ after[n] # None
             => after[n].member
    BY DEF Step
  <1>2. Changed(before, after) = n
    BY <1>1 DEF Changed
  <1> QED
    BY <1>1, <1>2

\* What pumpPod hands over is a well-formed item or nothing.
LEMMA PumpType ==
    ASSUME NEW before \in Roster, NEW after \in Roster, Step(before, after)
    PROVE  PumpPod(before, after) \in Item \cup {NoItem}
  <1> DEFINE n == Changed(before, after)
  <1>1. n \in Names /\ after[n] # before[n]
    BY ChangedIsTheOne
  <1>2. CASE after[n] = None
    BY <1>1, <1>2 DEF PumpPod, Item, Roster
  <1>3. CASE after[n] # None /\ after[n].member
    BY <1>1, <1>3 DEF PumpPod, Item, Roster
  <1>4. CASE after[n] # None /\ ~after[n].member
    BY <1>4 DEF PumpPod
  <1> QED
    BY <1>2, <1>3, <1>4

\* Folding a well-formed item leaves a roster.
LEMMA ApplyType ==
    ASSUME NEW kept \in Roster, NEW item \in Item
    PROVE  Apply(kept, item) \in Roster
  BY DEF Apply, Item, Roster

-----------------------------------------------------------------------------
collectorVars == <<faults, cancelled, pc, retained, backoff, snap,
                   stream, cursor, offer, seen, complete>>

\* Every server action appends one roster that is one event away from the last.
LEMMA ServerAppends ==
    ASSUME Base, Server
    PROVE  /\ UNCHANGED collectorVars
           /\ \E pods \in Roster :
                 /\ hist' = Append(hist, pods)
                 /\ Step(Current, pods)
  <1> USE DEF Base
  <1>1. Current \in Roster /\ Len(hist) \in Nat
    BY DEF TypeOK, Current
  <1>2. ASSUME NEW kind, NEW n \in Names, NEW pod \in Pod \cup {None},
               Write(kind, n, pod),
               Current[n] # pod,
               Current[n] # None /\ pod # None => pod.uid = Current[n].uid,
               kind \in {"create", "modify", "adopt", "delete", "orphan"},
               Current[n] # None /\ Current[n].member /\ pod # None /\ kind # "orphan" => pod.member
        PROVE  /\ UNCHANGED collectorVars
               /\ \E pods \in Roster : hist' = Append(hist, pods) /\ Step(Current, pods)
    <2> DEFINE pods == [Current EXCEPT ![n] = pod]
    <2>1. hist' = Append(hist, pods) /\ kind \in Changes /\ UNCHANGED collectorVars
      BY <1>2 DEF Write, collectorVars
    <2>2. pods \in Roster
      BY <1>1, <1>2 DEF Roster
    <2>3. pods[n] = pod /\ \A m \in Names \ {n} : pods[m] = Current[m]
      BY <1>1, <1>2 DEF Roster
    <2>4. Step(Current, pods)
      BY <1>2, <2>1, <2>3 DEF Step
    <2> QED
      BY <2>1, <2>2, <2>4
  <1>3. PICK n \in Names : Create(n) \/ Modify(n) \/ Adopt(n) \/ Orphan(n) \/ Delete(n)
    BY DEF Server
  <1>4. Current[n] \in Pod \cup {None}
    BY <1>1 DEF Roster
  <1>5. CASE Create(n)
    <2>1. PICK owned \in BOOLEAN : Write("create", n, NewPod(Len(hist) + 1, owned))
      BY <1>5 DEF Create
    <2>2. NewPod(Len(hist) + 1, owned) \in Pod
      BY <1>1 DEF NewPod, Pod
    <2> QED
      BY <1>2, <1>5, <2>1, <2>2, NoneAssumption DEF Create
  <1>6. CASE Modify(n)
    <2> DEFINE pod == [Current[n] EXCEPT !.ready = ~@]
    <2>1. pod \in Pod /\ pod # Current[n] /\ pod.uid = Current[n].uid /\ pod.member = Current[n].member
      BY <1>4, <1>6 DEF Modify, Pod
    <2> QED
      BY <1>2, <1>6, <2>1, NoneAssumption DEF Modify
  <1>7. CASE Adopt(n)
    <2> DEFINE pod == [Current[n] EXCEPT !.member = TRUE]
    <2>1. pod \in Pod /\ pod # Current[n] /\ pod.uid = Current[n].uid /\ pod.member
      BY <1>4, <1>7 DEF Adopt, Pod
    <2> QED
      BY <1>2, <1>7, <2>1, NoneAssumption DEF Adopt
  <1>8. CASE Orphan(n)
    <2> DEFINE pod == [Current[n] EXCEPT !.member = FALSE]
    <2>1. pod \in Pod /\ pod # Current[n] /\ pod.uid = Current[n].uid
      BY <1>4, <1>8 DEF Orphan, Pod
    <2> QED
      BY <1>2, <1>8, <2>1, NoneAssumption DEF Orphan
  <1>9. CASE Delete(n)
    BY <1>2, <1>9 DEF Delete
  <1> QED
    BY <1>3, <1>5, <1>6, <1>7, <1>8, <1>9

\* What publishing a roster leaves in the store.
LEMMA PublishTypes ==
    ASSUME NEW kept \in Roster, TypeOK, Publish(kept)
    PROVE  /\ snap' \in [gen : Nat, stale : BOOLEAN, truncated : BOOLEAN, pods : Roster]
           /\ snap'.gen = snap.gen + 1
           /\ snap'.gen > 0
           /\ ~snap'.stale
           /\ snap'.pods = View!Cut(kept)
           /\ backoff' \in 1..BackoffMax
  <1>1. View!Cut(kept) \in Roster
    BY RosterTypes
  <1>2. snap.gen \in Nat
    BY DEF TypeOK
  <1>3. (Cardinality(Held(kept)) > MaxPods) \in BOOLEAN
    OBVIOUS
  <1> QED
    BY <1>1, <1>2, <1>3, BoundsAssumption DEF Publish

\* What losing contact leaves in the store.
LEMMA LostTypes ==
    ASSUME TypeOK, LoseContact
    PROVE  /\ snap' \in [gen : Nat, stale : BOOLEAN, truncated : BOOLEAN, pods : Roster]
           /\ snap'.gen = snap.gen
           /\ snap'.pods = snap.pods
           /\ snap'.stale = (snap.gen > 0)
           /\ pc' = "wait"
           /\ backoff' \in 1..BackoffMax
  <1>1. snap' = [snap EXCEPT !.stale = snap.gen > 0]
    BY DEF LoseContact, MarkStale
  <1>2. (snap.gen > 0) \in BOOLEAN
    OBVIOUS
  <1>3. /\ snap' \in [gen : Nat, stale : BOOLEAN, truncated : BOOLEAN, pods : Roster]
        /\ snap'.gen = snap.gen
        /\ snap'.pods = snap.pods
        /\ snap'.stale = (snap.gen > 0)
    <2>1. snap \in [gen : Nat, stale : BOOLEAN, truncated : BOOLEAN, pods : Roster]
      BY DEF TypeOK
    <2>2. \A b \in BOOLEAN : LET s == [snap EXCEPT !.stale = b] IN
            /\ s \in [gen : Nat, stale : BOOLEAN, truncated : BOOLEAN, pods : Roster]
            /\ s.gen = snap.gen
            /\ s.pods = snap.pods
            /\ s.stale = b
      BY <2>1
    <2> QED
      BY <1>1, <1>2, <2>2
  <1>4. pc' = "wait" /\ backoff' \in 1..BackoffMax
    BY BoundsAssumption DEF TypeOK, LoseContact, Lower
  <1> QED
    BY <1>3, <1>4

\* A server write keeps the past, and stays within the types.
LEMMA AppendKeepsPast ==
    ASSUME TypeOK, NEW pods \in Roster, hist' = Append(hist, pods)
    PROVE  /\ hist' \in Seq(Roster) /\ hist' # <<>>
           /\ Len(hist') = Len(hist) + 1
           /\ \A i \in 1..Len(hist) : hist'[i] = hist[i]
           /\ hist'[Len(hist) + 1] = pods
  BY DEF TypeOK

\* With the server still, a step that keeps the past keeps HistOK.
LEMMA StillHist == ASSUME HistOK, UNCHANGED hist PROVE HistOK'
  BY DEF HistOK

-----------------------------------------------------------------------------
\* The empty store, before the first listing.
LEMMA InitBase == Init => Base
  <1> SUFFICES ASSUME Init PROVE Base
    OBVIOUS
  <1>1. PICK pods \in [Names -> {None} \cup {NewPod(1, owned) : owned \in BOOLEAN}] :
          hist = <<pods>>
    BY DEF Init
  <1>2. pods \in Roster
    <2>1. \A owned \in BOOLEAN : NewPod(1, owned) \in Pod
      BY DEF NewPod, Pod
    <2> QED
      BY <2>1 DEF Roster
  <1>3. hist \in Seq(Roster) /\ hist # <<>> /\ Len(hist) = 1
    BY <1>1, <1>2
  <1>4. Empty \in Roster /\ View!Cut(Empty) = Empty
    BY DEF Empty, Roster, View!Cut
  <1>5. /\ faults = 0 /\ cancelled = FALSE /\ pc = "seed" /\ retained = Empty
        /\ backoff = 1 /\ stream = "none" /\ cursor = 0 /\ offer = NoItem
        /\ seen = 0 /\ complete = TRUE
        /\ snap = [gen |-> 0, stale |-> FALSE, truncated |-> FALSE, pods |-> Empty]
    BY DEF Init
  <1>6. snap \in [gen : Nat, stale : BOOLEAN, truncated : BOOLEAN, pods : Roster]
    BY <1>4, <1>5
  <1>7. TypeOK
    <2>1. backoff \in 1..BackoffMax
      BY <1>5, BoundsAssumption
    <2>2. cursor \in 0..Len(hist) /\ seen \in 0..Len(hist)
      BY <1>3, <1>5
    <2>3. faults \in Nat /\ cancelled \in BOOLEAN /\ complete \in BOOLEAN
      BY <1>5
    <2>4. retained \in Roster /\ offer \in Item \cup {NoItem}
      BY <1>4, <1>5
    <2>5. /\ pc \in {"seed", "listing", "seeded", "poll", "select", "ended", "wait", "done"}
          /\ stream \in {"none", "open", "closed"}
      BY <1>5
    <2> QED
      BY <1>3, <1>6, <2>1, <2>2, <2>3, <2>4, <2>5 DEF TypeOK
  <1>8. HistOK
    BY <1>3 DEF HistOK
  <1>9. FlowOK
    BY <1>4, <1>5 DEF FlowOK
  <1> QED
    BY <1>7, <1>8, <1>9 DEF Base

\* Every step of the server, the watch and the loop.
LEMMA NextBase == Base /\ [Next]_vars => Base'
  <1> SUFFICES ASSUME Base, [Next]_vars PROVE Base'
    OBVIOUS
  <1> USE DEF Base
  <1>0. /\ Len(hist) \in Nat
        /\ \A i \in 1..Len(hist) : hist[i] \in Roster
    BY DEF TypeOK
  <1>1. CASE Server
    <2>1. UNCHANGED collectorVars
      BY <1>1, ServerAppends
    <2>2. PICK pods \in Roster : hist' = Append(hist, pods) /\ Step(Current, pods)
      BY <1>1, ServerAppends
    <2>3. /\ hist' \in Seq(Roster) /\ hist' # <<>>
          /\ Len(hist') = Len(hist) + 1
          /\ \A i \in 1..Len(hist) : hist'[i] = hist[i]
          /\ hist'[Len(hist) + 1] = pods
      BY <2>2, AppendKeepsPast
    <2>4. TypeOK'
      BY <1>0, <2>1, <2>3 DEF TypeOK, collectorVars
    <2>5. HistOK'
      <3> SUFFICES ASSUME NEW i \in 2..Len(hist') PROVE Step(hist'[i - 1], hist'[i])
        BY DEF HistOK, Step
      <3>1. CASE i \in 2..Len(hist)
        BY <1>0, <2>3, <3>1 DEF HistOK
      <3>2. CASE i = Len(hist) + 1
        BY <1>0, <2>2, <2>3, <3>2 DEF Current, TypeOK
      <3> QED
        BY <1>0, <2>3, <3>1, <3>2
    <2>6. FlowOK'
      <3>1. offer # NoItem => hist'[cursor - 1] = hist[cursor - 1] /\ hist'[cursor] = hist[cursor]
        BY <1>0, <2>3 DEF FlowOK, TypeOK
      <3> QED
        BY <2>1, <3>1 DEF FlowOK, collectorVars, PumpPod, Changed
    <2> QED
      BY <2>4, <2>5, <2>6
  <1>2. CASE Cancel
    BY <1>2, StillHist DEF Cancel, TypeOK, FlowOK
  <1>3. CASE PumpRead
    <2>1. HistOK'
      BY <1>3, StillHist DEF PumpRead, serverVars
    <2>2. cursor >= 1 /\ cursor + 1 \in 2..Len(hist)
      BY <1>0, <1>3 DEF PumpRead, FlowOK, TypeOK
    <2>3. PumpPod(hist[cursor], hist[cursor + 1]) \in Item \cup {NoItem}
      <3>1. Step(hist[(cursor + 1) - 1], hist[cursor + 1])
        BY <2>2 DEF HistOK
      <3>2. (cursor + 1) - 1 = cursor
        BY DEF TypeOK
      <3> QED
        BY <1>0, <2>2, <3>1, <3>2, PumpType
    <2>4. TypeOK'
      BY <1>0, <1>3, <2>2, <2>3 DEF PumpRead, TypeOK, serverVars
    <2>5. FlowOK'
      BY <1>0, <1>3, <2>2 DEF PumpRead, FlowOK, TypeOK, serverVars
    <2> QED
      BY <2>1, <2>4, <2>5
  <1>4. CASE WatchEnd
    BY <1>4, StillHist DEF WatchEnd, RequestFails, Fault, TypeOK, FlowOK
  <1>5. CASE PumpCancelled
    BY <1>5, StillHist DEF PumpCancelled, TypeOK, FlowOK, serverVars
  <1>6. CASE SeedAsk
    BY <1>0, <1>6, StillHist DEF SeedAsk, TypeOK, FlowOK, serverVars
  <1>7. CASE SeedOK
    <2> DEFINE list == FetchPods(hist[cursor])
    <2>1. cursor \in 1..Len(hist) /\ hist[cursor] \in Roster
      BY <1>0, <1>7 DEF SeedOK, FlowOK, TypeOK
    <2>2. list.pods \in Roster /\ list.complete \in BOOLEAN
      BY <2>1, RosterTypes
    <2>3. /\ retained' = list.pods
          /\ complete' = list.complete
          /\ Publish(list.pods)
          /\ seen' = cursor
          /\ pc' = "seeded"
          /\ UNCHANGED <<serverVars, stream, cursor, offer>>
      BY <1>7 DEF SeedOK
    <2>4. /\ snap' \in [gen : Nat, stale : BOOLEAN, truncated : BOOLEAN, pods : Roster]
          /\ snap'.gen > 0
          /\ snap'.pods = View!Cut(list.pods)
          /\ backoff' \in 1..BackoffMax
      BY <2>2, <2>3, PublishTypes
    <2> HIDE DEF list
    <2>5. TypeOK'
      BY <2>1, <2>2, <2>3, <2>4 DEF TypeOK, serverVars
    <2>6. FlowOK'
      <3>1. snap'.gen # 0
        BY <2>4
      <3>2. snap'.pods = View!Cut(retained')
        BY <2>3, <2>4
      <3>3. View!Cut(retained)' = View!Cut(retained')
        BY DEF View!Cut, View!Held
      <3> QED
        BY <1>0, <1>7, <2>1, <2>3, <3>1, <3>2, <3>3 DEF SeedOK, FlowOK, TypeOK, serverVars
    <2> QED
      BY <2>3, <2>5, <2>6, StillHist DEF serverVars
  <1>8. CASE SeedFail \/ WatchFail
    <2>1. /\ LoseContact /\ RequestFails
          /\ pc \in {"listing", "seeded"}
          /\ UNCHANGED <<retained, stream, cursor, offer, seen, complete>>
      BY <1>8 DEF SeedFail, WatchFail
    <2>2. /\ snap' \in [gen : Nat, stale : BOOLEAN, truncated : BOOLEAN, pods : Roster]
          /\ snap'.gen = snap.gen
          /\ snap'.pods = snap.pods
          /\ pc' = "wait"
          /\ backoff' \in 1..BackoffMax
      BY <2>1, LostTypes
    <2>3. TypeOK'
      BY <2>1, <2>2 DEF TypeOK, RequestFails, Fault
    <2>4. FlowOK'
      BY <2>1, <2>2 DEF FlowOK, RequestFails
    <2> QED
      BY <2>1, <2>3, <2>4, StillHist DEF RequestFails
  <1>9. CASE WatchOK
    BY <1>9, StillHist DEF WatchOK, TypeOK, FlowOK, serverVars
  <1>10. CASE Take
    <2> DEFINE folded == Apply(retained, offer)
    <2>1. offer \in Item /\ folded \in Roster
      BY <1>10, ApplyType DEF Take, TypeOK
    <2>2. /\ retained' = folded
          /\ Publish(folded)
          /\ seen' = cursor
          /\ offer' = NoItem
          /\ pc' = "poll"
          /\ UNCHANGED <<serverVars, stream, cursor, complete>>
      BY <1>10 DEF Take
    <2>3. /\ snap' \in [gen : Nat, stale : BOOLEAN, truncated : BOOLEAN, pods : Roster]
          /\ snap'.gen > 0
          /\ snap'.pods = View!Cut(folded)
          /\ backoff' \in 1..BackoffMax
      BY <2>1, <2>2, PublishTypes
    <2> HIDE DEF folded
    <2>4. TypeOK'
      BY <2>1, <2>2, <2>3 DEF TypeOK, serverVars
    <2>5. FlowOK'
      <3>1. snap'.gen # 0
        BY <2>3
      <3>2. snap'.pods = View!Cut(retained')
        BY <2>2, <2>3
      <3>3. View!Cut(retained)' = View!Cut(retained')
        BY DEF View!Cut, View!Held
      <3> QED
        BY <1>0, <1>10, <2>2, <3>1, <3>2, <3>3 DEF Take, FlowOK, TypeOK, serverVars
    <2> QED
      BY <2>2, <2>4, <2>5, StillHist DEF serverVars
  <1>11. CASE PollEmpty
    BY <1>11, StillHist DEF PollEmpty, TypeOK, FlowOK, serverVars
  <1>12. CASE ConsumeEnds
    BY <1>12, StillHist DEF ConsumeEnds, Stop, TypeOK, FlowOK, serverVars
  <1>13. CASE WatchLost
    <2>1. /\ LoseContact
          /\ pc = "ended"
          /\ UNCHANGED <<serverVars, retained, stream, cursor, offer, seen, complete>>
      BY <1>13 DEF WatchLost
    <2>2. /\ snap' \in [gen : Nat, stale : BOOLEAN, truncated : BOOLEAN, pods : Roster]
          /\ snap'.gen = snap.gen
          /\ snap'.pods = snap.pods
          /\ pc' = "wait"
          /\ backoff' \in 1..BackoffMax
      BY <2>1, LostTypes
    <2>3. TypeOK'
      BY <2>1, <2>2 DEF TypeOK, serverVars
    <2>4. FlowOK'
      BY <2>1, <2>2 DEF FlowOK, serverVars
    <2> QED
      BY <2>1, <2>3, <2>4, StillHist DEF serverVars
  <1>14. CASE Waited \/ Exit
    BY <1>14, StillHist DEF Waited, Exit, TypeOK, FlowOK, serverVars
  <1>15. CASE UNCHANGED vars
    BY <1>15, StillHist DEF vars, TypeOK, FlowOK
  <1> QED
    BY <1>1, <1>2, <1>3, <1>4, <1>5, <1>6, <1>7, <1>8, <1>9, <1>10, <1>11, <1>12, <1>13,
       <1>14, <1>15 DEF Next, Pump, Collector

\* Types, the server's past, and where the goroutines are.
THEOREM BaseHolds == Spec => []Base
  BY InitBase, NextBase, PTL DEF Spec

\* Every variable keeps its type, whatever the constants.
THEOREM TypesHold == Spec => []TypeOK
  <1>1. Base => TypeOK
    BY DEF Base
  <1> QED
    BY BaseHolds, <1>1, PTL

-----------------------------------------------------------------------------
(* Staleness is honest.                                                     *)

\* Nothing is published, so nothing is out of contact.
LEMMA InitStale == Init => StaleWhenOutOfContact
  BY DEF Init, StaleWhenOutOfContact

\* Contact is lost and published by the same steps that retry and seed.
LEMMA NextStale == Base /\ StaleWhenOutOfContact /\ [Next]_vars => StaleWhenOutOfContact'
  <1> SUFFICES ASSUME Base, StaleWhenOutOfContact, [Next]_vars
               PROVE  StaleWhenOutOfContact'
    OBVIOUS
  <1>1. snap.gen \in Nat
    BY DEF Base, TypeOK
  <1>2. CASE SeedFail \/ WatchFail \/ WatchLost
    <2>1. LoseContact
      BY <1>2 DEF SeedFail, WatchFail, WatchLost
    <2>2. snap'.gen = snap.gen /\ snap'.stale = (snap.gen > 0)
      BY <2>1, LostTypes DEF Base
    <2>3. snap.gen # 0 => (snap.gen > 0) = TRUE
      BY <1>1
    <2>4. snap'.gen = 0 \/ snap'.stale
      BY <2>2, <2>3
    <2> QED
      BY <2>4 DEF StaleWhenOutOfContact
  <1>3. CASE Server
    BY <1>3, ServerAppends DEF StaleWhenOutOfContact, collectorVars
  <1>4. CASE Cancel \/ Pump \/ UNCHANGED vars
    BY <1>4 DEF StaleWhenOutOfContact, Cancel, Pump, PumpRead, WatchEnd, PumpCancelled, vars
  <1>5. CASE SeedAsk \/ Waited \/ WatchOK \/ PollEmpty \/ ConsumeEnds \/ Exit \/ SeedOK \/ Take
    BY <1>5 DEF StaleWhenOutOfContact, SeedAsk, Waited, WatchOK, PollEmpty, ConsumeEnds, Exit,
       SeedOK, Take
  <1> QED
    BY <1>2, <1>3, <1>4, <1>5 DEF Next, Collector

\* While the loop retries, the last good roster is always marked stale.
THEOREM StaleHolds == Spec => []StaleWhenOutOfContact
  BY InitStale, NextStale, BaseHolds, PTL DEF Spec

-----------------------------------------------------------------------------
(* What the retained set agrees with.                                       *)

\* The last event whose effect the retained set already has.
Behind == IF offer = NoItem THEN cursor ELSE cursor - 1

\* The retained set is being kept up with the watch.
Tracking == pc = "seeded" \/ stream = "open"

\* Every pod kept is still there, in the same incarnation.
Alive(kept, pods) ==
    \A n \in Names : kept[n] # None => pods[n] # None /\ pods[n].uid = kept[n].uid

GhostInv ==
    /\ seen >= 1 => Alive(retained, hist[seen])
    /\ Tracking => Alive(retained, hist[Behind])

ExactInv ==
    complete =>
        /\ seen >= 1 => retained = Members(hist[seen])
        /\ Tracking => retained = Members(hist[Behind])

\* An event pumpPod skips changes nothing a retained set agrees on.
LEMMA SkipKeeps ==
    ASSUME NEW before \in Roster, NEW after \in Roster, Step(before, after),
           PumpPod(before, after) = NoItem,
           NEW kept \in Roster
    PROVE  /\ Alive(kept, before) => Alive(kept, after)
           /\ "orphan" \notin Changes => Members(after) = Members(before)
  <1> DEFINE n == Changed(before, after)
  <1>1. /\ n \in Names
        /\ \A m \in Names \ {n} : after[m] = before[m]
        /\ before[n] # None /\ after[n] # None => after[n].uid = before[n].uid
        /\ /\ "orphan" \notin Changes
           /\ before[n] # None
           /\ before[n].member
           /\ after[n] # None
           => after[n].member
    BY ChangedIsTheOne
  <1>2. after[n] # None /\ ~after[n].member
    BY <1>1 DEF PumpPod, NoItem
  <1>3. Alive(kept, before) => Alive(kept, after)
    BY <1>1, <1>2 DEF Alive
  <1>4. ASSUME "orphan" \notin Changes PROVE Members(after) = Members(before)
    BY <1>1, <1>2, <1>4 DEF Members, View!Members
  <1> QED
    BY <1>3, <1>4

\* Folding the item of an event carries an agreement over that event.
LEMMA FoldTracks ==
    ASSUME NEW before \in Roster, NEW after \in Roster, Step(before, after),
           PumpPod(before, after) # NoItem,
           NEW kept \in Roster, Alive(kept, before)
    PROVE  /\ Alive(Apply(kept, PumpPod(before, after)), after)
           /\ kept = Members(before) => Apply(kept, PumpPod(before, after)) = Members(after)
  <1> DEFINE n == Changed(before, after)
  <1> DEFINE item == PumpPod(before, after)
  <1>1. /\ n \in Names
        /\ after[n] # before[n]
        /\ \A m \in Names \ {n} : after[m] = before[m]
        /\ before[n] # None /\ after[n] # None => after[n].uid = before[n].uid
    BY ChangedIsTheOne
  <1>2. CASE after[n] = None
    <2>1. item = [kind |-> "delete", name |-> n, pod |-> before[n]]
      BY <1>2 DEF PumpPod
    <2>2. before[n] # None
      BY <1>1, <1>2
    <2>3. kept[n] # None => kept[n].uid = before[n].uid
      BY <1>1 DEF Alive
    <2>4. Apply(kept, item) = [kept EXCEPT ![n] = None]
      <3>1. CASE kept[n] # None
        BY <2>1, <2>3, <3>1 DEF Apply
      <3>2. CASE kept[n] = None
        <4>1. Apply(kept, item) = kept
          BY <2>1, <3>2 DEF Apply
        <4>2. kept = [kept EXCEPT ![n] = None]
          BY <1>1, <3>2 DEF Roster
        <4> QED
          BY <4>1, <4>2
      <3> QED
        BY <3>1, <3>2
    <2>5. Alive(Apply(kept, item), after)
      BY <1>1, <2>4 DEF Alive, Roster
    <2>6. kept = Members(before) => Apply(kept, item) = Members(after)
      BY <1>1, <1>2, <2>4 DEF Members, View!Members
    <2> QED
      BY <2>5, <2>6
  <1>3. CASE after[n] # None
    <2>1. after[n].member /\ item = [kind |-> "put", name |-> n, pod |-> after[n]]
      BY <1>3 DEF PumpPod
    <2>2. Apply(kept, item) = [kept EXCEPT ![n] = after[n]]
      BY <2>1 DEF Apply
    <2>3. Alive(Apply(kept, item), after)
      BY <1>1, <1>3, <2>2 DEF Alive, Roster
    <2>4. kept = Members(before) => Apply(kept, item) = Members(after)
      BY <1>1, <1>3, <2>1, <2>2 DEF Members, View!Members
    <2> QED
      BY <2>3, <2>4
  <1> QED
    BY <1>2, <1>3

\* The two agreements, over one step of the program.
LEMMA NextAgrees ==
    ASSUME Base, GhostInv, [Next]_vars
    PROVE  /\ GhostInv'
           /\ "orphan" \notin Changes /\ ExactInv => ExactInv'
  <1> USE DEF Base
  <1>0. /\ Len(hist) \in Nat
        /\ \A i \in 1..Len(hist) : hist[i] \in Roster
        /\ retained \in Roster
    BY DEF TypeOK
  <1> USE DEF GhostInv, ExactInv, Tracking, Behind
  <1>1. CASE Server
    <2>1. UNCHANGED collectorVars
      BY <1>1, ServerAppends
    <2>2. PICK pods \in Roster : hist' = Append(hist, pods)
      BY <1>1, ServerAppends
    <2>3. \A i \in 1..Len(hist) : hist'[i] = hist[i]
      BY <2>2, AppendKeepsPast
    <2>4. /\ seen >= 1 => hist'[seen] = hist[seen]
          /\ Tracking => hist'[Behind] = hist[Behind]
      BY <1>0, <2>3 DEF TypeOK, FlowOK
    <2> QED
      BY <2>1, <2>4 DEF collectorVars, Alive, Members, View!Members
  <1>2. CASE PumpRead
    <2> DEFINE before == hist[cursor]
    <2> DEFINE after == hist[cursor + 1]
    <2>1. cursor \in 1..Len(hist) /\ cursor + 1 \in 2..Len(hist)
      BY <1>0, <1>2 DEF PumpRead, FlowOK, TypeOK
    <2>2. Step(before, after) /\ before \in Roster /\ after \in Roster
      <3>1. Step(hist[(cursor + 1) - 1], hist[cursor + 1])
        BY <2>1 DEF HistOK
      <3>2. (cursor + 1) - 1 = cursor
        BY <2>1
      <3> QED
        BY <1>0, <2>1, <3>1, <3>2
    <2>3. /\ Alive(retained, before)
          /\ ExactInv /\ complete => retained = Members(before)
      BY <1>2 DEF PumpRead
    <2>4. /\ cursor' = cursor + 1
          /\ offer' = PumpPod(before, after)
          /\ UNCHANGED <<hist, pc, retained, stream, seen, complete>>
      BY <1>2 DEF PumpRead, serverVars
    <2>5. CASE offer' = NoItem
      <3>1. /\ Alive(retained, after)
            /\ "orphan" \notin Changes /\ ExactInv /\ complete => retained = Members(after)
        BY <1>0, <2>2, <2>3, <2>4, <2>5, SkipKeeps
      <3> QED
        BY <2>4, <2>5, <3>1
    <2>6. CASE offer' # NoItem
      <3>1. cursor' - 1 = cursor
        BY <2>1, <2>4
      <3> QED
        BY <2>3, <2>4, <2>6, <3>1
    <2> QED
      BY <2>5, <2>6
  <1>3. CASE SeedOK
    <2> DEFINE list == FetchPods(hist[cursor])
    <2>1. cursor \in 1..Len(hist) /\ hist[cursor] \in Roster
      BY <1>0, <1>3 DEF SeedOK, FlowOK, TypeOK
    <2>2. /\ Alive(list.pods, hist[cursor])
          /\ list.complete => list.pods = Members(hist[cursor])
      BY <2>1, ListIsMembers DEF Alive
    <2>3. offer = NoItem
      BY <1>3 DEF SeedOK, FlowOK
    <2>4. /\ retained' = list.pods
          /\ complete' = list.complete
          /\ seen' = cursor /\ cursor' = cursor /\ offer' = offer
          /\ hist' = hist
      BY <1>3 DEF SeedOK, serverVars
    <2> HIDE DEF list
    <2> QED
      BY <2>2, <2>3, <2>4
  <1>4. CASE Take
    <2> DEFINE before == hist[cursor - 1]
    <2> DEFINE after == hist[cursor]
    <2>1. /\ offer # NoItem /\ stream = "open"
          /\ cursor \in 2..Len(hist)
          /\ offer = PumpPod(before, after)
      BY <1>0, <1>4 DEF Take, FlowOK, TypeOK
    <2>2. Step(before, after) /\ before \in Roster /\ after \in Roster
      BY <1>0, <2>1 DEF HistOK
    <2>3. /\ Alive(retained, before)
          /\ ExactInv /\ complete => retained = Members(before)
      BY <2>1
    <2>4. /\ Alive(Apply(retained, offer), after)
          /\ ExactInv /\ complete => Apply(retained, offer) = Members(after)
      BY <1>0, <2>1, <2>2, <2>3, FoldTracks
    <2>5. /\ retained' = Apply(retained, offer)
          /\ seen' = cursor /\ cursor' = cursor /\ offer' = NoItem
          /\ hist' = hist /\ complete' = complete
      BY <1>4 DEF Take, serverVars
    <2> QED
      BY <2>4, <2>5
  <1>5. CASE WatchOK
    <2>1. offer = NoItem
      BY <1>5 DEF WatchOK, FlowOK
    <2> QED
      BY <1>5, <2>1 DEF WatchOK, serverVars
  <1>6. CASE SeedAsk
    BY <1>6 DEF SeedAsk, FlowOK, serverVars
  <1>7. CASE WatchEnd \/ PumpCancelled \/ ConsumeEnds
    BY <1>7 DEF WatchEnd, RequestFails, PumpCancelled, ConsumeEnds, Stop, FlowOK, serverVars
  <1>8. CASE SeedFail \/ WatchFail \/ WatchLost
    BY <1>8 DEF SeedFail, WatchFail, WatchLost, RequestFails, LoseContact, serverVars
  <1>9. CASE Cancel \/ PollEmpty \/ Waited \/ Exit \/ UNCHANGED vars
    BY <1>9 DEF Cancel, PollEmpty, Waited, Exit, vars, serverVars
  <1> QED
    BY <1>1, <1>2, <1>3, <1>4, <1>5, <1>6, <1>7, <1>8, <1>9 DEF Next, Pump, Collector

\* Nothing is retained.
LEMMA InitAgrees == Init => GhostInv /\ ExactInv
  BY DEF Init, GhostInv, ExactInv, Tracking

-----------------------------------------------------------------------------
(* The results.                                                             *)

\* No pod the server had already deleted is ever in the published roster, under
\* every interleaving, failure, ownership change and cut listing.
THEOREM NoGhostHolds == Spec => []NoGhostPod
  <1>1. Base /\ GhostInv /\ [Next]_vars => GhostInv'
    BY NextAgrees
  <1>2. Base /\ GhostInv => NoGhostPod
    <2> SUFFICES ASSUME Base, GhostInv, NEW n \in Names, snap.pods[n] # None
                 PROVE  hist[seen][n] # None /\ hist[seen][n].uid = snap.pods[n].uid
      BY DEF NoGhostPod, Held, View!Held
    <2>1. snap.pods = View!Cut(retained)
      BY DEF Base, FlowOK
    <2>2. retained[n] # None /\ snap.pods[n] = retained[n]
      BY <2>1 DEF View!Cut
    <2>3. snap.gen > 0
      <3>1. Empty[n] = None
        BY DEF Empty
      <3> QED
        BY <2>2, <3>1 DEF Base, FlowOK, TypeOK
    <2>4. seen >= 1
      BY <2>3 DEF Base, FlowOK
    <2> QED
      BY <2>2, <2>4 DEF GhostInv, Alive
  <1> QED
    BY <1>1, <1>2, InitAgrees, BaseHolds, PTL DEF Spec

\* The exact agreement is an invariant where owner references are never removed.
LEMMA ExactHolds ==
    ASSUME "orphan" \notin Changes
    PROVE  Spec => []ExactInv
  <1>1. Base /\ GhostInv /\ ExactInv /\ [Next]_vars => GhostInv' /\ ExactInv'
    BY NextAgrees
  <1> QED
    BY <1>1, InitAgrees, BaseHolds, PTL DEF Spec

\* As long as owner references are never removed from live pods, the roster built
\* on a complete listing is the member set of one server revision, cut by name.
THEOREM MomentHolds ==
    ASSUME "orphan" \notin Changes
    PROVE  Spec => []ShownIsOneMoment
  <1>1. Base /\ ExactInv => ShownIsOneMoment
    BY DEF Base, FlowOK, ExactInv, ShownIsOneMoment
  <1> QED
    BY <1>1, ExactHolds, BaseHolds, PTL

\* The flag of a published roster compares what is retained with the bound.
FlagInv ==
    snap.gen > 0 => snap.truncated = (Cardinality(Held(retained)) > MaxPods)

\* Only a publication writes the flag, and only a publication follows a change
\* of what is retained.
LEMMA NextFlag == Base /\ FlagInv /\ [Next]_vars => FlagInv'
  <1> SUFFICES ASSUME Base, FlagInv, [Next]_vars PROVE FlagInv'
    OBVIOUS
  <1>0. snap \in [gen : Nat, stale : BOOLEAN, truncated : BOOLEAN, pods : Roster]
    BY DEF Base, TypeOK
  <1>1. ASSUME NEW kept, retained' = kept, Publish(kept) PROVE FlagInv'
    <2>1. snap'.truncated = (Cardinality(Held(kept)) > MaxPods)
      BY <1>1 DEF Publish
    <2> QED
      BY <1>1, <2>1 DEF FlagInv, Held, View!Held
  <1>2. ASSUME UNCHANGED retained, LoseContact PROVE FlagInv'
    <2>1. snap'.gen = snap.gen /\ snap'.truncated = snap.truncated
      BY <1>0, <1>2 DEF LoseContact, MarkStale
    <2> QED
      BY <1>2, <2>1 DEF FlagInv, Held, View!Held
  <1>3. ASSUME UNCHANGED <<retained, snap>> PROVE FlagInv'
    BY <1>3 DEF FlagInv, Held, View!Held
  <1>4. CASE Server \/ Cancel \/ Pump \/ UNCHANGED vars
    BY <1>3, <1>4 DEF Server, Create, Modify, Adopt, Orphan, Delete, Write, Cancel,
                      Pump, PumpRead, WatchEnd, PumpCancelled, vars
  <1>5. CASE SeedOK
    BY <1>1, <1>5 DEF SeedOK
  <1>6. CASE Take
    BY <1>1, <1>6 DEF Take
  <1>7. CASE SeedFail \/ WatchFail \/ WatchLost
    BY <1>2, <1>7 DEF SeedFail, WatchFail, WatchLost
  <1>8. CASE SeedAsk \/ WatchOK \/ PollEmpty \/ ConsumeEnds \/ Waited \/ Exit
    BY <1>3, <1>8 DEF SeedAsk, WatchOK, PollEmpty, ConsumeEnds, Waited, Exit
  <1> QED
    BY <1>4, <1>5, <1>6, <1>7, <1>8 DEF Next, Collector

\* What is within the bound is not cut.
LEMMA WithinTheBound ==
    ASSUME NEW pods \in Roster, ~(Cardinality(Held(pods)) > MaxPods)
    PROVE  View!Cut(pods) = pods
  <1>1. IsFiniteSet(Held(pods)) /\ Cardinality(Held(pods)) \in Nat
    BY NamesAssumption, FS_Subset, FS_CardinalityType DEF Held, View!Held
  <1>2. ASSUME NEW n \in Held(pods)
        PROVE  Cardinality({m \in Held(pods) : m < n}) < MaxPods
    <2> DEFINE lower == {m \in Held(pods) : m < n}
    <2>0. n \in Names /\ Held(pods) \subseteq Nat
      BY NamesAssumption DEF Held, View!Held
    <2>1. lower \subseteq Held(pods) \ {n}
      BY <2>0
    <2>2. /\ IsFiniteSet(Held(pods) \ {n})
          /\ Cardinality(Held(pods) \ {n}) = Cardinality(Held(pods)) - 1
      BY <1>1, FS_RemoveElement
    <2>3. /\ Cardinality(lower) \in Nat
          /\ Cardinality(lower) <= Cardinality(Held(pods) \ {n})
      BY <2>1, <2>2, FS_Subset, FS_CardinalityType
    <2> HIDE DEF lower
    <2>4. Cardinality(lower) < MaxPods
      BY <1>1, <2>2, <2>3, BoundsAssumption
    <2> QED
      BY <2>4 DEF lower
  <1>3. \A n \in Names : View!Cut(pods)[n] = pods[n]
    <2> SUFFICES ASSUME NEW n \in Names PROVE View!Cut(pods)[n] = pods[n]
      OBVIOUS
    <2> DEFINE shown(k) == Cardinality({m \in Held(pods) : m < k}) < MaxPods
    <2>1. View!Cut(pods) = [k \in Names |-> IF shown(k) THEN pods[k] ELSE None]
      BY Zenon DEF View!Cut, View!Cardinality, Cardinality, Held
    <2>2. shown(n) => View!Cut(pods)[n] = pods[n]
      <3> HIDE DEF shown
      <3> QED
        BY <2>1
    <2>3. ~shown(n) => View!Cut(pods)[n] = None
      <3> HIDE DEF shown
      <3> QED
        BY <2>1
    <2>4. CASE pods[n] = None
      <3> HIDE DEF shown
      <3> QED
        BY <2>4, <2>2, <2>3
    <2>5. CASE pods[n] # None
      <3>1. n \in Held(pods)
        BY <2>5 DEF Held, View!Held
      <3> QED
        BY <1>2, <2>2, <3>1
    <2> QED
      BY <2>4, <2>5
  <1>4. pods = [n \in Names |-> pods[n]] /\ View!Cut(pods) = [n \in Names |-> View!Cut(pods)[n]]
    BY DEF Roster, View!Cut
  <1> QED
    BY <1>3, <1>4

\* Under the same condition a roster of a complete listing that is not flagged
\* as truncated leaves no member out, through every fold of the watch.
THEOREM CutHolds ==
    ASSUME "orphan" \notin Changes
    PROVE  Spec => []CutIsFlagged
  <1>1. Init => FlagInv
    BY DEF Init, FlagInv
  <1>2. Base /\ ExactInv /\ FlagInv => CutIsFlagged
    <2> SUFFICES ASSUME Base, ExactInv, FlagInv, snap.gen > 0, complete, ~snap.truncated
                 PROVE  snap.pods = Members(hist[seen])
      BY DEF CutIsFlagged
    <2>1. retained = Members(hist[seen]) /\ retained \in Roster
      BY DEF Base, TypeOK, FlowOK, ExactInv
    <2>2. View!Cut(retained) = retained
      BY <2>1, WithinTheBound DEF FlagInv
    <2> QED
      BY <2>1, <2>2 DEF Base, FlowOK
  <1> QED
    BY <1>1, <1>2, NextFlag, ExactHolds, BaseHolds, PTL DEF Spec

\* Under the same condition the store implements the abstract view: one moment,
\* never an older one, and contact reported honestly.
THEOREM ViewHolds ==
    ASSUME "orphan" \notin Changes
    PROVE  Spec => ImplementsView
  <1>1. Init => View!ViewInit
    <2> SUFFICES ASSUME Init PROVE View!ViewInit
      OBVIOUS
    <2>1. Len(hist) = 1
      BY DEF Init
    <2> QED
      BY <2>1 DEF Init, View!ViewInit, Empty
  <1>2. ASSUME Base, Base', ExactInv', [Next]_vars
        PROVE  [View!ViewNext]_(View!viewVars)
    <2>0. Len(hist) \in Nat /\ snap.gen \in Nat
      BY <1>2 DEF Base, TypeOK
    <2>1. CASE Server
      <3>1. UNCHANGED collectorVars
        BY <1>2, <2>1, ServerAppends
      <3>2. PICK pods \in Roster : hist' = Append(hist, pods)
        BY <1>2, <2>1, ServerAppends
      <3>3. hist'[Len(hist')] = pods
        BY <1>2, <2>0, <3>2, AppendKeepsPast DEF Base
      <3>4. View!Change
        BY <3>1, <3>2, <3>3 DEF View!Change, collectorVars
      <3> QED
        BY <3>4 DEF View!ViewNext
    <2>2. CASE SeedOK \/ Take
      <3>1. seen' = cursor /\ hist' = hist
        BY <2>2 DEF SeedOK, Take, serverVars
      <3>2. cursor >= 1 /\ cursor \in seen..Len(hist)
        BY <1>2, <2>0, <2>2 DEF SeedOK, Take, Base, FlowOK, TypeOK
      <3>3. snap'.gen > 0 /\ ~snap'.stale
        BY <2>0, <2>2 DEF SeedOK, Take, Publish
      <3>4. complete' => snap'.pods = View!Cut(Members(hist[seen']))
        <4>1. snap'.pods = View!Cut(retained)'
          BY <1>2 DEF Base, FlowOK
        <4>2. View!Cut(retained)' = View!Cut(retained')
          BY DEF View!Cut, View!Held
        <4>3. complete' => retained' = Members(hist[seen'])
          BY <1>2, <3>1, <3>2 DEF ExactInv, Members, View!Members
        <4> QED
          BY <4>1, <4>2, <4>3
      <3>5. View!Observe
        BY <3>1, <3>2, <3>3, <3>4 DEF View!Observe, Members
      <3> QED
        BY <3>5 DEF View!ViewNext
    <2>3. CASE SeedFail \/ WatchFail \/ WatchLost
      <3>1. /\ LoseContact
            /\ UNCHANGED <<hist, seen, complete>>
        BY <2>3 DEF SeedFail, WatchFail, WatchLost, RequestFails, serverVars
      <3>2. /\ snap'.gen = snap.gen
            /\ snap'.pods = snap.pods
            /\ snap'.stale = (snap.gen > 0)
        BY <1>2, <3>1, LostTypes DEF Base
      <3>3. ~(snap'.gen > 0 /\ ~snap'.stale)
        BY <3>2
      <3>4. View!Lose
        BY <3>1, <3>2, <3>3 DEF View!Lose
      <3> QED
        BY <3>4 DEF View!ViewNext
    <2>4. CASE \/ Cancel \/ Pump \/ SeedAsk \/ WatchOK \/ PollEmpty \/ ConsumeEnds \/ Waited
               \/ Exit \/ UNCHANGED vars
      <3>1. UNCHANGED <<hist, seen, snap, complete>>
        BY <2>4 DEF Cancel, Pump, PumpRead, WatchEnd, RequestFails, PumpCancelled, SeedAsk,
           WatchOK, PollEmpty, ConsumeEnds, Waited, Exit, vars, serverVars
      <3> QED
        BY <3>1 DEF View!viewVars
    <2> QED
      BY <1>2, <2>1, <2>2, <2>3, <2>4 DEF Next, Collector
  <1> QED
    BY <1>1, <1>2, ExactHolds, BaseHolds, PTL DEF Spec, ImplementsView, View!ViewSpec

=============================================================================
