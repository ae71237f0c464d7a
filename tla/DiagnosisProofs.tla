--------------------------- MODULE DiagnosisProofs ---------------------------
(***************************************************************************)
(* Proofs about Diagnosis, for any checks, instances, values and changes.   *)
(*                                                                          *)
(* The clocks of the Cluster's held states: "unchanged since at least" is   *)
(* never more than the truth unless contact was lost in between.            *)
(*                                                                          *)
(* What a check concludes: one that reads clear had nothing to find, but    *)
(* for what it never looked at (Overlooked, a list that was cut), and one   *)
(* that matched found what was there, as recently as its sources are        *)
(* read.  The inductive invariant, GhostInv, says what each source holds    *)
(* against what there is, what the ghosts witness at the moment, and what   *)
(* every reading and every sample kept tells of the past.  The rest is one  *)
(* lemma for each kind of rule: on what it read it says what it would of    *)
(* what there is (Found), or what the readings tell (Lately).               *)
(*                                                                          *)
(* And the grouping of findings into incidents, for any findings and        *)
(* relations: each is shown once, after its cause, the worst card first.    *)
(***************************************************************************)
EXTENDS Diagnosis, FiniteSetTheorems, WellFoundedInduction, TLAPS

Sources == Watched \cup Swept \cup {"logs", "history"}

\* What a rule consults is a source.
LEMMA ConsultedAreSources ==
  \A rule \in RulesOfOne \cup RulesOfMany : Consulted(rule) \subseteq Sources
<1>1. \A rule \in ClusterRules \cup BackupRules \cup StatusRules \cup MetricRules \cup EventRules \cup HistoryRules :
         Consulted(rule) \subseteq Sources
  BY DEF Consulted, Sources, Watched, Swept, ClusterRules, BackupRules, StatusRules, MetricRules,
         EventRules, HistoryRules
<1>2. \A rule \in RulesOfOne \ (ClusterRules \cup BackupRules \cup StatusRules \cup MetricRules
                                    \cup EventRules \cup HistoryRules) :
         Consulted(rule) \subseteq Sources
  BY DEF RulesOfOne, Consulted, Sources, Watched, Swept
<1>3. \A rule \in RulesOfMany : Consulted(rule) \subseteq Sources
  BY DEF RulesOfMany, Consulted, Sources, Watched, Swept, ClusterRules, BackupRules, StatusRules,
         MetricRules, EventRules, HistoryRules
<1> QED BY <1>1, <1>2, <1>3

\* The check never changes, and what it reads is held beside the clock.
HeldTypes ==
    /\ check \in Checks
    /\ Read \subseteq Sources
    /\ DOMAIN in = {"now"} \cup Read
    /\ in.now \in Int /\ lost \in Int
    /\ "facts" \in DOMAIN truth /\ DOMAIN truth.facts = Watched \cap Read
    /\ "cluster" \in Read => DOMAIN in.cluster = {"has", "stale", "facts", "since"}

\* No state began, and no clock started, after now.
BegunInv ==
    /\ DOMAIN begun = heldKeys(truth.facts["cluster"])
    /\ \A k \in DOMAIN begun : begun[k] \in Int /\ begun[k] <= in.now

\* In contact, the states with a clock are those there are; out of contact,
\* every clock is older than the loss.
SinceInv ==
    in.cluster.has =>
        /\ \A k \in DOMAIN in.cluster.since :
              in.cluster.since[k] \in Int /\ in.cluster.since[k] <= in.now
        /\ ~in.cluster.stale => DOMAIN in.cluster.since = DOMAIN begun
        /\ in.cluster.stale => \A k \in DOMAIN in.cluster.since : lost >= in.cluster.since[k]

HInv == HeldTypes /\ ("cluster" \in Read => BegunInv /\ SinceInv /\ ClockIsAFloor)

\* Nothing is observed at the start.
LEMMA HeldInit == Init => HInv
<1> SUFFICES ASSUME Init PROVE HInv
  OBVIOUS
<1>1. check \in Checks /\ Read \subseteq Sources
  <2>1. check \in Checks
    BY DEF Init
  <2>2. Read = Consulted(check.rule) /\ check.rule \in RulesOfOne \cup RulesOfMany
    BY <2>1, SourcesAssumption DEF Read
  <2> QED BY <2>1, <2>2, ConsultedAreSources
<1>2. DOMAIN in = {"now"} \cup Read /\ in.now = 0
  BY <1>1 DEF Init, Sources, Watched, Swept
<1>3. "cluster" \in Read => /\ DOMAIN in.cluster = {"has", "stale", "facts", "since"}
                           /\ ~in.cluster.has
  <2> SUFFICES ASSUME "cluster" \in Read
               PROVE  DOMAIN in.cluster = {"has", "stale", "facts", "since"} /\ ~in.cluster.has
    OBVIOUS
  <2>1. in["cluster"] = [has |-> FALSE, stale |-> FALSE, facts |-> CalmFacts["cluster"], since |-> <<>>]
    BY DEF Init, Watched, Swept
  <2> QED BY <2>1
<1>4. lost \in Int /\ "facts" \in DOMAIN truth /\ DOMAIN truth.facts = Watched \cap Read
  BY DEF Init, Never
<1>5. "cluster" \in Read => BegunInv
  <2> SUFFICES ASSUME "cluster" \in Read PROVE BegunInv
    OBVIOUS
  <2>1. truth.facts["cluster"] = CalmFacts["cluster"]
    BY DEF Init, Watched
  <2>2. begun = [k \in heldKeys(CalmFacts.cluster) |-> 0]
    BY DEF Init
  <2> QED BY <1>2, <2>1, <2>2 DEF BegunInv
<1> QED BY <1>1, <1>2, <1>3, <1>4, <1>5 DEF HInv, HeldTypes, SinceInv, ClockIsAFloor

\* A step that touches neither the Cluster's snapshot nor its facts.
LEMMA OthersKeepHInv ==
  ASSUME HInv, UNCHANGED check, DOMAIN in' = DOMAIN in, in'.now \in Int, in'.now >= in.now,
         "cluster" \in Read => /\ in'.cluster = in.cluster
                               /\ truth'.facts["cluster"] = truth.facts["cluster"],
         DOMAIN truth' = DOMAIN truth, DOMAIN truth'.facts = DOMAIN truth.facts,
         UNCHANGED <<begun, lost>>
  PROVE  HInv'
<1>1. Read' = Read
  BY DEF Read
<1>2. HeldTypes'
  BY <1>1 DEF HInv, HeldTypes
<1>3. ASSUME "cluster" \in Read PROVE BegunInv' /\ SinceInv' /\ ClockIsAFloor'
  <2>1. BegunInv /\ SinceInv /\ ClockIsAFloor /\ in.now \in Int
    BY <1>3 DEF HInv, HeldTypes
  <2>2. heldKeys(truth.facts["cluster"])' = heldKeys(truth.facts["cluster"])
    BY <1>3 DEF heldKeys
  <2>3. BegunInv'
    BY <2>1, <2>2 DEF BegunInv
  <2>4. SinceInv' /\ ClockIsAFloor'
    BY <1>1, <1>3, <2>1 DEF SinceInv, ClockIsAFloor
  <2> QED BY <2>3, <2>4
<1> QED BY <1>1, <1>2, <1>3 DEF HInv

\* A publication of the Cluster: what held before keeps its clock.
LEMMA PublishStarts ==
  ASSUME HInv, "cluster" \in Read, NEW facts, in' = [in EXCEPT !["cluster"] = publish(facts)]
  PROVE  /\ DOMAIN in' = DOMAIN in /\ in'.now = in.now
         /\ DOMAIN in'.cluster = {"has", "stale", "facts", "since"}
         /\ in'.cluster.has = TRUE /\ in'.cluster.stale = FALSE
         /\ DOMAIN in'.cluster.since = heldKeys(facts)
         /\ \A k \in heldKeys(facts) :
              in'.cluster.since[k] = IF in.cluster.has /\ k \in DOMAIN in.cluster.since
                                     THEN in.cluster.since[k] ELSE in.now
<1>1. DOMAIN in = {"now"} \cup Read
  BY DEF HInv, HeldTypes
<1>2. in'.cluster = publish(facts) /\ DOMAIN in' = DOMAIN in /\ in'.now = in.now
  BY <1>1
<1> QED BY <1>2 DEF publish

\* The Cluster is observed, for the first time or again.
LEMMA ObserveKeepsHInv ==
  ASSUME HInv, "cluster" \in Read, Observe("cluster")
  PROVE  HInv'
<1> DEFINE facts == truth.facts["cluster"]
<1>1. /\ UNCHANGED <<check, truth, begun, lost>> /\ Read' = Read
      /\ HeldTypes /\ BegunInv /\ SinceInv
      /\ ~in.cluster.has \/ in.cluster.stale
  BY DEF Observe, Witness, Read, HInv
<1>2. in' = [in EXCEPT !["cluster"] = publish(facts)]
  <2>1. PICK shown \in Shown("cluster", facts) : in' = [in EXCEPT !["cluster"] = Published("cluster", shown)]
    BY DEF Observe
  <2>2. <<"cluster", "cut">> \notin check.varies
    BY SourcesAssumption DEF HInv, HeldTypes, Lists
  <2>3. Shown("cluster", facts) = {facts}
    BY <2>2 DEF Shown
  <2>4. Published("cluster", facts) = publish(facts)
    BY DEF Published
  <2> QED BY <2>1, <2>3, <2>4
<1>3. /\ DOMAIN in' = DOMAIN in /\ in'.now = in.now
      /\ DOMAIN in'.cluster = {"has", "stale", "facts", "since"}
      /\ in'.cluster.has = TRUE /\ in'.cluster.stale = FALSE
      /\ DOMAIN in'.cluster.since = heldKeys(facts)
      /\ \A k \in heldKeys(facts) :
           in'.cluster.since[k] = IF in.cluster.has /\ k \in DOMAIN in.cluster.since
                                  THEN in.cluster.since[k] ELSE in.now
  BY <1>2, PublishStarts
<1>4. HeldTypes'
  BY <1>1, <1>3 DEF HeldTypes
<1>5. DOMAIN begun = heldKeys(facts) /\ in.now \in Int /\ lost \in Int
      /\ \A k \in DOMAIN begun : begun[k] \in Int /\ begun[k] <= in.now
  BY <1>1 DEF BegunInv, HeldTypes
<1>6. \A k \in heldKeys(facts) :
         /\ in'.cluster.since[k] \in Int /\ in'.cluster.since[k] <= in.now
         /\ in'.cluster.since[k] >= begun[k] \/ lost >= in'.cluster.since[k]
  <2> SUFFICES ASSUME NEW k \in heldKeys(facts)
               PROVE  /\ in'.cluster.since[k] \in Int /\ in'.cluster.since[k] <= in.now
                      /\ in'.cluster.since[k] >= begun[k] \/ lost >= in'.cluster.since[k]
    OBVIOUS
  <2>1. CASE in.cluster.has /\ k \in DOMAIN in.cluster.since
    BY <1>1, <1>3, <2>1 DEF SinceInv
  <2>2. CASE ~(in.cluster.has /\ k \in DOMAIN in.cluster.since)
    BY <1>3, <1>5, <2>2
  <2> QED BY <2>1, <2>2
<1>7. BegunInv'
  <2>1. heldKeys(truth.facts["cluster"])' = heldKeys(facts)
    BY <1>1 DEF heldKeys
  <2> QED BY <1>1, <1>3, <1>5, <2>1 DEF BegunInv
<1> HIDE DEF facts
<1>8. SinceInv' /\ ClockIsAFloor'
  BY <1>1, <1>3, <1>5, <1>6 DEF SinceInv, ClockIsAFloor
<1> QED BY <1>1, <1>4, <1>7, <1>8 DEF HInv

\* Contact is lost: every clock is older.
LEMMA LoseKeepsHInv ==
  ASSUME HInv, "cluster" \in Read, Lose("cluster")
  PROVE  HInv'
<1>1. /\ UNCHANGED <<check, truth, begun>> /\ Read' = Read /\ lost' = in.now
      /\ HeldTypes /\ BegunInv /\ SinceInv
      /\ in.cluster.has
      /\ in' = [in EXCEPT !["cluster"].stale = TRUE]
  BY DEF Lose, Witness, Read, HInv
<1>2. DOMAIN in = {"now"} \cup Read
  BY <1>1 DEF HeldTypes
<1>3. DOMAIN in' = DOMAIN in /\ in'.now = in.now /\ in'.cluster = [in.cluster EXCEPT !.stale = TRUE]
  BY <1>1, <1>2
<1>4. in'.cluster.has = in.cluster.has /\ in'.cluster.since = in.cluster.since
  BY <1>3
<1>5. DOMAIN in'.cluster = {"has", "stale", "facts", "since"} /\ in'.cluster.stale = TRUE
  BY <1>1, <1>3 DEF HeldTypes
<1>6. HeldTypes'
  BY <1>1, <1>3, <1>5 DEF HeldTypes
<1>7. BegunInv'
  <2>1. heldKeys(truth.facts["cluster"])' = heldKeys(truth.facts["cluster"])
    BY <1>1 DEF heldKeys
  <2> QED BY <1>1, <1>3, <2>1 DEF BegunInv
<1>8. SinceInv' /\ ClockIsAFloor'
  BY <1>1, <1>3, <1>4, <1>5 DEF SinceInv, ClockIsAFloor, HeldTypes
<1> QED BY <1>1, <1>6, <1>7, <1>8 DEF HInv

\* The Cluster changes: a state that goes on keeps its beginning and its
\* clock, in contact or not.
LEMMA BecomesKeepsHInv ==
  ASSUME HInv, "cluster" \in Read, NEW facts, Becomes("cluster", facts)
  PROVE  HInv'
<1>1. /\ UNCHANGED <<check, lost>> /\ Read' = Read
      /\ HeldTypes /\ BegunInv /\ SinceInv /\ ClockIsAFloor
      /\ truth' = [truth EXCEPT !.facts["cluster"] = facts]
      /\ begun' = [k \in heldKeys(facts) |-> IF k \in DOMAIN begun THEN begun[k] ELSE in.now]
  BY DEF Becomes, Witness, Read, HInv
<1>2. /\ DOMAIN truth' = DOMAIN truth /\ DOMAIN truth'.facts = DOMAIN truth.facts
      /\ truth'.facts["cluster"] = facts
  <2>1. "facts" \in DOMAIN truth
    BY DEF HInv, HeldTypes
  <2>2. truth'.facts = [truth.facts EXCEPT !["cluster"] = facts]
    BY <1>1, <2>1
  <2>3. "cluster" \in DOMAIN truth.facts
    BY <1>1 DEF HeldTypes, Watched
  <2>4. DOMAIN truth' = DOMAIN truth
    BY <1>1
  <2> QED BY <2>2, <2>3, <2>4
<1>3. /\ in.now \in Int /\ lost \in Int
      /\ \A k \in DOMAIN begun : begun[k] \in Int /\ begun[k] <= in.now
  BY <1>1 DEF HeldTypes, BegunInv
<1>4. /\ DOMAIN begun' = heldKeys(facts)
      /\ \A k \in heldKeys(facts) :
            begun'[k] \in Int /\ begun'[k] <= in.now /\ (k \in DOMAIN begun => begun'[k] = begun[k])
  BY <1>1, <1>3
<1>5. heldKeys(truth.facts["cluster"])' = heldKeys(facts)
  BY <1>2 DEF heldKeys
<1>6. CASE in.cluster.has /\ ~in.cluster.stale
  <2>1. in' = [in EXCEPT !["cluster"] = publish(facts)]
    <3>1. PICK shown \in Shown("cluster", facts) : in' = [in EXCEPT !["cluster"] = Published("cluster", shown)]
      BY <1>6 DEF Becomes
    <3>2. <<"cluster", "cut">> \notin check.varies
      BY <1>1, SourcesAssumption DEF HeldTypes, Lists
    <3>3. Shown("cluster", facts) = {facts}
      BY <3>2 DEF Shown
    <3>4. Published("cluster", facts) = publish(facts)
      BY DEF Published
    <3> QED BY <3>1, <3>3, <3>4
  <2>2. /\ DOMAIN in' = DOMAIN in /\ in'.now = in.now
        /\ DOMAIN in'.cluster = {"has", "stale", "facts", "since"}
        /\ in'.cluster.has = TRUE /\ in'.cluster.stale = FALSE
        /\ DOMAIN in'.cluster.since = heldKeys(facts)
        /\ \A k \in heldKeys(facts) :
             in'.cluster.since[k] = IF in.cluster.has /\ k \in DOMAIN in.cluster.since
                                    THEN in.cluster.since[k] ELSE in.now
    BY <2>1, PublishStarts
  <2>3. DOMAIN in.cluster.since = DOMAIN begun
        /\ \A k \in DOMAIN begun :
              /\ in.cluster.since[k] \in Int /\ in.cluster.since[k] <= in.now
              /\ in.cluster.since[k] >= begun[k] \/ lost >= in.cluster.since[k]
    BY <1>1, <1>6 DEF SinceInv, ClockIsAFloor
  <2>4. \A k \in heldKeys(facts) :
           /\ in'.cluster.since[k] \in Int /\ in'.cluster.since[k] <= in.now
           /\ in'.cluster.since[k] >= begun'[k] \/ lost >= in'.cluster.since[k]
    <3> SUFFICES ASSUME NEW k \in heldKeys(facts)
                 PROVE  /\ in'.cluster.since[k] \in Int /\ in'.cluster.since[k] <= in.now
                        /\ in'.cluster.since[k] >= begun'[k] \/ lost >= in'.cluster.since[k]
      OBVIOUS
    <3>1. CASE k \in DOMAIN begun
      <4>1. in'.cluster.since[k] = in.cluster.since[k] /\ begun'[k] = begun[k]
        BY <1>4, <1>6, <2>2, <2>3, <3>1
      <4> QED BY <2>3, <3>1, <4>1
    <3>2. CASE k \notin DOMAIN begun
      <4>1. in'.cluster.since[k] = in.now
        BY <2>2, <2>3, <3>2
      <4> QED BY <1>3, <1>4, <4>1
    <3> QED BY <3>1, <3>2
  <2>5. HeldTypes'
    BY <1>1, <1>2, <2>2 DEF HeldTypes
  <2>6. BegunInv'
    BY <1>4, <1>5, <2>2 DEF BegunInv
  <2>7. SinceInv' /\ ClockIsAFloor'
    BY <1>1, <1>3, <1>4, <2>2, <2>4 DEF SinceInv, ClockIsAFloor
  <2> QED BY <2>5, <2>6, <2>7 DEF HInv
<1>7. CASE ~(in.cluster.has /\ ~in.cluster.stale)
  <2>1. in' = in
    BY <1>7 DEF Becomes
  <2>2. HeldTypes' /\ BegunInv'
    BY <1>1, <1>2, <1>4, <1>5, <2>1 DEF HeldTypes, BegunInv
  <2>3. SinceInv' /\ ClockIsAFloor'
    BY <1>1, <1>7, <2>1 DEF SinceInv, ClockIsAFloor
  <2> QED BY <2>2, <2>3 DEF HInv
<1> QED BY <1>6, <1>7

\* Another source of the check, and nothing of the Cluster.
LEMMA OtherSourceKeeps ==
  ASSUME HInv, NEW source \in Sources \ {"cluster"}, NEW held,
         in' = [in EXCEPT ![source] = held], UNCHANGED <<check, begun, lost>>,
         DOMAIN truth' = DOMAIN truth, DOMAIN truth'.facts = DOMAIN truth.facts,
         "cluster" \in Read => truth'.facts["cluster"] = truth.facts["cluster"]
  PROVE  HInv'
<1>1. source # "now"
  BY DEF Sources, Watched, Swept
<1>2. DOMAIN in = {"now"} \cup Read /\ in.now \in Int
  BY DEF HInv, HeldTypes
<1>3. DOMAIN in' = DOMAIN in /\ in'.now = in.now /\ ("cluster" \in Read => in'.cluster = in.cluster)
  BY <1>1, <1>2
<1> QED BY <1>2, <1>3, OthersKeepHInv

\* The same of a change of another source, whether it is in contact or not.
LEMMA OtherBecomesKeeps ==
  ASSUME HInv, NEW source \in Watched \ {"cluster"}, NEW facts, Becomes(source, facts)
  PROVE  HInv'
<1>1. /\ UNCHANGED <<check, begun, lost>>
      /\ truth' = [truth EXCEPT !.facts[source] = facts]
  BY DEF Becomes, Witness
<1>2. "facts" \in DOMAIN truth /\ DOMAIN truth.facts = Watched \cap Read
  BY DEF HInv, HeldTypes
<1>3. /\ DOMAIN truth' = DOMAIN truth
      /\ truth'.facts = [truth.facts EXCEPT ![source] = facts]
  BY <1>1, <1>2
<1>4. /\ DOMAIN truth'.facts = DOMAIN truth.facts
      /\ "cluster" \in Read => truth'.facts["cluster"] = truth.facts["cluster"]
  BY <1>2, <1>3 DEF Watched
<1>5. \/ \E held : in' = [in EXCEPT ![source] = held]
      \/ in' = in
  BY DEF Becomes
<1>6. CASE \E held : in' = [in EXCEPT ![source] = held]
  BY <1>1, <1>3, <1>4, <1>6, OtherSourceKeeps DEF Sources
<1>7. CASE in' = in
  <2>1. in.now \in Int
    BY DEF HInv, HeldTypes
  <2> QED BY <1>1, <1>3, <1>4, <1>7, <2>1, OthersKeepHInv
<1> QED BY <1>5, <1>6, <1>7

\* Every step.
LEMMA HeldNext == HInv /\ [Next]_vars => HInv'
<1> SUFFICES ASSUME HInv, [Next]_vars PROVE HInv'
  OBVIOUS
<1> USE DEF Witness
<1>0. in.now \in Int /\ DOMAIN in = {"now"} \cup Read
  BY DEF HInv, HeldTypes
<1>1. ASSUME NEW s \in Watched \cap Read, Observe(s) PROVE HInv'
  <2>1. CASE s = "cluster"
    BY <1>1, <2>1, ObserveKeepsHInv
  <2>2. CASE s # "cluster"
    <3>1. \E held : in' = [in EXCEPT ![s] = held]
      BY <1>1 DEF Observe
    <3>2. UNCHANGED <<check, truth, begun, lost>>
      BY <1>1 DEF Observe
    <3> QED BY <2>2, <3>1, <3>2, OtherSourceKeeps DEF Sources
  <2> QED BY <2>1, <2>2
<1>2. ASSUME NEW s \in Watched \cap Read, Lose(s) PROVE HInv'
  <2>1. CASE s = "cluster"
    BY <1>2, <2>1, LoseKeepsHInv
  <2>2. CASE s # "cluster"
    <3>1. \E held : in' = [in EXCEPT ![s] = held]
      <4>1. in' = [in EXCEPT ![s] = [in[s] EXCEPT !.stale = TRUE]]
        BY <1>2 DEF Lose
      <4> QED BY <4>1
    <3>2. UNCHANGED <<check, truth, begun, lost>>
      BY <1>2, <2>2 DEF Lose
    <3> QED BY <2>2, <3>1, <3>2, OtherSourceKeeps DEF Sources
  <2> QED BY <2>1, <2>2
<1>3. ASSUME NEW s \in Watched \cap Read, Change(s) PROVE HInv'
  <2>1. PICK facts : Becomes(s, facts)
    BY <1>3 DEF Change
  <2>2. CASE s = "cluster"
    BY <2>1, <2>2, BecomesKeepsHInv
  <2>3. CASE s # "cluster"
    BY <2>1, <2>3, OtherBecomesKeeps
  <2> QED BY <2>2, <2>3
<1>4. ASSUME NEW s \in Swept \cap Read, Sweep(s) PROVE HInv'
  <2>1. \E held : in' = [in EXCEPT ![s] = held]
    BY <1>4 DEF Sweep
  <2>2. UNCHANGED <<check, truth, begun, lost>>
    BY <1>4 DEF Sweep
  <2> QED BY <2>1, <2>2, OtherSourceKeeps DEF Sources, Swept
<1>5. ASSUME NEW n \in Instances, OpenStream(n) \/ StreamCloses(n) PROVE HInv'
  <2>1. \E held : in' = [in EXCEPT !["logs"] = held]
    BY <1>5 DEF OpenStream, StreamCloses
  <2>2. /\ UNCHANGED <<check, begun, lost>>
        /\ truth' = truth
    BY <1>5 DEF OpenStream, StreamCloses
  <2>3. DOMAIN truth' = DOMAIN truth /\ truth'.facts = truth.facts
    BY <2>2
  <2> QED BY <2>1, <2>2, <2>3, OtherSourceKeeps DEF Sources
<1>6. CASE InstanceChanges
  <2>1. UNCHANGED <<check, in, begun, lost>> /\ \E all : truth' = [truth EXCEPT !.instances = all]
    BY <1>6 DEF InstanceChanges
  <2>2. DOMAIN truth' = DOMAIN truth /\ truth'.facts = truth.facts
    BY <2>1 DEF HInv, HeldTypes
  <2> QED BY <1>0, <2>1, <2>2, OthersKeepHInv
<1>7. CASE Emit
  <2>1. PICK facts : Becomes("events", facts)
    BY <1>7 DEF Emit
  <2> QED BY <2>1, OtherBecomesKeeps DEF Watched
<1>8. CASE WriteLine
  <2>1. /\ UNCHANGED <<check, begun, lost>>
        /\ \/ UNCHANGED in /\ \E missed : truth' = [truth EXCEPT !.unheard = missed]
           \/ UNCHANGED truth /\ \E held : in' = [in EXCEPT !["logs"] = held]
    BY <1>8 DEF WriteLine
  <2>2. DOMAIN truth' = DOMAIN truth /\ truth'.facts = truth.facts
    BY <2>1 DEF HInv, HeldTypes
  <2>3. CASE UNCHANGED in
    BY <1>0, <2>1, <2>2, <2>3, OthersKeepHInv
  <2>4. CASE \E held : in' = [in EXCEPT !["logs"] = held]
    BY <2>1, <2>2, <2>4, OtherSourceKeeps DEF Sources
  <2> QED BY <2>1, <2>3, <2>4
<1>9. CASE Record
  <2>1. \E held : in' = [in EXCEPT !["history"] = held]
    BY <1>9 DEF Record
  <2>2. UNCHANGED <<check, begun, lost>> /\ \E all : truth' = [truth EXCEPT !.records = all]
    BY <1>9 DEF Record
  <2>3. DOMAIN truth' = DOMAIN truth /\ truth'.facts = truth.facts
    BY <2>2 DEF HInv, HeldTypes
  <2> QED BY <2>1, <2>2, <2>3, OtherSourceKeeps DEF Sources
<1>10. CASE Tick
  <2>1. UNCHANGED <<check, truth, begun, lost>> /\ in' = [in EXCEPT !.now = in.now + 1]
    BY <1>10 DEF Tick
  <2>2. /\ DOMAIN in' = DOMAIN in /\ in'.now = in.now + 1
        /\ "cluster" \in Read => in'.cluster = in.cluster
    BY <1>0, <2>1
  <2> QED BY <1>0, <2>1, <2>2, OthersKeepHInv
<1>11. CASE UNCHANGED vars
  BY <1>0, <1>11, OthersKeepHInv DEF vars
<1> QED BY <1>1, <1>2, <1>3, <1>4, <1>5, <1>6, <1>7, <1>8, <1>9, <1>10, <1>11 DEF Next

\* "Unchanged since at least" (observe/store.go, publish; status.go,
\* heldEvidence): whatever the Cluster does, observed and lost in any order,
\* a state has held since the console's clock of it says, unless contact was
\* lost in between.
THEOREM ClockHolds == Spec => []ClockIsAFloor
<1>1. HInv => ClockIsAFloor
  BY DEF HInv, ClockIsAFloor
<1> QED BY <1>1, HeldInit, HeldNext, PTL DEF Spec

-----------------------------------------------------------------------------
(* What is held of each source, against what there is.                      *)

\* The fields of a snapshot: the Cluster's has clocks, the evidence's a switch.
Fields(s) == {"has", "stale", "facts"} \cup (IF s = "cluster" THEN {"since"} ELSE {})
                                       \cup (IF s = "evidence" THEN {"on"} ELSE {})
Formed(s, held) == held = [f \in Fields(s) |-> held[f]]

\* In contact, a snapshot shows what there is.
Follows(s, held, facts) ==
    /\ Formed(s, held)
    /\ held.has \in BOOLEAN /\ held.stale \in BOOLEAN
    /\ s = "evidence" => held.on \in BOOLEAN
    /\ held.has /\ ~held.stale => held.facts \in Shown(s, facts)

WatchedInv == \A s \in Watched \cap Read : Follows(s, in[s], truth.facts[s])

\* What the facts name is an instance, and they keep their fields.
NamesInstances(s, facts) ==
    /\ DOMAIN facts = DOMAIN CalmFacts[s]
    /\ s = "cluster" => facts.listed \subseteq Instances /\ facts.reported \subseteq Instances
    /\ s = "quotas" => facts.exhausted \subseteq Instances
    /\ s = "databases" => facts.refused \subseteq Instances
    /\ s = "quorum" => facts.number \in Int
    /\ s = "events" => facts.list \in Seq(Emitted)

FactsInv == \A s \in Watched \cap Read : NamesInstances(s, truth.facts[s])

\* The fields of the calm facts.
LEMMA CalmIsNamed == \A s \in Watched : NamesInstances(s, CalmFacts[s])
<1>1. {"a", "b"} \subseteq Instances
  BY NamesAssumption
<1>2. CalmFacts.cluster.listed = {} /\ CalmFacts.cluster.reported = {}
  BY DEF CalmFacts
<1>3. CalmFacts.quotas.exhausted = {} /\ CalmFacts.databases.refused = {} /\ CalmFacts.events.list = <<>>
  BY DEF CalmFacts
<1>4. <<>> \in Seq(Emitted)
  OBVIOUS
<1>5. CalmFacts.quorum.number \in Int
  BY DEF CalmFacts
<1> QED BY <1>2, <1>3, <1>4, <1>5 DEF NamesInstances

\* What follows what there is depends on the check only.
LEMMA FollowsStays ==
  ASSUME UNCHANGED check, \A t \in Watched \cap Read : Follows(t, in'[t], truth'.facts[t])
  PROVE  WatchedInv'
<1>1. Read' = Read
  BY DEF Read
<1>2. ASSUME NEW t \in Watched \cap Read PROVE Follows(t, in[t], truth.facts[t])'
  <2>1. Follows(t, in'[t], truth'.facts[t])
    OBVIOUS
  <2>2. PICK cut : cut = Cut(t, truth'.facts[t])
    OBVIOUS
  <2>3. Shown(t, truth.facts[t])' = Shown(t, truth'.facts[t])
    BY <2>2 DEF Shown
  <2> QED BY <2>1, <2>3 DEF Follows, Formed
<1> QED BY <1>1, <1>2 DEF WatchedInv

\* What is published follows what there is.
LEMMA PublishedFollows ==
  ASSUME HeldTypes, WatchedInv, NEW s \in Watched \cap Read, NEW facts, NEW shown \in Shown(s, facts)
  PROVE  Follows(s, Published(s, shown), facts)
<1>1. Follows(s, in[s], truth.facts[s])
  BY DEF WatchedInv
<1>2. CASE s = "cluster"
  BY <1>2 DEF Published, publish, Follows, Formed, Fields
<1>3. CASE s = "evidence"
  BY <1>1, <1>3 DEF Published, Follows, Formed, Fields
<1>4. CASE s \notin {"cluster", "evidence"}
  BY <1>4 DEF Published, Follows, Formed, Fields
<1> QED BY <1>2, <1>3, <1>4

\* Losing contact leaves the snapshot as it was, and nothing is asked of it.
LEMMA StaleFollows ==
  ASSUME NEW s, NEW held, NEW facts, Follows(s, held, facts)
  PROVE  Follows(s, [held EXCEPT !.stale = TRUE], facts)
<1> DEFINE then == [held EXCEPT !.stale = TRUE]
<1>1. held = [f \in Fields(s) |-> held[f]] /\ "stale" \in Fields(s)
  BY DEF Follows, Formed, Fields
<1>2. then = [f \in Fields(s) |-> then[f]] /\ then.stale = TRUE
      /\ \A f \in Fields(s) : f # "stale" => then[f] = held[f]
  BY <1>1
<1> HIDE DEF then
<1>3. then.has = held.has /\ (s = "evidence" => then.on = held.on)
  BY <1>2 DEF Fields
<1> QED BY <1>2, <1>3 DEF Follows, Formed, Fields
\* A field takes a value it may take.
LEMMA ChangedIsNamed ==
  ASSUME NEW s \in Watched \ {"events"}, NEW facts, NamesInstances(s, facts), NEW field, NEW now,
         NEW value \in Values(s, field, now)
  PROVE  NamesInstances(s, [facts EXCEPT ![field] = value])
<1> DEFINE then == [facts EXCEPT ![field] = value]
<1>1. DOMAIN then = DOMAIN facts
  OBVIOUS
<1>2. \A f \in DOMAIN facts : then[f] = IF f = field THEN value ELSE facts[f]
  OBVIOUS
<1>3. \A S \in SomeInstances : S \subseteq Instances
  BY NamesAssumption DEF SomeInstances
<1>4. CASE s = "cluster"
  <2>1. field \in {"listed", "reported"} => value \in SomeInstances
    BY <1>4 DEF Values, ClusterValues
  <2>2. "listed" \in DOMAIN facts /\ "reported" \in DOMAIN facts
    BY <1>4 DEF NamesInstances, CalmFacts
  <2> HIDE DEF then
  <2> QED BY <1>1, <1>2, <1>3, <1>4, <2>1, <2>2 DEF NamesInstances
<1>5. CASE s \in {"quotas", "databases"}
  <2>1. value \in SomeInstances
    BY <1>5 DEF Values
  <2>2. (s = "quotas" => "exhausted" \in DOMAIN facts) /\ (s = "databases" => "refused" \in DOMAIN facts)
    <3>1. DOMAIN CalmFacts["quotas"] = {"exhausted"} /\ DOMAIN CalmFacts["databases"] = {"refused", "cut"}
      BY DEF CalmFacts
    <3> QED BY <1>5, <3>1 DEF NamesInstances
  <2> HIDE DEF then
  <2> QED BY <1>1, <1>2, <1>3, <1>5, <2>1, <2>2 DEF NamesInstances
<1>6. CASE s = "quorum"
  <2>1. field = "number" => value \in {0, 1, 2}
    BY <1>6 DEF Values
  <2>2. "number" \in DOMAIN facts
    <3>1. "number" \in DOMAIN CalmFacts["quorum"]
      BY DEF CalmFacts
    <3> QED BY <1>6, <3>1 DEF NamesInstances
  <2> HIDE DEF then
  <2> QED BY <1>1, <1>2, <1>6, <2>1, <2>2 DEF NamesInstances
<1>7. CASE s \notin {"cluster", "quotas", "databases", "quorum"}
  BY <1>1, <1>7 DEF NamesInstances
<1> QED BY <1>4, <1>5, <1>6, <1>7

\* What a change makes of the facts of a source, and of what is held of it.
LEMMA BecomesWatched ==
  ASSUME HeldTypes, WatchedInv, FactsInv, NEW s \in Watched \cap Read, NEW facts,
         Becomes(s, facts), NamesInstances(s, facts)
  PROVE  WatchedInv' /\ FactsInv'
<1>1. UNCHANGED check /\ Read' = Read /\ truth' = [truth EXCEPT !.facts[s] = facts]
  BY DEF Becomes, Witness, Read
<1>2. "facts" \in DOMAIN truth /\ DOMAIN truth.facts = Watched \cap Read /\ DOMAIN in = {"now"} \cup Read
  BY DEF HeldTypes
<1>3. truth'.facts = [truth.facts EXCEPT ![s] = facts]
  BY <1>1, <1>2
<1>4. truth'.facts[s] = facts /\ \A t \in Watched \cap Read : t # s => truth'.facts[t] = truth.facts[t]
  BY <1>2, <1>3
<1>5. FactsInv'
  <2> SUFFICES ASSUME NEW t \in Watched \cap Read PROVE NamesInstances(t, truth'.facts[t])
    BY <1>1 DEF FactsInv, NamesInstances
  <2> QED BY <1>4 DEF FactsInv
<1>6. ASSUME NEW t \in Watched \cap Read PROVE Follows(t, in'[t], truth'.facts[t])
  <2>0. Follows(t, in[t], truth.facts[t]) /\ Follows(s, in[s], truth.facts[s])
    BY DEF WatchedInv
  <2>1. CASE in[s].has /\ ~in[s].stale
    <3>1. PICK shown \in Shown(s, facts) : in' = [in EXCEPT ![s] = Published(s, shown)]
      BY <2>1 DEF Becomes
    <3>2. in'[s] = Published(s, shown) /\ (t # s => in'[t] = in[t])
      BY <1>2, <3>1
    <3>3. Follows(s, Published(s, shown), facts)
      BY PublishedFollows
    <3> QED BY <1>4, <2>0, <3>2, <3>3
  <2>2. CASE ~(in[s].has /\ ~in[s].stale)
    <3>1. in' = in
      BY <2>2 DEF Becomes
    <3>2. CASE t = s
      BY <1>4, <2>0, <2>2, <3>1, <3>2 DEF Follows
    <3>3. CASE t # s
      BY <1>4, <2>0, <3>1, <3>3
    <3> QED BY <3>2, <3>3
  <2> QED BY <2>1, <2>2
<1>7. WatchedInv'
  BY <1>1, <1>6, FollowsStays
<1> QED BY <1>5, <1>7

\* Another source is read, or nothing is.
LEMMA OthersWatched ==
  ASSUME WatchedInv, FactsInv, UNCHANGED check, truth'.facts = truth.facts,
         \A t \in Watched \cap Read : in'[t] = in[t]
  PROVE  WatchedInv' /\ FactsInv'
<1>1. Read' = Read
  BY DEF Read
<1>2. FactsInv'
  BY <1>1 DEF FactsInv, NamesInstances
<1>3. WatchedInv'
  BY FollowsStays DEF WatchedInv
<1> QED BY <1>2, <1>3

\* One watched source is held anew, and there is what there was.
LEMMA OneWatched ==
  ASSUME HeldTypes, WatchedInv, FactsInv, UNCHANGED <<check, truth>>, NEW s \in Watched \cap Read,
         NEW held, in' = [in EXCEPT ![s] = held], Follows(s, held, truth.facts[s])
  PROVE  WatchedInv' /\ FactsInv'
<1>1. Read' = Read
  BY DEF Read
<1>2. FactsInv'
  BY <1>1 DEF FactsInv, NamesInstances
<1>3. in'[s] = held /\ \A t \in Watched \cap Read : t # s => in'[t] = in[t]
  BY DEF HeldTypes
<1>4. \A t \in Watched \cap Read : Follows(t, in'[t], truth.facts[t])
  BY <1>3 DEF WatchedInv
<1>5. WatchedInv'
  BY <1>4, FollowsStays
<1> QED BY <1>2, <1>5

\* An event is about an instance.
LEMMA EmittedIsNamed ==
  ASSUME FactsInv, "events" \in Watched \cap Read, NEW e \in WantedEvents
  PROVE  NamesInstances("events", [truth.facts["events"] EXCEPT !.list = <<e>> \o @])
<1>1. e \in Emitted
  BY DEF WantedEvents
<1>2. truth.facts.events.list \in Seq(Emitted)
  BY DEF FactsInv, NamesInstances
<1>3. <<e>> \o truth.facts.events.list \in Seq(Emitted)
  BY <1>1, <1>2
<1>4. "list" \in DOMAIN truth.facts["events"] /\ DOMAIN truth.facts["events"] = DOMAIN CalmFacts["events"]
  <2>1. DOMAIN CalmFacts["events"] = {"list", "cut"}
    BY DEF CalmFacts
  <2> QED BY <2>1 DEF FactsInv, NamesInstances
<1>5. PICK then : then = [truth.facts["events"] EXCEPT !.list = <<e>> \o @]
  OBVIOUS
<1>6. DOMAIN then = DOMAIN CalmFacts["events"] /\ then.list = <<e>> \o truth.facts.events.list
  BY <1>4, <1>5
<1>7. NamesInstances("events", then)
  BY <1>3, <1>6 DEF NamesInstances
<1> QED BY <1>5, <1>7

\* Every step.
LEMMA WatchedSteps ==
  ASSUME HInv, WatchedInv, FactsInv, [Next]_vars
  PROVE  WatchedInv' /\ FactsInv'
<1>0. HeldTypes /\ DOMAIN in = {"now"} \cup Read /\ DOMAIN truth.facts = Watched \cap Read
      /\ "facts" \in DOMAIN truth
  BY DEF HInv, HeldTypes
<1>1. ASSUME NEW s \in Watched \cap Read, Observe(s) PROVE WatchedInv' /\ FactsInv'
  <2>1. PICK shown \in Shown(s, truth.facts[s]) : in' = [in EXCEPT ![s] = Published(s, shown)]
    BY <1>1 DEF Observe
  <2>2. Follows(s, Published(s, shown), truth.facts[s])
    BY <1>0, PublishedFollows
  <2>3. UNCHANGED <<check, truth>>
    BY <1>1 DEF Observe, Witness
  <2> QED BY <1>0, <2>1, <2>2, <2>3, OneWatched
<1>2. ASSUME NEW s \in Watched \cap Read, Lose(s) PROVE WatchedInv' /\ FactsInv'
  <2>1. in' = [in EXCEPT ![s] = [in[s] EXCEPT !.stale = TRUE]]
    BY <1>2 DEF Lose
  <2>2. Follows(s, [in[s] EXCEPT !.stale = TRUE], truth.facts[s])
    BY StaleFollows DEF WatchedInv
  <2>3. UNCHANGED <<check, truth>>
    BY <1>2 DEF Lose, Witness
  <2> QED BY <1>0, <2>1, <2>2, <2>3, OneWatched
<1>3. ASSUME NEW s \in Watched \cap Read, Change(s) PROVE WatchedInv' /\ FactsInv'
  <2>1. PICK v \in check.varies :
           /\ v[1] = s /\ s # "events"
           /\ \E value \in Values(s, v[2], in.now) : Becomes(s, [truth.facts[s] EXCEPT ![v[2]] = value])
    BY <1>3 DEF Change
  <2>2. PICK value \in Values(s, v[2], in.now) : Becomes(s, [truth.facts[s] EXCEPT ![v[2]] = value])
    BY <2>1
  <2>3. NamesInstances(s, [truth.facts[s] EXCEPT ![v[2]] = value])
    BY <2>1, ChangedIsNamed DEF FactsInv
  <2> QED BY <1>0, <2>2, <2>3, BecomesWatched
<1>4. CASE Emit
  <2>1. PICK e \in WantedEvents : Becomes("events", [truth.facts["events"] EXCEPT !.list = <<e>> \o @])
    BY <1>4 DEF Emit
  <2>2. "events" \in Watched \cap Read
    BY <1>4 DEF Emit, Watched
  <2>3. NamesInstances("events", [truth.facts["events"] EXCEPT !.list = <<e>> \o @])
    BY <2>2, EmittedIsNamed
  <2> QED BY <1>0, <2>1, <2>2, <2>3, BecomesWatched
<1>5. ASSUME NEW s \in Sources \ Watched, \E held : in' = [in EXCEPT ![s] = held],
             UNCHANGED check, truth'.facts = truth.facts
      PROVE  WatchedInv' /\ FactsInv'
  <2>1. \A t \in Watched \cap Read : in'[t] = in[t]
    BY <1>0, <1>5
  <2> QED BY <1>5, <2>1, OthersWatched
<1>6. ASSUME NEW s \in Swept \cap Read, Sweep(s) PROVE WatchedInv' /\ FactsInv'
  <2>1. s \in Sources \ Watched
    BY DEF Swept, Watched, Sources
  <2>2. \E held : in' = [in EXCEPT ![s] = held]
    BY <1>6 DEF Sweep
  <2> QED BY <1>6, <2>1, <2>2, <1>5 DEF Sweep, Witness
<1>7. "logs" \in Sources \ Watched /\ "history" \in Sources \ Watched
  BY DEF Sources, Watched
<1>8. ASSUME NEW n \in Instances, OpenStream(n) \/ StreamCloses(n) PROVE WatchedInv' /\ FactsInv'
  <2>1. \E held : in' = [in EXCEPT !["logs"] = held]
    BY <1>8 DEF OpenStream, StreamCloses
  <2>2. UNCHANGED check /\ truth' = truth
    BY <1>8 DEF OpenStream, StreamCloses, Witness
  <2>3. truth'.facts = truth.facts
    BY <2>2
  <2> QED BY <1>5, <1>7, <2>1, <2>2, <2>3
<1>9. CASE InstanceChanges
  <2>1. UNCHANGED <<check, in>> /\ \E all : truth' = [truth EXCEPT !.instances = all]
    BY <1>9 DEF InstanceChanges, Witness
  <2>2. truth'.facts = truth.facts
    BY <1>0, <2>1
  <2> QED BY <2>1, <2>2, OthersWatched
<1>10. CASE WriteLine
  <2>1. /\ UNCHANGED check
        /\ \/ UNCHANGED in /\ \E missed : truth' = [truth EXCEPT !.unheard = missed]
           \/ UNCHANGED truth /\ \E held : in' = [in EXCEPT !["logs"] = held]
    BY <1>10 DEF WriteLine, Witness
  <2>2. truth'.facts = truth.facts
    BY <1>0, <2>1
  <2>3. CASE UNCHANGED in
    BY <2>1, <2>2, <2>3, OthersWatched
  <2>4. CASE \E held : in' = [in EXCEPT !["logs"] = held]
    BY <1>5, <1>7, <2>1, <2>2, <2>4
  <2> QED BY <2>1, <2>3, <2>4
<1>11. CASE Record
  <2>1. /\ \E held : in' = [in EXCEPT !["history"] = held]
        /\ \E all : truth' = [truth EXCEPT !.records = all]
    BY <1>11 DEF Record
  <2>2. truth'.facts = truth.facts
    BY <1>0, <2>1
  <2> QED BY <1>5, <1>7, <1>11, <2>1, <2>2 DEF Record, Witness
<1>12. CASE Tick
  <2>1. UNCHANGED <<check, truth>> /\ in' = [in EXCEPT !["now"] = in.now + 1]
    BY <1>12 DEF Tick, Witness
  <2>2. \A t \in Watched \cap Read : in'[t] = in[t]
    BY <1>0, <2>1 DEF Watched
  <2> QED BY <2>1, <2>2, OthersWatched
<1>13. CASE UNCHANGED vars
  BY <1>13, OthersWatched DEF vars
<1> QED BY <1>1, <1>2, <1>3, <1>4, <1>6, <1>8, <1>9, <1>10, <1>11, <1>12, <1>13 DEF Next

-----------------------------------------------------------------------------
(* The instances, the sweeps' readings of them, the logs, the timeline.     *)

States == [value : {0, 1, NoVersion}, expected : {0, 1}, primary : BOOLEAN, failed : Int, archived : Int]
Readings == [value : {0, 1, NoVersion}, expected : {0, 1}, primary : BOOLEAN, failed : Int, archived : Int,
             at : Int]

InstancesInv ==
    /\ DOMAIN truth = {"facts", "instances", "unheard", "records"}
    /\ truth.instances \in [Instances -> States]

\* Whether a state is what a per-instance rule looks for.
AilsOf(rule, v) ==
    CASE rule \in {"InstantNonZero", "InstanceFlagSet", "SeriesAbove", "poolerUp"} -> v.value = 1
      [] rule = "InstantZero"            -> v.value = 0
      [] rule = "InstantShortfall"       -> v.expected > 0 /\ v.value < v.expected
      [] rule = "ReplicaFlagSet"         -> v.value = 1 /\ ~v.primary
      [] rule = "InstanceArchiveFailing" ->
            v.failed # Nil /\ (v.archived # Nil => v.failed > v.archived)

Ails(v) == AilsOf(check.rule, v)

MetricsInv == "metrics" \in Read =>
    /\ in.metrics = [f \in {"on", "readings", "samples"} |-> in.metrics[f]]
    /\ in.metrics.on \in BOOLEAN
    /\ DOMAIN in.metrics.readings \subseteq Instances
    /\ \A n \in DOMAIN in.metrics.readings :
          in.metrics.readings[n] \in Readings /\ in.metrics.readings[n].at <= in.now
    /\ check.rule \in Sustained =>
          /\ DOMAIN in.metrics.samples = DOMAIN in.metrics.readings
          /\ \A n \in DOMAIN in.metrics.samples :
                /\ in.metrics.samples[n] \in Seq(Readings) /\ Len(in.metrics.samples[n]) >= 1
                /\ \A i \in DOMAIN in.metrics.samples[n] : in.metrics.samples[n][i].at <= in.now

StatusInv == "status" \in Read =>
    /\ in.status = [f \in {"on", "swept", "readings", "failing"} |-> in.status[f]]
    /\ in.status.on \in BOOLEAN
    /\ in.status.swept \in BOOLEAN
    /\ DOMAIN in.status.readings \subseteq Instances
    /\ in.status.failing \subseteq Instances
    /\ in.status.swept => Instances = DOMAIN in.status.readings \cup in.status.failing
    /\ \A n \in DOMAIN in.status.readings :
          in.status.readings[n] \in Readings /\ in.status.readings[n].at <= in.now

\* An instance manager that gives no version never did.
NamedInv == "status" \in Read =>
    \A n \in DOMAIN in.status.readings :
        (in.status.readings[n].value = NoVersion) = (truth.instances[n].value = NoVersion)

LogsInv == "logs" \in Read =>
    /\ in.logs = [f \in {"on", "observed", "unread"} |-> in.logs[f]]
    /\ in.logs.on \in BOOLEAN

\* The timeline holds no change that was not made.
HistoryInv == "history" \in Read =>
    /\ in.history = [f \in {"on", "entries"} |-> in.history[f]] /\ in.history.on = TRUE
    /\ in.history.entries \subseteq truth.records /\ IsFiniteSet(truth.records)

\* What there is to find is found, at each moment.
Witnessed ==
    /\ calm \in [Subjects -> Int] /\ ill \in [Subjects -> Int]
    /\ \A s \in Subjects :
        /\ calm[s] <= in.now /\ ill[s] <= in.now
        /\ s \in Found(in, truth) => ill[s] = in.now
        /\ s \notin Found(in, truth) => calm[s] = in.now

\* A reading is of the shape readings have.
LEMMA ReadingIs ==
  ASSUME NEW v \in States, NEW t \in Int
  PROVE  readingOf(v, t) \in Readings
BY DEF readingOf, States, Readings

\* The ghosts are told anew at each step, and never go back.
LEMMA WitnessKeeps ==
  ASSUME Witnessed, Witness, in.now \in Int, in'.now \in Int, in'.now >= in.now
  PROVE  /\ Witnessed'
         /\ \A s \in Subjects : calm'[s] >= calm[s] /\ ill'[s] >= ill[s]
<1>1. check' = check
  BY DEF Witness
<1>2. Found(in, truth)' = Found(in', truth')
  BY <1>1 DEF Found, Perfect, Read
<1>3. /\ calm' = [s \in Subjects |-> IF s \in Found(in', truth') THEN calm[s] ELSE in'.now]
      /\ ill' = [s \in Subjects |-> IF s \in Found(in', truth') THEN in'.now ELSE ill[s]]
  BY DEF Witness
<1>4. calm \in [Subjects -> Int] /\ ill \in [Subjects -> Int]
      /\ \A s \in Subjects : calm[s] <= in.now /\ ill[s] <= in.now
  BY DEF Witnessed
<1>5. calm' \in [Subjects -> Int] /\ ill' \in [Subjects -> Int]
  BY <1>3, <1>4
<1> QED BY <1>2, <1>3, <1>4, <1>5 DEF Witnessed

\* What a step leaves as it was.
Stands ==
    /\ check' = check /\ Read' = Read
    /\ in'.now \in Int /\ in'.now >= in.now
    /\ DOMAIN truth' = DOMAIN truth
    /\ \A s \in Swept \cap Read : in'[s] = in[s] \/ Sweep(s)
    /\ "logs" \in Read => \/ in'.logs = in.logs /\ truth'.unheard = truth.unheard
                          \/ WriteLine \/ \E n \in Instances : OpenStream(n) \/ StreamCloses(n)
    /\ "history" \in Read => Record \/ (in'.history = in.history /\ truth'.records = truth.records)
    /\ truth'.instances = truth.instances \/ InstanceChanges
    /\ Witness \/ UNCHANGED vars

\* The step that may hold a source anew.
Touches(s) ==
    \/ s \in Watched
    \/ s \in Swept /\ Sweep(s)
    \/ s = "history" /\ Record
    \/ s = "logs" /\ (WriteLine \/ \E n \in Instances : OpenStream(n) \/ StreamCloses(n))

\* A step that holds one source anew leaves the instances as they were.
LEMMA OneStands ==
  ASSUME HInv, InstancesInv, Witness, NEW s \in Sources, \E held : in' = [in EXCEPT ![s] = held],
         Touches(s),
         DOMAIN truth' = DOMAIN truth, truth'.instances = truth.instances,
         s # "logs" => truth'.unheard = truth.unheard,
         s # "history" => truth'.records = truth.records
  PROVE  Stands
<1>1. check' = check /\ Read' = Read
  BY DEF Witness, Read
<1>2. DOMAIN in = {"now"} \cup Read /\ in.now \in Int
  BY DEF HInv, HeldTypes
<1>3. in'.now = in.now /\ \A t \in Read : t # s => in'[t] = in[t]
  BY <1>2 DEF Sources, Watched, Swept
<1>4. \A t \in Swept \cap Read : in'[t] = in[t] \/ Sweep(t)
  BY <1>3 DEF Watched, Swept, Touches
<1>5. "logs" \in Read => \/ in'.logs = in.logs /\ truth'.unheard = truth.unheard
                         \/ WriteLine \/ \E n \in Instances : OpenStream(n) \/ StreamCloses(n)
  BY <1>3 DEF Watched, Swept, Touches
<1>6. "history" \in Read => Record \/ (in'.history = in.history /\ truth'.records = truth.records)
  BY <1>3 DEF Watched, Swept, Touches
<1> QED BY <1>1, <1>2, <1>3, <1>4, <1>5, <1>6 DEF Stands

\* So does a change of a watched source.
LEMMA BecomesStands ==
  ASSUME HInv, InstancesInv, NEW s \in Watched, NEW facts, Becomes(s, facts)
  PROVE  Stands
<1>1. Witness /\ truth' = [truth EXCEPT !.facts[s] = facts]
  BY DEF Becomes
<1>2. DOMAIN truth' = DOMAIN truth /\ truth'.instances = truth.instances
      /\ truth'.unheard = truth.unheard /\ truth'.records = truth.records
  BY <1>1 DEF InstancesInv
<1>3. \/ \E held : in' = [in EXCEPT ![s] = held]
      \/ in' = in
  BY DEF Becomes
<1>4. CASE \E held : in' = [in EXCEPT ![s] = held]
  BY <1>1, <1>2, <1>4, OneStands DEF Sources, Touches
<1>5. CASE in' = in
  <2>1. in.now \in Int
    BY DEF HInv, HeldTypes
  <2> QED BY <1>1, <1>2, <1>5, <2>1 DEF Stands, Witness, Read
<1> QED BY <1>3, <1>4, <1>5

\* Every step leaves the instances as they were, or changes one.
LEMMA AllStand == ASSUME HInv, InstancesInv, [Next]_vars PROVE Stands
<1>0. in.now \in Int /\ DOMAIN in = {"now"} \cup Read
      /\ DOMAIN truth = {"facts", "instances", "unheard", "records"}
  BY DEF HInv, HeldTypes, InstancesInv
<1>1. ASSUME NEW s \in Watched \cap Read, Observe(s) \/ Lose(s) PROVE Stands
  <2>1. UNCHANGED truth /\ Witness
    BY <1>1 DEF Observe, Lose
  <2>2. \E held : in' = [in EXCEPT ![s] = held]
    <3>1. CASE Observe(s)
      BY <3>1 DEF Observe
    <3>2. CASE Lose(s)
      <4>1. in' = [in EXCEPT ![s] = [in[s] EXCEPT !.stale = TRUE]]
        BY <3>2 DEF Lose
      <4> QED BY <4>1
    <3> QED BY <1>1, <3>1, <3>2
  <2> QED BY <2>1, <2>2, OneStands DEF Sources, Touches
<1>2. ASSUME NEW s \in Watched \cap Read, Change(s) PROVE Stands
  <2>1. PICK facts : Becomes(s, facts)
    BY <1>2 DEF Change
  <2> QED BY <2>1, BecomesStands
<1>3. CASE Emit
  <2>1. PICK facts : Becomes("events", facts)
    BY <1>3 DEF Emit
  <2> QED BY <2>1, BecomesStands DEF Watched
<1>4. ASSUME NEW s \in Swept \cap Read, Sweep(s) PROVE Stands
  <2>1. UNCHANGED truth /\ Witness /\ \E held : in' = [in EXCEPT ![s] = held]
    BY <1>4 DEF Sweep
  <2>2. s \in Sources
    BY DEF Sources
  <2> QED BY <1>4, <2>1, <2>2, OneStands DEF Touches
<1>5. ASSUME NEW n \in Instances, OpenStream(n) \/ StreamCloses(n) PROVE Stands
  <2>1. Witness /\ \E held : in' = [in EXCEPT !["logs"] = held]
    BY <1>5 DEF OpenStream, StreamCloses
  <2>2. truth' = truth
    BY <1>5 DEF OpenStream, StreamCloses
  <2>3. DOMAIN truth' = DOMAIN truth /\ truth'.instances = truth.instances /\ truth'.records = truth.records
    BY <2>2
  <2>4. "logs" \in Sources
    BY DEF Sources
  <2> QED BY <1>5, <2>1, <2>3, <2>4, OneStands DEF Touches
<1>6. CASE InstanceChanges
  <2>1. UNCHANGED in /\ Witness /\ \E all : truth' = [truth EXCEPT !.instances = all]
    BY <1>6 DEF InstanceChanges
  <2>2. DOMAIN truth' = DOMAIN truth /\ truth'.unheard = truth.unheard /\ truth'.records = truth.records
    BY <1>0, <2>1
  <2> QED BY <1>0, <1>6, <2>1, <2>2 DEF Stands, Witness, Read
<1>7. CASE WriteLine
  <2>1. /\ Witness
        /\ \/ UNCHANGED in /\ \E missed : truth' = [truth EXCEPT !.unheard = missed]
           \/ UNCHANGED truth /\ \E held : in' = [in EXCEPT !["logs"] = held]
    BY <1>7 DEF WriteLine
  <2>2. DOMAIN truth' = DOMAIN truth /\ truth'.instances = truth.instances /\ truth'.records = truth.records
    BY <1>0, <2>1
  <2>3. CASE UNCHANGED in
    BY <1>0, <1>7, <2>1, <2>2, <2>3 DEF Stands, Witness, Read
  <2>4. CASE \E held : in' = [in EXCEPT !["logs"] = held]
    <3>1. "logs" \in Sources
      BY DEF Sources
    <3> QED BY <1>7, <2>1, <2>2, <2>4, <3>1, OneStands DEF Touches
  <2> QED BY <2>1, <2>3, <2>4
<1>8. CASE Record
  <2>1. Witness /\ \E held : in' = [in EXCEPT !["history"] = held]
    BY <1>8 DEF Record
  <2>2. \E all : truth' = [truth EXCEPT !.records = all]
    BY <1>8 DEF Record
  <2>3. DOMAIN truth' = DOMAIN truth /\ truth'.instances = truth.instances /\ truth'.unheard = truth.unheard
    BY <1>0, <2>2
  <2>4. "history" \in Sources
    BY DEF Sources
  <2> QED BY <1>8, <2>1, <2>3, <2>4, OneStands DEF Touches
<1>9. CASE Tick
  <2>1. UNCHANGED truth /\ Witness /\ in' = [in EXCEPT !["now"] = in.now + 1]
    BY <1>9 DEF Tick
  <2>2. in'.now = in.now + 1
    BY <1>0, <2>1
  <2>3. \A t \in Read : t # "now" => in'[t] = in[t]
    BY <1>0, <2>1
  <2>4. \A t \in Swept \cap Read : in'[t] = in[t]
    BY <2>3 DEF Swept
  <2>5. check' = check /\ Read' = Read
    BY <2>1 DEF Witness, Read
  <2> QED BY <1>0, <2>1, <2>2, <2>3, <2>4, <2>5 DEF Stands
<1>10. CASE UNCHANGED vars
  BY <1>0, <1>10 DEF vars, Stands, Read
<1> QED BY <1>1, <1>2, <1>3, <1>4, <1>5, <1>6, <1>7, <1>8, <1>9, <1>10 DEF Next

\* What one sweep makes of a store.
ReadNow(store, read) ==
    [n \in DOMAIN store \cup read |->
        IF n \in read THEN readingOf(truth.instances[n], in.now) ELSE store[n]]
AddNow(store, read) ==
    [n \in DOMAIN store \cup read |->
        IF n \notin read THEN store[n]
        ELSE (IF n \in DOMAIN store THEN store[n] ELSE <<>>)
                 \o <<readingOf(truth.instances[n], in.now)>>]

\* What a sweep writes.
LEMMA SweepIs ==
  ASSUME HInv, NEW s \in Swept \cap Read, Sweep(s)
  PROVE  /\ UNCHANGED <<check, truth>> /\ Witness /\ in[s].on /\ in'.now = in.now
         /\ \E read \in SUBSET Instances :
               in'[s] = IF s = "metrics"
                        THEN [on |-> TRUE, readings |-> ReadNow(in[s].readings, read),
                              samples |-> IF check.rule \in Sustained
                                          THEN AddNow(in[s].samples, read) ELSE <<>>]
                        ELSE [on |-> TRUE, swept |-> TRUE, readings |-> ReadNow(in[s].readings, read),
                              failing |-> Instances \ read]
<1>1. DOMAIN in = {"now"} \cup Read /\ s # "now"
  BY DEF HInv, HeldTypes, Swept
<1>2. PICK read \in SUBSET Instances :
         in' = [in EXCEPT ![s] =
                  IF s = "metrics"
                  THEN [on |-> TRUE, readings |-> ReadNow(@.readings, read),
                        samples |-> IF check.rule \in Sustained THEN AddNow(@.samples, read) ELSE <<>>]
                  ELSE [on |-> TRUE, swept |-> TRUE, readings |-> ReadNow(@.readings, read),
                        failing |-> Instances \ read]]
  BY Zenon DEF Sweep, ReadNow, AddNow
<1>3. in'[s] = IF s = "metrics"
               THEN [on |-> TRUE, readings |-> ReadNow(in[s].readings, read),
                     samples |-> IF check.rule \in Sustained THEN AddNow(in[s].samples, read) ELSE <<>>]
               ELSE [on |-> TRUE, swept |-> TRUE, readings |-> ReadNow(in[s].readings, read),
                     failing |-> Instances \ read]
  BY <1>1, <1>2
<1>4. UNCHANGED <<check, truth>> /\ Witness /\ in[s].on
  BY DEF Sweep, Witness
<1>5. in'.now = in.now
  BY <1>1, <1>2
<1> QED BY <1>3, <1>4, <1>5

\* The readings a sweep leaves are readings, none of them later than now.
LEMMA ReadNowTyped ==
  ASSUME InstancesInv, NEW store, DOMAIN store \subseteq Instances, in.now \in Int,
         \A n \in DOMAIN store : store[n] \in Readings /\ store[n].at <= in.now,
         NEW read \in SUBSET Instances
  PROVE  /\ DOMAIN ReadNow(store, read) = DOMAIN store \cup read
         /\ \A n \in DOMAIN ReadNow(store, read) :
               ReadNow(store, read)[n] \in Readings /\ ReadNow(store, read)[n].at <= in.now
<1>1. \A n \in read : readingOf(truth.instances[n], in.now) \in Readings
                      /\ readingOf(truth.instances[n], in.now).at = in.now
  BY ReadingIs DEF InstancesInv, readingOf
<1> QED BY <1>1 DEF ReadNow

KeptSamples(store) ==
    /\ DOMAIN store \subseteq Instances
    /\ \A n \in DOMAIN store : /\ store[n] \in Seq(Readings) /\ Len(store[n]) >= 1
                              /\ \A i \in DOMAIN store[n] : store[n][i].at <= in.now
AddedSamples(store, read) ==
    \A n \in DOMAIN AddNow(store, read) : \A i \in DOMAIN AddNow(store, read)[n] :
        \/ n \in DOMAIN store /\ i \in DOMAIN store[n] /\ AddNow(store, read)[n][i] = store[n][i]
        \/ n \in read /\ AddNow(store, read)[n][i] = readingOf(truth.instances[n], in.now)

\* The samples a sweep leaves are samples, none of them later than now.
LEMMA AddNowTyped ==
  ASSUME InstancesInv, in.now \in Int, NEW store, KeptSamples(store), NEW read \in SUBSET Instances
  PROVE  /\ DOMAIN AddNow(store, read) = DOMAIN store \cup read
         /\ KeptSamples(AddNow(store, read)) /\ AddedSamples(store, read)
<1>0. /\ DOMAIN store \subseteq Instances
      /\ \A n \in DOMAIN store : /\ store[n] \in Seq(Readings) /\ Len(store[n]) >= 1
                                /\ \A i \in DOMAIN store[n] : store[n][i].at <= in.now
  BY DEF KeptSamples
<1>1. DOMAIN AddNow(store, read) = DOMAIN store \cup read
  BY DEF AddNow
<1>2. SUFFICES ASSUME NEW n \in DOMAIN store \cup read
               PROVE  LET new == AddNow(store, read)[n] IN
                      /\ new \in Seq(Readings) /\ Len(new) >= 1
                      /\ \A i \in DOMAIN new :
                            /\ new[i].at <= in.now
                            /\ \/ n \in DOMAIN store /\ i \in DOMAIN store[n] /\ new[i] = store[n][i]
                               \/ n \in read /\ new[i] = readingOf(truth.instances[n], in.now)
  BY <1>0, <1>1 DEF KeptSamples, AddedSamples
<1>3. CASE n \notin read
  <2>1. AddNow(store, read)[n] = store[n]
    BY <1>3 DEF AddNow
  <2> QED BY <1>0, <1>3, <2>1
<1>4. CASE n \in read
  <2> DEFINE r == readingOf(truth.instances[n], in.now)
             old == IF n \in DOMAIN store THEN store[n] ELSE <<>>
             new == old \o <<r>>
  <2>1. r \in Readings /\ r.at = in.now
    BY <1>4, ReadingIs DEF InstancesInv, readingOf
  <2>2. AddNow(store, read)[n] = new
    BY <1>4 DEF AddNow
  <2>3. old \in Seq(Readings) /\ \A i \in DOMAIN old : /\ n \in DOMAIN store /\ i \in DOMAIN store[n]
                                                      /\ old[i] = store[n][i] /\ old[i].at <= in.now
    <3>1. <<>> \in Seq(Readings) /\ DOMAIN <<>> = {}
      OBVIOUS
    <3>2. CASE n \in DOMAIN store
      BY <1>0, <3>2
    <3>3. CASE n \notin DOMAIN store
      BY <3>1, <3>3
    <3> QED BY <3>2, <3>3
  <2> HIDE DEF r, old
  <2>4. new \in Seq(Readings) /\ Len(new) = Len(old) + 1 /\ new[Len(new)] = r
        /\ \A i \in DOMAIN new : i # Len(new) => i \in DOMAIN old /\ new[i] = old[i]
    BY <2>1, <2>3
  <2>5. Len(old) \in Nat
    BY <2>3
  <2> HIDE DEF new
  <2>6. \A i \in DOMAIN new :
            /\ new[i].at <= in.now
            /\ \/ n \in DOMAIN store /\ i \in DOMAIN store[n] /\ new[i] = store[n][i]
               \/ n \in read /\ new[i] = r
    BY <1>4, <2>1, <2>3, <2>4
  <2> QED BY <2>2, <2>4, <2>5, <2>6 DEF r
<1> QED BY <1>3, <1>4

\* What a sweep may find is a state, of an instance.
LEMMA ValuesAreStates ==
  ASSUME NEW now \in Int
  PROVE  /\ InstanceValues(now) \subseteq States /\ Varying \subseteq Instances
         /\ \A v \in InstanceValues(now) : v.value # NoVersion
<1>1. Varying \subseteq Instances
  BY NamesAssumption DEF Varying
<1>2. ASSUME NEW v \in InstanceValues(now) PROVE v \in States /\ v.value # NoVersion
  <2>0. {Nil, now} \subseteq Int
    BY DEF Nil
  <2>1. CASE check.rule = "InstanceArchiveFailing"
    <3>1. v \in [value : {0}, expected : {1}, primary : {FALSE}, failed : {Nil, now}, archived : {Nil, now}]
      BY <2>1 DEF InstanceValues
    <3>2. v.value \in {0, 1}
      BY <3>1
    <3>3. v \in States
      BY <2>0, <3>1 DEF States
    <3> QED BY <3>2, <3>3 DEF NoVersion
  <2>2. CASE check.rule = "ReplicaFlagSet"
    BY <2>2 DEF InstanceValues, States, NoVersion, Nil
  <2>3. CASE check.rule = "InstantShortfall"
    <3>1. v \in [value : {0, 1}, expected : {0, 1}, primary : {FALSE}, failed : {Nil}, archived : {Nil}]
      BY <2>3 DEF InstanceValues
    <3>2. v.value \in {0, 1}
      BY <3>1
    <3>3. v \in States
      BY <2>0, <3>1 DEF States
    <3> QED BY <3>2, <3>3 DEF NoVersion
  <2>4. CASE check.rule \notin {"InstanceArchiveFailing", "ReplicaFlagSet", "InstantShortfall"}
    <3>1. v \in [value : {0, 1}, expected : {1}, primary : {FALSE}, failed : {Nil}, archived : {Nil}]
      BY <2>4 DEF InstanceValues
    <3>2. v.value \in {0, 1}
      BY <3>1
    <3>3. v \in States
      BY <2>0, <3>1 DEF States
    <3> QED BY <3>2, <3>3 DEF NoVersion
  <2> QED BY <2>1, <2>2, <2>3, <2>4
<1> QED BY <1>1, <1>2

\* One instance changes.
LEMMA ChangeIs ==
  ASSUME HInv, InstancesInv, InstanceChanges
  PROVE  \E n \in Instances, v \in States :
            /\ truth'.instances = [truth.instances EXCEPT ![n] = v]
            /\ truth.instances[n].value # NoVersion /\ v.value # NoVersion
<1>1. in.now \in Int
  BY DEF HInv, HeldTypes
<1>2. PICK n \in Varying, v \in InstanceValues(in.now) :
         truth' = [truth EXCEPT !.instances[n] = v] /\ truth.instances[n].value # NoVersion
  BY DEF InstanceChanges
<1>3. truth'.instances = [truth.instances EXCEPT ![n] = v]
  BY <1>2 DEF InstancesInv
<1> QED BY <1>1, <1>2, <1>3, ValuesAreStates

\* The instances keep their states' shape, and what they say of a version.
LEMMA InstancesSteps ==
  ASSUME HInv, InstancesInv, Stands
  PROVE  /\ InstancesInv'
         /\ \A n \in Instances :
               (truth'.instances[n].value = NoVersion) = (truth.instances[n].value = NoVersion)
<1>1. CASE truth'.instances = truth.instances
  BY <1>1 DEF InstancesInv, Stands
<1>2. CASE InstanceChanges
  <2>1. PICK n \in Instances, v \in States :
            /\ truth'.instances = [truth.instances EXCEPT ![n] = v]
            /\ truth.instances[n].value # NoVersion /\ v.value # NoVersion
    BY <1>2, ChangeIs
  <2>2. truth'.instances \in [Instances -> States]
    BY <2>1 DEF InstancesInv
  <2>3. \A m \in Instances : truth'.instances[m] = IF m = n THEN v ELSE truth.instances[m]
    BY <2>1 DEF InstancesInv
  <2>4. \A m \in Instances :
           (truth'.instances[m].value = NoVersion) = (truth.instances[m].value = NoVersion)
    BY <2>1, <2>3
  <2> QED BY <2>2, <2>4 DEF InstancesInv, Stands
<1> QED BY <1>1, <1>2 DEF Stands

\* Every step keeps the shape of the exporters' readings.
LEMMA MetricsSteps ==
  ASSUME HInv, InstancesInv, MetricsInv, Stands
  PROVE  MetricsInv'
<1>0. in.now \in Int /\ check' = check /\ Read' = Read /\ in'.now \in Int /\ in'.now >= in.now
  BY DEF HInv, HeldTypes, Stands
<1> SUFFICES ASSUME "metrics" \in Read PROVE MetricsInv'
  BY <1>0 DEF MetricsInv
<1>1. CASE in'.metrics = in.metrics
  <2>1. \A n \in DOMAIN in.metrics.readings : in.metrics.readings[n].at \in Int
    BY DEF MetricsInv, Readings
  <2>2. check.rule \in Sustained => \A n \in DOMAIN in.metrics.samples :
            \A i \in DOMAIN in.metrics.samples[n] : in.metrics.samples[n][i].at \in Int
    <3> SUFFICES ASSUME check.rule \in Sustained, NEW n \in DOMAIN in.metrics.samples,
                        NEW i \in DOMAIN in.metrics.samples[n]
                 PROVE  in.metrics.samples[n][i].at \in Int
      OBVIOUS
    <3>1. in.metrics.samples[n] \in Seq(Readings)
      BY DEF MetricsInv
    <3>2. in.metrics.samples[n][i] \in Readings
      BY <3>1
    <3> QED BY <3>2 DEF Readings
  <2>3. \A n \in DOMAIN in.metrics.readings : in.metrics.readings[n].at <= in'.now
    BY <1>0, <2>1 DEF MetricsInv
  <2>4. check.rule \in Sustained => \A n \in DOMAIN in.metrics.samples :
            \A i \in DOMAIN in.metrics.samples[n] : in.metrics.samples[n][i].at <= in'.now
    BY <1>0, <2>2 DEF MetricsInv
  <2> QED BY <1>0, <1>1, <2>3, <2>4 DEF MetricsInv
<1>2. CASE Sweep("metrics")
  <2>1. "metrics" \in Swept \cap Read
    BY DEF Swept
  <2>2. in.metrics.on /\ in'.now = in.now
        /\ \E read \in SUBSET Instances :
              in'.metrics = [on |-> TRUE, readings |-> ReadNow(in.metrics.readings, read),
                             samples |-> IF check.rule \in Sustained
                                         THEN AddNow(in.metrics.samples, read) ELSE <<>>]
    BY <1>2, <2>1, SweepIs
  <2>3. PICK read \in SUBSET Instances :
              in'.metrics = [on |-> TRUE, readings |-> ReadNow(in.metrics.readings, read),
                             samples |-> IF check.rule \in Sustained
                                         THEN AddNow(in.metrics.samples, read) ELSE <<>>]
    BY <2>2
  <2> DEFINE store == in.metrics.readings
             kept == in.metrics.samples
             news == ReadNow(store, read)
             more == IF check.rule \in Sustained THEN AddNow(kept, read) ELSE <<>>
  <2>4. /\ DOMAIN store \subseteq Instances
        /\ \A n \in DOMAIN store : store[n] \in Readings /\ store[n].at <= in.now
    BY DEF MetricsInv
  <2>5. /\ DOMAIN news = DOMAIN store \cup read
        /\ \A n \in DOMAIN news : news[n] \in Readings /\ news[n].at <= in.now
    BY <1>0, <2>4, ReadNowTyped
  <2>6. check.rule \in Sustained =>
          /\ DOMAIN more = DOMAIN store \cup read
          /\ \A n \in DOMAIN more :
               /\ more[n] \in Seq(Readings) /\ Len(more[n]) >= 1
               /\ \A i \in DOMAIN more[n] : more[n][i].at <= in.now
    <3> SUFFICES ASSUME check.rule \in Sustained
                 PROVE  /\ DOMAIN more = DOMAIN store \cup read
                        /\ \A n \in DOMAIN more :
                             /\ more[n] \in Seq(Readings) /\ Len(more[n]) >= 1
                             /\ \A i \in DOMAIN more[n] : more[n][i].at <= in.now
      OBVIOUS
    <3>1. DOMAIN kept = DOMAIN store /\ KeptSamples(kept)
      BY DEF MetricsInv, KeptSamples
    <3>2. more = AddNow(kept, read)
      OBVIOUS
    <3> HIDE DEF more, store, kept
    <3>3. DOMAIN AddNow(kept, read) = DOMAIN kept \cup read /\ KeptSamples(AddNow(kept, read))
      BY <1>0, <3>1, AddNowTyped
    <3> QED BY <3>1, <3>2, <3>3 DEF KeptSamples
  <2> HIDE DEF news, more
  <2>7. in'.metrics = [on |-> TRUE, readings |-> news, samples |-> more]
    BY <2>3 DEF news, more
  <2>8. DOMAIN store \cup read \subseteq Instances
    BY <2>4
  <2> HIDE DEF store
  <2> QED BY <1>0, <2>2, <2>5, <2>6, <2>7, <2>8 DEF MetricsInv
<1> QED BY <1>1, <1>2 DEF Stands, Swept

\* Every step keeps the shape of the managers' reports, and every instance
\* is read or named failing once there was a sweep.
LEMMA StatusSteps ==
  ASSUME HInv, InstancesInv, StatusInv, Stands
  PROVE  StatusInv'
<1>0. in.now \in Int /\ check' = check /\ Read' = Read /\ in'.now \in Int /\ in'.now >= in.now
  BY DEF HInv, HeldTypes, Stands
<1> SUFFICES ASSUME "status" \in Read PROVE StatusInv'
  BY <1>0 DEF StatusInv
<1>1. CASE in'.status = in.status
  <2>1. \A n \in DOMAIN in.status.readings : in.status.readings[n].at \in Int
    BY DEF StatusInv, Readings
  <2>2. \A n \in DOMAIN in.status.readings : in.status.readings[n].at <= in'.now
    BY <1>0, <2>1 DEF StatusInv
  <2> QED BY <1>0, <1>1, <2>2 DEF StatusInv
<1>2. CASE Sweep("status")
  <2>1. "status" \in Swept \cap Read
    BY DEF Swept
  <2>2. in'.now = in.now
        /\ \E read \in SUBSET Instances :
              in'.status = [on |-> TRUE, swept |-> TRUE, readings |-> ReadNow(in.status.readings, read),
                            failing |-> Instances \ read]
    BY <1>2, <2>1, SweepIs
  <2>3. PICK read \in SUBSET Instances :
              in'.status = [on |-> TRUE, swept |-> TRUE, readings |-> ReadNow(in.status.readings, read),
                            failing |-> Instances \ read]
    BY <2>2
  <2> DEFINE store == in.status.readings
             news == ReadNow(store, read)
  <2>4. /\ DOMAIN store \subseteq Instances
        /\ \A n \in DOMAIN store : store[n] \in Readings /\ store[n].at <= in.now
    BY DEF StatusInv
  <2>5. /\ DOMAIN news = DOMAIN store \cup read
        /\ \A n \in DOMAIN news : news[n] \in Readings /\ news[n].at <= in.now
    BY <1>0, <2>4, ReadNowTyped
  <2> HIDE DEF news
  <2>7. in'.status = [on |-> TRUE, swept |-> TRUE, readings |-> news, failing |-> Instances \ read]
    BY <2>3 DEF news
  <2>8. Instances = (DOMAIN store \cup read) \cup (Instances \ read)
        /\ DOMAIN store \cup read \subseteq Instances
    BY <2>4
  <2> HIDE DEF store
  <2>9. in'.status = [f \in {"on", "swept", "readings", "failing"} |-> in'.status[f]]
    BY <2>7
  <2> QED BY <1>0, <2>2, <2>5, <2>7, <2>8, <2>9 DEF StatusInv
<1> QED BY <1>1, <1>2 DEF Stands, Swept

\* A sweep brings back what an instance says of its version.
LEMMA NamedSteps ==
  ASSUME HInv, InstancesInv, StatusInv, NamedInv, Stands
  PROVE  NamedInv'
<1>0. Read' = Read
  BY DEF Stands
<1> SUFFICES ASSUME "status" \in Read PROVE NamedInv'
  BY <1>0 DEF NamedInv
<1>1. /\ DOMAIN in.status.readings \subseteq Instances
      /\ \A n \in Instances :
            (truth'.instances[n].value = NoVersion) = (truth.instances[n].value = NoVersion)
  BY InstancesSteps DEF StatusInv
<1>2. CASE in'.status = in.status
  BY <1>1, <1>2 DEF NamedInv
<1>3. CASE Sweep("status")
  <2>1. "status" \in Swept \cap Read
    BY DEF Swept
  <2>2. PICK read \in SUBSET Instances :
              in'.status = [on |-> TRUE, swept |-> TRUE, readings |-> ReadNow(in.status.readings, read),
                            failing |-> Instances \ read]
    BY <1>3, <2>1, SweepIs
  <2>3. PICK news : news = ReadNow(in.status.readings, read)
    OBVIOUS
  <2>4. in'.status.readings = news
    BY <2>2, <2>3
  <2>5. /\ DOMAIN news = DOMAIN in.status.readings \cup read
        /\ \A n \in DOMAIN news : news[n].value = IF n \in read THEN truth.instances[n].value
                                                  ELSE in.status.readings[n].value
    BY <2>3 DEF ReadNow, readingOf
  <2>6. \A n \in DOMAIN news : (news[n].value = NoVersion) = (truth'.instances[n].value = NoVersion)
    BY <1>1, <2>5 DEF NamedInv
  <2> QED BY <2>4, <2>6 DEF NamedInv
<1> QED BY <1>2, <1>3 DEF Stands, Swept

\* Every step keeps the shape of the logs.
LEMMA LogsSteps ==
  ASSUME HInv, InstancesInv, LogsInv, Stands
  PROVE  LogsInv'
<1>0. Read' = Read /\ DOMAIN in = {"now"} \cup Read
  BY DEF HInv, HeldTypes, Stands
<1> SUFFICES ASSUME "logs" \in Read PROVE LogsInv'
  BY <1>0 DEF LogsInv
<1>1. CASE in'.logs = in.logs
  BY <1>1 DEF LogsInv
<1>2. CASE WriteLine
  <2>1. PICK n \in Instances :
           IF n \in in.logs.unread \/ ~in.logs.on THEN in' = in
           ELSE in' = [in EXCEPT !["logs"].observed = in.logs.observed \cup {n}]
    BY <1>2 DEF WriteLine
  <2>2. CASE in' = in
    BY <2>2 DEF LogsInv
  <2>3. CASE in' = [in EXCEPT !["logs"].observed = in.logs.observed \cup {n}]
    <3>1. in'.logs = [in.logs EXCEPT !.observed = in.logs.observed \cup {n}]
      BY <1>0, <2>3
    <3> QED BY <3>1 DEF LogsInv
  <2> QED BY <2>1, <2>2, <2>3
<1>3. ASSUME NEW n \in Instances, OpenStream(n) PROVE LogsInv'
  <2>1. in'.logs = [in.logs EXCEPT !.unread = in.logs.unread \ {n}]
    BY <1>0, <1>3 DEF OpenStream
  <2> QED BY <2>1 DEF LogsInv
<1>4. ASSUME NEW n \in Instances, StreamCloses(n) PROVE LogsInv'
  <2>1. in'.logs = [in.logs EXCEPT !.unread = in.logs.unread \cup {n}]
    BY <1>0, <1>4 DEF StreamCloses
  <2> QED BY <2>1 DEF LogsInv
<1> QED BY <1>1, <1>2, <1>3, <1>4 DEF Stands

\* Every step keeps the timeline within what was made.
LEMMA HistorySteps ==
  ASSUME HInv, InstancesInv, HistoryInv, Stands
  PROVE  HistoryInv'
<1>0. Read' = Read /\ DOMAIN in = {"now"} \cup Read
  BY DEF HInv, HeldTypes, Stands
<1> SUFFICES ASSUME "history" \in Read PROVE HistoryInv'
  BY <1>0 DEF HistoryInv
<1>1. CASE in'.history = in.history /\ truth'.records = truth.records
  BY <1>1 DEF HistoryInv
<1>2. CASE Record
  <2>1. PICK record : \E kept \in SUBSET (in.history.entries \cup {record}) :
           /\ truth' = [truth EXCEPT !.records = truth.records \cup {record}]
           /\ in' = [in EXCEPT !["history"].entries = kept]
    BY <1>2 DEF Record
  <2>0. PICK kept \in SUBSET (in.history.entries \cup {record}) :
           in' = [in EXCEPT !["history"].entries = kept]
    BY <2>1
  <2>2. in'.history = [in.history EXCEPT !.entries = kept]
    BY <1>0, <2>0
  <2>3. truth'.records = truth.records \cup {record}
    BY <2>1 DEF InstancesInv
  <2>4. IsFiniteSet(truth'.records)
    BY <2>3, FS_AddElement DEF HistoryInv
  <2>5. kept \subseteq truth'.records
    BY <2>0, <2>3 DEF HistoryInv
  <2>6. in'.history.entries = kept /\ in'.history.on = in.history.on
        /\ in'.history = [f \in {"on", "entries"} |-> in'.history[f]]
    BY <2>2 DEF HistoryInv
  <2> QED BY <2>4, <2>5, <2>6 DEF HistoryInv
<1> QED BY <1>1, <1>2 DEF Stands

\* What a sweep of an instance brings in, of a store that has just been filled.
JustRead(input, real) == [n \in Instances |-> readingOf(real.instances[n], input.now)]
JustKept(input, real) == [n \in Instances |-> [i \in 1..2 |-> readingOf(real.instances[n], input.now)]]

\* The fields of what a console that sees everything holds.
IsPerfect(P, input, real) ==
    /\ P.now = input.now
    /\ "cluster" \in Read => P.cluster = [has |-> TRUE, stale |-> FALSE,
           facts |-> real.facts.cluster, since |-> input.cluster.since]
    /\ "evidence" \in Read => P.evidence = [on |-> TRUE, has |-> TRUE, stale |-> FALSE,
           facts |-> real.facts.evidence]
    /\ \A s \in (Watched \ {"cluster", "evidence"}) \cap Read :
           P[s] = [has |-> TRUE, stale |-> FALSE, facts |-> real.facts[s]]
    /\ \A s \in Swept \cap Read : P[s] = [on |-> TRUE, swept |-> TRUE, failing |-> {},
           readings |-> JustRead(input, real), samples |-> JustKept(input, real)]
    /\ "logs" \in Read => P.logs = [on |-> TRUE, observed |-> input.logs.observed \cup real.unheard,
           unread |-> {}]
    /\ "history" \in Read => P.history = [on |-> TRUE, entries |-> real.records]

\* What a console that sees everything holds has these fields.
LEMMA PerfectIs == ASSUME NEW input, NEW real PROVE IsPerfect(Perfect(input, real), input, real)
<1>0. PICK P : P = Perfect(input, real)
  OBVIOUS
<1>1. P.now = input.now
  BY <1>0 DEF Perfect, Watched, Swept
<1>2. "cluster" \in Read => P.cluster = [has |-> TRUE, stale |-> FALSE,
         facts |-> real.facts.cluster, since |-> input.cluster.since]
  BY <1>0 DEF Perfect, Watched, Swept
<1>3. "evidence" \in Read => P.evidence = [on |-> TRUE, has |-> TRUE, stale |-> FALSE,
         facts |-> real.facts.evidence]
  BY <1>0 DEF Perfect, Watched, Swept
<1>5. \A s \in (Watched \ {"cluster", "evidence"}) \cap Read :
         P[s] = [has |-> TRUE, stale |-> FALSE, facts |-> real.facts[s]]
  BY <1>0 DEF Perfect, Watched, Swept
<1>6. \A s \in Swept \cap Read : P[s] = [on |-> TRUE, swept |-> TRUE, failing |-> {},
         readings |-> JustRead(input, real), samples |-> JustKept(input, real)]
  BY <1>0 DEF Perfect, Watched, Swept, JustRead, JustKept
<1>7. "logs" \in Read => P.logs = [on |-> TRUE, observed |-> input.logs.observed \cup real.unheard,
         unread |-> {}]
  BY <1>0 DEF Perfect, Watched, Swept
<1>8. "history" \in Read => P.history = [on |-> TRUE, entries |-> real.records]
  BY <1>0 DEF Perfect, Watched, Swept
<1> QED BY <1>0, <1>1, <1>2, <1>3, <1>5, <1>6, <1>7, <1>8 DEF IsPerfect

\* What a result says, and of whom.
LEMMA ResultFields ==
  /\ \A S : Matches(S).on = S /\ Matches(S).because = ""
  /\ \A why : Unavailable(why).on = {} /\ Unavailable(why).because = why
  /\ Clear.on = {} /\ Clear.because = "" /\ \A S : S # {} => Matches(S) # Clear
  /\ OnCluster(TRUE) = Matches({Cluster}) /\ OnCluster(FALSE) = Clear
BY DEF Matches, Unavailable, Clear, OnCluster

\* evaluateRule without a pin.
LEMMA Unpinned ==
  ASSUME NEW x, NEW r
  PROVE  /\ r.because = "" /\ r # Clear => evaluateRule(x, Nil, r) = "matched"
         /\ r = Clear => evaluateRule(x, Nil, r) = "clear"
         /\ r.because = "off" => evaluateRule(x, Nil, r) = "off"
         /\ r.because \notin {"", "off"} => evaluateRule(x, Nil, r) = "unavailable"
BY ResultFields DEF evaluateRule, sourceOff

\* Two samples are enough to judge a series by.
LEMMA PairIsTwo == Cardinality({1, 2}) = 2
<1>1. IsFiniteSet({1}) /\ Cardinality({1}) = 1
  BY FS_Singleton
<1>2. {1, 2} = {1} \cup {2} /\ 2 \notin {1}
  OBVIOUS
<1>3. Cardinality({1} \cup {2}) = Cardinality({1}) + 1
  BY <1>1, <1>2, FS_AddElement
<1> QED BY <1>1, <1>2, <1>3

\* The rules that judge each instance by itself.
ByMetrics == {"InstantNonZero", "InstantZero", "InstantShortfall", "SeriesAbove"}
ByStatus == {"InstanceFlagSet", "ReplicaFlagSet", "InstanceArchiveFailing"}

\* The sources of the check are those its rule consults.
LEMMA ReadIs ==
  ASSUME HeldTypes
  PROVE  /\ Read = Consulted(check.rule) /\ check.rule \in RulesOfOne \cup RulesOfMany
         /\ check.rule \in ByMetrics => Read = {"metrics"}
         /\ check.rule \in ByStatus \cup {"InstanceManagerDrift"} => Read = {"status"}
<1>1. Read = Consulted(check.rule) /\ check.rule \in RulesOfOne \cup RulesOfMany
  BY SourcesAssumption DEF HeldTypes, Read
<1>2. check.rule \in ByMetrics => Consulted(check.rule) = {"metrics"}
  BY DEF ByMetrics, Consulted, ClusterRules, BackupRules, StatusRules, MetricRules, EventRules, HistoryRules
<1>3. check.rule \in ByStatus \cup {"InstanceManagerDrift"} => Consulted(check.rule) = {"status"}
  BY DEF ByStatus, Consulted, ClusterRules, BackupRules, StatusRules, MetricRules, EventRules, HistoryRules
<1> QED BY <1>1, <1>2, <1>3

\* A reading just taken is current.
LEMMA JustReadIs ==
  ASSUME NEW input, NEW real, input.now \in Int,
         real.instances \in [Instances -> States], NEW x, x.now = input.now
  PROVE  /\ DOMAIN JustRead(input, real) = Instances
         /\ \A n \in Instances : /\ current(x, JustRead(input, real)[n])
                         /\ JustRead(input, real)[n] = readingOf(real.instances[n], input.now)
                         /\ real.instances[n] \in States
                         /\ readingOf(real.instances[n], input.now) \in Readings
                         /\ readingOf(real.instances[n], input.now).at = input.now
<1>1. Horizon \in Nat
  BY TimesAssumption
<1>2. \A n \in Instances : real.instances[n] \in States
  OBVIOUS
<1>3. \A n \in Instances : readingOf(real.instances[n], input.now) \in Readings
                   /\ readingOf(real.instances[n], input.now).at = input.now
  BY <1>2, ReadingIs DEF readingOf
<1>4. DOMAIN JustRead(input, real) = Instances
      /\ \A n \in Instances : JustRead(input, real)[n] = readingOf(real.instances[n], input.now)
  BY DEF JustRead
<1>5. \A n \in Instances : current(x, JustRead(input, real)[n])
  BY <1>1, <1>3, <1>4 DEF current
<1> QED BY <1>2, <1>3, <1>4, <1>5

\* A series that has just been read, by a console that sees everything.
LEMMA SeriesOfPerfect ==
  ASSUME "metrics" \in Read, NEW input, NEW real,
         input.now \in Int, real.instances \in [Instances -> States]
  PROVE  SeriesAbove(Perfect(input, real)) = Matches({n \in Instances : real.instances[n].value = 1})
<1> DEFINE store == JustRead(input, real)
<1>0. PICK P : P = Perfect(input, real)
  OBVIOUS
<1>1. "metrics" \in Read /\ "metrics" \in Swept
  BY DEF Swept
<1>2. /\ P.now = input.now /\ P.metrics.on = TRUE /\ P.metrics.readings = store
      /\ P.metrics.samples = JustKept(input, real)
  <2>0. IsPerfect(P, input, real)
    BY <1>0, PerfectIs
  <2>1. P["metrics"] = [on |-> TRUE, swept |-> TRUE, failing |-> {},
                 readings |-> store, samples |-> JustKept(input, real)]
    BY <1>1, <2>0 DEF IsPerfect
  <2>2. P.now = input.now
    BY <2>0 DEF IsPerfect
  <2> QED BY <2>1, <2>2
<1>4. /\ DOMAIN store = Instances
      /\ \A n \in Instances : /\ current(P, store[n])
                      /\ store[n] = readingOf(real.instances[n], input.now)
                      /\ real.instances[n] \in States
  BY <1>2, JustReadIs
<1> HIDE DEF store
<1>5. {n \in DOMAIN P.metrics.readings : ~current(P, P.metrics.readings[n])} = {}
  BY <1>2, <1>4
<1>6. \A n \in Instances : /\ store[n].value = real.instances[n].value
                   /\ store[n].expected = real.instances[n].expected
  BY <1>4 DEF readingOf
<1> DEFINE kept == P.metrics.samples
           last(n) == kept[n][Len(kept[n])]
           trailing(n) == {i \in DOMAIN kept[n] : kept[n][i].at >= P.now - Span}
<1>20. kept = JustKept(input, real)
  BY <1>2
<1> HIDE DEF kept
<1>21. DOMAIN kept = Instances
  BY <1>20 DEF JustKept
<1>22. \A n \in Instances : /\ DOMAIN kept[n] = 1..2 /\ Len(kept[n]) = 2
                   /\ \A i \in 1..2 : kept[n][i] = store[n]
  <2> SUFFICES ASSUME NEW n \in Instances
               PROVE  DOMAIN kept[n] = 1..2 /\ Len(kept[n]) = 2 /\ \A i \in 1..2 : kept[n][i] = store[n]
    OBVIOUS
  <2>1. kept[n] = [i \in 1..2 |-> store[n]]
    BY <1>4, <1>20 DEF JustKept
  <2>2. kept[n] \in Seq({store[n]})
    BY <2>1
  <2> QED BY <2>1, <2>2
<1>23. \A n \in Instances : last(n) = store[n]
  BY <1>22
<1>24. \A n \in Instances : trailing(n) = {1, 2}
  <2>1. Span \in Nat /\ \A n \in Instances : store[n].at = P.now
    BY TimesAssumption, <1>2, <1>4 DEF readingOf
  <2> QED BY <1>2, <1>22, <2>1
<1>25. Cardinality({1, 2}) = 2
  BY PairIsTwo
<1> HIDE DEF last, trailing
<1> DEFINE refused  == {n \in DOMAIN kept : ~current(P, last(n))}
           up       == {n \in DOMAIN kept \ refused : last(n).value = 1}
           unjudged == {n \in up : Cardinality(trailing(n)) < 2}
           breached == {n \in up \ unjudged : \A i \in trailing(n) : kept[n][i].value = 1}
<1>26. refused = {}
  BY <1>4, <1>21, <1>23
<1>27. up = {n \in Instances : real.instances[n].value = 1}
  BY <1>6, <1>21, <1>23, <1>26
<1>28. unjudged = {}
  BY <1>21, <1>24, <1>25, <1>26
<1>29. breached = up
  BY <1>6, <1>21, <1>22, <1>23, <1>24, <1>26, <1>27, <1>28
<1>30. SeriesAbove(P) = Judged(breached, refused \cup unjudged)
  BY <1>2, Zenon DEF SeriesAbove, Unless, offUnless, kept, last, trailing
<1> HIDE DEF refused, up, unjudged, breached
<1>31. SeriesAbove(P) = Matches(breached)
  BY <1>26, <1>28, <1>30 DEF Judged
<1>32. breached = {n \in Instances : real.instances[n].value = 1}
  BY <1>27, <1>29
<1> QED BY <1>0, <1>31, <1>32

\* Found by the exporters' sweep: the instances that ail, among those read.
LEMMA FoundByMetrics ==
  ASSUME HeldTypes, check.rule \in ByMetrics, NEW input, NEW real,
         input.now \in Int, real.instances \in [Instances -> States]
  PROVE  Found(input, real) = {n \in Instances : Ails(real.instances[n])}
<1> DEFINE store == JustRead(input, real)
<1>0. PICK P : P = Perfect(input, real)
  OBVIOUS
<1>1. "metrics" \in Read /\ "metrics" \in Swept
  BY ReadIs DEF Swept
<1>2. /\ P.now = input.now /\ P.metrics.on = TRUE /\ P.metrics.readings = store
      /\ P.metrics.samples = JustKept(input, real)
  <2>0. IsPerfect(P, input, real)
    BY <1>0, PerfectIs
  <2>1. P["metrics"] = [on |-> TRUE, swept |-> TRUE, failing |-> {},
                 readings |-> store, samples |-> JustKept(input, real)]
    BY <1>1, <2>0 DEF IsPerfect
  <2>2. P.now = input.now
    BY <2>0 DEF IsPerfect
  <2> QED BY <2>1, <2>2
<1>3. Found(input, real) = Evaluate(check.rule, P).on
  BY <1>0 DEF Found
<1>4. /\ DOMAIN store = Instances
      /\ \A n \in Instances : /\ current(P, store[n])
                      /\ store[n] = readingOf(real.instances[n], input.now)
                      /\ real.instances[n] \in States
  BY <1>2, JustReadIs
<1> HIDE DEF store
<1>5. {n \in DOMAIN P.metrics.readings : ~current(P, P.metrics.readings[n])} = {}
  BY <1>2, <1>4
<1>6. \A n \in Instances : /\ store[n].value = real.instances[n].value
                   /\ store[n].expected = real.instances[n].expected
  BY <1>4 DEF readingOf
<1>7. CASE check.rule = "InstantNonZero"
  <2>1. Evaluate(check.rule, P) = Instant(P, 1)
    BY <1>7 DEF Evaluate
  <2>2. Instant(P, 1).on = {n \in Instances : store[n].value = 1}
    BY <1>2, <1>4, <1>5 DEF Instant, Unless, offUnless, Judged, Matches, Unavailable
  <2> QED BY <1>3, <1>6, <1>7, <2>1, <2>2 DEF Ails, AilsOf
<1>8. CASE check.rule = "InstantZero"
  <2>1. Evaluate(check.rule, P) = Instant(P, 0)
    BY <1>8 DEF Evaluate
  <2>2. Instant(P, 0).on = {n \in Instances : store[n].value = 0}
    BY <1>2, <1>4, <1>5 DEF Instant, Unless, offUnless, Judged, Matches, Unavailable
  <2> QED BY <1>3, <1>6, <1>8, <2>1, <2>2 DEF Ails, AilsOf
<1>9. CASE check.rule = "InstantShortfall"
  <2>1. Evaluate(check.rule, P) = InstantShortfall(P)
    BY <1>9 DEF Evaluate
  <2>2. InstantShortfall(P).on = {n \in Instances : store[n].expected > 0 /\ store[n].value < store[n].expected}
    BY <1>2, <1>4, <1>5 DEF InstantShortfall, Unless, offUnless, Judged, Matches, Unavailable
  <2> QED BY <1>3, <1>6, <1>9, <2>1, <2>2 DEF Ails, AilsOf
<1>10. CASE check.rule = "SeriesAbove"
  <2>1. Evaluate(check.rule, P) = SeriesAbove(P)
    BY <1>10 DEF Evaluate
  <2>2. SeriesAbove(P) = Matches({n \in Instances : real.instances[n].value = 1})
    BY <1>0, <1>1, SeriesOfPerfect
  <2>3. Found(input, real) = {n \in Instances : real.instances[n].value = 1}
    BY <1>3, <2>1, <2>2, ResultFields
  <2> QED BY <1>10, <2>3 DEF Ails, AilsOf
<1> QED BY <1>7, <1>8, <1>9, <1>10 DEF ByMetrics

\* Found by the managers' sweep: likewise.
LEMMA FoundByStatus ==
  ASSUME HeldTypes, check.rule \in ByStatus, NEW input, NEW real,
         input.now \in Int, real.instances \in [Instances -> States]
  PROVE  Found(input, real) = {n \in Instances : Ails(real.instances[n])}
<1> DEFINE store == JustRead(input, real)
<1>0. PICK P : P = Perfect(input, real)
  OBVIOUS
<1>1. "status" \in Read /\ "status" \in Swept
  BY ReadIs DEF Swept
<1>2. /\ P.now = input.now /\ P.status.on = TRUE /\ P.status.swept = TRUE /\ P.status.failing = {}
      /\ P.status.readings = store
  <2>0. IsPerfect(P, input, real)
    BY <1>0, PerfectIs
  <2>1. P["status"] = [on |-> TRUE, swept |-> TRUE, failing |-> {},
                 readings |-> store, samples |-> JustKept(input, real)]
    BY <1>1, <2>0 DEF IsPerfect
  <2>2. P.now = input.now
    BY <2>0 DEF IsPerfect
  <2> QED BY <2>1, <2>2
<1>3. Found(input, real) = Evaluate(check.rule, P).on
  BY <1>0 DEF Found
<1>4. /\ DOMAIN store = Instances
      /\ \A n \in Instances : /\ current(P, store[n])
                      /\ store[n] = readingOf(real.instances[n], input.now)
                      /\ real.instances[n] \in States
  BY <1>2, JustReadIs
<1>5. DOMAIN freshReports(P) = Instances /\ \A n \in Instances : freshReports(P)[n] = store[n]
  <2> HIDE DEF store
  <2> QED BY <1>2, <1>4 DEF freshReports
<1> HIDE DEF store
<1>6. \A n \in Instances : /\ store[n].value = real.instances[n].value
                   /\ store[n].primary = real.instances[n].primary
                   /\ store[n].failed = real.instances[n].failed
                   /\ store[n].archived = real.instances[n].archived
  BY <1>4 DEF readingOf
<1>7. \A subjects : OnReports(P, subjects).on = subjects
  BY <1>2, <1>4, <1>5 DEF OnReports, Unless, offUnless, Judged, Matches, Unavailable
<1>8. CASE check.rule = "InstanceFlagSet"
  BY <1>3, <1>5, <1>6, <1>7, <1>8 DEF Evaluate, InstanceFlagSet, flagged, Ails, AilsOf
<1>9. CASE check.rule = "ReplicaFlagSet"
  BY <1>3, <1>5, <1>6, <1>7, <1>9 DEF Evaluate, ReplicaFlagSet, flaggedReplica, Ails, AilsOf
<1>10. CASE check.rule = "InstanceArchiveFailing"
  BY <1>3, <1>5, <1>6, <1>7, <1>10 DEF Evaluate, InstanceArchiveFailing, archiveFailing, Ails, AilsOf
<1> QED BY <1>8, <1>9, <1>10 DEF ByStatus

\* Two managers that do not run the same drift, in one sweep of all.
LEMMA FoundDrift ==
  ASSUME HeldTypes, check.rule = "InstanceManagerDrift", NEW input, NEW real,
         input.now \in Int, real.instances \in [Instances -> States],
         NEW n \in Instances, NEW m \in Instances, real.instances[n].value # real.instances[m].value,
         NoVersion \notin {real.instances[n].value, real.instances[m].value}
  PROVE  Cluster \in Found(input, real)
<1> DEFINE store == JustRead(input, real)
<1>0. PICK P : P = Perfect(input, real)
  OBVIOUS
<1>1. "status" \in Read /\ "status" \in Swept
  BY ReadIs DEF Swept
<1>2. /\ P.now = input.now /\ P.status.on = TRUE /\ P.status.swept = TRUE /\ P.status.failing = {}
      /\ P.status.readings = store
  <2>0. IsPerfect(P, input, real)
    BY <1>0, PerfectIs
  <2>1. P["status"] = [on |-> TRUE, swept |-> TRUE, failing |-> {},
                 readings |-> store, samples |-> JustKept(input, real)]
    BY <1>1, <2>0 DEF IsPerfect
  <2>2. P.now = input.now
    BY <2>0 DEF IsPerfect
  <2> QED BY <2>1, <2>2
<1>3. Found(input, real) = InstanceManagerDrift(P).on
  BY <1>0 DEF Found, Evaluate
<1>4. /\ DOMAIN store = Instances
      /\ \A k \in Instances : /\ current(P, store[k])
                              /\ store[k] = readingOf(real.instances[k], input.now)
                              /\ real.instances[k] \in States
  BY <1>2, JustReadIs
<1> HIDE DEF store
<1>5. DOMAIN freshReports(P) = Instances /\ \A k \in Instances : freshReports(P)[k] = store[k]
  BY <1>2, <1>4 DEF freshReports
<1>6. \A k \in Instances : /\ store[k].value = real.instances[k].value
                          /\ real.instances[k].value \in {0, 1, NoVersion}
  BY <1>4 DEF readingOf, States
<1> DEFINE seen == {freshReports(P)[k].value : k \in DOMAIN freshReports(P)}
<1>7. seen \ {NoVersion} = {0, 1}
  <2>1. real.instances[n].value \in seen /\ real.instances[m].value \in seen
    BY <1>5, <1>6
  <2>2. seen \subseteq {0, 1, NoVersion}
    BY <1>5, <1>6
  <2> HIDE DEF seen
  <2>3. {real.instances[n].value, real.instances[m].value} = {0, 1}
    BY <1>6
  <2> QED BY <2>1, <2>2, <2>3 DEF NoVersion
<1> HIDE DEF seen
<1>8. Cardinality({0, 1}) = 2
  <2>1. IsFiniteSet({0}) /\ Cardinality({0}) = 1
    BY FS_Singleton
  <2>2. {0, 1} = {0} \cup {1} /\ 1 \notin {0}
    OBVIOUS
  <2>3. Cardinality({0} \cup {1}) = Cardinality({0}) + 1
    BY <2>1, <2>2, FS_AddElement
  <2> QED BY <2>1, <2>2, <2>3
<1>9. drifting(freshReports(P)) = {Cluster}
  <2>1. ~(Cardinality(seen \ {NoVersion}) < 2)
    BY <1>7, <1>8
  <2> QED BY <2>1, Zenon DEF drifting, seen
<1>10. \A subjects : OnReports(P, subjects).on = subjects
  BY <1>2, <1>4, <1>5 DEF OnReports, Unless, offUnless, Judged, Matches, Unavailable
<1> QED BY <1>3, <1>9, <1>10 DEF InstanceManagerDrift

\* An exporter that reports what it should not, in one sweep of all.
LEMMA FoundPooler ==
  ASSUME HeldTypes, check.rule = "poolerUp", NEW input, NEW real,
         input.now \in Int, real.instances \in [Instances -> States],
         NEW n \in Instances, real.instances[n].value = 1
  PROVE  Cluster \in Found(input, real)
<1>0. PICK P : P = Perfect(input, real)
  OBVIOUS
<1>1. "metrics" \in Read
  BY ReadIs DEF Consulted, ClusterRules, BackupRules, StatusRules, MetricRules, EventRules, HistoryRules
<1>2. SeriesAbove(P) = Matches({m \in Instances : real.instances[m].value = 1})
  BY <1>0, <1>1, SeriesOfPerfect
<1>3. SeriesAbove(P).because = "" /\ SeriesAbove(P) # Clear
  BY <1>2, ResultFields
<1>4. evaluateRule(P, Nil, SeriesAbove(P)) = "matched"
  BY <1>3, Unpinned
<1>5. poolerUp(P) = "found"
  BY <1>4 DEF poolerUp, answer, Concluded
<1>6. Found(input, real) = Answered(poolerUp(P)).on
  BY <1>0 DEF Found, Evaluate
<1>7. Answered("found") = Matches({Cluster})
  BY ResultFields DEF Answered
<1>8. Matches({Cluster}).on = {Cluster}
  BY ResultFields
<1> QED BY <1>5, <1>6, <1>7, <1>8

\* An exporter and the operator that agree on whether an instance is the primary.
LEMMA FoundDisagreement ==
  ASSUME HeldTypes, check.rule = "PrimaryDisagreement", NEW input, NEW real,
         input.now \in Int, real.instances \in [Instances -> States], NEW n \in Found(input, real)
  PROVE  /\ n \in Instances /\ (real.instances[n].value = 0) # (n = real.facts.cluster.current)
         /\ real.facts.cluster.present /\ ~moving(real.facts.cluster)
<1> DEFINE store == JustRead(input, real)
<1>0. PICK P : P = Perfect(input, real)
  OBVIOUS
<1>1. "metrics" \in Read /\ "metrics" \in Swept /\ "cluster" \in Read
  BY ReadIs DEF Swept, Consulted, ClusterRules, BackupRules, StatusRules, MetricRules, EventRules, HistoryRules
<1>2. /\ P.now = input.now /\ P.metrics.on = TRUE /\ P.metrics.readings = store
      /\ P.cluster.has = TRUE /\ P.cluster.stale = FALSE /\ P.cluster.facts = real.facts.cluster
  <2>0. IsPerfect(P, input, real)
    BY <1>0, PerfectIs
  <2>1. P["metrics"] = [on |-> TRUE, swept |-> TRUE, failing |-> {},
                 readings |-> store, samples |-> JustKept(input, real)]
    BY <1>1, <2>0 DEF IsPerfect
  <2>2. P.now = input.now
    BY <2>0 DEF IsPerfect
  <2>3. P.cluster = [has |-> TRUE, stale |-> FALSE, facts |-> real.facts.cluster, since |-> input.cluster.since]
    BY <1>1, <2>0 DEF IsPerfect
  <2> QED BY <2>1, <2>2, <2>3
<1>3. n \in PrimaryDisagreement(P).on
  BY <1>0 DEF Found, Evaluate
<1>4. /\ DOMAIN store = Instances
      /\ \A k \in Instances : /\ current(P, store[k])
                      /\ store[k] = readingOf(real.instances[k], input.now)
  BY <1>2, JustReadIs
<1> HIDE DEF store
<1> DEFINE facts == real.facts.cluster
           refused == {k \in DOMAIN store : ~current(P, store[k])}
           apart == {k \in DOMAIN store \ refused : (store[k].value = 0) # (k = facts.current)}
<1>5. facts.present /\ PrimaryDisagreement(P) =
         CASE facts.current = "" -> Unavailable("no primary")
           [] facts.current # "" /\ moving(facts) -> Clear
           [] OTHER -> Judged(apart, refused)
  <2>1. facts.present
    BY <1>2, <1>3, ResultFields DEF PrimaryDisagreement, Unless, Or, clusterUnavailable, unread
  <2>2. Or(clusterUnavailable(P), offUnless(P.metrics.on)) = ""
    BY <1>2, <2>1 DEF Or, clusterUnavailable, unread, offUnless
  <2> QED BY <1>2, <2>1, <2>2 DEF PrimaryDisagreement, Unless
<1>6. facts.current # "" /\ ~moving(facts) /\ PrimaryDisagreement(P) = Judged(apart, refused)
  BY <1>3, <1>5, ResultFields
<1> HIDE DEF refused, apart
<1>7. n \in apart
  BY <1>3, <1>6, ResultFields DEF Judged
<1>8. n \in Instances /\ (store[n].value = 0) # (n = facts.current)
  BY <1>4, <1>7 DEF apart
<1>9. store[n].value = real.instances[n].value
  BY <1>4, <1>8 DEF readingOf
<1> QED BY <1>5, <1>6, <1>8, <1>9

TypesInv ==
    /\ HInv /\ WatchedInv /\ FactsInv /\ InstancesInv /\ MetricsInv /\ StatusInv /\ LogsInv /\ HistoryInv
    /\ NamedInv

\* What the ghosts say of what there is.
Momentary ==
    /\ check.rule \in ByMetrics \cup ByStatus => \A n \in Instances :
          IF Ails(truth.instances[n]) THEN ill[n] = in.now ELSE calm[n] = in.now
    /\ check.rule = "InstanceManagerDrift" => \A n, m \in Instances :
          /\ truth.instances[n].value # truth.instances[m].value
          /\ NoVersion \notin {truth.instances[n].value, truth.instances[m].value}
          => ill[Cluster] = in.now
    /\ check.rule = "poolerUp" => \A n \in Instances :
          truth.instances[n].value = 1 => ill[Cluster] = in.now
    /\ check.rule = "PrimaryDisagreement" => \A n \in Instances :
          (truth.instances[n].value = 0) = (n = truth.facts.cluster.current) => calm[n] = in.now

\* At each moment the ghosts say of an instance whether it ails.
LEMMA MomentarilyTrue == TypesInv /\ Witnessed => Momentary
<1> SUFFICES ASSUME TypesInv, Witnessed PROVE Momentary
  OBVIOUS
<1>1. /\ HeldTypes /\ in.now \in Int /\ truth.instances \in [Instances -> States]
  BY DEF TypesInv, HInv, HeldTypes, InstancesInv
<1>2. \A s \in Subjects : /\ s \in Found(in, truth) => ill[s] = in.now
                          /\ s \notin Found(in, truth) => calm[s] = in.now
  BY DEF Witnessed
<1>3. Instances \subseteq Subjects /\ Cluster \in Subjects
  BY DEF Subjects
<1>4. ASSUME check.rule \in ByMetrics \cup ByStatus, NEW n \in Instances
      PROVE  IF Ails(truth.instances[n]) THEN ill[n] = in.now ELSE calm[n] = in.now
  <2>1. Found(in, truth) = {m \in Instances : Ails(truth.instances[m])}
    <3>1. CASE check.rule \in ByMetrics
      BY <1>1, <3>1, FoundByMetrics
    <3>2. CASE check.rule \in ByStatus
      BY <1>1, <3>2, FoundByStatus
    <3> QED BY <1>4, <3>1, <3>2
  <2> QED BY <1>2, <1>3, <2>1
<1>5. ASSUME check.rule = "InstanceManagerDrift", NEW n \in Instances, NEW m \in Instances,
             truth.instances[n].value # truth.instances[m].value,
             NoVersion \notin {truth.instances[n].value, truth.instances[m].value}
      PROVE  ill[Cluster] = in.now
  <2>1. Cluster \in Found(in, truth)
    BY <1>1, <1>5, FoundDrift
  <2> QED BY <1>2, <1>3, <2>1
<1>6. ASSUME check.rule = "poolerUp", NEW n \in Instances, truth.instances[n].value = 1
      PROVE  ill[Cluster] = in.now
  <2>1. Cluster \in Found(in, truth)
    BY <1>1, <1>6, FoundPooler
  <2> QED BY <1>2, <1>3, <2>1
<1>7. ASSUME check.rule = "PrimaryDisagreement", NEW n \in Instances,
             (truth.instances[n].value = 0) = (n = truth.facts.cluster.current)
      PROVE  calm[n] = in.now
  <2>1. n \notin Found(in, truth)
    BY <1>1, <1>7, FoundDisagreement
  <2> QED BY <1>2, <1>3, <2>1
<1> QED BY <1>4, <1>5, <1>6, <1>7 DEF Momentary

-----------------------------------------------------------------------------
(* What was read is remembered: what was found when a reading was taken, or  *)
(* that there was nothing to find.                                           *)

Told(rule, r, found, clear) == IF AilsOf(rule, r) THEN found >= r.at ELSE clear >= r.at
DriftTold(r, n, found, states) ==
    r.value # NoVersion =>
        \/ found >= r.at
        \/ \A m \in Instances : states[m].value \in {r.value, NoVersion}
        \/ \A m \in Instances : m # n => states[m].value = NoVersion
AgreementTold(r, n, named, clear) == (r.value = 0) = (n = named) => clear >= r.at

ReadingsTold ==
    /\ check.rule \in ByMetrics => \A n \in DOMAIN in.metrics.readings :
          Told(check.rule, in.metrics.readings[n], ill[n], calm[n])
    /\ check.rule \in ByStatus => \A n \in DOMAIN in.status.readings :
          Told(check.rule, in.status.readings[n], ill[n], calm[n])
    /\ check.rule = "InstanceManagerDrift" => \A n \in DOMAIN in.status.readings :
          DriftTold(in.status.readings[n], n, ill[Cluster], truth.instances)
    /\ check.rule = "PrimaryDisagreement" => \A n \in DOMAIN in.metrics.readings :
          AgreementTold(in.metrics.readings[n], n, truth.facts.cluster.current, calm[n])

SamplesTold ==
    /\ check.rule = "SeriesAbove" => \A n \in DOMAIN in.metrics.samples :
          \A i \in DOMAIN in.metrics.samples[n] :
              Told(check.rule, in.metrics.samples[n][i], ill[n], calm[n])
    /\ check.rule = "poolerUp" => \A n \in DOMAIN in.metrics.samples :
          \A i \in DOMAIN in.metrics.samples[n] :
              in.metrics.samples[n][i].value = 1 => ill[Cluster] >= in.metrics.samples[n][i].at

\* The ghosts never go back.
Grown == \A s \in Subjects : /\ calm'[s] \in Int /\ calm'[s] >= calm[s] /\ calm[s] \in Int
                             /\ ill'[s] \in Int /\ ill'[s] >= ill[s] /\ ill[s] \in Int

\* The ghosts never go back, over any step.
LEMMA GhostsGrow ==
  ASSUME HInv, Witnessed, Stands
  PROVE  Witnessed' /\ Grown
<1>1. in.now \in Int /\ in'.now \in Int /\ in'.now >= in.now
  BY DEF HInv, HeldTypes, Stands
<1>2. calm \in [Subjects -> Int] /\ ill \in [Subjects -> Int]
  BY DEF Witnessed
<1>3. CASE Witness
  <2>1. Witnessed' /\ \A s \in Subjects : calm'[s] >= calm[s] /\ ill'[s] >= ill[s]
    BY <1>1, <1>3, WitnessKeeps
  <2>2. calm' \in [Subjects -> Int] /\ ill' \in [Subjects -> Int]
    BY <2>1 DEF Witnessed
  <2> QED BY <1>2, <2>1, <2>2 DEF Grown
<1>4. CASE UNCHANGED vars
  <2>1. check' = check /\ in' = in /\ truth' = truth /\ calm' = calm /\ ill' = ill
    BY <1>4 DEF vars
  <2>2. Found(in, truth)' = Found(in, truth)
    BY <2>1 DEF Found, Perfect, Read
  <2>3. Witnessed'
    BY <2>1, <2>2 DEF Witnessed
  <2> QED BY <1>2, <2>1, <2>3 DEF Grown
<1> QED BY <1>3, <1>4 DEF Stands

\* What was told stays told.
LEMMA ToldStays ==
  ASSUME NEW rule, NEW r, r.at \in Int, NEW found \in Int, NEW clear \in Int, Told(rule, r, found, clear),
         NEW found2 \in Int, NEW clear2 \in Int, found2 >= found, clear2 >= clear
  PROVE  Told(rule, r, found2, clear2)
BY DEF Told

\* A reading tells of what was there.
LEMMA JustTold ==
  ASSUME NEW rule \in ByMetrics \cup ByStatus, NEW v, NEW t \in Int, NEW found \in Int, NEW clear \in Int,
         IF AilsOf(rule, v) THEN found = t ELSE clear = t
  PROVE  Told(rule, readingOf(v, t), found, clear)
<1>1. /\ readingOf(v, t).value = v.value /\ readingOf(v, t).expected = v.expected
      /\ readingOf(v, t).primary = v.primary /\ readingOf(v, t).failed = v.failed
      /\ readingOf(v, t).archived = v.archived /\ readingOf(v, t).at = t
  BY DEF readingOf
<1>2. AilsOf(rule, readingOf(v, t)) = AilsOf(rule, v)
  BY <1>1 DEF AilsOf, ByMetrics, ByStatus
<1> QED BY <1>1, <1>2 DEF Told

\* A reading that is held was held before, or was just taken.
LEMMA OldOrNew ==
  ASSUME TypesInv, Stands, NEW s \in Swept \cap Read, NEW n \in DOMAIN in'[s].readings
  PROVE  \/ n \in DOMAIN in[s].readings /\ in'[s].readings[n] = in[s].readings[n]
         \/ n \in Instances /\ in'[s].readings[n] = readingOf(truth'.instances[n], in'.now)
<1>1. CASE in'[s] = in[s]
  BY <1>1
<1>2. CASE Sweep(s)
  <2>1. truth' = truth /\ in'.now = in.now
        /\ \E read \in SUBSET Instances : in'[s].readings = ReadNow(in[s].readings, read)
    <3>1. HInv
      BY DEF TypesInv
    <3>2. truth' = truth /\ in'.now = in.now
      BY <1>2, <3>1, SweepIs
    <3>3. \E read \in SUBSET Instances :
               in'[s] = IF s = "metrics"
                        THEN [on |-> TRUE, readings |-> ReadNow(in[s].readings, read),
                              samples |-> IF check.rule \in Sustained
                                          THEN AddNow(in[s].samples, read) ELSE <<>>]
                        ELSE [on |-> TRUE, swept |-> TRUE, readings |-> ReadNow(in[s].readings, read),
                              failing |-> Instances \ read]
      BY <1>2, <3>1, SweepIs
    <3>4. \E read \in SUBSET Instances : in'[s].readings = ReadNow(in[s].readings, read)
      BY <3>3
    <3> QED BY <3>2, <3>4
  <2>2. PICK read \in SUBSET Instances : in'[s].readings = ReadNow(in[s].readings, read)
    BY <2>1
  <2>3. n \in DOMAIN in[s].readings \cup read
    BY <2>2 DEF ReadNow
  <2>4. in'[s].readings[n] = IF n \in read THEN readingOf(truth.instances[n], in.now)
                             ELSE in[s].readings[n]
    BY <2>2, <2>3 DEF ReadNow
  <2> QED BY <2>1, <2>3, <2>4
<1> QED BY <1>1, <1>2 DEF Stands

\* A sample is one that was kept, or what the instance is now.
LEMMA OldOrNewSample ==
  ASSUME TypesInv, Stands, "metrics" \in Read, check.rule \in Sustained,
         NEW n \in DOMAIN in'.metrics.samples, NEW i \in DOMAIN in'.metrics.samples[n]
  PROVE  \/ /\ n \in DOMAIN in.metrics.samples /\ i \in DOMAIN in.metrics.samples[n]
            /\ in'.metrics.samples[n][i] = in.metrics.samples[n][i]
         \/ n \in Instances /\ in'.metrics.samples[n][i] = readingOf(truth'.instances[n], in'.now)
<1>1. CASE in'.metrics = in.metrics
  BY <1>1
<1>2. CASE Sweep("metrics")
  <2>0. HInv /\ InstancesInv /\ in.now \in Int /\ "metrics" \in Swept \cap Read
    BY DEF TypesInv, HInv, HeldTypes, Swept
  <2>1. truth' = truth /\ in'.now = in.now
        /\ \E read \in SUBSET Instances :
               in'.metrics = [on |-> TRUE, readings |-> ReadNow(in.metrics.readings, read),
                              samples |-> IF check.rule \in Sustained
                                          THEN AddNow(in.metrics.samples, read) ELSE <<>>]
    BY <1>2, <2>0, SweepIs
  <2>2. PICK read \in SUBSET Instances : in'.metrics.samples = AddNow(in.metrics.samples, read)
    BY <2>1
  <2>3. /\ DOMAIN in.metrics.samples \subseteq Instances
        /\ \A m \in DOMAIN in.metrics.samples :
              /\ in.metrics.samples[m] \in Seq(Readings) /\ Len(in.metrics.samples[m]) >= 1
              /\ \A j \in DOMAIN in.metrics.samples[m] : in.metrics.samples[m][j].at <= in.now
    BY DEF TypesInv, MetricsInv
  <2> DEFINE store == in.metrics.samples
  <2> HIDE DEF store
  <2>4. KeptSamples(store)
    BY <2>3 DEF KeptSamples, store
  <2>5. AddedSamples(store, read)
    BY <2>0, <2>4, AddNowTyped
  <2> QED BY <2>1, <2>2, <2>5 DEF store, AddedSamples
<1> QED BY <1>1, <1>2 DEF Stands, Swept

\* An instance changes and nothing else does.
LEMMA StatesChange ==
  ASSUME TypesInv, Stands
  PROVE  \/ truth'.instances = truth.instances
         \/ /\ truth'.facts = truth.facts
            /\ \E n \in Instances, v \in States :
                  /\ truth'.instances = [truth.instances EXCEPT ![n] = v]
                  /\ truth.instances[n].value # NoVersion /\ v.value # NoVersion
<1>1. CASE InstanceChanges
  <2>1. \E all : truth' = [truth EXCEPT !.instances = all]
    BY <1>1 DEF InstanceChanges
  <2>2. truth'.facts = truth.facts
    BY <2>1 DEF TypesInv, InstancesInv
  <2> QED BY <1>1, <2>2, ChangeIs DEF TypesInv
<1> QED BY <1>1 DEF Stands

\* What a reading says, and when it was taken.
LEMMA ReadAt ==
  ASSUME NEW v, NEW t
  PROVE  readingOf(v, t).value = v.value /\ readingOf(v, t).at = t
BY DEF readingOf

\* Every step keeps what the readings tell of the ghosts.
LEMMA ReadingsSteps ==
  ASSUME TypesInv, TypesInv', Momentary, Momentary', Stands, Grown, ReadingsTold
  PROVE  ReadingsTold'
<1>0. /\ check' = check /\ Read' = Read /\ in.now \in Int /\ in'.now \in Int /\ in'.now >= in.now
      /\ HeldTypes
  BY DEF TypesInv, HInv, HeldTypes, Stands
<1>1. \A n \in Instances \cup {Cluster} :
         /\ calm'[n] \in Int /\ calm'[n] >= calm[n] /\ calm[n] \in Int
         /\ ill'[n] \in Int /\ ill'[n] >= ill[n] /\ ill[n] \in Int
  BY DEF Grown, Subjects
<1>2. "metrics" \in Read => /\ \A n \in DOMAIN in.metrics.readings :
                                  in.metrics.readings[n].at \in Int /\ in.metrics.readings[n].at <= in.now
                            /\ DOMAIN in.metrics.readings \subseteq Instances
  BY DEF TypesInv, MetricsInv, Readings
<1>3. "status" \in Read => /\ \A n \in DOMAIN in.status.readings :
                                 in.status.readings[n].at \in Int /\ in.status.readings[n].at <= in.now
                           /\ DOMAIN in.status.readings \subseteq Instances
  BY DEF TypesInv, StatusInv, Readings
<1>4. ASSUME check.rule \in ByMetrics \cup ByStatus, NEW n \in Instances
      PROVE  Told(check.rule, readingOf(truth'.instances[n], in'.now), ill'[n], calm'[n])
  <2>1. IF AilsOf(check.rule, truth'.instances[n]) THEN ill'[n] = in'.now ELSE calm'[n] = in'.now
    BY <1>0, <1>4 DEF Momentary, Ails
  <2> QED BY <1>0, <1>1, <1>4, <2>1, JustTold
<1>5. ASSUME check.rule \in ByMetrics, NEW n \in DOMAIN in'.metrics.readings
      PROVE  Told(check.rule, in'.metrics.readings[n], ill'[n], calm'[n])
  <2>1. "metrics" \in Swept \cap Read
    BY <1>0, <1>5, ReadIs DEF Swept
  <2>2. CASE n \in DOMAIN in.metrics.readings /\ in'.metrics.readings[n] = in.metrics.readings[n]
    <3>1. Told(check.rule, in.metrics.readings[n], ill[n], calm[n])
      BY <1>5, <2>2 DEF ReadingsTold
    <3>2. n \in Instances /\ in.metrics.readings[n].at \in Int
      BY <1>2, <2>1, <2>2
    <3> QED BY <1>1, <2>2, <3>1, <3>2, ToldStays
  <2>3. CASE n \in Instances /\ in'.metrics.readings[n] = readingOf(truth'.instances[n], in'.now)
    BY <1>4, <1>5, <2>3
  <2> QED BY <2>1, <2>2, <2>3, OldOrNew
<1>6. ASSUME check.rule \in ByStatus, NEW n \in DOMAIN in'.status.readings
      PROVE  Told(check.rule, in'.status.readings[n], ill'[n], calm'[n])
  <2>1. "status" \in Swept \cap Read
    BY <1>0, <1>6, ReadIs DEF Swept
  <2>2. CASE n \in DOMAIN in.status.readings /\ in'.status.readings[n] = in.status.readings[n]
    <3>1. Told(check.rule, in.status.readings[n], ill[n], calm[n])
      BY <1>6, <2>2 DEF ReadingsTold
    <3>2. n \in Instances /\ in.status.readings[n].at \in Int
      BY <1>3, <2>1, <2>2
    <3> QED BY <1>1, <2>2, <3>1, <3>2, ToldStays
  <2>3. CASE n \in Instances /\ in'.status.readings[n] = readingOf(truth'.instances[n], in'.now)
    BY <1>4, <1>6, <2>3
  <2> QED BY <2>1, <2>2, <2>3, OldOrNew
<1>7. ASSUME check.rule = "InstanceManagerDrift", NEW n \in DOMAIN in'.status.readings
      PROVE  DriftTold(in'.status.readings[n], n, ill'[Cluster], truth'.instances)
  <2>1. "status" \in Swept \cap Read
    BY <1>0, <1>7, ReadIs DEF Swept
  <2>2. \A m, k \in Instances :
           /\ truth'.instances[m].value # truth'.instances[k].value
           /\ NoVersion \notin {truth'.instances[m].value, truth'.instances[k].value}
           => ill'[Cluster] = in'.now
    BY <1>0, <1>7 DEF Momentary
  <2>3. CASE n \in DOMAIN in.status.readings /\ in'.status.readings[n] = in.status.readings[n]
    <3> DEFINE r == in.status.readings[n]
    <3>0. /\ n \in Instances /\ truth.instances \in [Instances -> States]
          /\ (r.value = NoVersion) = (truth.instances[n].value = NoVersion)
      BY <1>3, <2>1, <2>3 DEF TypesInv, NamedInv, InstancesInv
    <3>1. r.at \in Int /\ r.at <= in.now /\ DriftTold(r, n, ill[Cluster], truth.instances)
      BY <1>3, <1>7, <2>1, <2>3 DEF ReadingsTold
    <3> HIDE DEF r
    <3> SUFFICES ASSUME r.value # NoVersion
                 PROVE  \/ ill'[Cluster] >= r.at
                        \/ \A m \in Instances : truth'.instances[m].value \in {r.value, NoVersion}
                        \/ \A m \in Instances : m # n => truth'.instances[m].value = NoVersion
      BY <2>3 DEF DriftTold, r
    <3>2. CASE ill[Cluster] >= r.at
      BY <1>1, <3>1, <3>2
    <3>3. CASE truth'.instances = truth.instances
      BY <1>1, <3>1, <3>3 DEF DriftTold
    <3>4. CASE /\ ~(ill[Cluster] >= r.at)
               /\ \E k \in Instances, v \in States :
                     /\ truth'.instances = [truth.instances EXCEPT ![k] = v]
                     /\ truth.instances[k].value # NoVersion /\ v.value # NoVersion
      <4>1. PICK k \in Instances, v \in States :
                     /\ truth'.instances = [truth.instances EXCEPT ![k] = v]
                     /\ truth.instances[k].value # NoVersion /\ v.value # NoVersion
        BY <3>4
      <4>2. \A m \in Instances : truth'.instances[m] = IF m = k THEN v ELSE truth.instances[m]
        BY <3>0, <4>1
      <4>3. CASE \A m \in Instances : m # n => truth.instances[m].value = NoVersion
        BY <4>1, <4>2, <4>3
      <4>4. CASE \A m \in Instances : truth.instances[m].value \in {r.value, NoVersion}
        <5>1. truth.instances[n].value = r.value
          BY <3>0, <4>4
        <5>2. CASE v.value = r.value
          BY <4>2, <4>4, <5>2
        <5>3. CASE \E m \in Instances : m # k /\ truth'.instances[m].value # NoVersion /\ v.value # r.value
          <6>1. PICK m \in Instances : m # k /\ truth'.instances[m].value # NoVersion
            BY <5>3
          <6>2. truth'.instances[m].value = r.value /\ truth'.instances[k].value = v.value
            BY <4>2, <4>4, <6>1
          <6>3. ill'[Cluster] = in'.now
            BY <2>2, <4>1, <5>3, <6>1, <6>2
          <6> QED BY <1>0, <3>1, <6>3
        <5>4. CASE \A m \in Instances : m # k => truth'.instances[m].value = NoVersion
          <6>1. n = k
            BY <3>0, <4>2, <5>1, <5>4
          <6> QED BY <5>4, <6>1
        <5> QED BY <5>2, <5>3, <5>4
      <4> QED BY <3>1, <3>4, <4>3, <4>4 DEF DriftTold
    <3> QED BY <3>2, <3>3, <3>4, StatesChange
  <2>4. CASE n \in Instances /\ in'.status.readings[n] = readingOf(truth'.instances[n], in'.now)
    <3>1. in'.status.readings[n].value = truth'.instances[n].value /\ in'.status.readings[n].at = in'.now
      BY <2>4, ReadAt
    <3> QED BY <1>0, <2>2, <2>4, <3>1 DEF DriftTold
  <2> QED BY <2>1, <2>3, <2>4, OldOrNew
<1>8. ASSUME check.rule = "PrimaryDisagreement", NEW n \in DOMAIN in'.metrics.readings
      PROVE  AgreementTold(in'.metrics.readings[n], n, truth'.facts.cluster.current, calm'[n])
  <2>1. "metrics" \in Swept \cap Read
    BY <1>0, <1>8, ReadIs DEF Swept, Consulted, ClusterRules, BackupRules, StatusRules, MetricRules,
       EventRules, HistoryRules
  <2> DEFINE named == truth.facts.cluster.current
             named2 == truth'.facts.cluster.current
  <2>2. /\ \A m \in Instances : (truth.instances[m].value = 0) = (m = named) => calm[m] = in.now
        /\ \A m \in Instances : (truth'.instances[m].value = 0) = (m = named2) => calm'[m] = in'.now
    BY <1>0, <1>8 DEF Momentary
  <2>3. CASE n \in DOMAIN in.metrics.readings /\ in'.metrics.readings[n] = in.metrics.readings[n]
    <3> DEFINE r == in.metrics.readings[n]
    <3>1. r.at \in Int /\ r.at <= in.now /\ n \in Instances
          /\ ((r.value = 0) = (n = named) => calm[n] >= r.at)
      BY <1>2, <1>8, <2>1, <2>3 DEF ReadingsTold, AgreementTold
    <3>2. \/ truth'.instances = truth.instances
          \/ truth'.facts = truth.facts
      BY StatesChange
    <3>3. truth'.facts = truth.facts => named2 = named
      OBVIOUS
    <3> HIDE DEF r, named, named2
    <3>4. ASSUME (r.value = 0) = (n = named2) PROVE calm'[n] >= r.at
      <4>1. CASE (r.value = 0) = (n = named)
        <5>1. calm[n] >= r.at
          BY <3>1, <4>1
        <5> QED BY <1>1, <3>1, <5>1
      <4>2. CASE ~((r.value = 0) = (n = named))
        <5>1. truth'.instances = truth.instances
          BY <3>2, <3>3, <3>4, <4>2
        <5>2. CASE (truth.instances[n].value = 0) = (n = named)
          <6>1. calm[n] = in.now
            BY <2>2, <3>1, <5>2
          <6> QED BY <1>0, <1>1, <3>1, <6>1
        <5>3. CASE ~((truth.instances[n].value = 0) = (n = named))
          <6>1. (truth'.instances[n].value = 0) = (n = named2)
            BY <3>4, <4>2, <5>1, <5>3
          <6>2. calm'[n] = in'.now
            BY <2>2, <3>1, <6>1
          <6> QED BY <1>0, <3>1, <6>2
        <5> QED BY <5>2, <5>3
      <4> QED BY <4>1, <4>2
    <3> QED BY <2>3, <3>4 DEF AgreementTold, r, named2
  <2>4. CASE n \in Instances /\ in'.metrics.readings[n] = readingOf(truth'.instances[n], in'.now)
    <3>1. in'.metrics.readings[n].value = truth'.instances[n].value /\ in'.metrics.readings[n].at = in'.now
      BY <2>4, ReadAt
    <3> QED BY <1>0, <2>2, <2>4, <3>1 DEF AgreementTold
  <2> QED BY <2>1, <2>3, <2>4, OldOrNew
<1> QED BY <1>0, <1>5, <1>6, <1>7, <1>8 DEF ReadingsTold

\* Every step keeps what the samples tell of the ghosts.
LEMMA SamplesSteps ==
  ASSUME TypesInv, TypesInv', Momentary', Stands, Grown, SamplesTold
  PROVE  SamplesTold'
<1>0. /\ check' = check /\ in.now \in Int /\ in'.now \in Int /\ HeldTypes
  BY DEF TypesInv, HInv, HeldTypes, Stands
<1>1. \A n \in Instances \cup {Cluster} :
         /\ calm'[n] \in Int /\ calm'[n] >= calm[n] /\ calm[n] \in Int
         /\ ill'[n] \in Int /\ ill'[n] >= ill[n] /\ ill[n] \in Int
  BY DEF Grown, Subjects
<1>2. ASSUME "metrics" \in Read, check.rule \in Sustained, NEW n \in DOMAIN in.metrics.samples,
             NEW i \in DOMAIN in.metrics.samples[n]
      PROVE  in.metrics.samples[n][i].at \in Int /\ n \in Instances
  <2>1. in.metrics.samples[n] \in Seq(Readings) /\ n \in Instances
    BY <1>2 DEF TypesInv, MetricsInv
  <2>2. in.metrics.samples[n][i] \in Readings
    BY <2>1
  <2> QED BY <2>1, <2>2 DEF Readings
<1>3. ASSUME check.rule = "SeriesAbove",
             NEW n \in DOMAIN in'.metrics.samples, NEW i \in DOMAIN in'.metrics.samples[n]
      PROVE  Told(check.rule, in'.metrics.samples[n][i], ill'[n], calm'[n])
  <2>1. "metrics" \in Read /\ check.rule \in Sustained
    BY <1>0, <1>3, ReadIs DEF ByMetrics, Sustained
  <2>2. CASE /\ n \in DOMAIN in.metrics.samples /\ i \in DOMAIN in.metrics.samples[n]
             /\ in'.metrics.samples[n][i] = in.metrics.samples[n][i]
    <3>1. Told(check.rule, in.metrics.samples[n][i], ill[n], calm[n])
      BY <1>3, <2>2 DEF SamplesTold
    <3>2. in.metrics.samples[n][i].at \in Int /\ n \in Instances
      BY <1>2, <2>1, <2>2
    <3> QED BY <1>1, <2>2, <3>1, <3>2, ToldStays
  <2>3. CASE n \in Instances /\ in'.metrics.samples[n][i] = readingOf(truth'.instances[n], in'.now)
    <3>1. IF AilsOf(check.rule, truth'.instances[n]) THEN ill'[n] = in'.now ELSE calm'[n] = in'.now
      BY <1>0, <1>3, <2>3 DEF Momentary, Ails, ByMetrics
    <3> QED BY <1>0, <1>1, <1>3, <2>3, <3>1, JustTold DEF ByMetrics
  <2> QED BY <2>1, <2>2, <2>3, OldOrNewSample
<1>4. ASSUME check.rule = "poolerUp", NEW n \in DOMAIN in'.metrics.samples,
             NEW i \in DOMAIN in'.metrics.samples[n], in'.metrics.samples[n][i].value = 1
      PROVE  ill'[Cluster] >= in'.metrics.samples[n][i].at
  <2>1. "metrics" \in Read /\ check.rule \in Sustained
    BY <1>0, <1>4, ReadIs DEF Sustained, Consulted, ClusterRules, BackupRules, StatusRules, MetricRules,
       EventRules, HistoryRules
  <2>2. CASE /\ n \in DOMAIN in.metrics.samples /\ i \in DOMAIN in.metrics.samples[n]
             /\ in'.metrics.samples[n][i] = in.metrics.samples[n][i]
    <3>1. ill[Cluster] >= in.metrics.samples[n][i].at
      BY <1>4, <2>2 DEF SamplesTold
    <3>2. in.metrics.samples[n][i].at \in Int
      BY <1>2, <2>1, <2>2
    <3> QED BY <1>1, <2>2, <3>1, <3>2
  <2>3. CASE n \in Instances /\ in'.metrics.samples[n][i] = readingOf(truth'.instances[n], in'.now)
    <3>1. truth'.instances[n].value = 1 /\ in'.metrics.samples[n][i].at = in'.now
      BY <1>4, <2>3, ReadAt
    <3>2. ill'[Cluster] = in'.now
      BY <1>0, <1>4, <2>3, <3>1 DEF Momentary
    <3> QED BY <1>0, <3>1, <3>2
  <2> QED BY <2>1, <2>2, <2>3, OldOrNewSample
<1> QED BY <1>0, <1>3, <1>4 DEF SamplesTold

GhostInv == TypesInv /\ Witnessed /\ ReadingsTold /\ SamplesTold

\* Nothing is observed, read or heard at the start.
LEMMA GhostInit == Init => GhostInv
<1> SUFFICES ASSUME Init PROVE GhostInv
  OBVIOUS
<1>1. HInv /\ HeldTypes
  BY HeldInit DEF HInv
<1>2. DOMAIN in = {"now"} \cup Read /\ Read \subseteq Sources /\ in.now = 0
  <2>1. in.now = 0
    BY DEF Init, Watched, Swept
  <2> QED BY <1>1, <2>1 DEF HeldTypes
<1>3. PICK instances \in Roster :
         truth = [facts |-> [s \in Watched \cap Read |-> CalmFacts[s]], instances |-> instances,
                  unheard |-> {}, records |-> {}]
  BY DEF Init
<1>4. PICK on \in BOOLEAN : in = [s \in {"now"} \cup Read |->
            CASE s = "now" -> 0
              [] s = "cluster" -> [has |-> FALSE, stale |-> FALSE, facts |-> CalmFacts[s], since |-> <<>>]
              [] s = "evidence" -> [on |-> on, has |-> FALSE, stale |-> FALSE, facts |-> CalmFacts[s]]
              [] s \in Watched \ {"cluster", "evidence"} -> Blank(s)
              [] s = "metrics" -> [on |-> on, readings |-> <<>>, samples |-> <<>>]
              [] s = "status" -> [on |-> on, swept |-> FALSE, readings |-> <<>>, failing |-> {}]
              [] s = "logs" -> [on |-> on, observed |-> {}, unread |-> Instances]
              [] s = "history" -> [on |-> TRUE, entries |-> {}]]
  BY DEF Init
<1>5. WatchedInv
  <2> SUFFICES ASSUME NEW s \in Watched \cap Read PROVE Follows(s, in[s], truth.facts[s])
    BY DEF WatchedInv
  <2>1. CASE s = "cluster"
    <3>1. in[s] = [has |-> FALSE, stale |-> FALSE, facts |-> CalmFacts[s], since |-> <<>>]
      BY <1>4, <2>1 DEF Watched, Swept
    <3> QED BY <2>1, <3>1 DEF Follows, Formed, Fields
  <2>2. CASE s = "evidence"
    <3>1. in[s] = [on |-> on, has |-> FALSE, stale |-> FALSE, facts |-> CalmFacts[s]]
      BY <1>4, <2>2 DEF Watched, Swept
    <3> QED BY <2>2, <3>1 DEF Follows, Formed, Fields
  <2>3. CASE s \notin {"cluster", "evidence"}
    <3>1. in[s] = [has |-> FALSE, stale |-> FALSE, facts |-> CalmFacts[s]]
      BY <1>4, <2>3 DEF Watched, Swept, Blank
    <3>2. Fields(s) = {"has", "stale", "facts"}
      BY <2>3 DEF Fields
    <3>3. Formed(s, in[s])
      BY <3>1, <3>2 DEF Formed
    <3> QED BY <2>3, <3>1, <3>3 DEF Follows
  <2> QED BY <2>1, <2>2, <2>3
<1>6. FactsInv
  BY <1>3, CalmIsNamed DEF FactsInv
<1>7. InstancesInv
  <2>1. CalmInstance \in States /\ [CalmInstance EXCEPT !.value = NoVersion] \in States
    <3>1. CalmInstance \in States
      BY DEF CalmInstance, States, Nil
    <3> QED BY <3>1 DEF States
  <2>2. instances \in [Instances -> States]
    <3>1. PICK calm0, unsaid : calm0 = CalmInstance /\ unsaid = [CalmInstance EXCEPT !.value = NoVersion]
      OBVIOUS
    <3>2. instances \in [Instances -> {calm0, unsaid}] \/ instances = [n \in Instances |-> calm0]
      BY <3>1 DEF Each, Roster
    <3>3. calm0 \in States /\ unsaid \in States
      BY <2>1, <3>1
    <3> QED BY <3>2, <3>3
  <2> QED BY <1>3, <2>2 DEF InstancesInv
<1>8. DOMAIN <<>> = {}
  OBVIOUS
<1>9. "metrics" \in Read => in.metrics = [on |-> on, readings |-> <<>>, samples |-> <<>>]
  BY <1>4 DEF Watched, Swept
<1>10. "status" \in Read => in.status = [on |-> on, swept |-> FALSE, readings |-> <<>>, failing |-> {}]
  BY <1>4 DEF Watched, Swept
<1>11. "logs" \in Read => in.logs = [on |-> on, observed |-> {}, unread |-> Instances]
  BY <1>4 DEF Watched, Swept
<1>12. "history" \in Read => in.history = [on |-> TRUE, entries |-> {}]
  BY <1>4 DEF Watched, Swept
<1>13. MetricsInv
  BY <1>8, <1>9 DEF MetricsInv
<1>14. StatusInv
  <2> SUFFICES ASSUME "status" \in Read PROVE StatusInv
    BY DEF StatusInv
  <2>1. in.status = [f \in {"on", "swept", "readings", "failing"} |-> in.status[f]]
    BY <1>10
  <2>2. /\ in.status.on = on /\ in.status.swept = FALSE /\ DOMAIN in.status.readings = {}
        /\ in.status.failing = {}
    BY <1>8, <1>10
  <2> QED BY <2>1, <2>2 DEF StatusInv
<1>15. LogsInv /\ HistoryInv
  BY <1>3, <1>11, <1>12, FS_EmptySet DEF LogsInv, HistoryInv
<1>19. NamedInv
  BY <1>8, <1>10 DEF NamedInv
<1>16. Witnessed
  <2>1. /\ calm = [s \in Subjects |-> IF s \in Found(in, truth) THEN Never ELSE 0]
        /\ ill = [s \in Subjects |-> IF s \in Found(in, truth) THEN 0 ELSE Never]
    BY DEF Init
  <2>2. Never \in Int /\ Never <= 0
    BY DEF Never
  <2> QED BY <1>2, <2>1, <2>2 DEF Witnessed
<1>17. /\ "metrics" \in Read => DOMAIN in.metrics.readings = {} /\ DOMAIN in.metrics.samples = {}
       /\ "status" \in Read => DOMAIN in.status.readings = {}
  BY <1>8, <1>9, <1>10
<1>18. ReadingsTold /\ SamplesTold
  <2>1. /\ check.rule \in ByMetrics \cup Sustained \cup {"PrimaryDisagreement"} => "metrics" \in Read
        /\ check.rule \in ByStatus \cup {"InstanceManagerDrift"} => "status" \in Read
    BY <1>1, ReadIs DEF Sustained, ByMetrics, ByStatus, Consulted, ClusterRules, BackupRules, StatusRules,
       MetricRules, EventRules, HistoryRules
  <2> QED BY <1>17, <2>1 DEF ReadingsTold, SamplesTold, Sustained
<1> QED BY <1>1, <1>5, <1>6, <1>7, <1>13, <1>14, <1>15, <1>16, <1>18, <1>19 DEF GhostInv, TypesInv

\* Every step.
LEMMA TypesNext == TypesInv /\ Witnessed /\ [Next]_vars => TypesInv' /\ Witnessed' /\ Stands /\ Grown
<1> SUFFICES ASSUME TypesInv, Witnessed, [Next]_vars PROVE TypesInv' /\ Witnessed' /\ Stands /\ Grown
  OBVIOUS
<1>1. HInv'
  BY HeldNext DEF TypesInv
<1>2. WatchedInv' /\ FactsInv'
  BY WatchedSteps DEF TypesInv
<1>3. Stands
  BY AllStand DEF TypesInv
<1>4. InstancesInv'
  BY <1>3, InstancesSteps DEF TypesInv
<1>5. MetricsInv'
  BY <1>3, MetricsSteps DEF TypesInv
<1>6. StatusInv'
  BY <1>3, StatusSteps DEF TypesInv
<1>7. LogsInv' /\ HistoryInv'
  BY <1>3, LogsSteps, HistorySteps DEF TypesInv
<1>8. Witnessed' /\ Grown
  BY <1>3, GhostsGrow DEF TypesInv
<1>9. NamedInv'
  BY <1>3, NamedSteps DEF TypesInv
<1> QED BY <1>1, <1>2, <1>3, <1>4, <1>5, <1>6, <1>7, <1>8, <1>9 DEF TypesInv

\* The inductive invariant of the two theorems about what checks conclude.
LEMMA GhostNext == GhostInv /\ [Next]_vars => GhostInv'
<1> SUFFICES ASSUME GhostInv, [Next]_vars PROVE GhostInv'
  OBVIOUS
<1>1. TypesInv /\ Witnessed /\ ReadingsTold /\ SamplesTold
  BY DEF GhostInv
<1>2. TypesInv' /\ Witnessed' /\ Stands /\ Grown
  BY <1>1, TypesNext
<1>3. Momentary
  BY <1>1, MomentarilyTrue
<1>4. Momentary'
  BY <1>2, MomentarilyTrue, PTL
<1>5. ReadingsTold'
  BY <1>1, <1>2, <1>3, <1>4, ReadingsSteps
<1>6. SamplesTold'
  BY <1>1, <1>2, <1>4, SamplesSteps
<1> QED BY <1>2, <1>5, <1>6 DEF GhostInv

-----------------------------------------------------------------------------
(* A rule looks at its sources and at the time, and at nothing else.        *)

\* The rules about the Cluster.
LEMMA ClusterRulesSame ==
  ASSUME NEW x, NEW y, x.now = y.now, x.cluster = y.cluster
  PROVE  /\ ClusterCondition(x) = ClusterCondition(y)
         /\ ClusterPhase(x) = ClusterPhase(y)
         /\ ClusterPhaseHeld(x) = ClusterPhaseHeld(y)
         /\ StatusListed(x) = StatusListed(y)
         /\ ReplicaSwitchStuck(x) = ReplicaSwitchStuck(y)
         /\ InstancesShort(x) = InstancesShort(y)
         /\ TimelineDivergence(x) = TimelineDivergence(y)
         /\ PrimaryFailing(x) = PrimaryFailing(y)
         /\ CertificateExpiring(x, MinAge) = CertificateExpiring(y, MinAge)
         /\ CertificateExpiring(x, 0) = CertificateExpiring(y, 0)
         /\ Reported(x) = Reported(y)
         /\ PrimaryMismatch(x) = PrimaryMismatch(y)
         /\ primaryNamed(x) = primaryNamed(y)
         /\ operatorSilent(x) = operatorSilent(y)
         /\ ClusterAbsent(x) = ClusterAbsent(y)
<1>1. \A r : OnTheCluster(x, r) = OnTheCluster(y, r)
  BY DEF OnTheCluster, clusterUnavailable
<1>2. \A keys : Held(x, keys) = Held(y, keys)
  BY DEF Held
<1>3. ClusterCondition(x) = ClusterCondition(y)
  BY <1>1 DEF ClusterCondition
<1>4. ClusterPhase(x) = ClusterPhase(y)
  BY <1>1 DEF ClusterPhase
<1>5. ClusterPhaseHeld(x) = ClusterPhaseHeld(y)
  BY <1>1, <1>2 DEF ClusterPhaseHeld
<1>6. StatusListed(x) = StatusListed(y)
  BY <1>1, <1>2 DEF StatusListed
<1>7. ReplicaSwitchStuck(x) = ReplicaSwitchStuck(y)
  BY <1>1, <1>2 DEF ReplicaSwitchStuck
<1>8. InstancesShort(x) = InstancesShort(y)
  <2> DEFINE facts == x.cluster.facts
             keys == IF facts.ready < facts.desired THEN {<<"short", facts.ready, facts.desired>>} ELSE {}
             short(z) == IF Nil \in {facts.desired, facts.ready} THEN Unavailable("no count")
                         ELSE Held(z, keys)
  <2>1. InstancesShort(x) = OnTheCluster(x, short(x))
    BY DEF InstancesShort
  <2>2. InstancesShort(y) = OnTheCluster(y, short(y))
    BY DEF InstancesShort
  <2>3. short(x) = short(y)
    <3>1. Held(x, keys) = Held(y, keys)
      BY <1>2
    <3> HIDE DEF keys
    <3> QED BY <3>1
  <2> HIDE DEF short
  <2> QED BY <1>1, <2>1, <2>2, <2>3
<1>9. TimelineDivergence(x) = TimelineDivergence(y)
  BY <1>1, <1>2 DEF TimelineDivergence
<1>10. PrimaryFailing(x) = PrimaryFailing(y)
  BY <1>1 DEF PrimaryFailing
<1>11. \A within : CertificateExpiring(x, within) = CertificateExpiring(y, within)
  BY <1>1 DEF CertificateExpiring
<1>12. Reported(x) = Reported(y)
  BY <1>1 DEF Reported
<1>13. PrimaryMismatch(x) = PrimaryMismatch(y)
  BY <1>1 DEF PrimaryMismatch
<1>14. \A r : evaluateRule(x, Nil, r) = evaluateRule(y, Nil, r)
  BY DEF evaluateRule
<1>15. primaryNamed(x) = primaryNamed(y)
  <2>1. NoPrimaryNamed(x) = NoPrimaryNamed(y)
    BY DEF NoPrimaryNamed
  <2> QED BY <1>4, <1>14, <2>1 DEF primaryNamed, Concluded
<1>16. operatorSilent(x) = operatorSilent(y)
  BY <1>4, <1>14 DEF operatorSilent, reconciles, Concluded
<1>17. ClusterAbsent(x) = ClusterAbsent(y)
  BY DEF ClusterAbsent
<1> QED BY <1>3, <1>4, <1>5, <1>6, <1>7, <1>8, <1>9, <1>10, <1>11, <1>12, <1>13, <1>15, <1>16, <1>17

\* The rules about the backups.
LEMMA BackupRulesSame ==
  ASSUME NEW x, NEW y, x.now = y.now, x.backups = y.backups
  PROVE  /\ BackupPhase(x) = BackupPhase(y)
         /\ ScheduledBackupSuspended(x) = ScheduledBackupSuspended(y)
         /\ ScheduledBackupOverdue(x) = ScheduledBackupOverdue(y)
         /\ backupCadence(x) = backupCadence(y)
         /\ StoreBackupFailed(x) = StoreBackupFailed(y)
         /\ StoreNoBackup(x) = StoreNoBackup(y)
         /\ scheduleFiring(x) = scheduleFiring(y)
<1>1. \A r : OnBackups(x, r) = OnBackups(y, r)
  BY DEF OnBackups
<1>2. \A r : OnTheStore(x, r) = OnTheStore(y, r)
  BY DEF OnTheStore, OnBackups
<1>3. BackupPhase(x) = BackupPhase(y)
  BY <1>1 DEF BackupPhase
<1>4. ScheduledBackupSuspended(x) = ScheduledBackupSuspended(y)
  BY <1>1 DEF ScheduledBackupSuspended
<1>5. ScheduledBackupOverdue(x) = ScheduledBackupOverdue(y)
  BY <1>1 DEF ScheduledBackupOverdue
<1>6. backupCadence(x) = backupCadence(y)
  BY <1>1 DEF backupCadence
<1>7. StoreBackupFailed(x) = StoreBackupFailed(y)
  BY <1>2 DEF StoreBackupFailed
<1>8. StoreNoBackup(x) = StoreNoBackup(y)
  BY <1>2 DEF StoreNoBackup
<1>9. \A r : evaluateRule(x, Nil, r) = evaluateRule(y, Nil, r)
  BY DEF evaluateRule
<1>10. NoBackupSchedule(x) = NoBackupSchedule(y)
  BY DEF NoBackupSchedule
<1>11. scheduleFiring(x) = scheduleFiring(y)
  BY <1>4, <1>5, <1>6, <1>9, <1>10 DEF scheduleFiring, Concluded
<1> QED BY <1>3, <1>4, <1>5, <1>6, <1>7, <1>8, <1>11

\* The rules about the events; an event on a Backup needs the backups too.
LEMMA EventRulesSame ==
  ASSUME NEW x, NEW y, x.events = y.events
  PROVE  /\ quotaRefusal(x) = quotaRefusal(y)
         /\ podScheduling(x) = podScheduling(y)
         /\ EventMatch(x, {"Pod"}) = EventMatch(y, {"Pod"})
         /\ x.backups = y.backups => EventMatch(x, {"Backup"}) = EventMatch(y, {"Backup"})
<1>1. quotaRefusal(x) = quotaRefusal(y)
  BY DEF quotaRefusal
<1>2. podScheduling(x) = podScheduling(y)
  BY DEF podScheduling
<1>3. EventMatch(x, {"Pod"}) = EventMatch(y, {"Pod"})
  <2> DEFINE list == x.events.facts.list
             accepted == {i \in DOMAIN list : list[i].reason = "bad" /\ list[i].kind \in {"Pod"}}
             quotedBefore(z, i) == Cardinality({j \in accepted : j < i /\ admitted(z, list[j])})
             examined(z) == {i \in accepted : quotedBefore(z, i) < maxQuoted}
             asBackup(z) == \E i \in examined(z) : list[i].kind = "Backup"
             quoted(z) == {list[i].object : i \in {i \in examined(z) :
                              admitted(z, list[i]) /\ quotedBefore(z, i) = 0}}
  <2>1. \A i \in accepted : admitted(x, list[i]) = TRUE /\ admitted(y, list[i]) = TRUE
    BY DEF admitted
  <2>2. \A i : quotedBefore(x, i) = quotedBefore(y, i)
    <3> SUFFICES ASSUME NEW i PROVE quotedBefore(x, i) = quotedBefore(y, i)
      OBVIOUS
    <3>1. {j \in accepted : j < i /\ admitted(x, list[j])} = {j \in accepted : j < i /\ admitted(y, list[j])}
      BY <2>1
    <3> QED BY <3>1, Zenon
  <2>3. ~asBackup(x) /\ ~asBackup(y)
    OBVIOUS
  <2> HIDE DEF quotedBefore, accepted, asBackup
  <2>4. quoted(x) = quoted(y)
    BY <2>1, <2>2
  <2>5. EventMatch(x, {"Pod"}) = Unless(unread(x.events), Unless(IF asBackup(x) THEN unread(x.backups) ELSE "",
                                        Matches(quoted(x))))
    BY Zenon DEF EventMatch, quotedBefore, accepted, asBackup
  <2>6. EventMatch(y, {"Pod"}) = Unless(unread(y.events), Unless(IF asBackup(y) THEN unread(y.backups) ELSE "",
                                        Matches(quoted(y))))
    BY DEF EventMatch, quotedBefore, accepted, asBackup
  <2> HIDE DEF quoted
  <2> QED BY <2>3, <2>4, <2>5, <2>6
<1>4. ASSUME x.backups = y.backups
      PROVE  EventMatch(x, {"Backup"}) = EventMatch(y, {"Backup"})
  BY <1>4 DEF EventMatch, admitted
<1> QED BY <1>1, <1>2, <1>3, <1>4

\* The rules about each of the other sources.
LEMMA OneSourceSame ==
  ASSUME NEW x, NEW y, x.now = y.now
  PROVE  /\ x.pods = y.pods => imagePull(x) = imagePull(y)
         /\ x.poolers = y.poolers => PoolerPhase(x) = PoolerPhase(y) /\ PoolerShort(x) = PoolerShort(y)
         /\ x.infrastructure = y.infrastructure =>
               volumeBinding(x) = volumeBinding(y) /\ NoWriteService(x) = NoWriteService(y)
         /\ x.quotas = y.quotas => quotaExhausted(x) = quotaExhausted(y)
         /\ x.databases = y.databases => DeclaredObjectFailed(x) = DeclaredObjectFailed(y)
         /\ x.evidence = y.evidence => RepositoryState(x) = RepositoryState(y)
         /\ x.history = y.history => /\ HistoryIncarnations(x) = HistoryIncarnations(y)
                                     /\ HistoryChanges(x) = HistoryChanges(y)
         /\ x.pods = y.pods => NoReadyInstance(x) = NoReadyInstance(y)
         /\ x.lease = y.lease /\ x.cluster = y.cluster =>
               /\ PrimaryLeaseExpired(x) = PrimaryLeaseExpired(y)
               /\ PrimaryLeaseHolderMismatch(x) = PrimaryLeaseHolderMismatch(y)
<1>1. x.pods = y.pods => imagePull(x) = imagePull(y)
  BY DEF imagePull
<1>2. x.poolers = y.poolers => PoolerPhase(x) = PoolerPhase(y) /\ PoolerShort(x) = PoolerShort(y)
  BY DEF PoolerPhase, PoolerShort
<1>3. x.infrastructure = y.infrastructure =>
         volumeBinding(x) = volumeBinding(y) /\ NoWriteService(x) = NoWriteService(y)
  BY DEF volumeBinding, NoWriteService
<1>4. x.quotas = y.quotas => quotaExhausted(x) = quotaExhausted(y)
  BY DEF quotaExhausted
<1>5. x.databases = y.databases => DeclaredObjectFailed(x) = DeclaredObjectFailed(y)
  BY DEF DeclaredObjectFailed
<1>6. x.evidence = y.evidence => RepositoryState(x) = RepositoryState(y)
  BY DEF RepositoryState, evidenceUnavailable
<1>7. ASSUME x.history = y.history
      PROVE  HistoryIncarnations(x) = HistoryIncarnations(y) /\ HistoryChanges(x) = HistoryChanges(y)
  <2>1. \A n : windowed(x, n) = windowed(y, n)
    BY <1>7 DEF windowed
  <2>2. \A n : Cardinality({e.uid : e \in windowed(x, n)}) = Cardinality({e.uid : e \in windowed(y, n)})
    BY <2>1, Zenon
  <2>3. \A n : Cardinality(windowed(x, n)) = Cardinality(windowed(y, n))
    BY <2>1, Zenon
  <2>4. {n \in Instances : Cardinality({e.uid : e \in windowed(x, n)}) >= 2}
           = {n \in Instances : Cardinality({e.uid : e \in windowed(y, n)}) >= 2}
    <3> DEFINE uids(z, n) == Cardinality({e.uid : e \in windowed(z, n)})
    <3>1. \A n : uids(x, n) = uids(y, n)
      BY <2>2
    <3> HIDE DEF uids
    <3>2. {n \in Instances : uids(x, n) >= 2} = {n \in Instances : uids(y, n) >= 2}
      BY <3>1
    <3> QED BY <3>2 DEF uids
  <2>5. {n \in Instances : Cardinality(windowed(x, n)) >= 2} = {n \in Instances : Cardinality(windowed(y, n)) >= 2}
    BY <2>3
  <2>6. HistoryIncarnations(x) = HistoryIncarnations(y)
    BY <1>7, <2>4, Zenon DEF HistoryIncarnations
  <2>7. HistoryChanges(x) = HistoryChanges(y)
    BY <1>7, <2>5, Zenon DEF HistoryChanges
  <2> QED BY <2>6, <2>7
<1>8. x.pods = y.pods => NoReadyInstance(x) = NoReadyInstance(y)
  BY DEF NoReadyInstance
<1>9. ASSUME x.lease = y.lease, x.cluster = y.cluster
      PROVE  PrimaryLeaseExpired(x) = PrimaryLeaseExpired(y)
             /\ PrimaryLeaseHolderMismatch(x) = PrimaryLeaseHolderMismatch(y)
  <2>1. \A r : OnTheLease(x, r) = OnTheLease(y, r)
    BY <1>9 DEF OnTheLease, clusterUnavailable
  <2> QED BY <1>9, <2>1 DEF PrimaryLeaseExpired, PrimaryLeaseHolderMismatch
<1> QED BY <1>1, <1>2, <1>3, <1>4, <1>5, <1>6, <1>7, <1>8, <1>9

-----------------------------------------------------------------------------
(* A source in contact shows what there is.                                 *)

\* The sources that are held as they are unless their list is cut.
Whole == Watched \ {"catalogs", "quorum", "evidence"}

\* What is looked at is a snapshot in contact.
LEMMA ContactIs ==
  ASSUME TypesInv, NEW s \in Watched \cap Read, unread(in[s]) = ""
  PROVE  /\ in[s].has = TRUE /\ in[s].stale = FALSE /\ in[s].facts \in Shown(s, truth.facts[s])
         /\ Formed(s, in[s]) /\ NamesInstances(s, truth.facts[s])
<1>1. Follows(s, in[s], truth.facts[s]) /\ NamesInstances(s, truth.facts[s])
  BY DEF TypesInv, WatchedInv, FactsInv
<1>2. in[s].has /\ ~in[s].stale
  BY DEF unread
<1> QED BY <1>1, <1>2 DEF Follows

\* Only a list is cut.
LEMMA NeverCut ==
  ASSUME TypesInv, NEW s, <<s, "cut">> \in check.varies
  PROVE  s \in Lists
<1>1. check \in Checks
  BY DEF TypesInv, HInv, HeldTypes
<1>2. PICK v \in check.varies : v = <<s, "cut">>
  OBVIOUS
<1> QED BY <1>1, <1>2, SourcesAssumption

\* A snapshot in contact holds the facts there are, or a list that says it is cut.
LEMMA WholeOrCut ==
  ASSUME TypesInv, NEW s \in Whole \cap Read, unread(in[s]) = ""
  PROVE  \/ in[s].facts = truth.facts[s]
         \/ /\ s \in Lists /\ <<s, "cut">> \in check.varies
            /\ in[s].facts = [Cut(s, truth.facts[s]) EXCEPT !.cut = TRUE]
            /\ in[s].facts.cut = TRUE
            /\ DOMAIN in[s].facts = DOMAIN CalmFacts[s]
            /\ \A f \in DOMAIN CalmFacts[s] : f # "cut" => in[s].facts[f] = Cut(s, truth.facts[s])[f]
<1>1. s \in Watched \cap Read
  BY DEF Whole
<1>2. in[s].facts \in Shown(s, truth.facts[s]) /\ NamesInstances(s, truth.facts[s])
  BY <1>1, ContactIs
<1>3. CASE <<s, "cut">> \notin check.varies
  <2>1. Shown(s, truth.facts[s]) = {truth.facts[s]}
    BY <1>3 DEF Shown, Whole
  <2> QED BY <1>2, <2>1
<1>4. CASE <<s, "cut">> \in check.varies
  <2>1. Shown(s, truth.facts[s]) = {truth.facts[s], [Cut(s, truth.facts[s]) EXCEPT !.cut = TRUE]}
    BY <1>4 DEF Shown, Whole
  <2>2. s \in Lists
    BY <1>4, NeverCut
  <2>3. "cut" \in DOMAIN CalmFacts[s] /\ DOMAIN truth.facts[s] = DOMAIN CalmFacts[s]
    <3>1. /\ "cut" \in DOMAIN CalmFacts["pods"] /\ "cut" \in DOMAIN CalmFacts["poolerPods"]
          /\ "cut" \in DOMAIN CalmFacts["poolers"] /\ "cut" \in DOMAIN CalmFacts["backups"]
          /\ "cut" \in DOMAIN CalmFacts["events"] /\ "cut" \in DOMAIN CalmFacts["infrastructure"]
          /\ "cut" \in DOMAIN CalmFacts["databases"]
      BY DEF CalmFacts
    <3>2. \A l \in Lists : "cut" \in DOMAIN CalmFacts[l]
      BY <3>1 DEF Lists
    <3> QED BY <1>2, <2>2, <3>2 DEF NamesInstances
  <2>4. DOMAIN Cut(s, truth.facts[s]) = DOMAIN truth.facts[s]
    BY <2>2 DEF Cut, Lists
  <2>5. PICK then : then = [Cut(s, truth.facts[s]) EXCEPT !.cut = TRUE]
    OBVIOUS
  <2>6. /\ DOMAIN then = DOMAIN CalmFacts[s] /\ then.cut = TRUE
        /\ \A f \in DOMAIN CalmFacts[s] : f # "cut" => then[f] = Cut(s, truth.facts[s])[f]
    BY <2>3, <2>4, <2>5
  <2> QED BY <1>2, <1>4, <2>1, <2>2, <2>5, <2>6
<1> QED BY <1>3, <1>4

\* Unless its list was cut.
LEMMA WholeIs ==
  ASSUME TypesInv, NEW s \in Whole \cap Read, unread(in[s]) = "",
         <<s, "cut">> \in check.varies => ~in[s].facts.cut
  PROVE  in[s].facts = truth.facts[s]
BY WholeOrCut

\* A console that sees everything holds the same of it.
LEMMA SameFacts ==
  ASSUME TypesInv, NEW s \in Whole \cap Read, unread(in[s]) = "", in[s].facts = truth.facts[s],
         NEW P, IsPerfect(P, in, truth)
  PROVE  P[s] = in[s]
<1>1. s \in Watched \cap Read
  BY DEF Whole
<1>2. in[s].has = TRUE /\ in[s].stale = FALSE /\ Formed(s, in[s])
  BY <1>1, ContactIs
<1>3. in[s].facts = truth.facts[s]
  OBVIOUS
<1>4. CASE s = "cluster"
  <2>1. P["cluster"] = [has |-> TRUE, stale |-> FALSE, facts |-> truth.facts["cluster"], since |-> in["cluster"].since]
    BY <1>4 DEF IsPerfect
  <2>2. in["cluster"] = [f \in {"has", "stale", "facts", "since"} |-> in["cluster"][f]]
    BY <1>2, <1>4 DEF Formed, Fields
  <2> QED BY <1>2, <1>3, <1>4, <2>1, <2>2
<1>5. CASE s # "cluster"
  <2>1. P[s] = [has |-> TRUE, stale |-> FALSE, facts |-> truth.facts[s]]
    BY <1>1, <1>5 DEF IsPerfect, Whole
  <2>2. Fields(s) = {"has", "stale", "facts"}
    BY <1>5 DEF Fields, Whole
  <2>3. in[s] = [f \in {"has", "stale", "facts"} |-> in[s][f]]
    BY <1>2, <2>2 DEF Formed
  <2> QED BY <1>2, <1>3, <2>1, <2>3
<1> QED BY <1>4, <1>5

\* Of a list that was not cut.
LEMMA SameSource ==
  ASSUME TypesInv, NEW s \in Whole \cap Read, unread(in[s]) = "",
         <<s, "cut">> \in check.varies => ~in[s].facts.cut,
         NEW P, IsPerfect(P, in, truth)
  PROVE  P[s] = in[s]
BY WholeIs, SameFacts

\* The fields of the others.
LEMMA PerfectParts ==
  ASSUME NEW s \in (Watched \ {"cluster", "evidence"}) \cap Read, NEW P, IsPerfect(P, in, truth)
  PROVE  P[s].stale = FALSE /\ P[s].facts = truth.facts[s] /\ P[s].has = TRUE
<1>1. P[s] = [has |-> TRUE, stale |-> FALSE, facts |-> truth.facts[s]]
  BY DEF IsPerfect
<1> QED BY <1>1

\* A list cut short is told from the whole.
LEMMA QuorumShown ==
  ASSUME NEW q, {"present", "number", "cut"} \subseteq DOMAIN q, <<"quorum", "cut">> \notin check.varies,
         NEW r \in Shown("quorum", q)
  PROVE  r = q \/ (r.present = q.present /\ r.number = q.number /\ r.cut = TRUE)
<1>1. r = q \/ r = [q EXCEPT !.standbys = @ - 1, !.cut = TRUE]
  BY DEF Shown
<1> QED BY <1>1

\* So is a list of catalogs, or of a catalog's images.
LEMMA CatalogsShown ==
  ASSUME NEW q, DOMAIN q = {"listed", "cut", "images", "imagesCut"},
         <<"catalogs", "cut">> \notin check.varies, NEW r \in Shown("catalogs", q)
  PROVE  \/ r = q
         \/ r.listed = FALSE /\ r.cut = TRUE
         \/ r.listed = q.listed /\ r.cut = q.cut /\ r.images = {} /\ r.imagesCut = TRUE
<1>1. \/ r = q \/ r = [q EXCEPT !.listed = FALSE, !.cut = TRUE]
      \/ r = [q EXCEPT !.images = {}, !.imagesCut = TRUE]
  BY DEF Shown
<1> QED BY <1>1

\* A list that did not reach its ceiling.
LEMMA Uncut ==
  ASSUME TypesInv, ~CutShort, NEW s \in Read
  PROVE  <<s, "cut">> \in check.varies => ~in[s].facts.cut
BY NeverCut DEF CutShort

\* The Cluster, the quorum, the catalogs and what has no list are never cut.
LEMMA ClusterUncut ==
  ASSUME TypesInv, NEW s, s \notin Lists
  PROVE  <<s, "cut">> \notin check.varies
BY NeverCut

\* What an outcome says of the result.
LEMMA OutcomeIs ==
  /\ outcome = "clear" => result = Clear
  /\ outcome = "matched" => result.because = ""
BY DEF outcome, evaluateRule, sourceOff

\* The moment's verdict on a subject.
LEMMA NowIsRecent ==
  ASSUME TypesInv, Witnessed, NEW s \in Subjects
  PROVE  /\ s \notin Found(in, truth) => in.now - calm[s] <= Slack
         /\ s \in Found(in, truth) => in.now - ill[s] <= Slack
<1>1. in.now \in Int
  BY DEF TypesInv, HInv, HeldTypes
<1>2. Slack \in Int /\ Slack >= 0
  BY TimesAssumption DEF Slack
<1>3. calm[s] \in Int /\ ill[s] \in Int
  BY DEF Witnessed
<1> QED BY <1>1, <1>2, <1>3 DEF Witnessed

-----------------------------------------------------------------------------
(* A check is judged on sources that are all in contact.                    *)

\* The early returns.
LEMMA Gate ==
  ASSUME NEW reason, NEW r, Unless(reason, r).because = ""
  PROVE  reason = "" /\ Unless(reason, r) = r
BY ResultFields DEF Unless

\* The first reason, if there is one.
LEMMA OrIs == \A first, second : Or(first, second) = "" => first = "" /\ second = ""
BY DEF Or

\* The Cluster is judged in contact, and present.
LEMMA ClusterReadIs ==
  ASSUME NEW x, clusterUnavailable(x) = ""
  PROVE  unread(x.cluster) = "" /\ x.cluster.facts.present
<1> DEFINE absent == IF x.cluster.facts.present THEN "" ELSE "absent"
<1>1. clusterUnavailable(x) = Or(unread(x.cluster), absent)
  BY DEF clusterUnavailable
<1>2. unread(x.cluster) = "" /\ absent = ""
  BY <1>1, OrIs
<1> QED BY <1>2

\* What a step may answer.
Answers == {"could not be judged", "found", "not observable here", "ruled out",
            "needs a switched-off source", "does not apply"}

\* What an answer says of the facts and of what the checks concluded.
LEMMA AnswerIs ==
  ASSUME NEW facts, NEW outcomes
  PROVE  /\ answer(facts, outcomes) \in Answers
         /\ answer(facts, outcomes) = "found" <=>
               /\ \A f \in facts : f.because = ""
               /\ (\E f \in facts : f # Clear) \/ "matched" \in outcomes
         /\ answer(facts, outcomes) = "ruled out" =>
               /\ \A f \in facts : f.because = "" /\ f = Clear
               /\ outcomes \cap {"matched", "unavailable", "off"} = {}
               /\ "clear" \in outcomes \/ (outcomes = {} /\ facts # {})
BY DEF answer, Answers

\* What a step concludes is the answer of its facts and its checks.
LEMMA AnsweredIs ==
  ASSUME NEW said \in Answers
  PROVE  /\ Answered(said).because = "" => said \in {"found", "ruled out"}
         /\ Answered(said).on = IF said = "found" THEN {Cluster} ELSE {}
<1>1. CASE said = "found"
  BY <1>1, ResultFields DEF Answered
<1>2. CASE said = "ruled out"
  BY <1>2, ResultFields DEF Answered
<1>3. CASE said = "needs a switched-off source"
  <2>1. Answered(said) = Unavailable("off")
    BY <1>3 DEF Answered
  <2>2. Answered(said).because = "off" /\ Answered(said).on = {}
    BY <2>1, ResultFields
  <2> QED BY <1>3, <2>2
<1>4. CASE said \notin {"found", "ruled out", "needs a switched-off source"}
  <2>1. Answered(said) = Unavailable(said)
    BY <1>4 DEF Answered
  <2> QED BY <1>4, <2>1, ResultFields DEF Answers
<1> QED BY <1>1, <1>2, <1>3, <1>4

\* A step that says something was found or ruled out, and judged its facts.
LEMMA StepJudged ==
  ASSUME NEW facts, NEW outcomes, NEW said, said = answer(facts, outcomes), Answered(said).because = ""
  PROVE  said \in {"found", "ruled out"} /\ \A f \in facts : f.because = ""
<1>1. answer(facts, outcomes) \in Answers
  BY AnswerIs
<1>2. said \in {"found", "ruled out"}
  BY <1>1, AnsweredIs
<1>3. CASE said = "found"
  <2>1. answer(facts, outcomes) = "found"
    BY <1>3
  <2> QED BY <2>1, AnswerIs
<1>4. CASE said = "ruled out"
  <2>1. answer(facts, outcomes) = "ruled out"
    BY <1>4
  <2> QED BY <2>1, AnswerIs
<1> QED BY <1>2, <1>3, <1>4

\* A walk of two steps.
LEMMA PairIs ==
  ASSUME NEW u, NEW v, NEW s, s = <<u, v>>
  PROVE  DOMAIN s = {1, 2} /\ s[1] = u /\ s[2] = v
<1>1. DOMAIN <<u, v>> = 1..2
  OBVIOUS
<1>2. 1..2 = {1, 2}
  OBVIOUS
<1> QED BY <1>1, <1>2

\* What a walk concludes: found, or ruled out where every step could be judged.
LEMMA WalkedIs ==
  ASSUME NEW steps, DOMAIN steps \subseteq {1, 2, 3}
  PROVE  /\ Walked(steps).on = IF \E i \in DOMAIN steps : steps[i] = "found" THEN {Cluster} ELSE {}
         /\ Walked(steps).because = "" =>
               \/ \E i \in DOMAIN steps : steps[i] = "found"
               \/ \A i \in DOMAIN steps : steps[i] # "could not be judged"
<1> DEFINE found == {i \in DOMAIN steps : steps[i] = "found"}
<1>1. StartAt(steps) = IF found = {} THEN 0 ELSE CHOOSE i \in found : \A j \in found : i <= j
  BY DEF StartAt
<1>2. found # {} => StartAt(steps) \in {1, 2, 3}
  <2>1. found \subseteq {1, 2, 3}
    OBVIOUS
  <2> HIDE DEF found
  <2>2. found # {} => \E i \in found : \A j \in found : i <= j
    <3>1. CASE 1 \in found
      BY <2>1, <3>1
    <3>2. CASE 1 \notin found /\ 2 \in found
      BY <2>1, <3>2
    <3>3. CASE 1 \notin found /\ 2 \notin found
      <4>1. \A i \in found : i = 3
        BY <2>1, <3>3
      <4> QED BY <4>1
    <3> QED BY <3>1, <3>2, <3>3
  <2> QED BY <1>1, <2>1, <2>2
<1>3. found = {} => StartAt(steps) = 0
  BY <1>1
<1>4. found # {} <=> playbookState(steps) = "degraded"
  BY <1>2, <1>3 DEF playbookState
<1>5. found = {} => (playbookState(steps) = "unknown" <=> \E i \in DOMAIN steps : steps[i] = "could not be judged")
  <2>1. found = {} => playbookState(steps) = IF \E i \in DOMAIN steps : steps[i] = "could not be judged"
                                             THEN "unknown" ELSE "current"
    <3>1. found = {} => ~(StartAt(steps) > 0)
      BY <1>3
    <3> HIDE DEF found
    <3> QED BY <3>1, Zenon DEF playbookState
  <2> HIDE DEF found
  <2> QED BY <2>1
<1>6. playbookState(steps) \in {"degraded", "unknown", "current"}
  BY DEF playbookState
<1>7. playbookState(steps) = "degraded" => Walked(steps).on = {Cluster}
  BY ResultFields DEF Walked
<1>8. playbookState(steps) = "current" => Walked(steps).on = {}
  BY ResultFields DEF Walked
<1>9. playbookState(steps) = "unknown" => Walked(steps).on = {} /\ Walked(steps).because = "unjudged"
  <2>1. playbookState(steps) = "unknown" => Walked(steps) = Unavailable("unjudged")
    BY DEF Walked
  <2>2. Unavailable("unjudged").on = {} /\ Unavailable("unjudged").because = "unjudged"
    BY ResultFields
  <2> QED BY <2>1, <2>2
<1> QED BY <1>4, <1>5, <1>6, <1>7, <1>8, <1>9

\* A check that concluded neither way, or not to what it was pinned.
LEMMA ConcludedIs ==
  ASSUME NEW x, NEW pin, NEW r, evaluateRule(x, pin, r) \notin {"unavailable", "off", "not applicable"}
  PROVE  r.because = "" /\ (evaluateRule(x, pin, r) = "clear" <=> r = Clear)
BY ResultFields DEF evaluateRule, sourceOff

\* The rules about the Cluster look at it in contact.
LEMMA ClusterGate ==
  ASSUME NEW rule \in ClusterRules, NEW x, Evaluate(rule, x).because = ""
  PROVE  unread(x.cluster) = ""
<1>1. \A r : OnTheCluster(x, r).because = "" => unread(x.cluster) = ""
  BY Gate, ClusterReadIs DEF OnTheCluster
<1>2. ClusterPhase(x).because = "" => unread(x.cluster) = ""
  BY <1>1 DEF ClusterPhase
<1>3. CASE rule \in {"ClusterCondition", "ClusterPhase", "ClusterPhaseHeld", "StatusListed",
           "ReplicaSwitchStuck", "InstancesShort"}
  BY <1>1, <1>3 DEF Evaluate, ClusterCondition, ClusterPhase, ClusterPhaseHeld, StatusListed,
     ReplicaSwitchStuck, InstancesShort
<1>4. CASE rule \in {"TimelineDivergence", "PrimaryFailing", "CertificateExpiring", "CertificateExpired",
           "Reported", "PrimaryMismatch"}
  BY <1>1, <1>4 DEF Evaluate, TimelineDivergence, PrimaryFailing, CertificateExpiring, Reported, PrimaryMismatch
<1>5. CASE rule = "primaryNamed"
  <2>1. Evaluate(rule, x) = Answered(primaryNamed(x))
    BY <1>5 DEF Evaluate
  <2>2. PICK outcomes : primaryNamed(x) = answer({NoPrimaryNamed(x)}, outcomes)
    BY Zenon DEF primaryNamed
  <2>3. NoPrimaryNamed(x).because = ""
    <3>1. Answered(primaryNamed(x)).because = ""
      BY <2>1
    <3>2. \A f \in {NoPrimaryNamed(x)} : f.because = ""
      BY <2>2, <3>1, StepJudged
    <3> QED BY <3>2
  <2> QED BY <2>3, Gate DEF NoPrimaryNamed
<1>6. CASE rule = "operatorSilent"
  <2>1. Evaluate(rule, x) = Walked(operatorSilent(x))
    BY <1>6 DEF Evaluate
  <2>2. operatorSilent(x) = <<reconciles(x), operatorRunning>>
    BY DEF operatorSilent
  <2>3. reconciles(x) # "could not be judged"
    <3> DEFINE steps == operatorSilent(x)
    <3>1. DOMAIN steps = {1, 2} /\ steps[1] = reconciles(x) /\ steps[2] = operatorRunning
      <4>1. PICK one : one = reconciles(x)
        OBVIOUS
      <4>2. PICK other : other = operatorRunning
        OBVIOUS
      <4>3. steps = <<one, other>>
        BY <2>2, <4>1, <4>2
      <4> HIDE DEF steps
      <4>4. DOMAIN steps = {1, 2} /\ steps[1] = one /\ steps[2] = other
        BY <4>3, PairIs
      <4> QED BY <4>1, <4>2, <4>4
    <3>2. operatorRunning # "found"
      BY DEF operatorRunning, answer
    <3> HIDE DEF steps
    <3>3. \/ \E i \in DOMAIN steps : steps[i] = "found"
          \/ \A i \in DOMAIN steps : steps[i] # "could not be judged"
      BY <2>1, <3>1, WalkedIs DEF steps
    <3> QED BY <3>1, <3>2, <3>3
  <2>4. evaluateRule(x, Nil, ClusterPhase(x)) # "unavailable"
    BY <2>3 DEF reconciles, answer, Concluded
  <2>5. ClusterPhase(x).because \in {"", "off"}
    BY <2>4, Unpinned
  <2>6. ClusterPhase(x).because # "off"
    BY ResultFields DEF ClusterPhase, OnTheCluster, OnCluster, clusterUnavailable, unread, Or, Unless, Matches
  <2> QED BY <1>2, <2>5, <2>6
<1> QED BY <1>3, <1>4, <1>5, <1>6 DEF ClusterRules

\* So do the rules about the backups, the events and the other lists.
LEMMA OthersGate ==
  ASSUME NEW x
  PROVE  /\ \A rule \in BackupRules \ {"scheduleFiring"} : Evaluate(rule, x).because = "" => unread(x.backups) = ""
         /\ \A rule \in EventRules : Evaluate(rule, x).because = "" => unread(x.events) = ""
         /\ imagePull(x).because = "" => unread(x.pods) = ""
         /\ PoolerPhase(x).because = "" => unread(x.poolers) = ""
         /\ PoolerShort(x).because = "" => unread(x.poolers) = ""
         /\ volumeBinding(x).because = "" => unread(x.infrastructure) = ""
         /\ quotaExhausted(x).because = "" => unread(x.quotas) = ""
         /\ DeclaredObjectFailed(x).because = "" => unread(x.databases) = ""
         /\ PrimaryLeaseExpired(x).because = "" => unread(x.lease) = "" /\ unread(x.cluster) = ""
         /\ PrimaryLeaseHolderMismatch(x).because = "" => unread(x.lease) = "" /\ unread(x.cluster) = ""
<1>1. \A r : OnBackups(x, r).because = "" => unread(x.backups) = ""
  BY Gate DEF OnBackups
<1>2. \A rule \in BackupRules \ {"scheduleFiring"} : Evaluate(rule, x).because = "" => unread(x.backups) = ""
  <2>1. \A r : OnTheStore(x, r).because = "" => unread(x.backups) = ""
    BY <1>1 DEF OnTheStore
  <2> SUFFICES ASSUME NEW rule \in BackupRules \ {"scheduleFiring"}, Evaluate(rule, x).because = ""
               PROVE  unread(x.backups) = ""
    OBVIOUS
  <2>2. CASE rule = "BackupPhase"
    BY <1>1, <2>2 DEF Evaluate, BackupPhase
  <2>3. CASE rule = "ScheduledBackupSuspended"
    BY <1>1, <2>3 DEF Evaluate, ScheduledBackupSuspended
  <2>4. CASE rule = "ScheduledBackupOverdue"
    BY <1>1, <2>4 DEF Evaluate, ScheduledBackupOverdue
  <2>5. CASE rule = "backupCadence"
    BY <1>1, <2>5 DEF Evaluate, backupCadence
  <2>6. CASE rule = "StoreBackupFailed"
    BY <2>1, <2>6 DEF Evaluate, StoreBackupFailed
  <2>7. CASE rule = "StoreNoBackup"
    BY <2>1, <2>7 DEF Evaluate, StoreNoBackup
  <2> QED BY <2>2, <2>3, <2>4, <2>5, <2>6, <2>7 DEF BackupRules
<1>3. quotaRefusal(x).because = "" => unread(x.events) = ""
  BY Gate DEF quotaRefusal
<1>4. podScheduling(x).because = "" => unread(x.events) = ""
  BY Gate DEF podScheduling
<1>5. EventMatch(x, {"Pod"}).because = "" => unread(x.events) = ""
  BY Gate DEF EventMatch
<1>6. \A rule \in EventRules : Evaluate(rule, x).because = "" => unread(x.events) = ""
  <2>1. /\ Evaluate("quotaRefusal", x) = quotaRefusal(x)
        /\ Evaluate("podScheduling", x) = podScheduling(x)
        /\ Evaluate("EventMatch", x) = EventMatch(x, {"Pod"})
    BY DEF Evaluate
  <2> QED BY <1>3, <1>4, <1>5, <2>1 DEF EventRules
<1>7. imagePull(x).because = "" => unread(x.pods) = ""
  BY Gate DEF imagePull
<1>8. PoolerPhase(x).because = "" => unread(x.poolers) = ""
  BY Gate DEF PoolerPhase
<1>9. PoolerShort(x).because = "" => unread(x.poolers) = ""
  BY Gate DEF PoolerShort
<1>10. volumeBinding(x).because = "" => unread(x.infrastructure) = ""
  BY Gate DEF volumeBinding
<1>11. quotaExhausted(x).because = "" => unread(x.quotas) = ""
  BY Gate DEF quotaExhausted
<1>12. DeclaredObjectFailed(x).because = "" => unread(x.databases) = ""
  BY Gate DEF DeclaredObjectFailed
<1>13. \A r : OnTheLease(x, r).because = "" => unread(x.lease) = "" /\ unread(x.cluster) = ""
  <2>1. \A r : OnTheLease(x, r).because = "" => Or(unread(x.lease), clusterUnavailable(x)) = ""
    BY Gate DEF OnTheLease
  <2> QED BY <2>1, OrIs, ClusterReadIs
<1>14. PrimaryLeaseExpired(x).because = "" => unread(x.lease) = "" /\ unread(x.cluster) = ""
  BY <1>13 DEF PrimaryLeaseExpired
<1>15. PrimaryLeaseHolderMismatch(x).because = "" => unread(x.lease) = "" /\ unread(x.cluster) = ""
  BY <1>13 DEF PrimaryLeaseHolderMismatch
<1> QED BY <1>2, <1>6, <1>7, <1>8, <1>9, <1>10, <1>11, <1>12, <1>14, <1>15

-----------------------------------------------------------------------------
(* What a check finds on sources in contact is there to be found.           *)

\* One evaluation for each rule.
LEMMA ClusterEvaluated ==
  ASSUME NEW rule \in ClusterRules, NEW x, NEW y, x.now = y.now, x.cluster = y.cluster
  PROVE  Evaluate(rule, x) = Evaluate(rule, y)
<1>1. CASE rule = "ClusterCondition"
  <2>1. Evaluate(rule, x) = ClusterCondition(x) /\ Evaluate(rule, y) = ClusterCondition(y)
    BY <1>1 DEF Evaluate
  <2> QED BY <2>1, ClusterRulesSame
<1>2. CASE rule = "ClusterPhase"
  <2>1. Evaluate(rule, x) = ClusterPhase(x) /\ Evaluate(rule, y) = ClusterPhase(y)
    BY <1>2 DEF Evaluate
  <2> QED BY <2>1, ClusterRulesSame
<1>3. CASE rule = "ClusterPhaseHeld"
  <2>1. Evaluate(rule, x) = ClusterPhaseHeld(x) /\ Evaluate(rule, y) = ClusterPhaseHeld(y)
    BY <1>3 DEF Evaluate
  <2> QED BY <2>1, ClusterRulesSame
<1>4. CASE rule = "StatusListed"
  <2>1. Evaluate(rule, x) = StatusListed(x) /\ Evaluate(rule, y) = StatusListed(y)
    BY <1>4 DEF Evaluate
  <2> QED BY <2>1, ClusterRulesSame
<1>5. CASE rule = "ReplicaSwitchStuck"
  <2>1. Evaluate(rule, x) = ReplicaSwitchStuck(x) /\ Evaluate(rule, y) = ReplicaSwitchStuck(y)
    BY <1>5 DEF Evaluate
  <2> QED BY <2>1, ClusterRulesSame
<1>6. CASE rule = "InstancesShort"
  <2>1. Evaluate(rule, x) = InstancesShort(x) /\ Evaluate(rule, y) = InstancesShort(y)
    BY <1>6 DEF Evaluate
  <2> QED BY <2>1, ClusterRulesSame
<1>7. CASE rule = "TimelineDivergence"
  <2>1. Evaluate(rule, x) = TimelineDivergence(x) /\ Evaluate(rule, y) = TimelineDivergence(y)
    BY <1>7 DEF Evaluate
  <2> QED BY <2>1, ClusterRulesSame
<1>8. CASE rule = "PrimaryFailing"
  <2>1. Evaluate(rule, x) = PrimaryFailing(x) /\ Evaluate(rule, y) = PrimaryFailing(y)
    BY <1>8 DEF Evaluate
  <2> QED BY <2>1, ClusterRulesSame
<1>9. CASE rule = "CertificateExpiring"
  <2>1. Evaluate(rule, x) = CertificateExpiring(x, MinAge) /\ Evaluate(rule, y) = CertificateExpiring(y, MinAge)
    BY <1>9 DEF Evaluate
  <2> QED BY <2>1, ClusterRulesSame
<1>10. CASE rule = "CertificateExpired"
  <2>1. Evaluate(rule, x) = CertificateExpiring(x, 0) /\ Evaluate(rule, y) = CertificateExpiring(y, 0)
    BY <1>10 DEF Evaluate
  <2> QED BY <2>1, ClusterRulesSame
<1>11. CASE rule = "Reported"
  <2>1. Evaluate(rule, x) = Reported(x) /\ Evaluate(rule, y) = Reported(y)
    BY <1>11 DEF Evaluate
  <2> QED BY <2>1, ClusterRulesSame
<1>12. CASE rule = "PrimaryMismatch"
  <2>1. Evaluate(rule, x) = PrimaryMismatch(x) /\ Evaluate(rule, y) = PrimaryMismatch(y)
    BY <1>12 DEF Evaluate
  <2> QED BY <2>1, ClusterRulesSame
<1>13. CASE rule = "primaryNamed"
  <2>1. Evaluate(rule, x) = Answered(primaryNamed(x)) /\ Evaluate(rule, y) = Answered(primaryNamed(y))
    BY <1>13 DEF Evaluate
  <2> QED BY <2>1, ClusterRulesSame
<1>14. CASE rule = "operatorSilent"
  <2>1. Evaluate(rule, x) = Walked(operatorSilent(x)) /\ Evaluate(rule, y) = Walked(operatorSilent(y))
    BY <1>14 DEF Evaluate
  <2> QED BY <2>1, ClusterRulesSame
<1> QED BY <1>1, <1>2, <1>3, <1>4, <1>5, <1>6, <1>7, <1>8, <1>9, <1>10, <1>11, <1>12, <1>13, <1>14 DEF ClusterRules

\* The same of the backups' rules.
LEMMA BackupsEvaluated ==
  ASSUME NEW rule \in BackupRules, NEW x, NEW y, x.now = y.now, x.backups = y.backups
  PROVE  Evaluate(rule, x) = Evaluate(rule, y)
<1>1. CASE rule = "BackupPhase"
  <2>1. Evaluate(rule, x) = BackupPhase(x) /\ Evaluate(rule, y) = BackupPhase(y)
    BY <1>1 DEF Evaluate
  <2> QED BY <2>1, BackupRulesSame
<1>2. CASE rule = "ScheduledBackupSuspended"
  <2>1. Evaluate(rule, x) = ScheduledBackupSuspended(x) /\ Evaluate(rule, y) = ScheduledBackupSuspended(y)
    BY <1>2 DEF Evaluate
  <2> QED BY <2>1, BackupRulesSame
<1>3. CASE rule = "ScheduledBackupOverdue"
  <2>1. Evaluate(rule, x) = ScheduledBackupOverdue(x) /\ Evaluate(rule, y) = ScheduledBackupOverdue(y)
    BY <1>3 DEF Evaluate
  <2> QED BY <2>1, BackupRulesSame
<1>4. CASE rule = "backupCadence"
  <2>1. Evaluate(rule, x) = backupCadence(x) /\ Evaluate(rule, y) = backupCadence(y)
    BY <1>4 DEF Evaluate
  <2> QED BY <2>1, BackupRulesSame
<1>5. CASE rule = "StoreBackupFailed"
  <2>1. Evaluate(rule, x) = StoreBackupFailed(x) /\ Evaluate(rule, y) = StoreBackupFailed(y)
    BY <1>5 DEF Evaluate
  <2> QED BY <2>1, BackupRulesSame
<1>6. CASE rule = "StoreNoBackup"
  <2>1. Evaluate(rule, x) = StoreNoBackup(x) /\ Evaluate(rule, y) = StoreNoBackup(y)
    BY <1>6 DEF Evaluate
  <2> QED BY <2>1, BackupRulesSame
<1>7. CASE rule = "scheduleFiring"
  <2>1. Evaluate(rule, x) = Answered(scheduleFiring(x)) /\ Evaluate(rule, y) = Answered(scheduleFiring(y))
    BY <1>7 DEF Evaluate
  <2> QED BY <2>1, BackupRulesSame
<1> QED BY <1>1, <1>2, <1>3, <1>4, <1>5, <1>6, <1>7 DEF BackupRules

\* The same of the events' rules.
LEMMA EventsEvaluated ==
  ASSUME NEW rule \in EventRules, NEW x, NEW y, x.events = y.events
  PROVE  Evaluate(rule, x) = Evaluate(rule, y)
<1>1. CASE rule = "quotaRefusal"
  <2>1. Evaluate(rule, x) = quotaRefusal(x) /\ Evaluate(rule, y) = quotaRefusal(y)
    BY <1>1 DEF Evaluate
  <2> QED BY <2>1, EventRulesSame
<1>2. CASE rule = "podScheduling"
  <2>1. Evaluate(rule, x) = podScheduling(x) /\ Evaluate(rule, y) = podScheduling(y)
    BY <1>2 DEF Evaluate
  <2> QED BY <2>1, EventRulesSame
<1>3. CASE rule = "EventMatch"
  <2>1. Evaluate(rule, x) = EventMatch(x, {"Pod"}) /\ Evaluate(rule, y) = EventMatch(y, {"Pod"})
    BY <1>3 DEF Evaluate
  <2> QED BY <2>1, EventRulesSame
<1> QED BY <1>1, <1>2, <1>3 DEF EventRules

\* A source that is consulted is read.
LEMMA IsRead ==
  ASSUME TypesInv
  PROVE  /\ check.rule \in ClusterRules \cup {"AllOfClusterAndPod", "PrimaryLeaseExpired", "PrimaryLeaseHolderMismatch",
               "ImageCatalogMissing", "ImageCatalogLacksMajor", "definitionRefused", "instanceReady", "writeService",
               "cannotConnect", "PrimaryDisagreement"} => "cluster" \in Read
         /\ check.rule \in BackupRules \cup {"BackupEvent"} => "backups" \in Read
         /\ check.rule \in EventRules \cup {"BackupEvent"} => "events" \in Read
         /\ check.rule \in {"imagePull", "AllOfPodAndPooler", "AllOfClusterAndPod", "layer", "ContainerState",
               "instanceReady", "cannotConnect", "logMatches"} => "pods" \in Read
         /\ check.rule \in {"PoolerPhase", "PoolerShort", "AllOfPodAndPooler", "layer", "poolerUp"} =>
               "poolers" \in Read
         /\ check.rule \in {"volumeBinding", "writeService", "cannotConnect"} => "infrastructure" \in Read
         /\ check.rule = "quotaExhausted" => "quotas" \in Read
         /\ check.rule = "DeclaredObjectFailed" => "databases" \in Read
         /\ check.rule = "QuorumStandbysShort" => "quorum" \in Read
         /\ check.rule = "RepositoryState" => "evidence" \in Read
         /\ check.rule = "ContainerState" => "poolerPods" \in Read
         /\ check.rule \in {"PrimaryLeaseExpired", "PrimaryLeaseHolderMismatch"} => "lease" \in Read
         /\ check.rule \in {"ImageCatalogMissing", "ImageCatalogLacksMajor", "definitionRefused"} => "catalogs" \in Read
         /\ check.rule \in {"poolerUp", "PrimaryDisagreement"} => "metrics" \in Read
         /\ check.rule = "logMatches" => "logs" \in Read
         /\ check.rule \in HistoryRules => "history" \in Read
<1>0. Read = Consulted(check.rule)
  BY ReadIs DEF TypesInv, HInv
<1>1. check.rule \in ClusterRules \cup {"AllOfClusterAndPod", "PrimaryLeaseExpired", "PrimaryLeaseHolderMismatch",
               "ImageCatalogMissing", "ImageCatalogLacksMajor", "definitionRefused", "instanceReady", "writeService",
               "cannotConnect", "PrimaryDisagreement"} => "cluster" \in Read
  BY <1>0 DEF Consulted, ClusterRules, BackupRules, StatusRules, MetricRules, EventRules, HistoryRules
<1>2. check.rule \in BackupRules \cup {"BackupEvent"} => "backups" \in Read
  BY <1>0 DEF Consulted, ClusterRules, BackupRules, StatusRules, MetricRules, EventRules, HistoryRules
<1>3. check.rule \in EventRules \cup {"BackupEvent"} => "events" \in Read
  BY <1>0 DEF Consulted, ClusterRules, BackupRules, StatusRules, MetricRules, EventRules, HistoryRules
<1>4. check.rule \in {"imagePull", "AllOfPodAndPooler", "AllOfClusterAndPod", "layer", "ContainerState",
               "instanceReady", "cannotConnect", "logMatches"} => "pods" \in Read
  BY <1>0 DEF Consulted, ClusterRules, BackupRules, StatusRules, MetricRules, EventRules, HistoryRules
<1>5. check.rule \in {"PoolerPhase", "PoolerShort", "AllOfPodAndPooler", "layer", "poolerUp"} => "poolers" \in Read
  BY <1>0 DEF Consulted, ClusterRules, BackupRules, StatusRules, MetricRules, EventRules, HistoryRules
<1>6. check.rule \in {"volumeBinding", "writeService", "cannotConnect"} => "infrastructure" \in Read
  BY <1>0 DEF Consulted, ClusterRules, BackupRules, StatusRules, MetricRules, EventRules, HistoryRules
<1>7. check.rule = "quotaExhausted" => "quotas" \in Read
  BY <1>0 DEF Consulted, ClusterRules, BackupRules, StatusRules, MetricRules, EventRules, HistoryRules
<1>8. check.rule = "DeclaredObjectFailed" => "databases" \in Read
  BY <1>0 DEF Consulted, ClusterRules, BackupRules, StatusRules, MetricRules, EventRules, HistoryRules
<1>9. check.rule = "QuorumStandbysShort" => "quorum" \in Read
  BY <1>0 DEF Consulted, ClusterRules, BackupRules, StatusRules, MetricRules, EventRules, HistoryRules
<1>10. check.rule = "RepositoryState" => "evidence" \in Read
  BY <1>0 DEF Consulted, ClusterRules, BackupRules, StatusRules, MetricRules, EventRules, HistoryRules
<1>11. check.rule = "ContainerState" => "poolerPods" \in Read
  BY <1>0 DEF Consulted, ClusterRules, BackupRules, StatusRules, MetricRules, EventRules, HistoryRules
<1>12. check.rule \in {"PrimaryLeaseExpired", "PrimaryLeaseHolderMismatch"} => "lease" \in Read
  BY <1>0 DEF Consulted, ClusterRules, BackupRules, StatusRules, MetricRules, EventRules, HistoryRules
<1>13. check.rule \in {"ImageCatalogMissing", "ImageCatalogLacksMajor", "definitionRefused"} => "catalogs" \in Read
  BY <1>0 DEF Consulted, ClusterRules, BackupRules, StatusRules, MetricRules, EventRules, HistoryRules
<1>14. check.rule \in {"poolerUp", "PrimaryDisagreement"} => "metrics" \in Read
  BY <1>0 DEF Consulted, ClusterRules, BackupRules, StatusRules, MetricRules, EventRules, HistoryRules
<1>15. check.rule = "logMatches" => "logs" \in Read
  BY <1>0 DEF Consulted, ClusterRules, BackupRules, StatusRules, MetricRules, EventRules, HistoryRules
<1>16. check.rule \in HistoryRules => "history" \in Read
  BY <1>0 DEF Consulted, ClusterRules, BackupRules, StatusRules, MetricRules, EventRules, HistoryRules
<1> QED BY <1>1, <1>2, <1>3, <1>4, <1>5, <1>6, <1>7, <1>8, <1>9, <1>10, <1>11, <1>12, <1>13, <1>14, <1>15, <1>16

\* What a console that sees everything finds: the rule, on what it holds.
LEMMA FoundIs ==
  \E P : IsPerfect(P, in, truth) /\ Found(in, truth) = Evaluate(check.rule, P).on /\ P.now = in.now
<1>1. PICK P : P = Perfect(in, truth)
  OBVIOUS
<1>2. IsPerfect(P, in, truth)
  BY <1>1, PerfectIs
<1>3. P.now = in.now
  BY <1>2 DEF IsPerfect
<1> QED BY <1>1, <1>2, <1>3 DEF Found

\* A source in contact may be read.
LEMMA InContact == \A held : held.has = TRUE /\ held.stale = FALSE => unread(held) = ""
BY DEF unread

\* The events a check looks for.
Accepted(list, kinds) == {i \in DOMAIN list : list[i].reason = "bad" /\ list[i].kind \in kinds}

\* Where there is none, none is quoted; the first is always looked at.
LEMMA NoneAccepted ==
  ASSUME NEW x, NEW kinds, Accepted(x.events.facts.list, kinds) = {}
  PROVE  EventMatch(x, kinds) = Unless(unread(x.events), Matches({}))
<1> DEFINE list == x.events.facts.list
           accepted == {i \in DOMAIN list : list[i].reason = "bad" /\ list[i].kind \in kinds}
           quotedBefore(i) == Cardinality({j \in accepted : j < i /\ admitted(x, list[j])})
           examined == {i \in accepted : quotedBefore(i) < maxQuoted}
           asBackup == \E i \in examined : list[i].kind = "Backup"
           reason == IF asBackup THEN unread(x.backups) ELSE ""
           quoted == {list[i].object : i \in {i \in examined : admitted(x, list[i]) /\ quotedBefore(i) = 0}}
<1>1. EventMatch(x, kinds) = Unless(unread(x.events), Unless(reason, Matches(quoted)))
  BY Zenon DEF EventMatch
<1>2. accepted = {}
  BY DEF Accepted
<1>3. examined = {}
  <2> HIDE DEF accepted
  <2> QED BY <1>2
<1>4. reason = "" /\ quoted = {}
  <2> HIDE DEF examined
  <2> QED BY <1>3
<1>5. Unless(reason, Matches(quoted)) = Matches({})
  <2> HIDE DEF reason, quoted
  <2> QED BY <1>4 DEF Unless
<1> HIDE DEF reason, quoted
<1> QED BY <1>1, <1>5

\* What matched is there, and so is all there is to find, unless a list was cut.
Finds == /\ result.on \subseteq Found(in, truth)
         /\ ~CutShort => Found(in, truth) = result.on

\* The rules that look at one source only, or at several whole ones.
LEMMA ClusterFound ==
  ASSUME TypesInv, check.rule \in ClusterRules, result.because = ""
  PROVE  Found(in, truth) = result.on
<1>1. PICK P : IsPerfect(P, in, truth) /\ Found(in, truth) = Evaluate(check.rule, P).on /\ P.now = in.now
  BY FoundIs
<1>2. unread(in.cluster) = "" /\ "cluster" \in Whole \cap Read /\ <<"cluster", "cut">> \notin check.varies
  BY ClusterGate, IsRead, ClusterUncut DEF result, Whole, Watched, Lists
<1>3. P["cluster"] = in["cluster"]
  BY <1>1, <1>2, SameSource
<1>4. Evaluate(check.rule, P) = Evaluate(check.rule, in)
  BY <1>1, <1>3, ClusterEvaluated
<1> QED BY <1>1, <1>4 DEF result

\* What a list that was cut shows of what the checks look for.
Emptied(s, facts) ==
    CASE s \in {"pods", "poolerPods"} -> \A n \in Instances : facts.reason[n] = ""
      [] s = "poolers" -> \A n \in Instances : facts.phase[n] = "ok" /\ facts.declared[n] = Nil
      [] s = "events" -> facts.list = <<>>
      [] s = "infrastructure" -> \A n \in Instances : facts.phase[n] = "Bound"
      [] s = "databases" -> facts.refused = {}
      [] s = "backups" ->
            /\ \A n \in Instances : facts.backup[n].phase = ""
            /\ \A n \in Instances : facts.schedule[n] = [suspended |-> FALSE, next |-> Nil, often |-> FALSE,
                                                          created |-> Nil]
            /\ \A f \in {"store", "lastGood", "lastFailed"} : facts[f] = truth.facts["backups"][f]

\* A list in contact is whole, or was cut and shows nothing of it.
LEMMA EmptiedIs ==
  ASSUME TypesInv, NEW s \in Lists \cap Read, unread(in[s]) = ""
  PROVE  in[s].facts = truth.facts[s] \/ (Emptied(s, in[s].facts) /\ CutShort)
<1>0. s \in Whole \cap Read
  BY DEF Lists, Whole, Watched
<1> SUFFICES ASSUME in[s].facts # truth.facts[s] PROVE Emptied(s, in[s].facts) /\ CutShort
  OBVIOUS
<1>1. /\ in[s].facts.cut = TRUE
      /\ \A f \in DOMAIN CalmFacts[s] : f # "cut" => in[s].facts[f] = Cut(s, truth.facts[s])[f]
  BY <1>0, WholeOrCut
<1>2. NamesInstances(s, truth.facts[s])
  BY <1>0, ContactIs DEF Whole
<1>3. DOMAIN truth.facts[s] = DOMAIN CalmFacts[s]
  BY <1>2 DEF NamesInstances
<1>4. CutShort
  BY <1>1 DEF CutShort
<1> DEFINE held == in[s].facts
           real == truth.facts[s]
<1>5. CASE s = "pods"
  <2>1. DOMAIN CalmFacts[s] = {"reason", "ready", "cut"}
    BY <1>5 DEF CalmFacts
  <2>2. Cut(s, real).reason = Each("")
    BY <1>3, <1>5, <2>1 DEF Cut
  <2>3. in[s].facts.reason = Each("")
    BY <1>1, <2>1, <2>2
  <2> QED BY <1>4, <1>5, <2>3 DEF Emptied, Each
<1>6. CASE s = "poolerPods"
  <2>1. DOMAIN CalmFacts[s] = {"reason", "cut"}
    BY <1>6 DEF CalmFacts
  <2>2. Cut(s, real).reason = Each("")
    BY <1>3, <1>6, <2>1 DEF Cut
  <2>3. in[s].facts.reason = Each("")
    BY <1>1, <2>1, <2>2
  <2> QED BY <1>4, <1>6, <2>3 DEF Emptied, Each
<1>7. CASE s = "poolers"
  <2>1. DOMAIN CalmFacts[s] = {"phase", "declared", "ready", "cut"}
    BY <1>7 DEF CalmFacts
  <2>2. Cut(s, real).phase = Each("ok") /\ Cut(s, real).declared = Each(Nil)
    BY <1>3, <1>7, <2>1 DEF Cut
  <2>3. in[s].facts.phase = Each("ok") /\ in[s].facts.declared = Each(Nil)
    BY <1>1, <2>1, <2>2
  <2> QED BY <1>4, <1>7, <2>3 DEF Emptied, Each
<1>8. CASE s = "events"
  <2>1. DOMAIN CalmFacts[s] = {"list", "cut"}
    BY <1>8 DEF CalmFacts
  <2>2. Cut(s, real).list = <<>>
    BY <1>3, <1>8, <2>1 DEF Cut
  <2>3. in[s].facts.list = <<>>
    BY <1>1, <2>1, <2>2
  <2> QED BY <1>4, <1>8, <2>3 DEF Emptied
<1>9. CASE s = "infrastructure"
  <2>1. DOMAIN CalmFacts[s] = {"phase", "services", "cut"}
    BY <1>9 DEF CalmFacts
  <2>2. Cut(s, real).phase = Each("Bound")
    BY <1>3, <1>9, <2>1 DEF Cut
  <2>3. in[s].facts.phase = Each("Bound")
    BY <1>1, <2>1, <2>2
  <2> QED BY <1>4, <1>9, <2>3 DEF Emptied, Each
<1>10. CASE s = "databases"
  <2>1. DOMAIN CalmFacts[s] = {"refused", "cut"}
    BY <1>10 DEF CalmFacts
  <2>2. Cut(s, real).refused = {}
    BY <1>3, <1>10, <2>1 DEF Cut
  <2>3. in[s].facts.refused = {}
    BY <1>1, <2>1, <2>2
  <2> QED BY <1>4, <1>10, <2>3 DEF Emptied
<1>11. CASE s = "backups"
  <2>1. DOMAIN CalmFacts[s] = {"backup", "schedule", "store", "lastGood", "lastFailed", "cut"}
    BY <1>11 DEF CalmFacts
  <2>2. /\ Cut(s, real).backup = CalmFacts.backups.backup /\ Cut(s, real).schedule = CalmFacts.backups.schedule
        /\ \A f \in {"store", "lastGood", "lastFailed"} : Cut(s, real)[f] = real[f]
    BY <1>3, <1>11, <2>1 DEF Cut
  <2>3. /\ in[s].facts.backup = CalmFacts.backups.backup /\ in[s].facts.schedule = CalmFacts.backups.schedule
        /\ \A f \in {"store", "lastGood", "lastFailed"} : in[s].facts[f] = real[f]
    BY <1>1, <2>1, <2>2
  <2>4. /\ \A n \in Instances : CalmFacts.backups.backup[n].phase = ""
        /\ \A n \in Instances : CalmFacts.backups.schedule[n] =
              [suspended |-> FALSE, next |-> Nil, often |-> FALSE, created |-> Nil]
    BY DEF CalmFacts, Each
  <2> QED BY <1>4, <1>11, <2>3, <2>4 DEF Emptied
<1> QED BY <1>5, <1>6, <1>7, <1>8, <1>9, <1>10, <1>11 DEF Lists

\* On an emptied list nothing matches.
LEMMA EmptiedFindNothing ==
  ASSUME NEW x
  PROVE  /\ Emptied("pods", x.pods.facts) => imagePull(x).on = {}
         /\ Emptied("poolers", x.poolers.facts) => PoolerPhase(x).on = {} /\ PoolerShort(x).on = {}
         /\ Emptied("infrastructure", x.infrastructure.facts) => volumeBinding(x).on = {}
         /\ Emptied("databases", x.databases.facts) => DeclaredObjectFailed(x).on = {}
<1>0. \A reason, S : S = {} => Unless(reason, Matches(S)).on = {}
  BY ResultFields DEF Unless
<1>1. ASSUME Emptied("pods", x.pods.facts) PROVE imagePull(x).on = {}
  <2>1. {n \in Instances : x.pods.facts.reason[n] = "bad"} = {}
    BY <1>1 DEF Emptied
  <2> QED BY <1>0, <2>1 DEF imagePull
<1>2. ASSUME Emptied("poolers", x.poolers.facts) PROVE PoolerPhase(x).on = {} /\ PoolerShort(x).on = {}
  <2>1. {n \in Instances : x.poolers.facts.phase[n] = "bad"} = {}
    BY <1>2 DEF Emptied
  <2>2. {n \in Instances : LET declared == x.poolers.facts.declared[n] IN
                            declared # Nil /\ x.poolers.facts.ready[n] < declared} = {}
    BY <1>2 DEF Emptied
  <2> QED BY <1>0, <2>1, <2>2 DEF PoolerPhase, PoolerShort
<1>3. ASSUME Emptied("infrastructure", x.infrastructure.facts) PROVE volumeBinding(x).on = {}
  <2>1. ~\E n \in Instances : x.infrastructure.facts.phase[n] \notin {"", "Bound"}
    BY <1>3 DEF Emptied
  <2> QED BY <1>0, <2>1 DEF volumeBinding, OnCluster
<1>4. ASSUME Emptied("databases", x.databases.facts) PROVE DeclaredObjectFailed(x).on = {}
  <2>1. x.databases.facts.refused = {}
    BY <1>4 DEF Emptied
  <2> QED BY <1>0, <2>1 DEF DeclaredObjectFailed
<1> QED BY <1>1, <1>2, <1>3, <1>4

\* Nor does anything of the backups, but what their store reports.
LEMMA NoBackupsFindNothing ==
  ASSUME NEW x, Emptied("backups", x.backups.facts)
  PROVE  /\ BackupPhase(x).on = {} /\ ScheduledBackupSuspended(x).on = {} /\ ScheduledBackupOverdue(x).on = {}
         /\ backupCadence(x).on = {} /\ StoreNoBackup(x).on = {}
<1>0. \A reason, S : S = {} => Unless(reason, Matches(S)).on = {}
  BY ResultFields DEF Unless
<1>b. \A n \in Instances : x.backups.facts.backup[n].phase = ""
  BY DEF Emptied
<1>c. \A n \in Instances : x.backups.facts.schedule[n] = [suspended |-> FALSE, next |-> Nil, often |-> FALSE,
                                                           created |-> Nil]
  BY DEF Emptied
<1>s. \A n \in Instances : /\ x.backups.facts.schedule[n].suspended = FALSE /\ x.backups.facts.schedule[n].next = Nil
                           /\ x.backups.facts.schedule[n].often = FALSE /\ x.backups.facts.schedule[n].created = Nil
  BY <1>c
<1>1. {n \in Instances : LET b == x.backups.facts.backup[n] IN
                          b.phase = "bad" /\ x.now - b.created >= MinAge} = {}
  BY <1>b
<1>2. {n \in Instances : x.backups.facts.schedule[n].suspended} = {}
  BY <1>s
<1>3. {n \in Instances : LET s == x.backups.facts.schedule[n] IN
          ~s.suspended /\ s.next # Nil /\ x.now - s.next >= MinAge} = {}
  BY <1>s
<1>4. {n \in Instances : LET s == x.backups.facts.schedule[n] IN ~s.suspended /\ s.often} = {}
  BY <1>s
<1>5. ~\E n \in Instances : /\ x.backups.facts.schedule[n].created # Nil
                            /\ x.now - x.backups.facts.schedule[n].created >= MinAge
  BY <1>s
<1>6. BackupPhase(x).on = {} /\ ScheduledBackupSuspended(x).on = {}
  BY <1>0, <1>1, <1>2 DEF BackupPhase, ScheduledBackupSuspended, OnBackups
<1>7. ScheduledBackupOverdue(x).on = {} /\ backupCadence(x).on = {}
  BY <1>0, <1>3, <1>4 DEF ScheduledBackupOverdue, backupCadence, OnBackups
<1>8. StoreNoBackup(x).on = {}
  <2>1. PICK S : /\ StoreNoBackup(x) = OnTheStore(x, Matches(S)) /\ S = {}
    <3>1. StoreNoBackup(x) = OnTheStore(x, Matches({}))
      BY <1>5 DEF StoreNoBackup, OnCluster
    <3> QED BY <3>1
  <2>2. \A first, second : Unless(first, Unless(second, Matches({}))).on = {}
    BY ResultFields DEF Unless
  <2> QED BY <2>1, <2>2 DEF OnTheStore, OnBackups
<1> QED BY <1>6, <1>7, <1>8

\* The store's report does not depend on the lists.
LEMMA StoreReportSame ==
  ASSUME NEW x, NEW y, unread(x.backups) = unread(y.backups),
         \A f \in {"store", "lastGood", "lastFailed"} : x.backups.facts[f] = y.backups.facts[f]
  PROVE  StoreBackupFailed(x) = StoreBackupFailed(y)
<1>1. /\ x.backups.facts.store = y.backups.facts.store /\ x.backups.facts.lastGood = y.backups.facts.lastGood
      /\ x.backups.facts.lastFailed = y.backups.facts.lastFailed
  OBVIOUS
<1> QED BY <1>1 DEF StoreBackupFailed, OnTheStore, OnBackups

\* A rule about the backups finds what there is to find.
LEMMA BackupsFound ==
  ASSUME TypesInv, check.rule \in BackupRules \ {"scheduleFiring"}, result.because = ""
  PROVE  Finds
<1>1. PICK P : IsPerfect(P, in, truth) /\ Found(in, truth) = Evaluate(check.rule, P).on /\ P.now = in.now
  BY FoundIs
<1>2. unread(in.backups) = "" /\ "backups" \in Whole \cap Read /\ "backups" \in Lists \cap Read
  BY OthersGate, IsRead DEF result, Whole, Watched, Lists
<1>3. CASE in["backups"].facts = truth.facts["backups"]
  <2>1. P["backups"] = in["backups"]
    BY <1>1, <1>2, <1>3, SameFacts
  <2>2. Evaluate(check.rule, P) = Evaluate(check.rule, in)
    BY <1>1, <2>1, BackupsEvaluated
  <2> QED BY <1>1, <2>2 DEF result, Finds
<1>4. CASE in["backups"].facts # truth.facts["backups"]
  <2>1. Emptied("backups", in["backups"].facts) /\ CutShort
    BY <1>2, <1>4, EmptiedIs
  <2>2. CASE check.rule = "StoreBackupFailed"
    <3>1. result = StoreBackupFailed(in) /\ Evaluate(check.rule, P) = StoreBackupFailed(P)
      BY <2>2 DEF result, Evaluate
    <3>2. P["backups"].has = TRUE /\ P["backups"].stale = FALSE /\ P["backups"].facts = truth.facts["backups"]
      BY <1>1, <1>2, PerfectParts DEF Whole
    <3>3. unread(P["backups"]) = ""
      BY <3>2, InContact
    <3>4. \A f \in {"store", "lastGood", "lastFailed"} : in["backups"].facts[f] = P["backups"].facts[f]
      BY <2>1, <3>2 DEF Emptied
    <3>5. StoreBackupFailed(P) = StoreBackupFailed(in)
      BY <1>2, <3>3, <3>4, StoreReportSame
    <3> QED BY <1>1, <2>1, <3>1, <3>5 DEF Finds
  <2>3. CASE check.rule # "StoreBackupFailed"
    <3>1. /\ BackupPhase(in).on = {} /\ ScheduledBackupSuspended(in).on = {} /\ ScheduledBackupOverdue(in).on = {}
          /\ backupCadence(in).on = {} /\ StoreNoBackup(in).on = {}
      BY <2>1, NoBackupsFindNothing
    <3>2. result \in {BackupPhase(in), ScheduledBackupSuspended(in), ScheduledBackupOverdue(in), backupCadence(in),
                      StoreNoBackup(in)}
      BY <2>3 DEF result, Evaluate, BackupRules
    <3>3. result.on = {}
      BY <3>1, <3>2
    <3> QED BY <2>1, <3>3 DEF Finds
  <2> QED BY <2>2, <2>3
<1> QED BY <1>3, <1>4

\* No event, nothing to quote.
LEMMA NoEventsFindNothing ==
  ASSUME NEW x, x.events.facts.list = <<>>
  PROVE  /\ quotaRefusal(x).on = {} /\ podScheduling(x).on = {}
         /\ \A kinds : EventMatch(x, kinds).on = {}
<1>0. \A reason, S : S = {} => Unless(reason, Matches(S)).on = {}
  BY ResultFields DEF Unless
<1>1. DOMAIN x.events.facts.list = {}
  OBVIOUS
<1>2. \A reasons : warningEvents(x.events.facts.list, reasons) = {}
  BY <1>1 DEF warningEvents
<1>3. quotaRefusal(x).on = {} /\ podScheduling(x).on = {}
  BY <1>0, <1>2 DEF quotaRefusal, podScheduling, OnCluster
<1>4. ASSUME NEW kinds PROVE EventMatch(x, kinds).on = {}
  <2>1. Accepted(x.events.facts.list, kinds) = {}
    BY <1>1 DEF Accepted
  <2>2. EventMatch(x, kinds) = Unless(unread(x.events), Matches({}))
    BY <2>1, NoneAccepted
  <2> QED BY <1>0, <2>2
<1> QED BY <1>3, <1>4

\* So does a rule about the events.
LEMMA EventsFound ==
  ASSUME TypesInv, check.rule \in EventRules, result.because = ""
  PROVE  Finds
<1>1. PICK P : IsPerfect(P, in, truth) /\ Found(in, truth) = Evaluate(check.rule, P).on /\ P.now = in.now
  BY FoundIs
<1>2. unread(in.events) = "" /\ "events" \in Whole \cap Read /\ "events" \in Lists \cap Read
  BY OthersGate, IsRead DEF result, Whole, Watched, Lists
<1>3. CASE in["events"].facts = truth.facts["events"]
  <2>1. P["events"] = in["events"]
    BY <1>1, <1>2, <1>3, SameFacts
  <2>2. Evaluate(check.rule, P) = Evaluate(check.rule, in)
    BY <1>1, <2>1, EventsEvaluated
  <2> QED BY <1>1, <2>2 DEF result, Finds
<1>4. CASE in["events"].facts # truth.facts["events"]
  <2>1. Emptied("events", in["events"].facts) /\ CutShort
    BY <1>2, <1>4, EmptiedIs
  <2>2. in.events.facts.list = <<>>
    BY <2>1 DEF Emptied
  <2>3. result \in {quotaRefusal(in), podScheduling(in), EventMatch(in, {"Pod"})}
    BY DEF result, Evaluate, EventRules
  <2>4. result.on = {}
    BY <2>2, <2>3, NoEventsFindNothing
  <2> QED BY <2>1, <2>4 DEF Finds
<1> QED BY <1>3, <1>4

\* The rules that look at one list.
OneList == {"imagePull", "PoolerPhase", "PoolerShort", "volumeBinding", "quotaExhausted", "DeclaredObjectFailed"}

\* So does a rule about one list.
LEMMA ListsFound ==
  ASSUME TypesInv, check.rule \in OneList, result.because = ""
  PROVE  Finds
<1>1. PICK P : IsPerfect(P, in, truth) /\ Found(in, truth) = Evaluate(check.rule, P).on /\ P.now = in.now
  BY FoundIs
<1>2. ASSUME NEW s \in Lists \cap Read, unread(in[s]) = "", P[s] = in[s] => Evaluate(check.rule, P) = result,
             Emptied(s, in[s].facts) => result.on = {}
      PROVE  Finds
  <2>0. s \in Whole \cap Read
    BY <1>2 DEF Lists, Whole, Watched
  <2>1. CASE in[s].facts = truth.facts[s]
    <3>1. P[s] = in[s]
      BY <1>1, <1>2, <2>0, <2>1, SameFacts
    <3>2. Evaluate(check.rule, P) = result
      BY <1>2, <3>1
    <3> QED BY <1>1, <3>2 DEF Finds
  <2>2. CASE in[s].facts # truth.facts[s]
    <3>1. Emptied(s, in[s].facts) /\ CutShort
      BY <1>2, <2>2, EmptiedIs
    <3> QED BY <1>2, <3>1 DEF Finds
  <2> QED BY <2>1, <2>2
<1>3. CASE check.rule = "imagePull"
  <2>1. result = imagePull(in) /\ Evaluate(check.rule, P) = imagePull(P)
    BY <1>3 DEF result, Evaluate
  <2>2. unread(in["pods"]) = "" /\ "pods" \in Lists \cap Read
    BY <1>3, <2>1, OthersGate, IsRead DEF Lists
  <2>3. P["pods"] = in["pods"] => imagePull(P) = imagePull(in)
    BY <1>1, OneSourceSame
  <2>4. Emptied("pods", in["pods"].facts) => imagePull(in).on = {}
    BY EmptiedFindNothing
  <2> QED BY <1>2, <2>1, <2>2, <2>3, <2>4
<1>4. CASE check.rule = "PoolerPhase"
  <2>1. result = PoolerPhase(in) /\ Evaluate(check.rule, P) = PoolerPhase(P)
    BY <1>4 DEF result, Evaluate
  <2>2. unread(in["poolers"]) = "" /\ "poolers" \in Lists \cap Read
    BY <1>4, <2>1, OthersGate, IsRead DEF Lists
  <2>3. P["poolers"] = in["poolers"] => PoolerPhase(P) = PoolerPhase(in)
    BY <1>1, OneSourceSame
  <2>4. Emptied("poolers", in["poolers"].facts) => PoolerPhase(in).on = {}
    BY EmptiedFindNothing
  <2> QED BY <1>2, <2>1, <2>2, <2>3, <2>4
<1>5. CASE check.rule = "PoolerShort"
  <2>1. result = PoolerShort(in) /\ Evaluate(check.rule, P) = PoolerShort(P)
    BY <1>5 DEF result, Evaluate
  <2>2. unread(in["poolers"]) = "" /\ "poolers" \in Lists \cap Read
    BY <1>5, <2>1, OthersGate, IsRead DEF Lists
  <2>3. P["poolers"] = in["poolers"] => PoolerShort(P) = PoolerShort(in)
    BY <1>1, OneSourceSame
  <2>4. Emptied("poolers", in["poolers"].facts) => PoolerShort(in).on = {}
    BY EmptiedFindNothing
  <2> QED BY <1>2, <2>1, <2>2, <2>3, <2>4
<1>6. CASE check.rule = "volumeBinding"
  <2>1. result = volumeBinding(in) /\ Evaluate(check.rule, P) = volumeBinding(P)
    BY <1>6 DEF result, Evaluate
  <2>2. unread(in["infrastructure"]) = "" /\ "infrastructure" \in Lists \cap Read
    BY <1>6, <2>1, OthersGate, IsRead DEF Lists
  <2>3. P["infrastructure"] = in["infrastructure"] => volumeBinding(P) = volumeBinding(in)
    BY <1>1, OneSourceSame
  <2>4. Emptied("infrastructure", in["infrastructure"].facts) => volumeBinding(in).on = {}
    BY EmptiedFindNothing
  <2> QED BY <1>2, <2>1, <2>2, <2>3, <2>4
<1>7. CASE check.rule = "DeclaredObjectFailed"
  <2>1. result = DeclaredObjectFailed(in) /\ Evaluate(check.rule, P) = DeclaredObjectFailed(P)
    BY <1>7 DEF result, Evaluate
  <2>2. unread(in["databases"]) = "" /\ "databases" \in Lists \cap Read
    BY <1>7, <2>1, OthersGate, IsRead DEF Lists
  <2>3. P["databases"] = in["databases"] => DeclaredObjectFailed(P) = DeclaredObjectFailed(in)
    BY <1>1, OneSourceSame
  <2>4. Emptied("databases", in["databases"].facts) => DeclaredObjectFailed(in).on = {}
    BY EmptiedFindNothing
  <2> QED BY <1>2, <2>1, <2>2, <2>3, <2>4
<1>8. CASE check.rule = "quotaExhausted"
  <2>1. result = quotaExhausted(in) /\ Evaluate(check.rule, P) = quotaExhausted(P)
    BY <1>8 DEF result, Evaluate
  <2>2. unread(in.quotas) = "" /\ "quotas" \in Whole \cap Read /\ <<"quotas", "cut">> \notin check.varies
    BY <1>8, <2>1, OthersGate, IsRead, ClusterUncut DEF Whole, Watched, Lists
  <2>3. P["quotas"] = in["quotas"]
    BY <1>1, <2>2, SameSource
  <2>4. quotaExhausted(P) = quotaExhausted(in)
    BY <1>1, <2>3, OneSourceSame
  <2> QED BY <1>1, <2>1, <2>4 DEF Finds
<1> QED BY <1>3, <1>4, <1>5, <1>6, <1>7, <1>8 DEF OneList

\* So does a rule about the lease, with the Cluster beside it.
LEMMA LeaseFound ==
  ASSUME TypesInv, check.rule \in {"PrimaryLeaseExpired", "PrimaryLeaseHolderMismatch"}, result.because = ""
  PROVE  Found(in, truth) = result.on
<1>1. PICK P : IsPerfect(P, in, truth) /\ Found(in, truth) = Evaluate(check.rule, P).on /\ P.now = in.now
  BY FoundIs
<1>2. <<"lease", "cut">> \notin check.varies /\ <<"cluster", "cut">> \notin check.varies
  BY ClusterUncut DEF Lists
<1>3. unread(in.lease) = "" /\ unread(in.cluster) = ""
  BY OthersGate DEF result, Evaluate
<1>4. "lease" \in Whole \cap Read /\ "cluster" \in Whole \cap Read
  BY IsRead DEF Whole, Watched
<1>5. P["lease"] = in["lease"] /\ P["cluster"] = in["cluster"]
  BY <1>1, <1>2, <1>3, <1>4, SameSource
<1>6. PrimaryLeaseExpired(P) = PrimaryLeaseExpired(in) /\ PrimaryLeaseHolderMismatch(P) = PrimaryLeaseHolderMismatch(in)
  BY <1>1, <1>5, OneSourceSame
<1> QED BY <1>1, <1>6 DEF result, Evaluate

-----------------------------------------------------------------------------
(* The rules that look at several sources, or at one that may be cut.       *)

\* What was found is there, and where the check read clear nothing is.
Agrees == /\ result.because = "" => result.on \subseteq Found(in, truth)
          /\ result = Clear /\ ~CutShort => Found(in, truth) \subseteq Overlooked

\* A switch that is no reason is on.
LEMMA SwitchedOn == \A on \in BOOLEAN : offUnless(on) = "" => on = TRUE
BY DEF offUnless

\* The quorum's standbys are counted once its list is whole.
QuorumVerdict(present, number, cut, standbys) ==
    CASE ~present \/ number <= 0 -> Clear
      [] present /\ number > 0 /\ cut -> Unavailable("cut")
      [] OTHER -> OnCluster(standbys < number)

\* A list that was cut is not judged, or does not matter.
CutOrClear(present, number, standbys, cut, all) ==
    \/ QuorumVerdict(present, number, TRUE, standbys) = Unavailable("cut")
    \/ /\ QuorumVerdict(present, number, TRUE, standbys) = Clear
       /\ QuorumVerdict(present, number, cut, all) = Clear

\* The verdict on the quorum is the one of the whole list.
LEMMA VerdictIs ==
  ASSUME NEW present, NEW number \in Int, NEW standbys, NEW cut, NEW all
  PROVE  CutOrClear(present, number, standbys, cut, all)
<1>0. number <= 0 \/ number > 0
  OBVIOUS
<1>1. CASE ~present \/ number <= 0
  BY <1>1 DEF QuorumVerdict, CutOrClear
<1>2. CASE present /\ number > 0
  BY <1>2 DEF QuorumVerdict, CutOrClear
<1> QED BY <1>0, <1>1, <1>2, Zenon

\* A check of the quorum that ran says what it would of the whole list.
LEMMA QuorumJudged ==
  ASSUME NEW x, NEW y, QuorumStandbysShort(x).because = "", unread(y.quorum) = "",
         NEW held, NEW real, held = x.quorum.facts, real = y.quorum.facts, real.number \in Int,
         held = real \/ (held.present = real.present /\ held.number = real.number /\ held.cut = TRUE)
  PROVE  unread(x.quorum) = "" /\ QuorumStandbysShort(y) = QuorumStandbysShort(x)
<1> DEFINE judged(q) == QuorumVerdict(q.present, q.number, q.cut, q.standbys)
<1>1. QuorumStandbysShort(x) = Unless(unread(x.quorum), judged(held))
      /\ QuorumStandbysShort(y) = Unless(unread(y.quorum), judged(real))
  BY DEF QuorumStandbysShort, QuorumVerdict
<1>2. held.present = real.present /\ held.number = real.number /\ held.cut = TRUE =>
         judged(held) = Unavailable("cut") \/ (judged(held) = Clear /\ judged(real) = Clear)
  <2>1. CutOrClear(real.present, real.number, held.standbys, real.cut, real.standbys)
    BY VerdictIs, Zenon
  <2> QED BY <2>1, Zenon DEF CutOrClear
<1> HIDE DEF judged
<1>3. unread(x.quorum) = "" /\ QuorumStandbysShort(x) = judged(held) /\ judged(held).because = ""
  <2>1. QuorumStandbysShort(x) = Unless(unread(x.quorum), judged(held))
    BY <1>1
  <2>2. Unless(unread(x.quorum), judged(held)).because = ""
    BY <2>1
  <2>3. unread(x.quorum) = "" /\ Unless(unread(x.quorum), judged(held)) = judged(held)
    BY <2>2, Gate
  <2> QED BY <2>1, <2>2, <2>3
<1>4. QuorumStandbysShort(y) = judged(real)
  BY <1>1 DEF Unless
<1>5. Unavailable("cut").because = "cut"
  BY ResultFields
<1> QED BY <1>2, <1>3, <1>4, <1>5

\* The quorum's check finds what there is to find.
LEMMA QuorumFound ==
  ASSUME TypesInv, check.rule = "QuorumStandbysShort", result.because = ""
  PROVE  Found(in, truth) = result.on
<1>1. PICK P : IsPerfect(P, in, truth) /\ Found(in, truth) = Evaluate(check.rule, P).on /\ P.now = in.now
  BY FoundIs
<1>2. result = QuorumStandbysShort(in) /\ Evaluate(check.rule, P) = QuorumStandbysShort(P)
  BY DEF result, Evaluate
<1>3. "quorum" \in Watched \cap Read
  BY IsRead DEF Watched
<1>4. P["quorum"].has = TRUE /\ P["quorum"].stale = FALSE /\ P["quorum"].facts = truth.facts["quorum"]
  BY <1>1, <1>3, PerfectParts
<1>5. unread(in["quorum"]) = ""
  BY <1>2, Gate DEF QuorumStandbysShort
<1>6. in["quorum"].facts \in Shown("quorum", truth.facts["quorum"]) /\ NamesInstances("quorum", truth.facts["quorum"])
  BY <1>3, <1>5, ContactIs
<1> DEFINE held == in["quorum"].facts
           real == truth.facts["quorum"]
<1>7. held = real \/ (held.present = real.present /\ held.number = real.number /\ held.cut = TRUE)
  <2>1. <<"quorum", "cut">> \notin check.varies
    BY ClusterUncut DEF Lists
  <2>2. {"present", "number", "cut"} \subseteq DOMAIN real
    BY <1>6 DEF NamesInstances, CalmFacts
  <2> HIDE DEF held, real
  <2> QED BY <1>6, <2>1, <2>2, QuorumShown DEF held, real
<1>8. real.number \in Int
  BY <1>6 DEF NamesInstances
<1>9. unread(P["quorum"]) = ""
  BY <1>4, InContact
<1>10. P["quorum"].facts = real
  BY <1>4
<1> HIDE DEF held, real
<1>11. QuorumStandbysShort(P) = QuorumStandbysShort(in)
  BY <1>2, <1>7, <1>8, <1>9, <1>10, QuorumJudged DEF held
<1> QED BY <1>1, <1>2, <1>11

\* The repository's report, when it is asked for.
LEMMA EvidenceFound ==
  ASSUME TypesInv, check.rule = "RepositoryState", result.because = ""
  PROVE  Found(in, truth) = result.on
<1>1. PICK P : IsPerfect(P, in, truth) /\ Found(in, truth) = Evaluate(check.rule, P).on /\ P.now = in.now
  BY FoundIs
<1>2. result = RepositoryState(in) /\ Evaluate(check.rule, P) = RepositoryState(P)
  BY DEF result, Evaluate
<1>3. Or(offUnless(in.evidence.on), evidenceUnavailable(in)) = ""
  <2>1. PICK r : RepositoryState(in) = Unless(Or(offUnless(in.evidence.on), evidenceUnavailable(in)), r)
    BY Zenon DEF RepositoryState
  <2>2. Unless(Or(offUnless(in.evidence.on), evidenceUnavailable(in)), r).because = ""
    BY <1>2, <2>1
  <2> QED BY <2>2, Gate
<1>4. in.evidence.on /\ unread(in.evidence) = ""
  <2> DEFINE report == in.evidence.facts
             rest == Or(IF report.scanned THEN "" ELSE "no completed scan",
                        Or(IF report.sourceStale THEN "stale" ELSE "",
                           IF report.known THEN "" ELSE "unrecognised"))
  <2>1. evidenceUnavailable(in) = Or(unread(in.evidence), rest)
    BY DEF evidenceUnavailable
  <2> HIDE DEF rest
  <2>2. offUnless(in.evidence.on) = "" /\ evidenceUnavailable(in) = ""
    BY <1>3, OrIs
  <2>3. in.evidence.on \in BOOLEAN
    BY IsRead DEF TypesInv, WatchedInv, Follows, Watched
  <2>4. in.evidence.on
    BY <2>2, <2>3, SwitchedOn
  <2>5. unread(in.evidence) = ""
    BY <2>1, <2>2, OrIs
  <2> QED BY <2>4, <2>5
<1>5. "evidence" \in Watched \cap Read
  BY IsRead DEF Watched
<1>6. /\ in["evidence"].has = TRUE /\ in["evidence"].stale = FALSE
      /\ in["evidence"].facts \in Shown("evidence", truth.facts["evidence"]) /\ Formed("evidence", in["evidence"])
  BY <1>4, <1>5, ContactIs
<1>7. in["evidence"].on = TRUE
  BY <1>4, <1>5 DEF TypesInv, WatchedInv, Follows
<1>8. in["evidence"].facts = truth.facts["evidence"]
  <2>1. <<"evidence", "cut">> \notin check.varies
    BY ClusterUncut DEF Lists
  <2> QED BY <1>6, <2>1 DEF Shown
<1>9. P["evidence"] = [on |-> TRUE, has |-> TRUE, stale |-> FALSE, facts |-> truth.facts["evidence"]]
  BY <1>1, <1>5 DEF IsPerfect
<1>10. in["evidence"] = [f \in {"has", "stale", "facts", "on"} |-> in["evidence"][f]]
  BY <1>6 DEF Formed, Fields
<1>11. P["evidence"] = in["evidence"]
  BY <1>6, <1>7, <1>8, <1>9, <1>10
<1>12. RepositoryState(P) = RepositoryState(in)
  BY <1>1, <1>11, OneSourceSame
<1> QED BY <1>1, <1>2, <1>12

\* A container's reason, of the poolers' pods too when there are any.
LEMMA ContainersFound ==
  ASSUME TypesInv, check.rule = "ContainerState", result.because = ""
  PROVE  Agrees
<1>1. PICK P : IsPerfect(P, in, truth) /\ Found(in, truth) = Evaluate(check.rule, P).on /\ P.now = in.now
  BY FoundIs
<1>2. result = ContainerState(in) /\ Evaluate(check.rule, P) = ContainerState(P)
  BY DEF result, Evaluate
<1>3. unread(in.pods) = "" /\ poolerPodsUnavailable(in) = ""
  <2>1. Or(unread(in.pods), poolerPodsUnavailable(in)) = ""
    BY <1>2, Gate DEF ContainerState
  <2> QED BY <2>1, OrIs
<1>4. /\ "pods" \in Lists \cap Read /\ "poolerPods" \in Lists \cap Read
      /\ "pods" \in (Watched \ {"cluster", "evidence"}) \cap Read
      /\ "poolerPods" \in (Watched \ {"cluster", "evidence"}) \cap Read
  BY IsRead DEF Lists, Watched
<1>5. P["pods"].facts = truth.facts["pods"] /\ P["pods"].has = TRUE /\ P["pods"].stale = FALSE
  BY <1>1, <1>4, PerfectParts
<1>6. P["poolerPods"].facts = truth.facts["poolerPods"] /\ P["poolerPods"].has = TRUE /\ P["poolerPods"].stale = FALSE
  BY <1>1, <1>4, PerfectParts
<1>7. unread(P["pods"]) = "" /\ poolerPodsUnavailable(P) = ""
  BY <1>5, <1>6, InContact DEF poolerPodsUnavailable
<1>8. in["pods"].facts = truth.facts["pods"] \/ (Emptied("pods", in["pods"].facts) /\ CutShort)
  BY <1>3, <1>4, EmptiedIs
<1>9. ASSUME in.poolerPods.has
      PROVE  \/ in["poolerPods"].facts = truth.facts["poolerPods"]
             \/ Emptied("poolerPods", in["poolerPods"].facts) /\ CutShort
  <2>1. unread(in["poolerPods"]) = ""
    BY <1>3, <1>9 DEF poolerPodsUnavailable, unread
  <2> QED BY <1>4, <2>1, EmptiedIs
<1>10. /\ Emptied("pods", in["pods"].facts) => \A n \in Instances : in["pods"].facts.reason[n] # "bad"
       /\ Emptied("poolerPods", in["poolerPods"].facts) =>
              \A n \in Instances : in["poolerPods"].facts.reason[n] # "bad"
  BY DEF Emptied
<1> DEFINE waiting(x) == {n \in Instances : \/ x.pods.facts.reason[n] = "bad"
                                            \/ x.poolerPods.has /\ x.poolerPods.facts.reason[n] = "bad"}
           there == {n \in Instances : \/ truth.facts["pods"].reason[n] = "bad"
                                       \/ truth.facts["poolerPods"].reason[n] = "bad"}
<1>11. waiting(P) = there
  BY <1>5, <1>6
<1>12. waiting(in) \subseteq there
  BY <1>8, <1>9, <1>10
<1>13. ~CutShort => there \subseteq waiting(in) \cup NeverListed
  <2> SUFFICES ASSUME ~CutShort, NEW n \in there PROVE n \in waiting(in) \cup NeverListed
    OBVIOUS
  <2>1. CASE truth.facts["pods"].reason[n] = "bad"
    BY <1>8, <2>1
  <2>2. CASE truth.facts["poolerPods"].reason[n] = "bad" /\ in.poolerPods.has
    BY <1>9, <2>2
  <2>3. CASE truth.facts["poolerPods"].reason[n] = "bad" /\ ~in.poolerPods.has
    <3>1. NeverListed = {m \in Instances : truth.facts.poolerPods.reason[m] = "bad"}
      BY <1>4, <2>3 DEF NeverListed
    <3> QED BY <2>3, <3>1
  <2> QED BY <2>1, <2>2, <2>3
<1>14. ContainerState(P) = Unless(Or(unread(P.pods), poolerPodsUnavailable(P)), Matches(waiting(P)))
       /\ ContainerState(in) = Unless(Or(unread(in.pods), poolerPodsUnavailable(in)), Matches(waiting(in)))
  BY DEF ContainerState
<1> HIDE DEF waiting, there
<1>15. ContainerState(P).on = there /\ ContainerState(in).on = waiting(in)
  <2>1. Or(unread(P.pods), poolerPodsUnavailable(P)) = "" /\ Or(unread(in.pods), poolerPodsUnavailable(in)) = ""
    BY <1>3, <1>7 DEF Or
  <2>2. \A S : Unless("", Matches(S)).on = S
    BY ResultFields DEF Unless
  <2> QED BY <1>11, <1>14, <2>1, <2>2
<1>16. Clear.on = {}
  BY ResultFields
<1> QED BY <1>1, <1>2, <1>12, <1>13, <1>15, <1>16 DEF Agrees, Overlooked

\* AllOf: the second branch is asked for once the first matched.
LEMMA AllOfIs ==
  ASSUME NEW lead, NEW other, AllOf(lead, other).because = ""
  PROVE  lead.because = "" /\ (lead.on = {} \/ other.because = "")
BY DEF AllOf

\* Of one that matched both matched.
LEMMA AllOfMatched ==
  ASSUME NEW lead, NEW other, NEW s \in AllOf(lead, other).on
  PROVE  /\ lead.on # {}
         /\ lead.because = "" => other.on # {} \/ other.because # ""
         /\ lead.because = "" /\ other.because = "" => s \in lead.on /\ \E o \in other.on : subjectsAgree(s, o)
BY ResultFields DEF AllOf

\* And where both match, of more.
LEMMA AllOfGrows ==
  ASSUME NEW lead, NEW other, NEW leadThere, NEW otherThere,
         lead.because = "", other.because = "" \/ lead.on = {},
         leadThere.because = "", otherThere.because = "",
         lead.on \subseteq leadThere.on, other.because = "" => other.on \subseteq otherThere.on
  PROVE  AllOf(lead, other).on \subseteq AllOf(leadThere, otherThere).on
<1> SUFFICES ASSUME NEW s \in AllOf(lead, other).on PROVE s \in AllOf(leadThere, otherThere).on
  OBVIOUS
<1>1. lead.on # {} /\ other.because = ""
  BY AllOfMatched
<1>2. s \in lead.on /\ \E o \in other.on : subjectsAgree(s, o)
  BY <1>1, AllOfMatched
<1>3. AllOf(leadThere, otherThere) = Matches({t \in leadThere.on : \E o \in otherThere.on : subjectsAgree(t, o)})
  BY <1>1 DEF AllOf
<1>4. s \in {t \in leadThere.on : \E o \in otherThere.on : subjectsAgree(t, o)}
  BY <1>1, <1>2
<1> QED BY <1>3, <1>4, ResultFields

\* What a console that sees everything concludes of a part that could run.
PartThere(r, there) ==
    r.because = "" =>
        /\ there.because = "" /\ r.on \subseteq there.on
        /\ ~CutShort => there = r

\* The rules the composed ones are made of.
LEMMA PartsSame ==
  ASSUME TypesInv, NEW P, IsPerfect(P, in, truth), P.now = in.now
  PROVE  /\ "pods" \in Read => PartThere(imagePull(in), imagePull(P)) /\ imagePull(P).because = ""
         /\ "poolers" \in Read => /\ PartThere(PoolerPhase(in), PoolerPhase(P))
                                  /\ PartThere(PoolerShort(in), PoolerShort(P))
                                  /\ PoolerPhase(P).because = ""
         /\ "cluster" \in Read /\ ClusterPhase(in).because = "" => ClusterPhase(P) = ClusterPhase(in)
<1>1. /\ "pods" \in (Lists \cap Whole) \ {"cluster", "evidence"} /\ "poolers" \in (Lists \cap Whole) \ {"cluster", "evidence"}
      /\ "cluster" \in Whole /\ Whole \subseteq Watched /\ <<"cluster", "cut">> \notin check.varies
  BY ClusterUncut DEF Whole, Watched, Lists
<1>u. \A held, S : held.has = TRUE /\ held.stale = FALSE => Unless(unread(held), Matches(S)).because = ""
  BY InContact, ResultFields DEF Unless
<1>2. ASSUME "pods" \in Read
      PROVE  PartThere(imagePull(in), imagePull(P)) /\ imagePull(P).because = ""
  <2>0. imagePull(P).because = ""
    <3>1. P["pods"].has = TRUE /\ P["pods"].stale = FALSE
      BY <1>1, <1>2, PerfectParts
    <3> QED BY <1>u, <3>1 DEF imagePull
  <2> SUFFICES ASSUME imagePull(in).because = ""
               PROVE  imagePull(in).on \subseteq imagePull(P).on /\ (~CutShort => imagePull(P) = imagePull(in))
    BY <2>0 DEF PartThere
  <2>1. unread(in["pods"]) = ""
    BY OthersGate
  <2>2. CASE in["pods"].facts = truth.facts["pods"]
    <3>1. P["pods"] = in["pods"]
      BY <1>1, <1>2, <2>1, <2>2, SameFacts
    <3> QED BY <3>1, OneSourceSame
  <2>3. CASE in["pods"].facts # truth.facts["pods"]
    <3>1. Emptied("pods", in["pods"].facts) /\ CutShort
      BY <1>1, <1>2, <2>1, <2>3, EmptiedIs
    <3>2. imagePull(in).on = {}
      BY <3>1, EmptiedFindNothing
    <3> QED BY <3>1, <3>2
  <2> QED BY <2>2, <2>3
<1>3. ASSUME "poolers" \in Read
      PROVE  /\ PartThere(PoolerPhase(in), PoolerPhase(P)) /\ PartThere(PoolerShort(in), PoolerShort(P))
             /\ PoolerPhase(P).because = ""
  <2>0. PoolerPhase(P).because = "" /\ PoolerShort(P).because = ""
    <3>1. P["poolers"].has = TRUE /\ P["poolers"].stale = FALSE
      BY <1>1, <1>3, PerfectParts
    <3> QED BY <1>u, <3>1 DEF PoolerPhase, PoolerShort
  <2>1. CASE unread(in["poolers"]) # ""
    <3>1. PoolerPhase(in).because # "" /\ PoolerShort(in).because # ""
      BY <2>1, OthersGate
    <3> QED BY <2>0, <3>1 DEF PartThere
  <2>2. CASE unread(in["poolers"]) = "" /\ in["poolers"].facts = truth.facts["poolers"]
    <3>1. P["poolers"] = in["poolers"]
      BY <1>1, <1>3, <2>2, SameFacts
    <3>2. PoolerPhase(P) = PoolerPhase(in) /\ PoolerShort(P) = PoolerShort(in)
      BY <3>1, OneSourceSame
    <3> QED BY <2>0, <3>2 DEF PartThere
  <2>3. CASE unread(in["poolers"]) = "" /\ in["poolers"].facts # truth.facts["poolers"]
    <3>1. Emptied("poolers", in["poolers"].facts) /\ CutShort
      BY <1>1, <1>3, <2>3, EmptiedIs
    <3>2. PoolerPhase(in).on = {} /\ PoolerShort(in).on = {}
      BY <3>1, EmptiedFindNothing
    <3> QED BY <2>0, <3>1, <3>2 DEF PartThere
  <2> QED BY <2>1, <2>2, <2>3
<1>4. ASSUME "cluster" \in Read, ClusterPhase(in).because = "" PROVE ClusterPhase(P) = ClusterPhase(in)
  <2>1. unread(in["cluster"]) = ""
    <3>1. "ClusterPhase" \in ClusterRules /\ Evaluate("ClusterPhase", in) = ClusterPhase(in)
      BY DEF ClusterRules, Evaluate
    <3> QED BY <1>4, <3>1, ClusterGate
  <2>2. P["cluster"] = in["cluster"]
    BY <1>1, <1>4, <2>1, SameSource
  <2> QED BY <2>2, ClusterRulesSame
<1> QED BY <1>2, <1>3, <1>4

\* Two branches find together what there is to find.
LEMMA AllOfFound ==
  ASSUME TypesInv, check.rule \in {"AllOfPodAndPooler", "AllOfClusterAndPod"}, result.because = ""
  PROVE  Finds
<1>1. PICK P : IsPerfect(P, in, truth) /\ Found(in, truth) = Evaluate(check.rule, P).on /\ P.now = in.now
  BY FoundIs
<1>2. ASSUME NEW lead, NEW other, NEW leadThere, NEW otherThere,
             result = AllOf(lead, other), Evaluate(check.rule, P) = AllOf(leadThere, otherThere),
             PartThere(lead, leadThere), PartThere(other, otherThere), otherThere.because = ""
      PROVE  Finds
  <2>1. lead.because = "" /\ (lead.on = {} \/ other.because = "")
    BY <1>2, AllOfIs
  <2>2. leadThere.because = "" /\ lead.on \subseteq leadThere.on /\ (~CutShort => leadThere = lead)
        /\ (other.because = "" => other.on \subseteq otherThere.on /\ (~CutShort => otherThere = other))
    BY <1>2, <2>1 DEF PartThere
  <2>3. AllOf(lead, other).on \subseteq AllOf(leadThere, otherThere).on
    BY <1>2, <2>1, <2>2, AllOfGrows
  <2>4. ~CutShort => AllOf(leadThere, otherThere) = AllOf(lead, other)
    BY <2>1, <2>2 DEF AllOf
  <2> QED BY <1>1, <1>2, <2>3, <2>4 DEF Finds
<1>3. CASE check.rule = "AllOfPodAndPooler"
  <2>1. result = AllOf(imagePull(in), PoolerPhase(in)) /\ Evaluate(check.rule, P) = AllOf(imagePull(P), PoolerPhase(P))
    BY <1>3 DEF result, Evaluate
  <2>2. "pods" \in Read /\ "poolers" \in Read
    BY <1>3, IsRead
  <2>3. /\ PartThere(imagePull(in), imagePull(P)) /\ PartThere(PoolerPhase(in), PoolerPhase(P))
        /\ PoolerPhase(P).because = ""
    BY <1>1, <2>2, PartsSame
  <2> QED BY <1>2, <2>1, <2>3
<1>4. CASE check.rule = "AllOfClusterAndPod"
  <2>1. /\ result = AllOf(ClusterPhase(in), imagePull(in))
        /\ Evaluate(check.rule, P) = AllOf(ClusterPhase(P), imagePull(P))
    BY <1>4 DEF result, Evaluate
  <2>2. "pods" \in Read /\ "cluster" \in Read
    BY <1>4, IsRead
  <2>3. /\ PartThere(imagePull(in), imagePull(P)) /\ imagePull(P).because = ""
        /\ ClusterPhase(in).because = "" => ClusterPhase(P) = ClusterPhase(in)
    BY <1>1, <2>2, PartsSame
  <2>4. PartThere(ClusterPhase(in), ClusterPhase(P))
    BY <2>3 DEF PartThere
  <2> QED BY <1>2, <2>1, <2>3, <2>4
<1> QED BY <1>3, <1>4

\* A layer: what any of its checks matched, and clear where none could have.
LEMMA LayerIs ==
  ASSUME NEW a, NEW b
  PROVE  /\ layerViews(<<a, b>>).on = a.on \cup b.on
         /\ layerViews(<<a, b>>) = Clear => a.because \in {"", "off"} /\ b.because \in {"", "off"}
<1> DEFINE results == <<a, b>>
           all == {results[i] : i \in DOMAIN results}
<1>1. all = {a, b}
  <2>1. DOMAIN results = {1, 2} /\ results[1] = a /\ results[2] = b
    BY PairIs
  <2> HIDE DEF results
  <2> QED BY <2>1
<1> HIDE DEF all
<1>2. UNION {r.on : r \in all} = a.on \cup b.on
  BY <1>1
<1>3. layerViews(results) =
         IF \E r \in all : r.on # {} THEN Matches(UNION {r.on : r \in all})
         ELSE IF \E r \in all : r.because \notin {"", "off"} THEN Unavailable("could not run")
         ELSE IF Clear \in all THEN Clear ELSE Unavailable("off")
  BY DEF layerViews, all
<1> HIDE DEF results
<1>4. CASE \E r \in all : r.on # {}
  <2>1. layerViews(results) = Matches(UNION {r.on : r \in all}) /\ a.on \cup b.on # {}
    BY <1>1, <1>3, <1>4
  <2> QED BY <1>2, <2>1, ResultFields DEF results
<1>5. CASE ~\E r \in all : r.on # {}
  <2>1. a.on = {} /\ b.on = {}
    BY <1>1, <1>5
  <2>2. layerViews(results) \in {Unavailable("could not run"), Clear, Unavailable("off")}
    BY <1>3, <1>5
  <2>3. layerViews(results).on = {}
    BY <2>2, ResultFields
  <2>4. layerViews(results) = Clear => ~\E r \in all : r.because \notin {"", "off"}
    <3>1. Unavailable("could not run") # Clear
      BY ResultFields
    <3> QED BY <1>3, <1>5, <3>1
  <2> QED BY <1>1, <2>1, <2>3, <2>4 DEF results
<1> QED BY <1>4, <1>5

\* A check that has something to say of a subject ran.
LEMMA SaysOf ==
  ASSUME NEW reason, NEW r
  PROVE  /\ Unless(reason, r).on # {} => reason = ""
         /\ reason # "" => Unless(reason, r).because = reason
BY ResultFields DEF Unless

\* A layer finds what is there, and is clear where nothing is.
LEMMA LayerFound ==
  ASSUME TypesInv, check.rule = "layer"
  PROVE  Agrees
<1>1. PICK P : IsPerfect(P, in, truth) /\ Found(in, truth) = Evaluate(check.rule, P).on /\ P.now = in.now
  BY FoundIs
<1>3. result = layerViews(<<imagePull(in), PoolerPhase(in)>>)
      /\ Evaluate(check.rule, P) = layerViews(<<imagePull(P), PoolerPhase(P)>>)
  BY DEF result, Evaluate
<1>4. PartThere(imagePull(in), imagePull(P)) /\ PartThere(PoolerPhase(in), PoolerPhase(P))
  <2>1. "pods" \in Read /\ "poolers" \in Read
    BY IsRead
  <2> QED BY <1>1, <2>1, PartsSame
<1>5. /\ imagePull(in).on # {} => imagePull(in).because = ""
      /\ PoolerPhase(in).on # {} => PoolerPhase(in).because = ""
  BY SaysOf, ResultFields DEF imagePull, PoolerPhase, Unless
<1>6. /\ imagePull(in).because # "off" /\ PoolerPhase(in).because # "off"
  <2>1. \A held : unread(held) # "off"
    BY DEF unread
  <2>2. \A held, S : Unless(unread(held), Matches(S)).because # "off"
    <3> SUFFICES ASSUME NEW held, NEW S PROVE Unless(unread(held), Matches(S)).because # "off"
      OBVIOUS
    <3>1. CASE unread(held) = ""
      BY <3>1, ResultFields DEF Unless
    <3>2. CASE unread(held) # ""
      <4>1. Unless(unread(held), Matches(S)).because = unread(held)
        BY <3>2, SaysOf
      <4> QED BY <2>1, <4>1
    <3> QED BY <3>1, <3>2
  <2> QED BY <2>2 DEF imagePull, PoolerPhase
<1>7. result.on = imagePull(in).on \cup PoolerPhase(in).on
      /\ Found(in, truth) = imagePull(P).on \cup PoolerPhase(P).on
  BY <1>1, <1>3, LayerIs
<1>8. result = Clear => imagePull(in).because = "" /\ PoolerPhase(in).because = ""
  BY <1>3, <1>6, LayerIs
<1>9. result.on \subseteq Found(in, truth)
  BY <1>4, <1>5, <1>7 DEF PartThere
<1>10. result = Clear /\ ~CutShort => Found(in, truth) = {}
  <2>1. Clear.on = {}
    BY ResultFields
  <2> QED BY <1>4, <1>7, <1>8, <2>1 DEF PartThere
<1> QED BY <1>9, <1>10 DEF Agrees

\* What is held of the catalogs, of those there are: a list cut short says so.
CatalogTold(h, q) ==
    \/ h = q
    \/ h.listed = FALSE /\ h.cut = TRUE
    \/ h.listed = q.listed /\ h.cut = q.cut /\ h.images = {} /\ h.imagesCut = TRUE

\* The lookup, among the catalogs that are listed.
LookedUp(list) ==
    CASE list.listed -> [why |-> "", is |-> "found"]
      [] ~list.listed /\ list.cut -> [why |-> "cut", is |-> "none"]
      [] OTHER -> [why |-> "", is |-> "absent"]

\* A lookup that could be made finds what there is.
LEMMA LookedUpIs ==
  ASSUME NEW h, NEW q, CatalogTold(h, q), LookedUp(h).why = ""
  PROVE  /\ LookedUp(q) = LookedUp(h)
         /\ LookedUp(h).is = "found" => h = q \/ (h.images = {} /\ h.imagesCut = TRUE)
<1>1. ~(h.listed = FALSE /\ h.cut = TRUE)
  BY DEF LookedUp
<1>2. CASE h = q
  BY <1>2
<1>3. CASE h.listed = q.listed /\ h.cut = q.cut /\ h.images = {} /\ h.imagesCut = TRUE
  <2>1. LookedUp(q) = LookedUp(h)
    BY <1>3, Zenon DEF LookedUp
  <2> QED BY <1>3, <2>1
<1> QED BY <1>1, <1>2, <1>3 DEF CatalogTold

\* The lookup that could be made is the one there is.
LEMMA ResolveIs ==
  ASSUME NEW x
  PROVE  /\ resolveCatalog(x).why = "" => clusterUnavailable(x) = ""
         /\ clusterUnavailable(x) = "" /\ ~x.cluster.facts.catalogRef =>
               resolveCatalog(x) = [why |-> "", is |-> "none"]
         /\ clusterUnavailable(x) = "" /\ x.cluster.facts.catalogRef /\ unread(x.catalogs) # "" =>
               resolveCatalog(x).why # ""
         /\ clusterUnavailable(x) = "" /\ x.cluster.facts.catalogRef /\ unread(x.catalogs) = "" =>
               resolveCatalog(x) = LookedUp(x.catalogs.facts)
<1>1. resolveCatalog(x).why = "" => clusterUnavailable(x) = ""
  BY DEF resolveCatalog
<1>2. clusterUnavailable(x) = "" /\ ~x.cluster.facts.catalogRef =>
               resolveCatalog(x) = [why |-> "", is |-> "none"]
  BY DEF resolveCatalog
<1>3. clusterUnavailable(x) = "" /\ x.cluster.facts.catalogRef /\ unread(x.catalogs) # "" =>
               resolveCatalog(x).why # ""
  BY DEF resolveCatalog
<1>4. clusterUnavailable(x) = "" /\ x.cluster.facts.catalogRef /\ unread(x.catalogs) = "" =>
               resolveCatalog(x) = LookedUp(x.catalogs.facts)
  BY DEF resolveCatalog, LookedUp
<1> QED BY <1>1, <1>2, <1>3, <1>4

\* Without a reference no catalog is looked up.
LEMMA NoneIs == [why |-> "", is |-> "none"].is # "found"
OBVIOUS

\* The lookup, on what is held and on what there is.
LEMMA ResolveSame ==
  ASSUME NEW x, NEW y, resolveCatalog(x).why = "", unread(y.catalogs) = "",
         clusterUnavailable(x) = "" => y.cluster = x.cluster,
         unread(x.catalogs) = "" => CatalogTold(x.catalogs.facts, y.catalogs.facts)
  PROVE  /\ resolveCatalog(y) = resolveCatalog(x) /\ y.cluster = x.cluster
         /\ resolveCatalog(x).is = "found" =>
               \/ y.catalogs.facts = x.catalogs.facts
               \/ x.catalogs.facts.images = {} /\ x.catalogs.facts.imagesCut = TRUE
<1>1. clusterUnavailable(x) = "" /\ y.cluster = x.cluster /\ clusterUnavailable(y) = ""
  <2>1. clusterUnavailable(x) = "" /\ y.cluster = x.cluster
    BY ResolveIs
  <2> QED BY <2>1 DEF clusterUnavailable
<1>2. CASE ~x.cluster.facts.catalogRef
  <2>0. ~y.cluster.facts.catalogRef
    BY <1>1, <1>2
  <2>1. resolveCatalog(x) = [why |-> "", is |-> "none"]
    BY <1>1, <1>2, ResolveIs
  <2>2. resolveCatalog(y) = [why |-> "", is |-> "none"]
    BY <1>1, <2>0, ResolveIs
  <2>3. resolveCatalog(x).is # "found"
    BY <2>1, NoneIs, Zenon
  <2>4. resolveCatalog(y) = resolveCatalog(x)
    BY <2>1, <2>2, Zenon
  <2> QED BY <1>1, <2>3, <2>4
<1>3. CASE x.cluster.facts.catalogRef
  <2>0. y.cluster.facts.catalogRef
    BY <1>1, <1>3
  <2>1. unread(x.catalogs) = ""
    BY <1>1, <1>3, ResolveIs
  <2>2. resolveCatalog(x) = LookedUp(x.catalogs.facts)
    BY <1>1, <1>3, <2>1, ResolveIs
  <2>3. resolveCatalog(y) = LookedUp(y.catalogs.facts)
    BY <1>1, <2>0, ResolveIs
  <2>4. LookedUp(x.catalogs.facts).why = ""
    BY <2>2
  <2>5. CatalogTold(x.catalogs.facts, y.catalogs.facts)
    BY <2>1
  <2>6. /\ LookedUp(y.catalogs.facts) = LookedUp(x.catalogs.facts)
        /\ LookedUp(x.catalogs.facts).is = "found" =>
               \/ x.catalogs.facts = y.catalogs.facts
               \/ x.catalogs.facts.images = {} /\ x.catalogs.facts.imagesCut = TRUE
    BY <2>4, <2>5, LookedUpIs
  <2> QED BY <1>1, <2>2, <2>3, <2>6
<1> QED BY <1>2, <1>3

\* The rules that look a catalog up.
LEMMA CatalogRulesSame ==
  ASSUME NEW x, NEW y, unread(y.catalogs) = "",
         clusterUnavailable(x) = "" => y.cluster = x.cluster,
         unread(x.catalogs) = "" => CatalogTold(x.catalogs.facts, y.catalogs.facts)
  PROVE  /\ ImageCatalogMissing(x).because = "" => ImageCatalogMissing(y) = ImageCatalogMissing(x)
         /\ ImageCatalogLacksMajor(x).because = "" => ImageCatalogLacksMajor(y) = ImageCatalogLacksMajor(x)
<1>1. ASSUME ImageCatalogMissing(x).because = "" PROVE ImageCatalogMissing(y) = ImageCatalogMissing(x)
  <2>1. resolveCatalog(x).why = ""
    BY <1>1, Gate DEF ImageCatalogMissing
  <2>2. resolveCatalog(y) = resolveCatalog(x)
    BY <2>1, ResolveSame
  <2> QED BY <2>2 DEF ImageCatalogMissing
<1>2. ASSUME ImageCatalogLacksMajor(x).because = ""
      PROVE  ImageCatalogLacksMajor(y) = ImageCatalogLacksMajor(x)
  <2> DEFINE among(z) == LET major == z.cluster.facts.major
                             images == z.catalogs.facts.images IN
                         CASE resolveCatalog(z).is # "found" -> Clear
                           [] resolveCatalog(z).is = "found" /\ major = Nil -> Unavailable("no major version")
                           [] OTHER -> IF major \in images THEN Clear
                                       ELSE Unless(IF z.catalogs.facts.imagesCut THEN "cut" ELSE "", OnCluster(TRUE))
  <2>1. ImageCatalogLacksMajor(x) = Unless(resolveCatalog(x).why, among(x))
        /\ ImageCatalogLacksMajor(y) = Unless(resolveCatalog(y).why, among(y))
    BY DEF ImageCatalogLacksMajor
  <2>2. resolveCatalog(x).why = "" /\ among(x).because = ""
    <3> HIDE DEF among
    <3> QED BY <1>2, <2>1, Gate
  <2>3. /\ resolveCatalog(y) = resolveCatalog(x) /\ y.cluster = x.cluster
        /\ resolveCatalog(x).is = "found" =>
               \/ y.catalogs.facts = x.catalogs.facts
               \/ x.catalogs.facts.images = {} /\ x.catalogs.facts.imagesCut = TRUE
    BY <2>2, ResolveSame
  <2>4. among(y) = among(x)
    <3>1. CASE resolveCatalog(x).is # "found"
      BY <2>3, <3>1
    <3>2. CASE resolveCatalog(x).is = "found" /\ y.catalogs.facts = x.catalogs.facts
      BY <2>3, <3>2
    <3>3. CASE resolveCatalog(x).is = "found" /\ x.catalogs.facts.images = {} /\ x.catalogs.facts.imagesCut = TRUE
      <4>1. CASE x.cluster.facts.major = Nil
        BY <2>3, <3>3, <4>1
      <4>2. CASE x.cluster.facts.major # Nil
        <5>1. among(x) = Unless("cut", OnCluster(TRUE))
          BY <3>3, <4>2
        <5>2. Unless("cut", OnCluster(TRUE)) = Unavailable("cut") /\ Unavailable("cut").because = "cut"
          BY ResultFields DEF Unless
        <5> HIDE DEF among
        <5> QED BY <2>2, <5>1, <5>2
      <4> QED BY <4>1, <4>2
    <3> QED BY <2>3, <3>1, <3>2, <3>3
  <2> HIDE DEF among
  <2> QED BY <2>1, <2>3, <2>4
<1> QED BY <1>1, <1>2

\* What a console that sees everything holds of the catalogs and the Cluster.
LEMMA CatalogsHeld ==
  ASSUME TypesInv, "cluster" \in Read, "catalogs" \in Read,
         NEW P, IsPerfect(P, in, truth)
  PROVE  /\ unread(P.catalogs) = ""
         /\ unread(in.cluster) = "" => P.cluster = in.cluster
         /\ unread(in.catalogs) = "" => CatalogTold(in.catalogs.facts, P.catalogs.facts)
<1>1. "catalogs" \in Watched \cap Read /\ "cluster" \in Whole \cap Read
      /\ <<"catalogs", "cut">> \notin check.varies /\ <<"cluster", "cut">> \notin check.varies
  BY ClusterUncut DEF Whole, Watched, Lists
<1>2. P["catalogs"].has = TRUE /\ P["catalogs"].stale = FALSE /\ P["catalogs"].facts = truth.facts["catalogs"]
  BY <1>1, PerfectParts
<1>3. unread(P["catalogs"]) = ""
  BY <1>2, InContact
<1>4. unread(in["cluster"]) = "" => P["cluster"] = in["cluster"]
  BY <1>1, SameSource
<1>5. ASSUME unread(in["catalogs"]) = "" PROVE CatalogTold(in["catalogs"].facts, P["catalogs"].facts)
  <2>1. in["catalogs"].facts \in Shown("catalogs", truth.facts["catalogs"])
        /\ NamesInstances("catalogs", truth.facts["catalogs"])
    BY <1>1, <1>5, ContactIs
  <2>2. DOMAIN truth.facts["catalogs"] = {"listed", "cut", "images", "imagesCut"}
    BY <2>1 DEF NamesInstances, CalmFacts
  <2> DEFINE h == in["catalogs"].facts
             q == truth.facts["catalogs"]
  <2>3. \/ h = q
        \/ h.listed = FALSE /\ h.cut = TRUE
        \/ h.listed = q.listed /\ h.cut = q.cut /\ h.images = {} /\ h.imagesCut = TRUE
    <3>1. h \in Shown("catalogs", q) /\ DOMAIN q = {"listed", "cut", "images", "imagesCut"}
          /\ <<"catalogs", "cut">> \notin check.varies
      BY <1>1, <2>1, <2>2
    <3> HIDE DEF h, q
    <3> QED BY <3>1, CatalogsShown
  <2> QED BY <1>2, <2>3 DEF CatalogTold
<1> QED BY <1>3, <1>4, <1>5

\* The rules about the image catalogs.
LEMMA CatalogsSame ==
  ASSUME TypesInv, "cluster" \in Read, "catalogs" \in Read,
         NEW P, IsPerfect(P, in, truth)
  PROVE  /\ ImageCatalogMissing(in).because = "" => ImageCatalogMissing(P) = ImageCatalogMissing(in)
         /\ ImageCatalogLacksMajor(in).because = "" => ImageCatalogLacksMajor(P) = ImageCatalogLacksMajor(in)
<1>1. /\ unread(P.catalogs) = ""
      /\ unread(in.cluster) = "" => P.cluster = in.cluster
      /\ unread(in.catalogs) = "" => CatalogTold(in.catalogs.facts, P.catalogs.facts)
  BY CatalogsHeld
<1>2. clusterUnavailable(in) = "" => P.cluster = in.cluster
  BY <1>1, ClusterReadIs
<1> QED BY <1>1, <1>2, CatalogRulesSame

\* The catalogs' checks find what there is to find.
LEMMA CatalogsFound ==
  ASSUME TypesInv, check.rule \in {"ImageCatalogMissing", "ImageCatalogLacksMajor"}, result.because = ""
  PROVE  Found(in, truth) = result.on
<1>1. PICK P : IsPerfect(P, in, truth) /\ Found(in, truth) = Evaluate(check.rule, P).on /\ P.now = in.now
  BY FoundIs
<1>3. "cluster" \in Read /\ "catalogs" \in Read
  BY IsRead
<1>4. /\ ImageCatalogMissing(in).because = "" => ImageCatalogMissing(P) = ImageCatalogMissing(in)
      /\ ImageCatalogLacksMajor(in).because = "" => ImageCatalogLacksMajor(P) = ImageCatalogLacksMajor(in)
  BY <1>1, <1>3, CatalogsSame
<1>5. CASE check.rule = "ImageCatalogMissing"
  <2>1. result = ImageCatalogMissing(in) /\ Evaluate(check.rule, P) = ImageCatalogMissing(P)
    BY <1>5 DEF result, Evaluate
  <2> QED BY <1>1, <1>4, <2>1
<1>6. CASE check.rule = "ImageCatalogLacksMajor"
  <2>1. result = ImageCatalogLacksMajor(in) /\ Evaluate(check.rule, P) = ImageCatalogLacksMajor(P)
    BY <1>6 DEF result, Evaluate
  <2> QED BY <1>1, <1>4, <2>1
<1> QED BY <1>5, <1>6

-----------------------------------------------------------------------------
(* A step of a playbook answers as it would to a console that sees all.     *)

\* What matched matched there, and what all read clear reads clear there.
Concurs(outcomes, there) ==
    /\ "matched" \in outcomes => "matched" \in there
    /\ outcomes # {} /\ ("clear" \in outcomes /\ outcomes \cap {"matched", "unavailable", "off"} = {} =>
           "matched" \notin there)

StepConcurs(facts, outcomes, factsThere, there) ==
    (\A f \in facts : f.because = "") => factsThere = facts /\ Concurs(outcomes, there)

\* Whether one answer agrees with another.
AnswersAgree(said, there) == /\ said = "found" => there = "found"
                             /\ said = "ruled out" => there # "found"

\* A step that was found is found there too, and one ruled out is not found.
LEMMA StepsAgree ==
  ASSUME NEW facts, NEW outcomes, NEW factsThere, NEW there,
         StepConcurs(facts, outcomes, factsThere, there)
  PROVE  AnswersAgree(answer(facts, outcomes), answer(factsThere, there))
<1>1. ASSUME answer(facts, outcomes) = "found" PROVE answer(factsThere, there) = "found"
  <2>1. /\ \A f \in facts : f.because = ""
        /\ (\E f \in facts : f # Clear) \/ "matched" \in outcomes
    BY <1>1, AnswerIs
  <2>2. factsThere = facts /\ ("matched" \in outcomes => "matched" \in there)
    BY <2>1 DEF StepConcurs, Concurs
  <2> QED BY <2>1, <2>2, AnswerIs
<1>2. ASSUME answer(facts, outcomes) = "ruled out" PROVE answer(factsThere, there) # "found"
  <2>1. /\ \A f \in facts : f.because = "" /\ f = Clear
        /\ outcomes \cap {"matched", "unavailable", "off"} = {}
        /\ "clear" \in outcomes \/ (outcomes = {} /\ facts # {})
    BY <1>2, AnswerIs
  <2>2. factsThere = facts /\ "matched" \notin there
    BY <2>1 DEF StepConcurs, Concurs
  <2> QED BY <2>1, <2>2, AnswerIs
<1> QED BY <1>1, <1>2 DEF AnswersAgree

\* Checks that are not pinned, and conclude the same there where they could run.
LEMMA UnpinnedConcur ==
  ASSUME NEW x, NEW y, NEW a, NEW b, NEW c, NEW d, a.because = "" => c = a, b.because = "" => d = b
  PROVE  Concurs(Concluded(x, Nil, {a, b}), Concluded(y, Nil, {c, d}))
<1> DEFINE of(z, r) == evaluateRule(z, Nil, r)
<1>1. Concluded(x, Nil, {a, b}) = {of(x, a), of(x, b)} /\ Concluded(y, Nil, {c, d}) = {of(y, c), of(y, d)}
  BY DEF Concluded
<1>2. ASSUME NEW r, NEW s, r.because = "" => s = r
      PROVE  /\ of(x, r) = "matched" => of(y, s) = "matched"
             /\ of(x, r) \notin {"matched", "unavailable", "off"} => of(y, s) # "matched"
  <2>1. /\ r.because = "" /\ r # Clear => of(x, r) = "matched" /\ of(y, r) = "matched"
        /\ r = Clear => of(x, r) = "clear" /\ of(y, r) = "clear"
        /\ r.because = "off" => of(x, r) = "off"
        /\ r.because \notin {"", "off"} => of(x, r) = "unavailable"
    BY Unpinned
  <2> HIDE DEF of
  <2>2. Clear.because = ""
    BY ResultFields
  <2> QED BY <1>2, <2>1, <2>2
<1> HIDE DEF of
<1>3. /\ of(x, a) = "matched" => of(y, c) = "matched"
      /\ of(x, a) \notin {"matched", "unavailable", "off"} => of(y, c) # "matched"
  BY <1>2
<1>4. /\ of(x, b) = "matched" => of(y, d) = "matched"
      /\ of(x, b) \notin {"matched", "unavailable", "off"} => of(y, d) # "matched"
  BY <1>2
<1> QED BY <1>1, <1>3, <1>4 DEF Concurs

\* One check, pinned to a version of the Cluster as it was last reported.
LEMMA PinnedConcurs ==
  ASSUME NEW x, NEW y, NEW pin, NEW a, NEW c, a.because = "" => c = a /\ y.cluster = x.cluster
  PROVE  Concurs(Concluded(x, pin, {a}), Concluded(y, pin, {c}))
<1>1. Concluded(x, pin, {a}) = {evaluateRule(x, pin, a)} /\ Concluded(y, pin, {c}) = {evaluateRule(y, pin, c)}
  BY DEF Concluded
<1>2. ASSUME evaluateRule(x, pin, a) \in {"matched", "clear"}
      PROVE  evaluateRule(y, pin, c) = evaluateRule(x, pin, a)
  <2>0. a.because = ""
    BY <1>2, ConcludedIs
  <2>1. c = a /\ y.cluster = x.cluster
    BY <2>0
  <2> QED BY <2>1 DEF evaluateRule
<1> QED BY <1>1, <1>2 DEF Concurs

\* The Cluster's checks look at it in contact.
LEMMA PhaseGate ==
  ASSUME NEW x
  PROVE  /\ ClusterPhase(x).because = "" => unread(x.cluster) = ""
         /\ InstancesShort(x).because = "" => unread(x.cluster) = ""
<1>1. "ClusterPhase" \in ClusterRules /\ Evaluate("ClusterPhase", x) = ClusterPhase(x)
  BY DEF ClusterRules, Evaluate
<1>2. "InstancesShort" \in ClusterRules /\ Evaluate("InstancesShort", x) = InstancesShort(x)
  BY DEF ClusterRules, Evaluate
<1> QED BY <1>1, <1>2, ClusterGate

\* A fact is judged on a source in contact, whose list is whole.
LEMMA CutIs == \A facts : cutOff(facts) = "" => ~facts.cut
BY DEF cutOff

\* What a step could judge is held as it is.
LEMMA PartsThere ==
  ASSUME TypesInv, NEW P, IsPerfect(P, in, truth)
  PROVE  /\ "cluster" \in Read /\ unread(in.cluster) = "" => P.cluster = in.cluster
         /\ "pods" \in Read /\ NoReadyInstance(in).because = "" => P.pods = in.pods
         /\ "infrastructure" \in Read /\ NoWriteService(in).because = "" => P.infrastructure = in.infrastructure
         /\ "backups" \in Read /\ NoBackupSchedule(in).because = "" => P.backups = in.backups
<1>1. {"cluster", "pods", "infrastructure", "backups"} \subseteq Whole
  BY DEF Whole, Watched
<1>2. "cluster" \in Read /\ unread(in.cluster) = "" => P.cluster = in.cluster
  BY <1>1, ClusterUncut, SameSource DEF Lists
<1>3. ASSUME "pods" \in Read, NoReadyInstance(in).because = "" PROVE P.pods = in.pods
  <2>1. Or(unread(in.pods), cutOff(in.pods.facts)) = ""
    BY <1>3, Gate DEF NoReadyInstance
  <2>2. unread(in["pods"]) = "" /\ ~in["pods"].facts.cut
    BY <2>1, OrIs, CutIs
  <2> QED BY <1>1, <1>3, <2>2, SameSource
<1>4. ASSUME "infrastructure" \in Read, NoWriteService(in).because = "" PROVE P.infrastructure = in.infrastructure
  <2>1. Or(unread(in.infrastructure), cutOff(in.infrastructure.facts)) = ""
    BY <1>4, Gate DEF NoWriteService
  <2>2. unread(in["infrastructure"]) = "" /\ ~in["infrastructure"].facts.cut
    BY <2>1, OrIs, CutIs
  <2> QED BY <1>1, <1>4, <2>2, SameSource
<1>5. ASSUME "backups" \in Read, NoBackupSchedule(in).because = "" PROVE P.backups = in.backups
  <2>1. Or(unread(in.backups), cutOff(in.backups.facts)) = ""
    BY <1>5, Gate DEF NoBackupSchedule
  <2>2. unread(in["backups"]) = "" /\ ~in["backups"].facts.cut
    BY <2>1, OrIs, CutIs
  <2> QED BY <1>1, <1>5, <2>2, SameSource
<1> QED BY <1>2, <1>3, <1>4, <1>5

\* The step that asks for a named primary.
LEMMA PrimaryNamedAgrees ==
  ASSUME TypesInv, "cluster" \in Read, NEW P, IsPerfect(P, in, truth), P.now = in.now
  PROVE  AnswersAgree(primaryNamed(in), primaryNamed(P))
         /\ (primaryNamed(in) # "could not be judged" => P.cluster = in.cluster)
<1>1. ASSUME primaryNamed(in) # "could not be judged" PROVE P.cluster = in.cluster
  <2>1. NoPrimaryNamed(in).because = ""
    BY <1>1 DEF primaryNamed, answer
  <2>2. unread(in.cluster) = ""
    BY <2>1, Gate DEF NoPrimaryNamed
  <2> QED BY <2>2, PartsThere
<1>2. primaryNamed(in) # "could not be judged" => primaryNamed(P) = primaryNamed(in)
  BY <1>1, ClusterRulesSame
<1> QED BY <1>1, <1>2 DEF AnswersAgree

\* The step that asks for a ready instance, of a list that may be cut.
LEMMA InstanceReadyAgrees ==
  ASSUME TypesInv, "cluster" \in Read, "pods" \in Read, NEW P, IsPerfect(P, in, truth), P.now = in.now
  PROVE  AnswersAgree(instanceReady(in), instanceReady(P))
         /\ (instanceReady(in) # "could not be judged" => P.pods = in.pods)
<1>1. NoReadyInstance(in).because = "" => P.pods = in.pods
  BY PartsThere
<1>2. instanceReady(in) # "could not be judged" => NoReadyInstance(in).because = ""
  BY DEF instanceReady, answer
<1> DEFINE facts(x) == {NoReadyInstance(x)}
           outcomes(x) == Concluded(x, Nil, {InstancesShort(x), imagePull(x)})
<1>3. ASSUME \A f \in facts(in) : f.because = "" PROVE facts(P) = facts(in) /\ Concurs(outcomes(in), outcomes(P))
  <2>1. P.pods = in.pods
    BY <1>1, <1>3
  <2>2. NoReadyInstance(P) = NoReadyInstance(in) /\ imagePull(P) = imagePull(in)
    BY <2>1, OneSourceSame
  <2>3. InstancesShort(in).because = "" => InstancesShort(P) = InstancesShort(in)
    BY PhaseGate, PartsThere, ClusterRulesSame
  <2>4. Concurs(outcomes(in), outcomes(P))
    BY <2>2, <2>3, UnpinnedConcur
  <2> QED BY <2>2, <2>4
<1>4. \A x : instanceReady(x) = answer(facts(x), outcomes(x))
  BY DEF instanceReady
<1> HIDE DEF facts, outcomes
<1>6. StepConcurs(facts(in), outcomes(in), facts(P), outcomes(P))
  BY <1>3 DEF StepConcurs
<1>5. AnswersAgree(instanceReady(in), instanceReady(P))
  BY <1>4, <1>6, StepsAgree
<1> QED BY <1>1, <1>2, <1>5

\* The step that asks for the read-write service, pinned to a version.
LEMMA WriteServiceAgrees ==
  ASSUME TypesInv, "cluster" \in Read, "infrastructure" \in Read, NEW P, IsPerfect(P, in, truth),
         P.now = in.now
  PROVE  AnswersAgree(writeService(in), writeService(P))
         /\ (writeService(in) # "could not be judged" => P.infrastructure = in.infrastructure)
<1>1. NoWriteService(in).because = "" => P.infrastructure = in.infrastructure
  BY PartsThere
<1>2. writeService(in) # "could not be judged" => NoWriteService(in).because = ""
  BY DEF writeService, answer
<1> DEFINE facts(x) == {NoWriteService(x)}
           outcomes(x) == Concluded(x, 1, {ClusterPhase(x)})
<1>3. ASSUME \A f \in facts(in) : f.because = "" PROVE facts(P) = facts(in) /\ Concurs(outcomes(in), outcomes(P))
  <2>1. P.infrastructure = in.infrastructure
    BY <1>1, <1>3
  <2>2. NoWriteService(P) = NoWriteService(in)
    BY <2>1, OneSourceSame
  <2>3. ClusterPhase(in).because = "" => ClusterPhase(P) = ClusterPhase(in) /\ P.cluster = in.cluster
    BY PhaseGate, PartsThere, ClusterRulesSame
  <2>4. Concurs(outcomes(in), outcomes(P))
    BY <2>3, PinnedConcurs
  <2> QED BY <2>2, <2>4
<1>4. \A x : writeService(x) = answer(facts(x), outcomes(x))
  BY DEF writeService
<1> HIDE DEF facts, outcomes
<1>6. StepConcurs(facts(in), outcomes(in), facts(P), outcomes(P))
  BY <1>3 DEF StepConcurs
<1>5. AnswersAgree(writeService(in), writeService(P))
  BY <1>4, <1>6, StepsAgree
<1> QED BY <1>1, <1>2, <1>5

\* The step that asks whether the definition is refused.
LEMMA DefinitionRefusedAgrees ==
  ASSUME TypesInv, "cluster" \in Read, "catalogs" \in Read,
         NEW P, IsPerfect(P, in, truth), P.now = in.now
  PROVE  AnswersAgree(definitionRefused(in), definitionRefused(P))
<1> DEFINE facts(x) == {ClusterAbsent(x)}
           outcomes(x) == Concluded(x, Nil, {ClusterPhase(x), ImageCatalogMissing(x)})
<1>3. ASSUME \A f \in facts(in) : f.because = "" PROVE facts(P) = facts(in) /\ Concurs(outcomes(in), outcomes(P))
  <2>1. P.cluster = in.cluster
    <3>1. ClusterAbsent(in).because = ""
      BY <1>3
    <3>2. unread(in.cluster) = ""
      BY <3>1, Gate DEF ClusterAbsent
    <3> QED BY <3>2, PartsThere
  <2>2. ClusterAbsent(P) = ClusterAbsent(in) /\ ClusterPhase(P) = ClusterPhase(in)
    BY <2>1, ClusterRulesSame
  <2>3. ImageCatalogMissing(in).because = "" => ImageCatalogMissing(P) = ImageCatalogMissing(in)
    BY CatalogsSame
  <2>4. Concurs(outcomes(in), outcomes(P))
    BY <2>2, <2>3, UnpinnedConcur
  <2> QED BY <2>2, <2>4
<1>4. \A x : definitionRefused(x) = answer(facts(x), outcomes(x))
  BY DEF definitionRefused
<1> HIDE DEF facts, outcomes
<1>6. StepConcurs(facts(in), outcomes(in), facts(P), outcomes(P))
  BY <1>3 DEF StepConcurs
<1> QED BY <1>4, <1>6, StepsAgree

\* What a check concludes is told from its result, and from its pin.
LEMMA ConclusionsSame ==
  ASSUME NEW x, NEW y
  PROVE  /\ \A r : evaluateRule(x, Nil, r) = evaluateRule(y, Nil, r)
         /\ x.cluster = y.cluster => \A r : evaluateRule(x, 1, r) = evaluateRule(y, 1, r)
<1>1. \A r : evaluateRule(x, Nil, r) = evaluateRule(y, Nil, r)
  BY DEF evaluateRule
<1>2. ASSUME x.cluster = y.cluster, NEW pin, NEW r PROVE evaluateRule(x, pin, r) = evaluateRule(y, pin, r)
  BY <1>2 DEF evaluateRule
<1> QED BY <1>1, <1>2

\* Answers that agree conclude the same where the first could be given.
LEMMA AnsweredAgrees ==
  ASSUME NEW said \in Answers, NEW there \in Answers, AnswersAgree(said, there), Answered(said).because = ""
  PROVE  Answered(there).on = Answered(said).on
<1>1. said \in {"found", "ruled out"}
  BY AnsweredIs
<1>2. Answered(said).on = IF said = "found" THEN {Cluster} ELSE {}
  BY AnsweredIs
<1>3. Answered(there).on = IF there = "found" THEN {Cluster} ELSE {}
  BY AnsweredIs
<1>4. CASE said = "found"
  BY <1>2, <1>3, <1>4 DEF AnswersAgree
<1>5. CASE said = "ruled out"
  BY <1>2, <1>3, <1>5 DEF AnswersAgree
<1> QED BY <1>1, <1>4, <1>5

\* The steps that look at several sources, or ask for an absence.
LEMMA StepsFound ==
  ASSUME TypesInv, check.rule \in {"instanceReady", "writeService", "definitionRefused"}, result.because = ""
  PROVE  Found(in, truth) = result.on
<1>1. PICK P : IsPerfect(P, in, truth) /\ Found(in, truth) = Evaluate(check.rule, P).on /\ P.now = in.now
  BY FoundIs
<1>2. \A x : instanceReady(x) \in Answers /\ writeService(x) \in Answers /\ definitionRefused(x) \in Answers
  BY AnswerIs DEF instanceReady, writeService, definitionRefused
<1>3. CASE check.rule = "instanceReady"
  <2>1. result = Answered(instanceReady(in)) /\ Evaluate(check.rule, P) = Answered(instanceReady(P))
    BY <1>3 DEF result, Evaluate
  <2>2. AnswersAgree(instanceReady(in), instanceReady(P))
    BY <1>1, <1>3, IsRead, InstanceReadyAgrees
  <2>3. Answered(instanceReady(in)).because = ""
    BY <2>1
  <2>4. Answered(instanceReady(P)).on = Answered(instanceReady(in)).on
    BY <1>2, <2>2, <2>3, AnsweredAgrees
  <2> QED BY <1>1, <2>1, <2>4
<1>4. CASE check.rule = "writeService"
  <2>1. result = Answered(writeService(in)) /\ Evaluate(check.rule, P) = Answered(writeService(P))
    BY <1>4 DEF result, Evaluate
  <2>2. AnswersAgree(writeService(in), writeService(P))
    BY <1>1, <1>4, IsRead, WriteServiceAgrees
  <2>3. Answered(writeService(in)).because = ""
    BY <2>1
  <2>4. Answered(writeService(P)).on = Answered(writeService(in)).on
    BY <1>2, <2>2, <2>3, AnsweredAgrees
  <2> QED BY <1>1, <2>1, <2>4
<1>5. CASE check.rule = "definitionRefused"
  <2>1. result = Answered(definitionRefused(in)) /\ Evaluate(check.rule, P) = Answered(definitionRefused(P))
    BY <1>5 DEF result, Evaluate
  <2>3. AnswersAgree(definitionRefused(in), definitionRefused(P))
    BY <1>1, <1>5, IsRead, DefinitionRefusedAgrees
  <2>4. Answered(definitionRefused(in)).because = ""
    BY <2>1
  <2>5. Answered(definitionRefused(P)).on = Answered(definitionRefused(in)).on
    BY <1>2, <2>3, <2>4, AnsweredAgrees
  <2> QED BY <1>1, <2>1, <2>5
<1> QED BY <1>3, <1>4, <1>5

\* The backups' schedules, whose absence is a fact of its own.
LEMMA ScheduleFound ==
  ASSUME TypesInv, check.rule = "scheduleFiring", result.because = ""
  PROVE  Found(in, truth) = result.on
<1>1. PICK P : IsPerfect(P, in, truth) /\ Found(in, truth) = Evaluate(check.rule, P).on /\ P.now = in.now
  BY FoundIs
<1>2. result = Answered(scheduleFiring(in)) /\ Evaluate(check.rule, P) = Answered(scheduleFiring(P))
  BY DEF result, Evaluate
<1>3. PICK outcomes : scheduleFiring(in) = answer({NoBackupSchedule(in)}, outcomes)
  BY Zenon DEF scheduleFiring
<1>4. NoBackupSchedule(in).because = ""
  <2>1. Answered(scheduleFiring(in)).because = ""
    BY <1>2
  <2>2. \A f \in {NoBackupSchedule(in)} : f.because = ""
    BY <1>3, <2>1, StepJudged
  <2> QED BY <2>2
<1>5. "backups" \in Read
  BY IsRead DEF BackupRules
<1>6. P.backups = in.backups
  BY <1>1, <1>4, <1>5, PartsThere
<1>7. scheduleFiring(P) = scheduleFiring(in)
  BY <1>1, <1>6, BackupRulesSame
<1> QED BY <1>1, <1>2, <1>7

\* A walk of three steps.
LEMMA TripleIs ==
  ASSUME NEW u, NEW v, NEW w, NEW s, s = <<u, v, w>>
  PROVE  DOMAIN s = {1, 2, 3} /\ s[1] = u /\ s[2] = v /\ s[3] = w
<1>1. DOMAIN <<u, v, w>> = 1..3
  OBVIOUS
<1>2. 1..3 = {1, 2, 3}
  OBVIOUS
<1> QED BY <1>1, <1>2

\* The walk of three steps, by what they answered.
LEMMA WalkIs ==
  ASSUME NEW u, NEW v, NEW w
  PROVE  /\ Walked(<<u, v, w>>).on = IF "found" \in {u, v, w} THEN {Cluster} ELSE {}
         /\ Walked(<<u, v, w>>).because = "" =>
               "found" \in {u, v, w} \/ "could not be judged" \notin {u, v, w}
<1>1. PICK s : s = <<u, v, w>>
  OBVIOUS
<1>2. DOMAIN s = {1, 2, 3} /\ s[1] = u /\ s[2] = v /\ s[3] = w
  BY <1>1, TripleIs
<1>3. /\ Walked(s).on = IF \E i \in DOMAIN s : s[i] = "found" THEN {Cluster} ELSE {}
      /\ Walked(s).because = "" =>
            \/ \E i \in DOMAIN s : s[i] = "found"
            \/ \A i \in DOMAIN s : s[i] # "could not be judged"
  BY <1>2, WalkedIs
<1>4. (\E i \in DOMAIN s : s[i] = "found") <=> "found" \in {u, v, w}
  BY <1>2
<1>5. (\A i \in DOMAIN s : s[i] # "could not be judged") <=> "could not be judged" \notin {u, v, w}
  BY <1>2
<1> QED BY <1>1, <1>3, <1>4, <1>5

\* The playbook walks them in turn.
LEMMA WalkFound ==
  ASSUME TypesInv, check.rule = "cannotConnect", result.because = ""
  PROVE  Found(in, truth) = result.on
<1>1. PICK P : IsPerfect(P, in, truth) /\ Found(in, truth) = Evaluate(check.rule, P).on /\ P.now = in.now
  BY FoundIs
<1>2. \A x : Evaluate("cannotConnect", x) = Walked(<<primaryNamed(x), instanceReady(x), writeService(x)>>)
  BY DEF Evaluate, cannotConnect
<1>3. "cluster" \in Read /\ "pods" \in Read /\ "infrastructure" \in Read
  BY IsRead
<1>4. /\ AnswersAgree(primaryNamed(in), primaryNamed(P))
      /\ primaryNamed(in) # "could not be judged" => P.cluster = in.cluster
  BY <1>1, <1>3, PrimaryNamedAgrees
<1>5. /\ AnswersAgree(instanceReady(in), instanceReady(P))
      /\ instanceReady(in) # "could not be judged" => P.pods = in.pods
  BY <1>1, <1>3, InstanceReadyAgrees
<1>6. /\ AnswersAgree(writeService(in), writeService(P))
      /\ writeService(in) # "could not be judged" => P.infrastructure = in.infrastructure
  BY <1>1, <1>3, WriteServiceAgrees
<1> DEFINE said == {primaryNamed(in), instanceReady(in), writeService(in)}
           there == {primaryNamed(P), instanceReady(P), writeService(P)}
<1>7. /\ result.on = IF "found" \in said THEN {Cluster} ELSE {}
      /\ "found" \in said \/ "could not be judged" \notin said
  <2>1. result = Walked(<<primaryNamed(in), instanceReady(in), writeService(in)>>)
    BY <1>2 DEF result
  <2>2. Walked(<<primaryNamed(in), instanceReady(in), writeService(in)>>).because = ""
    BY <2>1
  <2>3. PICK u, v, w : u = primaryNamed(in) /\ v = instanceReady(in) /\ w = writeService(in)
    OBVIOUS
  <2>4. /\ Walked(<<u, v, w>>).on = IF "found" \in {u, v, w} THEN {Cluster} ELSE {}
        /\ Walked(<<u, v, w>>).because = "" => "found" \in {u, v, w} \/ "could not be judged" \notin {u, v, w}
    BY WalkIs
  <2>5. said = {u, v, w}
    BY <2>3
  <2> HIDE DEF said
  <2> QED BY <2>1, <2>2, <2>3, <2>4, <2>5
<1>8. Found(in, truth) = IF "found" \in there THEN {Cluster} ELSE {}
  <2>1. Evaluate(check.rule, P) = Walked(<<primaryNamed(P), instanceReady(P), writeService(P)>>)
    BY <1>2
  <2>2. PICK u, v, w : u = primaryNamed(P) /\ v = instanceReady(P) /\ w = writeService(P)
    OBVIOUS
  <2>3. Walked(<<u, v, w>>).on = IF "found" \in {u, v, w} THEN {Cluster} ELSE {}
    BY WalkIs
  <2>4. there = {u, v, w}
    BY <2>2
  <2> HIDE DEF there
  <2> QED BY <1>1, <2>1, <2>2, <2>3, <2>4
<1>9. CASE "found" \in said
  <2>1. "found" \in there
    BY <1>4, <1>5, <1>6, <1>9 DEF AnswersAgree
  <2> HIDE DEF said, there
  <2> QED BY <1>7, <1>8, <1>9, <2>1
<1>10. CASE "found" \notin said
  <2>1. P.cluster = in.cluster /\ P.pods = in.pods /\ P.infrastructure = in.infrastructure
    BY <1>4, <1>5, <1>6, <1>7, <1>10
  <2>2. primaryNamed(P) = primaryNamed(in)
    BY <1>1, <2>1, ClusterRulesSame
  <2>3. instanceReady(P) = instanceReady(in)
    <3>1. InstancesShort(P) = InstancesShort(in)
      BY <1>1, <2>1, ClusterRulesSame
    <3>2. imagePull(P) = imagePull(in) /\ NoReadyInstance(P) = NoReadyInstance(in)
      BY <1>1, <2>1, OneSourceSame
    <3>3. \A r : evaluateRule(P, Nil, r) = evaluateRule(in, Nil, r)
      BY ConclusionsSame
    <3> QED BY <3>1, <3>2, <3>3 DEF instanceReady, Concluded
  <2>4. writeService(P) = writeService(in)
    <3>1. ClusterPhase(P) = ClusterPhase(in)
      BY <1>1, <2>1, ClusterRulesSame
    <3>2. NoWriteService(P) = NoWriteService(in)
      BY <1>1, <2>1, OneSourceSame
    <3>3. \A r : evaluateRule(P, 1, r) = evaluateRule(in, 1, r)
      BY <2>1, ConclusionsSame
    <3> QED BY <3>1, <3>2, <3>3 DEF writeService, Concluded
  <2>5. there = said
    BY <2>2, <2>3, <2>4
  <2> HIDE DEF said, there
  <2> QED BY <1>7, <1>8, <2>5
<1> QED BY <1>9, <1>10

\* A position that comes first.
LEMMA Least ==
  ASSUME NEW S \in SUBSET Nat, S # {}
  PROVE  \E i \in S : \A j \in S : ~(j < i)
<1>1. PICK x \in S : \A y \in S : <<y, x>> \notin OpToRel(<, Nat)
  BY WFMin, NatLessThanWellFounded
<1>2. \A y \in S : ~(y < x)
  BY <1>1 DEF OpToRel
<1> QED BY <1>2

\* Positions are numbers.
LEMMA PositionsAre == \A S : \A s \in Seq(S) : DOMAIN s \subseteq Nat
OBVIOUS

\* At least one event is quoted.
LEMMA SomeAreQuoted == 0 < maxQuoted
BY DEF maxQuoted

\* An event on a Backup is attributed by the backups, in contact.
LEMMA BackupsLookedUp ==
  ASSUME NEW x, x.events.facts.list \in Seq(Emitted), EventMatch(x, {"Backup"}).because = "",
         Accepted(x.events.facts.list, {"Backup"}) # {}
  PROVE  unread(x.backups) = ""
<1> DEFINE list == x.events.facts.list
           accepted == {i \in DOMAIN list : list[i].reason = "bad" /\ list[i].kind \in {"Backup"}}
           before(i) == {j \in accepted : j < i /\ admitted(x, list[j])}
           quotedBefore(i) == Cardinality(before(i))
           examined == {i \in accepted : quotedBefore(i) < maxQuoted}
           asBackup == \E i \in examined : list[i].kind = "Backup"
           reason == IF asBackup THEN unread(x.backups) ELSE ""
           quoted == {list[i].object : i \in {i \in examined : admitted(x, list[i]) /\ quotedBefore(i) = 0}}
<1>1. EventMatch(x, {"Backup"}) = Unless(unread(x.events), Unless(reason, Matches(quoted)))
  BY Zenon DEF EventMatch
<1>2. PICK i \in accepted : \A j \in accepted : ~(j < i)
  <2>1. accepted \in SUBSET Nat
    <3>1. DOMAIN list \subseteq Nat
      <4>1. list \in Seq(Emitted)
        OBVIOUS
      <4> HIDE DEF list
      <4> QED BY <4>1, PositionsAre, Zenon
    <3> HIDE DEF list
    <3> QED BY <3>1
  <2>2. accepted # {}
    BY DEF Accepted
  <2> HIDE DEF accepted
  <2> QED BY <2>1, <2>2, Least
<1>3. before(i) = {}
  <2> HIDE DEF accepted
  <2> QED BY <1>2
<1>4. quotedBefore(i) < maxQuoted
  <2>1. quotedBefore(i) = 0
    <3> HIDE DEF before
    <3> QED BY <1>3, FS_EmptySet, Zenon
  <2> HIDE DEF quotedBefore
  <2> QED BY <2>1, SomeAreQuoted, Zenon
<1>5. i \in examined /\ list[i].kind = "Backup"
  BY <1>2, <1>4
<1>6. reason = unread(x.backups)
  <2> HIDE DEF examined
  <2> QED BY <1>5
<1> HIDE DEF reason, quoted
<1>7. Unless(reason, Matches(quoted)).because = ""
  BY <1>1, Gate
<1> QED BY <1>6, <1>7, Gate

\* Where no Backup is listed, no event on one is quoted.
LEMMA NoneAdmitted ==
  ASSUME NEW x, x.events.facts.list \in Seq(Emitted), Emptied("backups", x.backups.facts)
  PROVE  EventMatch(x, {"Backup"}).on = {}
<1> DEFINE list == x.events.facts.list
           accepted == {i \in DOMAIN list : list[i].reason = "bad" /\ list[i].kind \in {"Backup"}}
           before(i) == {j \in accepted : j < i /\ admitted(x, list[j])}
           quotedBefore(i) == Cardinality(before(i))
           examined == {i \in accepted : quotedBefore(i) < maxQuoted}
           asBackup == \E i \in examined : list[i].kind = "Backup"
           reason == IF asBackup THEN unread(x.backups) ELSE ""
           quoted == {list[i].object : i \in {i \in examined : admitted(x, list[i]) /\ quotedBefore(i) = 0}}
<1>1. EventMatch(x, {"Backup"}) = Unless(unread(x.events), Unless(reason, Matches(quoted)))
  BY Zenon DEF EventMatch
<1>2. \A i \in accepted : ~admitted(x, list[i])
  <2> SUFFICES ASSUME NEW i \in accepted PROVE ~admitted(x, list[i])
    OBVIOUS
  <2>1. list[i] \in Emitted /\ list[i].kind = "Backup"
    OBVIOUS
  <2>2. list[i].object \in Instances
    BY <2>1, NamesAssumption DEF Emitted
  <2>3. x.backups.facts.backup[list[i].object].phase = ""
    BY <2>2 DEF Emptied
  <2> HIDE DEF list
  <2> QED BY <2>1, <2>3 DEF admitted
<1>3. examined \subseteq accepted
  OBVIOUS
<1>4. quoted = {}
  <2> HIDE DEF examined, accepted
  <2> QED BY <1>2, <1>3
<1>5. \A first, second, S : S = {} => Unless(first, Unless(second, Matches(S))).on = {}
  BY ResultFields DEF Unless
<1> HIDE DEF reason, quoted
<1> QED BY <1>1, <1>4, <1>5

\* The check of the Backups' events finds what there is to find.
LEMMA BackupEventFound ==
  ASSUME TypesInv, check.rule = "BackupEvent", result.because = ""
  PROVE  Finds
<1>1. PICK P : IsPerfect(P, in, truth) /\ Found(in, truth) = Evaluate(check.rule, P).on /\ P.now = in.now
  BY FoundIs
<1>2. result = EventMatch(in, {"Backup"}) /\ Evaluate(check.rule, P) = EventMatch(P, {"Backup"})
  BY DEF result, Evaluate
<1>4. "events" \in (Lists \cap Whole) \cap Read /\ "backups" \in (Lists \cap Whole) \cap Read
  BY IsRead DEF Whole, Watched, Lists
<1>5. unread(in.events) = ""
  BY <1>2, Gate DEF EventMatch
<1>7. CASE in["events"].facts # truth.facts["events"]
  <2>1. Emptied("events", in["events"].facts) /\ CutShort
    BY <1>4, <1>5, <1>7, EmptiedIs
  <2>2. in.events.facts.list = <<>>
    BY <2>1 DEF Emptied
  <2>3. result.on = {}
    BY <1>2, <2>2, NoEventsFindNothing
  <2> QED BY <2>1, <2>3 DEF Finds
<1>8. CASE in["events"].facts = truth.facts["events"]
  <2>1. P["events"] = in["events"]
    BY <1>1, <1>4, <1>5, <1>8, SameFacts
  <2>2. in["events"].facts.list \in Seq(Emitted)
    <3>1. "events" \in Watched \cap Read
      BY <1>4 DEF Whole
    <3>2. NamesInstances("events", truth.facts["events"])
      BY <1>5, <3>1, ContactIs
    <3> QED BY <1>8, <3>2 DEF NamesInstances
  <2>3. CASE Accepted(in.events.facts.list, {"Backup"}) = {}
    <3>1. EventMatch(in, {"Backup"}) = Unless(unread(in.events), Matches({}))
      BY <2>3, NoneAccepted
    <3>2. EventMatch(P, {"Backup"}) = Unless(unread(P.events), Matches({}))
      BY <2>1, <2>3, NoneAccepted
    <3> QED BY <1>1, <1>2, <2>1, <3>1, <3>2 DEF Finds
  <2>4. CASE Accepted(in.events.facts.list, {"Backup"}) # {}
    <3>1. EventMatch(in, {"Backup"}).because = ""
      BY <1>2
    <3>2. unread(in["backups"]) = ""
      BY <2>2, <2>4, <3>1, BackupsLookedUp
    <3>3. CASE in["backups"].facts = truth.facts["backups"]
      <4>1. P["backups"] = in["backups"]
        BY <1>1, <1>4, <3>2, <3>3, SameFacts
      <4>2. EventMatch(P, {"Backup"}) = EventMatch(in, {"Backup"})
        BY <2>1, <4>1, EventRulesSame
      <4> QED BY <1>1, <1>2, <4>2 DEF Finds
    <3>4. CASE in["backups"].facts # truth.facts["backups"]
      <4>1. Emptied("backups", in["backups"].facts) /\ CutShort
        BY <1>4, <3>2, <3>4, EmptiedIs
      <4>2. result.on = {}
        BY <1>2, <2>2, <4>1, NoneAdmitted
      <4> QED BY <4>1, <4>2 DEF Finds
    <3> QED BY <3>3, <3>4
  <2> QED BY <2>3, <2>4
<1> QED BY <1>7, <1>8

\* The logs' silence: every stream is open, and a line that matched was written while none was.
LEMMA LogsFound ==
  ASSUME TypesInv, check.rule = "logMatches", result = Clear
  PROVE  Found(in, truth) \subseteq Overlooked
<1>1. PICK P : IsPerfect(P, in, truth) /\ Found(in, truth) = Evaluate(check.rule, P).on /\ P.now = in.now
  BY FoundIs
<1>2. result = logMatches(in) /\ Evaluate(check.rule, P) = logMatches(P)
  BY DEF result, Evaluate
<1>3. "logs" \in Read
  BY IsRead
<1>4. P["logs"] = [on |-> TRUE, observed |-> in.logs.observed \cup truth.unheard, unread |-> {}]
  BY <1>1, <1>3 DEF IsPerfect
<1> DEFINE said(x) == IF x.logs.observed # {} THEN Matches(x.logs.observed) ELSE Unless(logsIncomplete(x), Clear)
<1>5. \A x : logMatches(x) = Unless(offUnless(x.logs.on), said(x))
  BY DEF logMatches
<1>6. Clear.because = "" /\ Clear.on = {}
  BY ResultFields
<1>7. offUnless(in.logs.on) = "" /\ said(in) = Clear
  <2> HIDE DEF said
  <2> QED BY <1>2, <1>5, <1>6, Gate
<1>8. in.logs.on = TRUE
  BY <1>3, <1>7, SwitchedOn DEF TypesInv, LogsInv
<1>9. in.logs.observed = {} /\ logsIncomplete(in) = ""
  <2>1. in.logs.observed = {}
    BY <1>7, ResultFields
  <2>2. Unless(logsIncomplete(in), Clear).because = ""
    BY <1>6, <1>7, <2>1
  <2> QED BY <2>1, <2>2, Gate
<1>10. in.logs.unread = {}
  <2> DEFINE hole == IF in.logs.unread = {} THEN "" ELSE "unread"
  <2>1. Or(unread(in.pods), hole) = ""
    BY <1>9 DEF logsIncomplete
  <2> HIDE DEF hole
  <2>2. hole = ""
    BY <2>1, OrIs
  <2> QED BY <2>2 DEF hole
<1>11. NeverHeard = truth.unheard
  BY <1>3, <1>10 DEF NeverHeard
<1>12. P.logs.on = TRUE /\ P.logs.observed = truth.unheard
  <2>1. P.logs.on = TRUE /\ P.logs.observed = in.logs.observed \cup truth.unheard
    BY <1>4
  <2> QED BY <1>9, <2>1
<1>13. logMatches(P).on \subseteq truth.unheard
  <2>1. logMatches(P) = said(P)
    <3> HIDE DEF said
    <3> QED BY <1>5, <1>12 DEF Unless, offUnless
  <2>2. CASE P.logs.observed # {}
    <3>1. said(P) = Matches(P.logs.observed)
      BY <2>2
    <3> HIDE DEF said
    <3>2. logMatches(P) = Matches(truth.unheard)
      BY <1>12, <2>1, <3>1
    <3> QED BY <3>2, ResultFields
  <2>3. CASE P.logs.observed = {}
    <3>1. said(P) = Unless(logsIncomplete(P), Clear)
      BY <2>3
    <3>2. Unless(logsIncomplete(P), Clear).on = {}
      BY <1>6, ResultFields DEF Unless
    <3> HIDE DEF said
    <3> QED BY <2>1, <3>1, <3>2
  <2> QED BY <2>2, <2>3
<1> QED BY <1>1, <1>2, <1>11, <1>13 DEF Overlooked

\* An object's records of the span, of those there are.
Recorded(entries, n) == {e \in entries : e.name = n /\ e.at >= in.now - Span}

\* More records, more changes and more incarnations.
LEMMA RecordsGrow ==
  ASSUME NEW held, NEW real, held \subseteq real, IsFiniteSet(real), NEW n
  PROVE  /\ Cardinality(Recorded(held, n)) >= 2 => Cardinality(Recorded(real, n)) >= 2
         /\ Cardinality({e.uid : e \in Recorded(held, n)}) >= 2 =>
                Cardinality({e.uid : e \in Recorded(real, n)}) >= 2
<1>1. IsFiniteSet(Recorded(real, n)) /\ Recorded(held, n) \subseteq Recorded(real, n)
  <2>1. Recorded(real, n) \subseteq real /\ Recorded(held, n) \subseteq Recorded(real, n)
    BY DEF Recorded
  <2> QED BY <2>1, FS_Subset
<1>2. IsFiniteSet({e.uid : e \in Recorded(real, n)})
  <2> DEFINE uidOf == [e \in Recorded(real, n) |-> e.uid]
             range == {uidOf[e] : e \in Recorded(real, n)}
  <2>1. uidOf \in Surjection(Recorded(real, n), range)
    BY DEF Surjection
  <2>2. range = {e.uid : e \in Recorded(real, n)}
    OBVIOUS
  <2> HIDE DEF uidOf, range
  <2> QED BY <1>1, <2>1, <2>2, FS_Surjection
<1>3. {e.uid : e \in Recorded(held, n)} \subseteq {e.uid : e \in Recorded(real, n)}
  BY <1>1
<1>4. ASSUME NEW S, NEW T, S \subseteq T, IsFiniteSet(T), Cardinality(S) >= 2 PROVE Cardinality(T) >= 2
  <2>1. /\ Cardinality(S) <= Cardinality(T) /\ IsFiniteSet(S)
    BY <1>4, FS_Subset
  <2>2. Cardinality(S) \in Nat /\ Cardinality(T) \in Nat
    BY <1>4, <2>1, FS_CardinalityType
  <2> QED BY <1>4, <2>1, <2>2
<1>5. Cardinality(Recorded(held, n)) >= 2 => Cardinality(Recorded(real, n)) >= 2
  BY <1>1, <1>4
<1>6. Cardinality({e.uid : e \in Recorded(held, n)}) >= 2 => Cardinality({e.uid : e \in Recorded(real, n)}) >= 2
  BY <1>2, <1>3, <1>4
<1> QED BY <1>5, <1>6

\* The timeline matches on what was recorded, and is clear but for what it misses.
LEMMA HistoryFound ==
  ASSUME TypesInv, check.rule \in HistoryRules
  PROVE  result.on \subseteq Found(in, truth) /\ (result = Clear => Found(in, truth) \subseteq Overlooked)
<1>1. PICK P : IsPerfect(P, in, truth) /\ Found(in, truth) = Evaluate(check.rule, P).on /\ P.now = in.now
  BY FoundIs
<1>2. "history" \in Read
  BY IsRead
<1>3. P.history = [on |-> TRUE, entries |-> truth.records]
  BY <1>1, <1>2 DEF IsPerfect
<1>4. P.history.on = TRUE /\ P.history.entries = truth.records /\ in.history.on = TRUE
      /\ in.history.entries \subseteq truth.records /\ IsFiniteSet(truth.records)
  BY <1>2, <1>3 DEF TypesInv, HistoryInv
<1> DEFINE several(R) == IF check.rule = "HistoryChanges" THEN Cardinality(R) >= 2
                         ELSE Cardinality({e.uid : e \in R}) >= 2
           those(entries) == {n \in Instances : several(Recorded(entries, n))}
<1>5. \A x : x.now = in.now /\ x.history.on = TRUE =>
           Evaluate(check.rule, x) = Matches(those(x.history.entries))
  <2> SUFFICES ASSUME NEW x, x.now = in.now, x.history.on = TRUE
               PROVE  Evaluate(check.rule, x) = Matches(those(x.history.entries))
    OBVIOUS
  <2>1. \A n : windowed(x, n) = Recorded(x.history.entries, n)
    BY DEF windowed, Recorded
  <2>2. \A r : Unless(offUnless(x.history.on), r) = r
    BY DEF Unless, offUnless
  <2>3. CASE check.rule = "HistoryChanges"
    <3>1. Evaluate(check.rule, x) = HistoryChanges(x)
      BY <2>3 DEF Evaluate
    <3>2. {n \in Instances : Cardinality(windowed(x, n)) >= 2} = those(x.history.entries)
      BY <2>1, <2>3
    <3> HIDE DEF those
    <3> QED BY <2>2, <3>1, <3>2 DEF HistoryChanges
  <2>4. CASE check.rule = "HistoryIncarnations"
    <3>1. Evaluate(check.rule, x) = HistoryIncarnations(x)
      BY <2>4 DEF Evaluate
    <3>2. {n \in Instances : Cardinality({e.uid : e \in windowed(x, n)}) >= 2} = those(x.history.entries)
      BY <2>1, <2>4
    <3> HIDE DEF those
    <3> QED BY <2>2, <3>1, <3>2 DEF HistoryIncarnations
  <2> QED BY <2>3, <2>4 DEF HistoryRules
<1>6. those(in.history.entries) \subseteq those(truth.records)
  BY <1>4, RecordsGrow
<1>7. those(truth.records) \subseteq those(in.history.entries) \cup Unrecorded
  <2> SUFFICES ASSUME NEW n \in those(truth.records), n \notin those(in.history.entries) PROVE n \in Unrecorded
    OBVIOUS
  <2>1. Recorded(in.history.entries, n) # Recorded(truth.records, n)
    OBVIOUS
  <2>2. PICK e \in truth.records \ in.history.entries : e.name = n /\ e.at >= in.now - Span
    BY <1>4, <2>1 DEF Recorded
  <2> DEFINE missed == {x \in truth.records \ in.history.entries : x.at >= in.now - Span}
  <2>3. e \in missed
    BY <2>2
  <2>4. Unrecorded = {x.name : x \in missed}
    BY <1>2 DEF Unrecorded
  <2> HIDE DEF missed
  <2> QED BY <2>2, <2>3, <2>4
<1> HIDE DEF those
<1>8. Found(in, truth) = those(truth.records)
  <2>1. Evaluate(check.rule, P) = Matches(those(truth.records))
    BY <1>1, <1>4, <1>5
  <2>2. \A S : Matches(S).on = S
    BY ResultFields
  <2> QED BY <1>1, <2>1, <2>2
<1>9. result = Matches(those(in.history.entries))
  BY <1>4, <1>5 DEF result
<1> QED BY <1>6, <1>7, <1>8, <1>9, ResultFields DEF Overlooked, Clear

-----------------------------------------------------------------------------
(* What the sweeps' readings say, as recently as they are judged.           *)

\* A judgement names whom it matched, and is clear when none was refused.
LEMMA JudgedIs ==
  ASSUME NEW S, NEW T
  PROVE  Judged(S, T).on = S /\ (Judged(S, T) = Clear => S = {} /\ T = {})
<1>1. CASE S = {} /\ T # {}
  <2>1. Judged(S, T) = Unavailable("refused")
    BY <1>1 DEF Judged
  <2>2. Unavailable("refused").on = {} /\ Unavailable("refused").because = "refused" /\ Clear.because = ""
    BY ResultFields
  <2> QED BY <1>1, <2>1, <2>2
<1>2. CASE ~(S = {} /\ T # {})
  <2>1. Judged(S, T) = Matches(S)
    BY <1>2 DEF Judged
  <2> QED BY <1>2, <2>1, ResultFields
<1> QED BY <1>1, <1>2

\* What is swept is judged within the horizon, or the span of its series.
LEMMA SlackIs ==
  ASSUME TypesInv, Swept \cap Read # {}
  PROVE  /\ Slack \in Int /\ Horizon \in Int /\ Span \in Int
         /\ Horizon <= Slack /\ (check.rule \in Sustained => Span <= Slack)
BY TimesAssumption DEF Slack

\* What a sweep last brought of each instance.
Refused(store) == {n \in DOMAIN store : ~current(in, store[n])}
Ailing(store) == {n \in DOMAIN store \ Refused(store) : Ails(store[n])}

\* A reading that is not refused tells of the instance lately.
LEMMA ReadingsSpeak ==
  ASSUME TypesInv, Witnessed, Swept \cap Read # {}, NEW store, DOMAIN store \subseteq Instances,
         \A n \in DOMAIN store : store[n].at \in Int /\ Told(check.rule, store[n], ill[n], calm[n])
  PROVE  \A n \in DOMAIN store \ Refused(store) :
             IF Ails(store[n]) THEN in.now - ill[n] <= Slack ELSE in.now - calm[n] <= Slack
<1> SUFFICES ASSUME NEW n \in DOMAIN store \ Refused(store)
             PROVE  IF Ails(store[n]) THEN in.now - ill[n] <= Slack ELSE in.now - calm[n] <= Slack
  OBVIOUS
<1>1. in.now \in Int /\ ill[n] \in Int /\ calm[n] \in Int
  BY DEF TypesInv, HInv, HeldTypes, Witnessed, Subjects
<1>2. store[n].at \in Int /\ in.now - store[n].at <= Horizon
  BY DEF Refused, current
<1>3. IF Ails(store[n]) THEN ill[n] >= store[n].at ELSE calm[n] >= store[n].at
  BY DEF Told, Ails
<1>4. Slack \in Int /\ Horizon \in Int /\ Horizon <= Slack
  BY SlackIs
<1> QED BY <1>1, <1>2, <1>3, <1>4

\* The readings of one sweep, judged one by one.
LEMMA ReadingsJudged ==
  ASSUME TypesInv, Witnessed, Swept \cap Read # {}, NEW store, DOMAIN store \subseteq Instances,
         \A n \in DOMAIN store : store[n].at \in Int /\ Told(check.rule, store[n], ill[n], calm[n])
  PROVE  /\ \A n \in Ailing(store) : n \in Instances /\ in.now - ill[n] <= Slack
         /\ Ailing(store) = {} /\ Refused(store) = {} => \A n \in DOMAIN store : in.now - calm[n] <= Slack
<1>1. \A n \in DOMAIN store \ Refused(store) :
         IF Ails(store[n]) THEN in.now - ill[n] <= Slack ELSE in.now - calm[n] <= Slack
  BY ReadingsSpeak
<1> QED BY <1>1 DEF Ailing

\* Everyone was calm lately but those the check overlooks, and everyone it names was ill lately.
CalmLately == \A s \in Subjects \ Overlooked : in.now - calm[s] <= Slack
IllLately == \A s \in result.on : s \in Subjects /\ in.now - ill[s] <= Slack

\* Calm is asked only of those a console that sees everything would name.
LEMMA KnownCalm ==
  ASSUME TypesInv, Witnessed, \A s \in Found(in, truth) \ Overlooked : in.now - calm[s] <= Slack
  PROVE  CalmLately
BY NowIsRecent DEF CalmLately

\* The exporters' rules judge each reading that is not refused.
LEMMA InstantIs ==
  ASSUME check.rule \in ByMetrics \ {"SeriesAbove"}
  PROVE  result = Unless(offUnless(in.metrics.on), Judged(Ailing(in.metrics.readings), Refused(in.metrics.readings)))
<1> DEFINE store == in.metrics.readings
           refused == {n \in DOMAIN store : ~current(in, store[n])}
<1>1. refused = Refused(store)
  BY DEF Refused
<1>2. CASE check.rule = "InstantNonZero"
  <2>1. result = Instant(in, 1)
    BY <1>2 DEF result, Evaluate
  <2>2. Ailing(store) = {n \in DOMAIN store \ refused : store[n].value = 1}
    BY <1>1, <1>2 DEF Ailing, Ails, AilsOf
  <2>3. Instant(in, 1) = Unless(offUnless(in.metrics.on),
            Judged({n \in DOMAIN store \ refused : store[n].value = 1}, refused))
    BY Zenon DEF Instant
  <2> HIDE DEF refused
  <2> QED BY <1>1, <2>1, <2>2, <2>3
<1>3. CASE check.rule = "InstantZero"
  <2>1. result = Instant(in, 0)
    BY <1>3 DEF result, Evaluate
  <2>2. Ailing(store) = {n \in DOMAIN store \ refused : store[n].value = 0}
    BY <1>1, <1>3 DEF Ailing, Ails, AilsOf
  <2>3. Instant(in, 0) = Unless(offUnless(in.metrics.on),
            Judged({n \in DOMAIN store \ refused : store[n].value = 0}, refused))
    BY Zenon DEF Instant
  <2> HIDE DEF refused
  <2> QED BY <1>1, <2>1, <2>2, <2>3
<1>4. CASE check.rule = "InstantShortfall"
  <2>1. result = InstantShortfall(in)
    BY <1>4 DEF result, Evaluate
  <2>2. Ailing(store) = {n \in DOMAIN store \ refused :
                            store[n].expected > 0 /\ store[n].value < store[n].expected}
    BY <1>1, <1>4 DEF Ailing, Ails, AilsOf
  <2>3. InstantShortfall(in) = Unless(offUnless(in.metrics.on),
            Judged({n \in DOMAIN store \ refused :
                       store[n].expected > 0 /\ store[n].value < store[n].expected}, refused))
    BY Zenon DEF InstantShortfall
  <2> HIDE DEF refused
  <2> QED BY <1>1, <2>1, <2>2, <2>3
<1> QED BY <1>2, <1>3, <1>4 DEF ByMetrics

\* The exporters' rules: a clear and a match are as recent as the readings.
LEMMA InstantsLately ==
  ASSUME GhostInv, check.rule \in ByMetrics \ {"SeriesAbove"}
  PROVE  (result = Clear => CalmLately) /\ (result.because = "" => IllLately)
<1> DEFINE store == in.metrics.readings
<1>1. TypesInv /\ Witnessed /\ HeldTypes /\ ReadingsTold
  BY DEF GhostInv, TypesInv, HInv
<1>2. Read = {"metrics"} /\ Swept \cap Read # {} /\ "metrics" \in Read
  BY <1>1, ReadIs DEF Swept
<1>3. /\ DOMAIN store \subseteq Instances /\ in.metrics.on \in BOOLEAN
      /\ \A n \in DOMAIN store : store[n].at \in Int /\ Told(check.rule, store[n], ill[n], calm[n])
  BY <1>1, <1>2 DEF TypesInv, MetricsInv, ReadingsTold, Readings
<1> HIDE DEF store
<1>4. /\ \A n \in Ailing(store) : n \in Instances /\ in.now - ill[n] <= Slack
      /\ Ailing(store) = {} /\ Refused(store) = {} => \A n \in DOMAIN store : in.now - calm[n] <= Slack
  BY <1>1, <1>2, <1>3, ReadingsJudged
<1>5. result = Unless(offUnless(in.metrics.on), Judged(Ailing(store), Refused(store)))
  BY InstantIs DEF store
<1>6. ASSUME result.because = ""
      PROVE  in.metrics.on = TRUE /\ result = Judged(Ailing(store), Refused(store))
  BY <1>3, <1>5, <1>6, Gate, SwitchedOn
<1>7. ASSUME result.because = "" PROVE IllLately
  <2>1. Judged(Ailing(store), Refused(store)).on = Ailing(store)
    BY JudgedIs
  <2>2. result.on = Ailing(store)
    BY <1>6, <1>7, <2>1, Zenon
  <2> QED BY <1>4, <2>2 DEF IllLately, Subjects
<1>8. ASSUME result = Clear PROVE CalmLately
  <2>1. result.because = ""
    BY <1>8, ResultFields
  <2>2. Ailing(store) = {} /\ Refused(store) = {}
    BY <1>6, <1>8, <2>1, JudgedIs
  <2>3. Instances \ Overlooked \subseteq DOMAIN store
    BY <1>2 DEF store, Overlooked, NeverAnswered
  <2>4. Found(in, truth) \ Overlooked \subseteq DOMAIN store
    <3>1. in.now \in Int /\ truth.instances \in [Instances -> States]
      BY <1>1 DEF TypesInv, HInv, HeldTypes, InstancesInv
    <3>2. Found(in, truth) = {n \in Instances : Ails(truth.instances[n])}
      BY <1>1, <3>1, FoundByMetrics
    <3> QED BY <2>3, <3>2
  <2>5. \A s \in Found(in, truth) \ Overlooked : in.now - calm[s] <= Slack
    BY <1>4, <2>2, <2>4
  <2> QED BY <1>1, <2>5, KnownCalm
<1> QED BY <1>7, <1>8

\* The reports that are fresh, and those the check judges.
LEMMA FreshIs ==
  /\ DOMAIN freshReports(in) = DOMAIN in.status.readings \ Refused(in.status.readings)
  /\ \A n \in DOMAIN freshReports(in) : freshReports(in)[n] = in.status.readings[n]
<1> DEFINE store == in.status.readings
           kept == {n \in DOMAIN store : current(in, store[n])}
<1>1. freshReports(in) = [n \in kept |-> store[n]]
  BY DEF freshReports
<1>2. kept = DOMAIN store \ Refused(store)
  BY DEF Refused
<1> HIDE DEF kept
<1> QED BY <1>1, <1>2

\* The managers' rules judge each report that is fresh.
LEMMA ReportsAre ==
  ASSUME check.rule \in ByStatus
  PROVE  result = OnReports(in, Ailing(in.status.readings))
<1> DEFINE store == in.status.readings
           fresh == freshReports(in)
<1>1. DOMAIN fresh = DOMAIN store \ Refused(store) /\ \A n \in DOMAIN fresh : fresh[n] = store[n]
  BY FreshIs
<1> HIDE DEF fresh, store
<1>2. CASE check.rule = "InstanceFlagSet"
  <2>1. result = OnReports(in, flagged(fresh))
    BY <1>2 DEF result, Evaluate, InstanceFlagSet, fresh
  <2>2. flagged(fresh) = Ailing(store)
    BY <1>1, <1>2 DEF flagged, Ailing, Ails, AilsOf
  <2> QED BY <2>1, <2>2 DEF store
<1>3. CASE check.rule = "ReplicaFlagSet"
  <2>1. result = OnReports(in, flaggedReplica(fresh))
    BY <1>3 DEF result, Evaluate, ReplicaFlagSet, fresh
  <2>2. flaggedReplica(fresh) = Ailing(store)
    BY <1>1, <1>3 DEF flaggedReplica, Ailing, Ails, AilsOf
  <2> QED BY <2>1, <2>2 DEF store
<1>4. CASE check.rule = "InstanceArchiveFailing"
  <2>1. result = OnReports(in, archiveFailing(fresh))
    BY <1>4 DEF result, Evaluate, InstanceArchiveFailing, fresh
  <2>2. archiveFailing(fresh) = Ailing(store)
    BY <1>1, <1>4 DEF archiveFailing, Ailing, Ails, AilsOf
  <2> QED BY <2>1, <2>2 DEF store
<1> QED BY <1>2, <1>3, <1>4 DEF ByStatus

\* What the sweep of the managers makes of them.
LEMMA ReportsJudged ==
  ASSUME TypesInv, "status" \in Read, NEW S, OnReports(in, S).because = ""
  PROVE  /\ in.status.on = TRUE /\ OnReports(in, S).on = S
         /\ OnReports(in, S) = Clear =>
                S = {} /\ Refused(in.status.readings) = {} /\ Instances \subseteq DOMAIN in.status.readings
<1> DEFINE silent == (DOMAIN in.status.readings \cup in.status.failing) \ DOMAIN freshReports(in)
           said == IF ~in.status.swept THEN Unavailable("not swept yet") ELSE Judged(S, silent)
<1>1. OnReports(in, S) = Unless(offUnless(in.status.on), said)
  BY DEF OnReports
<1>2. in.status.on \in BOOLEAN
  BY DEF TypesInv, StatusInv
<1>3. Refused(in.status.readings) \subseteq silent
  BY FreshIs DEF Refused
<1>s. in.status.swept /\ silent = {} => Instances \subseteq DOMAIN in.status.readings
  <2>1. in.status.swept => Instances = DOMAIN in.status.readings \cup in.status.failing
    BY DEF TypesInv, StatusInv
  <2>2. DOMAIN freshReports(in) \subseteq DOMAIN in.status.readings
    BY FreshIs
  <2> QED BY <2>1, <2>2
<1>4. said.because = "" => said = Judged(S, silent) /\ in.status.swept
  <2>1. Unavailable("not swept yet").because = "not swept yet"
    BY ResultFields
  <2> HIDE DEF silent
  <2>2. in.status.swept => said = Judged(S, silent)
    OBVIOUS
  <2>3. ~in.status.swept => said = Unavailable("not swept yet")
    OBVIOUS
  <2> HIDE DEF said
  <2> QED BY <2>1, <2>2, <2>3
<1> HIDE DEF said, silent
<1>5. in.status.on = TRUE /\ OnReports(in, S) = said
  BY <1>1, <1>2, Gate, SwitchedOn
<1>6. said = Judged(S, silent) /\ in.status.swept
  BY <1>4, <1>5
<1>7. Judged(S, silent).on = S /\ (Judged(S, silent) = Clear => S = {} /\ silent = {})
  BY JudgedIs
<1> QED BY <1>s, <1>3, <1>5, <1>6, <1>7

\* The managers' rules: a clear and a match are as recent as the reports.
LEMMA ReportsLately ==
  ASSUME GhostInv, check.rule \in ByStatus
  PROVE  (result = Clear => CalmLately) /\ (result.because = "" => IllLately)
<1> DEFINE store == in.status.readings
<1>1. TypesInv /\ Witnessed /\ HeldTypes /\ ReadingsTold
  BY DEF GhostInv, TypesInv, HInv
<1>2. Read = {"status"} /\ Swept \cap Read # {} /\ "status" \in Read
  BY <1>1, ReadIs DEF Swept
<1>3. /\ DOMAIN store \subseteq Instances
      /\ \A n \in DOMAIN store : store[n].at \in Int /\ Told(check.rule, store[n], ill[n], calm[n])
  BY <1>1, <1>2 DEF TypesInv, StatusInv, ReadingsTold, Readings
<1> HIDE DEF store
<1>4. /\ \A n \in Ailing(store) : n \in Instances /\ in.now - ill[n] <= Slack
      /\ Ailing(store) = {} /\ Refused(store) = {} => \A n \in DOMAIN store : in.now - calm[n] <= Slack
  BY <1>1, <1>2, <1>3, ReadingsJudged
<1>5. result = OnReports(in, Ailing(store))
  BY ReportsAre DEF store
<1>6. ASSUME result.because = ""
      PROVE  /\ in.status.on = TRUE /\ result.on = Ailing(store)
             /\ result = Clear => Ailing(store) = {} /\ Refused(store) = {} /\ Instances \subseteq DOMAIN store
  BY <1>1, <1>2, <1>5, <1>6, ReportsJudged DEF store
<1>7. ASSUME result.because = "" PROVE IllLately
  BY <1>4, <1>6, <1>7 DEF IllLately, Subjects
<1>8. ASSUME result = Clear PROVE CalmLately
  <2>1. result.because = ""
    BY <1>8, ResultFields
  <2>2. Ailing(store) = {} /\ Refused(store) = {}
    BY <1>6, <1>8, <2>1
  <2>3. Instances \subseteq DOMAIN store
    BY <1>6, <1>8, <2>1
  <2>4. Found(in, truth) \subseteq DOMAIN store
    <3>1. in.now \in Int /\ truth.instances \in [Instances -> States]
      BY <1>1 DEF TypesInv, HInv, HeldTypes, InstancesInv
    <3>2. Found(in, truth) = {n \in Instances : Ails(truth.instances[n])}
      BY <1>1, <3>1, FoundByStatus
    <3> QED BY <2>3, <3>2
  <2>5. \A s \in Found(in, truth) : in.now - calm[s] <= Slack
    BY <1>4, <2>2, <2>4
  <2> QED BY <1>1, <2>5, KnownCalm
<1> QED BY <1>7, <1>8

\* A series that breached, and one that did not.
Latest(n) == in.metrics.samples[n][Len(in.metrics.samples[n])]
Below(n) ==
    \/ current(in, Latest(n)) /\ Latest(n).value # 1
    \/ \E i \in DOMAIN in.metrics.samples[n] :
          in.metrics.samples[n][i].at >= in.now - Span /\ in.metrics.samples[n][i].value # 1

\* Nothing matched and nothing refused is clear.
LEMMA JudgedNothing ==
  ASSUME NEW S, NEW T, Judged(S, T).because = "", S = {}
  PROVE  Judged(S, T) = Clear
<1>1. Unavailable("refused").because = "refused"
  BY ResultFields
<1>2. T = {}
  BY <1>1 DEF Judged
<1> QED BY <1>2 DEF Judged, Clear

\* A series matched on its latest sample; a clear one was below within the span.
LEMMA SeriesIs ==
  ASSUME in.metrics.on \in BOOLEAN, SeriesAbove(in).because = ""
  PROVE  /\ in.metrics.on = TRUE
         /\ \A n \in SeriesAbove(in).on :
               n \in DOMAIN in.metrics.samples /\ current(in, Latest(n)) /\ Latest(n).value = 1
         /\ SeriesAbove(in) = Clear => \A n \in DOMAIN in.metrics.samples : Below(n)
         /\ SeriesAbove(in).on = {} => SeriesAbove(in) = Clear
<1> DEFINE samples == in.metrics.samples
           last(n) == samples[n][Len(samples[n])]
           refused == {n \in DOMAIN samples : ~current(in, last(n))}
           over == {n \in DOMAIN samples \ refused : last(n).value = 1}
           trailing(n) == {i \in DOMAIN samples[n] : samples[n][i].at >= in.now - Span}
           unjudged == {n \in over : Cardinality(trailing(n)) < 2}
           breached == {n \in over \ unjudged : \A i \in trailing(n) : samples[n][i].value = 1}
           said == Judged(breached, refused \cup unjudged)
<1>1. SeriesAbove(in) = Unless(offUnless(in.metrics.on), said)
  BY Zenon DEF SeriesAbove
<1>2. \A n : last(n) = Latest(n)
  BY DEF Latest
<1>3. \A n \in breached : n \in DOMAIN samples /\ current(in, Latest(n)) /\ Latest(n).value = 1
  BY <1>2
<1>4. ASSUME breached = {}, refused \cup unjudged = {}, NEW n \in DOMAIN samples PROVE Below(n)
  <2>1. n \notin refused /\ n \notin unjudged /\ n \notin breached
    BY <1>4
  <2>2. current(in, Latest(n))
    BY <1>2, <2>1
  <2>3. CASE n \notin over
    <3>1. last(n).value # 1
      BY <2>1, <2>3
    <3> QED BY <1>2, <2>2, <3>1 DEF Below
  <2>4. CASE n \in over
    <3>1. \E i \in trailing(n) : samples[n][i].value # 1
      BY <2>1, <2>4
    <3> QED BY <3>1 DEF Below
  <2> QED BY <2>3, <2>4
<1> HIDE DEF said
<1>5. in.metrics.on = TRUE /\ SeriesAbove(in) = said
  BY <1>1, Gate, SwitchedOn
<1> HIDE DEF breached, refused, unjudged
<1>6. Judged(breached, refused \cup unjudged).on = breached
      /\ (Judged(breached, refused \cup unjudged) = Clear => breached = {} /\ refused \cup unjudged = {})
  BY JudgedIs
<1>7. said.on = breached /\ (said = Clear => breached = {} /\ refused \cup unjudged = {})
  BY <1>6, Zenon DEF said
<1>8. said.because = "" /\ breached = {} => said = Clear
  <2>1. Judged(breached, refused \cup unjudged).because = "" /\ breached = {}
           => Judged(breached, refused \cup unjudged) = Clear
    BY JudgedNothing
  <2> QED BY <2>1, Zenon DEF said
<1> QED BY <1>3, <1>4, <1>5, <1>7, <1>8

\* What the kept samples are.
LEMMA LatestIs ==
  ASSUME TypesInv, "metrics" \in Read, check.rule \in Sustained, NEW n \in DOMAIN in.metrics.samples
  PROVE  /\ n \in Instances /\ DOMAIN in.metrics.samples = DOMAIN in.metrics.readings
         /\ \A i \in DOMAIN in.metrics.samples[n] : in.metrics.samples[n][i].at \in Int
         /\ Len(in.metrics.samples[n]) \in DOMAIN in.metrics.samples[n]
<1>1. /\ DOMAIN in.metrics.samples = DOMAIN in.metrics.readings /\ DOMAIN in.metrics.readings \subseteq Instances
      /\ in.metrics.samples[n] \in Seq(Readings) /\ Len(in.metrics.samples[n]) >= 1
  BY DEF TypesInv, MetricsInv
<1> DEFINE s == in.metrics.samples[n]
<1>2. Len(s) \in DOMAIN s /\ \A i \in DOMAIN s : s[i] \in Readings
  BY <1>1
<1> HIDE DEF s
<1>3. \A i \in DOMAIN s : s[i].at \in Int
  BY <1>2 DEF Readings
<1> QED BY <1>1, <1>2, <1>3 DEF s

\* A series: a clear is as recent as its span, a match as its latest sample.
LEMMA SeriesLately ==
  ASSUME GhostInv, check.rule = "SeriesAbove"
  PROVE  (result = Clear => CalmLately) /\ (result.because = "" => IllLately)
<1>1. TypesInv /\ Witnessed /\ HeldTypes /\ SamplesTold /\ check.rule \in Sustained /\ check.rule \in ByMetrics
  BY DEF GhostInv, TypesInv, HInv, Sustained, ByMetrics
<1>2. Read = {"metrics"} /\ Swept \cap Read # {} /\ "metrics" \in Read
  BY <1>1, ReadIs DEF Swept
<1>3. in.metrics.on \in BOOLEAN /\ in.now \in Int
  BY <1>1, <1>2 DEF TypesInv, MetricsInv, HInv, HeldTypes
<1>4. result = SeriesAbove(in)
  BY DEF result, Evaluate
<1>5. Slack \in Int /\ Horizon \in Int /\ Span \in Int /\ Horizon <= Slack /\ Span <= Slack
  BY <1>1, <1>2, SlackIs
<1>6. \A n \in Instances : ill[n] \in Int /\ calm[n] \in Int
  BY <1>1 DEF Witnessed, Subjects
<1>7. \A n \in DOMAIN in.metrics.samples : \A i \in DOMAIN in.metrics.samples[n] :
         IF in.metrics.samples[n][i].value = 1 THEN ill[n] >= in.metrics.samples[n][i].at
                                               ELSE calm[n] >= in.metrics.samples[n][i].at
  BY <1>1 DEF SamplesTold, Told, AilsOf
<1>8. \A n \in DOMAIN in.metrics.samples :
         /\ n \in Instances /\ DOMAIN in.metrics.samples = DOMAIN in.metrics.readings
         /\ \A i \in DOMAIN in.metrics.samples[n] : in.metrics.samples[n][i].at \in Int
         /\ Len(in.metrics.samples[n]) \in DOMAIN in.metrics.samples[n]
  BY <1>1, <1>2, LatestIs
<1>9. ASSUME NEW n \in DOMAIN in.metrics.samples, current(in, Latest(n))
      PROVE  IF Latest(n).value = 1 THEN in.now - ill[n] <= Slack ELSE in.now - calm[n] <= Slack
  <2>1. IF Latest(n).value = 1 THEN ill[n] >= Latest(n).at ELSE calm[n] >= Latest(n).at
    BY <1>7, <1>8 DEF Latest
  <2>2. Latest(n).at \in Int /\ n \in Instances
    BY <1>8 DEF Latest
  <2>3. in.now - Latest(n).at <= Horizon
    BY <1>9 DEF current
  <2> QED BY <1>3, <1>5, <1>6, <2>1, <2>2, <2>3
<1>10. ASSUME result.because = "" PROVE IllLately
  <2>1. \A n \in result.on : n \in DOMAIN in.metrics.samples /\ current(in, Latest(n)) /\ Latest(n).value = 1
    BY <1>3, <1>4, <1>10, SeriesIs
  <2> QED BY <1>8, <1>9, <2>1 DEF IllLately, Subjects
<1>11. ASSUME result = Clear PROVE CalmLately
  <2>1. result.because = ""
    BY <1>11, ResultFields
  <2>2. in.metrics.on = TRUE /\ \A n \in DOMAIN in.metrics.samples : Below(n)
    BY <1>3, <1>4, <1>11, <2>1, SeriesIs
  <2>3. ASSUME NEW n \in DOMAIN in.metrics.samples PROVE in.now - calm[n] <= Slack
    <3>1. CASE current(in, Latest(n)) /\ Latest(n).value # 1
      BY <1>9, <3>1
    <3>2. CASE \E i \in DOMAIN in.metrics.samples[n] :
                  in.metrics.samples[n][i].at >= in.now - Span /\ in.metrics.samples[n][i].value # 1
      <4>1. PICK i \in DOMAIN in.metrics.samples[n] :
                  in.metrics.samples[n][i].at >= in.now - Span /\ in.metrics.samples[n][i].value # 1
        BY <3>2
      <4>2. calm[n] >= in.metrics.samples[n][i].at /\ in.metrics.samples[n][i].at \in Int /\ n \in Instances
        BY <1>7, <1>8, <4>1
      <4> QED BY <1>3, <1>5, <1>6, <4>1, <4>2
    <3> QED BY <2>2, <3>1, <3>2 DEF Below
  <2>4. Instances \ Overlooked \subseteq DOMAIN in.metrics.readings
    BY <1>2 DEF Overlooked, NeverAnswered
  <2>5. DOMAIN in.metrics.samples = DOMAIN in.metrics.readings
    BY <1>1, <1>2 DEF TypesInv, MetricsInv
  <2>6. Found(in, truth) \ Overlooked \subseteq DOMAIN in.metrics.samples
    <3>1. in.now \in Int /\ truth.instances \in [Instances -> States]
      BY <1>1 DEF TypesInv, HInv, HeldTypes, InstancesInv
    <3>2. Found(in, truth) = {n \in Instances : Ails(truth.instances[n])}
      BY <1>1, <3>1, FoundByMetrics
    <3> QED BY <2>4, <2>5, <3>2
  <2>7. \A s \in Found(in, truth) \ Overlooked : in.now - calm[s] <= Slack
    BY <2>3, <2>6
  <2> QED BY <1>1, <2>7, KnownCalm
<1> QED BY <1>10, <1>11

\* The exporters against the operator: none was refused, and none disagreed.
LEMMA DisagreementIs ==
  ASSUME NEW x, PrimaryDisagreement(x) = Clear, x.metrics.on \in BOOLEAN
  PROVE  /\ clusterUnavailable(x) = "" /\ x.metrics.on = TRUE
         /\ \/ moving(x.cluster.facts)
            \/ \A n \in DOMAIN x.metrics.readings :
                  /\ current(x, x.metrics.readings[n])
                  /\ (x.metrics.readings[n].value = 0) = (n = x.cluster.facts.current)
<1> DEFINE facts == x.cluster.facts
           store == x.metrics.readings
           refused == {n \in DOMAIN store : ~current(x, store[n])}
           apart == {n \in DOMAIN store \ refused : (store[n].value = 0) # (n = facts.current)}
           said == CASE facts.current = "" -> Unavailable("no primary")
                     [] facts.current # "" /\ moving(facts) -> Clear
                     [] OTHER -> Judged(apart, refused)
<1>1. PrimaryDisagreement(x) = Unless(Or(clusterUnavailable(x), offUnless(x.metrics.on)), said)
  BY Zenon DEF PrimaryDisagreement
<1>2. apart = {} /\ refused = {} => \A n \in DOMAIN store :
         current(x, store[n]) /\ (store[n].value = 0) = (n = facts.current)
  OBVIOUS
<1>3. Judged(apart, refused) = Clear => apart = {} /\ refused = {}
  BY JudgedIs
<1>4. PrimaryDisagreement(x).because = ""
  BY ResultFields
<1> HIDE DEF apart, refused
<1>5. said = Clear => moving(facts) \/ Judged(apart, refused) = Clear
  <2>1. Unavailable("no primary").because = "no primary" /\ Clear.because = ""
    BY ResultFields
  <2>2. CASE facts.current = ""
    BY <2>1, <2>2
  <2>3. CASE facts.current # "" /\ moving(facts)
    BY <2>3
  <2>4. CASE facts.current # "" /\ ~moving(facts)
    <3>1. said = Judged(apart, refused)
      BY <2>4
    <3> QED BY <3>1
  <2> QED BY <2>2, <2>3, <2>4
<1> HIDE DEF said
<1>6. Or(clusterUnavailable(x), offUnless(x.metrics.on)) = "" /\ said = Clear
  BY <1>1, <1>4, Gate
<1>7. clusterUnavailable(x) = "" /\ offUnless(x.metrics.on) = ""
  BY <1>6, OrIs
<1> QED BY <1>2, <1>3, <1>5, <1>6, <1>7, SwitchedOn

\* The primary's check reads clear of instances that lately agreed.
LEMMA AgreementLately ==
  ASSUME GhostInv, check.rule = "PrimaryDisagreement", result = Clear
  PROVE  CalmLately
<1> DEFINE store == in.metrics.readings
<1>1. TypesInv /\ Witnessed /\ HeldTypes /\ ReadingsTold
  BY DEF GhostInv, TypesInv, HInv
<1>2. "metrics" \in Read /\ "cluster" \in Read /\ Swept \cap Read = {"metrics"}
  BY <1>1, ReadIs DEF Swept, Consulted, ClusterRules, BackupRules, StatusRules, MetricRules, EventRules, HistoryRules
<1>3. /\ DOMAIN store \subseteq Instances /\ in.metrics.on \in BOOLEAN /\ in.now \in Int
      /\ truth.instances \in [Instances -> States]
      /\ \A n \in DOMAIN store : /\ store[n].at \in Int
                                 /\ AgreementTold(store[n], n, truth.facts.cluster.current, calm[n])
  BY <1>1, <1>2 DEF TypesInv, MetricsInv, ReadingsTold, Readings, HInv, HeldTypes, InstancesInv
<1>4. PrimaryDisagreement(in) = Clear
  BY DEF result, Evaluate
<1>5. /\ clusterUnavailable(in) = "" /\ in.metrics.on = TRUE
      /\ \/ moving(in.cluster.facts)
         \/ \A n \in DOMAIN store : /\ current(in, store[n])
                                    /\ (store[n].value = 0) = (n = in.cluster.facts.current)
  BY <1>3, <1>4, DisagreementIs
<1>6. in.cluster.facts = truth.facts["cluster"]
  <2>1. unread(in["cluster"]) = ""
    BY <1>5, ClusterReadIs
  <2>2. "cluster" \in Whole \cap Read
    BY <1>2 DEF Whole, Watched
  <2>3. <<"cluster", "cut">> \notin check.varies
    BY <1>1, ClusterUncut DEF Lists
  <2> QED BY <1>1, <2>1, <2>2, <2>3, WholeIs
<1>7. Instances \ Overlooked \subseteq DOMAIN store
  BY <1>2 DEF Overlooked, NeverAnswered
<1>8. \A n \in Found(in, truth) : n \in Instances /\ ~moving(truth.facts["cluster"])
  BY <1>1, <1>3, FoundDisagreement
<1>9. \A n \in Found(in, truth) \ Overlooked : n \in DOMAIN store
  BY <1>7, <1>8
<1>10. CASE moving(in.cluster.facts)
  <2>1. Found(in, truth) = {}
    BY <1>6, <1>8, <1>10
  <2> QED BY <1>1, <2>1, KnownCalm
<1>11. CASE \A n \in DOMAIN store : /\ current(in, store[n])
                                    /\ (store[n].value = 0) = (n = in.cluster.facts.current)
  <2>1. Slack \in Int /\ Horizon \in Int /\ Horizon <= Slack
    BY <1>1, <1>2, SlackIs
  <2>2. ASSUME NEW n \in Found(in, truth) \ Overlooked PROVE in.now - calm[n] <= Slack
    <3>1. n \in DOMAIN store /\ n \in Instances
      BY <1>3, <1>9
    <3>2. calm[n] >= store[n].at /\ store[n].at \in Int
      BY <1>3, <1>6, <1>11, <3>1 DEF AgreementTold
    <3>3. in.now - store[n].at <= Horizon
      BY <1>11, <3>1 DEF current
    <3>4. calm[n] \in Int
      BY <1>1, <3>1 DEF Witnessed, Subjects
    <3> QED BY <1>3, <2>1, <3>2, <3>3, <3>4
  <2> QED BY <1>1, <2>2, KnownCalm
<1> QED BY <1>5, <1>10, <1>11

\* Not older than what it is no older than.
LEMMA StillRecent ==
  ASSUME NEW now \in Int, NEW t \in Int, NEW ghost \in Int, NEW most \in Int, NEW slack \in Int,
         ghost >= t, now - t <= most, most <= slack
  PROVE  now - ghost <= slack
OBVIOUS

\* A step that was found on the poolers is found there too; one found on a
\* series was there when the series was last read.
LEMMA PoolerLately ==
  ASSUME GhostInv, check.rule = "poolerUp"
  PROVE  IllLately
<1>1. TypesInv /\ Witnessed /\ HeldTypes /\ SamplesTold
  BY DEF GhostInv, TypesInv, HInv
<1>2. "metrics" \in Read /\ "poolers" \in Read /\ Swept \cap Read # {} /\ check.rule \in Sustained
  BY <1>1, IsRead DEF Swept, Sustained
<1>3. in.metrics.on \in BOOLEAN /\ in.now \in Int
  BY <1>1, <1>2 DEF TypesInv, MetricsInv, HInv, HeldTypes
<1>4. result = Answered(poolerUp(in))
  BY DEF result, Evaluate
<1> DEFINE outcomes(x) == Concluded(x, Nil, {PoolerPhase(x), PoolerShort(x), SeriesAbove(x)})
<1>5. \A x : poolerUp(x) = answer({}, outcomes(x))
  BY DEF poolerUp
<1>6. ASSUME NEW s \in result.on PROVE s = Cluster /\ "matched" \in outcomes(in)
  <2>1. poolerUp(in) \in Answers
    BY <1>5, AnswerIs
  <2>2. poolerUp(in) = "found" /\ s = Cluster
    <3>1. PICK said \in Answers : said = poolerUp(in)
      BY <2>1
    <3>2. Answered(said).on = IF said = "found" THEN {Cluster} ELSE {}
      BY AnsweredIs
    <3>3. result.on = Answered(said).on
      BY <1>4, <3>1
    <3> QED BY <1>6, <3>1, <3>2, <3>3
  <2> HIDE DEF outcomes
  <2>3. answer({}, outcomes(in)) = "found"
    BY <1>5, <2>2
  <2> QED BY <2>2, <2>3, AnswerIs
<1>7. Cluster \in Subjects
  BY DEF Subjects
<1>8. Slack \in Int /\ Horizon \in Int /\ Horizon <= Slack
  BY <1>1, <1>2, SlackIs
<1>9. \A r : evaluateRule(in, Nil, r) = "matched" => r.because = "" /\ r # Clear
  BY ConcludedIs
<1>10. ASSUME \/ evaluateRule(in, Nil, PoolerPhase(in)) = "matched"
              \/ evaluateRule(in, Nil, PoolerShort(in)) = "matched"
       PROVE  in.now - ill[Cluster] <= Slack
  <2>1. PICK P : /\ IsPerfect(P, in, truth) /\ P.now = in.now
                 /\ Found(in, truth) = Evaluate(check.rule, P).on
    BY FoundIs
  <2>2. PartThere(PoolerPhase(in), PoolerPhase(P)) /\ PartThere(PoolerShort(in), PoolerShort(P))
    BY <1>1, <1>2, <2>1, PartsSame
  <2>3. \A reason, S : Unless(reason, Matches(S)).because = "" /\ Unless(reason, Matches(S)) # Clear
                          => Unless(reason, Matches(S)).on # {}
    <3> SUFFICES ASSUME NEW reason, NEW S, Unless(reason, Matches(S)).because = "", Unless(reason, Matches(S)) # Clear
                 PROVE  Unless(reason, Matches(S)).on # {}
      OBVIOUS
    <3>1. Unless(reason, Matches(S)) = Matches(S)
      BY Gate
    <3>2. S # {}
      BY <3>1 DEF Clear
    <3>3. Matches(S).on = S
      BY ResultFields
    <3> QED BY <3>1, <3>2, <3>3, Zenon
  <2>4. ASSUME NEW r, NEW there, PartThere(r, there), evaluateRule(in, Nil, r) = "matched",
               r.because = "" /\ r # Clear => r.on # {}
        PROVE  evaluateRule(P, Nil, there) = "matched"
    <3>1. there.because = "" /\ there.on # {}
      BY <1>9, <2>4 DEF PartThere
    <3>2. there # Clear
      BY <3>1, ResultFields
    <3> QED BY <3>1, <3>2, Unpinned
  <2>5. "matched" \in outcomes(P)
    <3>1. \/ evaluateRule(P, Nil, PoolerPhase(P)) = "matched"
          \/ evaluateRule(P, Nil, PoolerShort(P)) = "matched"
      <4>1. PoolerPhase(in).because = "" /\ PoolerPhase(in) # Clear => PoolerPhase(in).on # {}
        BY <2>3 DEF PoolerPhase
      <4>2. PoolerShort(in).because = "" /\ PoolerShort(in) # Clear => PoolerShort(in).on # {}
        BY <2>3 DEF PoolerShort
      <4> QED BY <1>10, <2>2, <2>4, <4>1, <4>2
    <3> QED BY <3>1 DEF Concluded
  <2>6. poolerUp(P) = "found" /\ poolerUp(P) \in Answers
    <3> HIDE DEF outcomes
    <3>1. answer({}, outcomes(P)) = "found" /\ answer({}, outcomes(P)) \in Answers
      BY <2>5, AnswerIs
    <3> QED BY <1>5, <3>1
  <2>7. Evaluate(check.rule, P) = Answered(poolerUp(P))
    BY DEF Evaluate
  <2>8. Cluster \in Found(in, truth)
    <3>1. PICK said \in Answers : said = poolerUp(P) /\ said = "found"
      BY <2>6
    <3>2. Answered(said).on = {Cluster}
      BY <3>1, AnsweredIs
    <3> QED BY <2>1, <2>7, <3>1, <3>2
  <2> QED BY <1>1, <1>7, <2>8, NowIsRecent
<1>11. ASSUME evaluateRule(in, Nil, SeriesAbove(in)) = "matched"
       PROVE  in.now - ill[Cluster] <= Slack
  <2>1. SeriesAbove(in).because = "" /\ SeriesAbove(in) # Clear
    BY <1>9, <1>11
  <2>2. PICK n \in SeriesAbove(in).on : n \in DOMAIN in.metrics.samples /\ current(in, Latest(n)) /\ Latest(n).value = 1
    BY <1>3, <2>1, SeriesIs
  <2>3. /\ \A i \in DOMAIN in.metrics.samples[n] : in.metrics.samples[n][i].at \in Int
        /\ Len(in.metrics.samples[n]) \in DOMAIN in.metrics.samples[n]
    BY <1>1, <1>2, <2>2, LatestIs
  <2>4. ill[Cluster] >= Latest(n).at /\ Latest(n).at \in Int
    BY <1>1, <2>2, <2>3 DEF SamplesTold, Latest
  <2>5. ill[Cluster] \in Int /\ in.now - Latest(n).at <= Horizon
    BY <1>1, <1>7, <2>2 DEF Witnessed, current
  <2> QED BY <1>3, <1>8, <2>4, <2>5
<1>12. ASSUME NEW s \in result.on PROVE s \in Subjects /\ in.now - ill[s] <= Slack
  <2>1. \/ evaluateRule(in, Nil, PoolerPhase(in)) = "matched"
        \/ evaluateRule(in, Nil, PoolerShort(in)) = "matched"
        \/ evaluateRule(in, Nil, SeriesAbove(in)) = "matched"
    BY <1>6, <1>12 DEF Concluded
  <2> QED BY <1>6, <1>7, <1>10, <1>11, <1>12, <2>1
<1> QED BY <1>12 DEF IllLately

\* Two versions that are both told, and differ.
Apart(v, u) == v # u /\ v # NoVersion /\ u # NoVersion

\* Two managers that did not run the same when they were last read.
LEMMA DriftsIs ==
  ASSUME NEW fresh, drifting(fresh) # {}
  PROVE  drifting(fresh) = {Cluster} /\ \E n, m \in DOMAIN fresh : Apart(fresh[n].value, fresh[m].value)
<1> DEFINE seen == {fresh[n].value : n \in DOMAIN fresh} \ {NoVersion}
<1>1. drifting(fresh) = IF Cardinality(seen) < 2 THEN {} ELSE {Cluster}
  BY Zenon DEF drifting
<1>s. \A v \in seen : v # NoVersion /\ \E n \in DOMAIN fresh : fresh[n].value = v
  OBVIOUS
<1> HIDE DEF seen
<1>2. ASSUME \A v, u \in seen : v = u PROVE Cardinality(seen) < 2
  <2>1. CASE seen = {}
    BY <2>1, FS_EmptySet
  <2>2. CASE seen # {}
    <3>1. PICK v \in seen : TRUE
      BY <2>2
    <3>2. seen = {v}
      BY <1>2, <3>1
    <3>3. Cardinality({v}) = 1
      BY FS_Singleton
    <3>4. Cardinality(seen) = 1
      BY <3>2, <3>3
    <3> QED BY <3>4
  <2> QED BY <2>1, <2>2
<1>3. ~(Cardinality(seen) < 2)
  BY <1>1
<1>4. PICK v \in seen, u \in seen : v # u
  BY <1>2, <1>3
<1>5. \E n, m \in DOMAIN fresh : Apart(fresh[n].value, fresh[m].value)
  BY <1>s, <1>4 DEF Apart
<1> QED BY <1>1, <1>3, <1>5

\* A drift that is found was there when the later of two reports was read.
LEMMA DriftLately ==
  ASSUME GhostInv, check.rule = "InstanceManagerDrift", result.because = ""
  PROVE  IllLately
<1> DEFINE store == in.status.readings
           fresh == freshReports(in)
<1>1. TypesInv /\ Witnessed /\ HeldTypes /\ ReadingsTold
  BY DEF GhostInv, TypesInv, HInv
<1>2. Read = {"status"} /\ Swept \cap Read # {} /\ "status" \in Read
  BY <1>1, ReadIs DEF Swept
<1>3. /\ DOMAIN store \subseteq Instances /\ in.now \in Int
      /\ \A n \in DOMAIN store : /\ store[n].at \in Int
                                 /\ DriftTold(store[n], n, ill[Cluster], truth.instances)
                                 /\ (store[n].value = NoVersion) = (truth.instances[n].value = NoVersion)
  BY <1>1, <1>2 DEF TypesInv, StatusInv, ReadingsTold, Readings, HInv, HeldTypes, NamedInv
<1>4. \A n \in DOMAIN fresh : n \in DOMAIN store /\ fresh[n] = store[n] /\ current(in, store[n])
  BY FreshIs DEF Refused
<1> HIDE DEF fresh, store
<1>5. result = OnReports(in, drifting(fresh))
  BY DEF result, Evaluate, InstanceManagerDrift, fresh
<1>6. result.on = drifting(fresh)
  BY <1>1, <1>2, <1>5, ReportsJudged
<1>7. ASSUME NEW s \in result.on PROVE s \in Subjects /\ in.now - ill[s] <= Slack
  <2>1. s = Cluster /\ \E n, m \in DOMAIN fresh : Apart(fresh[n].value, fresh[m].value)
    <3>1. drifting(fresh) # {} /\ s \in drifting(fresh)
      BY <1>6, <1>7
    <3>2. drifting(fresh) = {Cluster} /\ \E n, m \in DOMAIN fresh : Apart(fresh[n].value, fresh[m].value)
      BY <3>1, DriftsIs
    <3> QED BY <3>1, <3>2
  <2>2. PICK n \in DOMAIN fresh, m \in DOMAIN fresh : Apart(fresh[n].value, fresh[m].value)
    BY <2>1
  <2>3. ill[Cluster] >= store[n].at \/ ill[Cluster] >= store[m].at
    <3>1. n \in Instances /\ m \in Instances
      BY <1>3, <1>4
    <3>2. /\ n \in DOMAIN store /\ fresh[n] = store[n]
          /\ m \in DOMAIN store /\ fresh[m] = store[m]
      BY <1>4
    <3>3. Apart(store[n].value, store[m].value) /\ n # m
      BY <2>2, <3>2 DEF Apart
    <3>4. /\ DriftTold(store[n], n, ill[Cluster], truth.instances) /\ DriftTold(store[m], m, ill[Cluster], truth.instances)
          /\ (store[n].value = NoVersion) = (truth.instances[n].value = NoVersion)
          /\ (store[m].value = NoVersion) = (truth.instances[m].value = NoVersion)
      BY <1>3, <3>2
    <3>5. PICK one : one = store[n]
      OBVIOUS
    <3>6. PICK other : other = store[m]
      OBVIOUS
    <3> HIDE DEF store
    <3>8. one.value # NoVersion /\ other.value # NoVersion /\ one.value # other.value
      BY <3>3, <3>5, <3>6 DEF Apart
    <3>9. truth.instances[n].value # NoVersion /\ truth.instances[m].value # NoVersion
      BY <3>4, <3>5, <3>6, <3>8
    <3>10. \/ ill[Cluster] >= one.at
           \/ truth.instances[m].value = one.value
      BY <3>1, <3>3, <3>4, <3>5, <3>8, <3>9 DEF DriftTold
    <3>11. \/ ill[Cluster] >= other.at
           \/ truth.instances[m].value = other.value
      BY <3>1, <3>3, <3>4, <3>6, <3>8, <3>9 DEF DriftTold
    <3>7. ill[Cluster] >= one.at \/ ill[Cluster] >= other.at
      BY <3>8, <3>10, <3>11
    <3> QED BY <3>5, <3>6, <3>7
  <2>4. in.now - store[n].at <= Horizon /\ in.now - store[m].at <= Horizon
    BY <1>4 DEF current
  <2>5. store[n].at \in Int /\ store[m].at \in Int
    BY <1>3, <1>4
  <2>6. Cluster \in Subjects /\ ill[Cluster] \in Int
    BY <1>1 DEF Witnessed, Subjects
  <2>7. Slack \in Int /\ Horizon \in Int /\ Horizon <= Slack
    BY <1>1, <1>2, SlackIs
  <2>8. ASSUME NEW t \in Int, ill[Cluster] >= t, in.now - t <= Horizon PROVE in.now - ill[Cluster] <= Slack
    BY <1>3, <2>6, <2>7, <2>8, StillRecent
  <2>9. in.now - ill[Cluster] <= Slack
    BY <2>3, <2>4, <2>5, <2>8
  <2> QED BY <2>1, <2>6, <2>9
<1> QED BY <1>7 DEF IllLately

-----------------------------------------------------------------------------
(* A check names instances and the cluster, and nothing else.               *)

NamedResult(r) == r.on \subseteq Subjects

\* Results made of named subjects, or of the cluster.
LEMMA ResultsNamed ==
  /\ \A S : S \subseteq Subjects => NamedResult(Matches(S))
  /\ \A why : NamedResult(Unavailable(why))
  /\ NamedResult(Clear)
  /\ \A holds : NamedResult(OnCluster(holds))
  /\ \A reason, r : NamedResult(r) => NamedResult(Unless(reason, r))
<1>1. \A S : S \subseteq Subjects => NamedResult(Matches(S))
  BY ResultFields DEF NamedResult
<1>2. \A why : NamedResult(Unavailable(why))
  BY ResultFields DEF NamedResult
<1>3. NamedResult(Clear)
  BY ResultFields DEF NamedResult
<1>4. \A holds : NamedResult(OnCluster(holds))
  BY <1>1 DEF OnCluster, Subjects
<1>5. \A reason, r : NamedResult(r) => NamedResult(Unless(reason, r))
  BY <1>2 DEF Unless
<1> QED BY <1>1, <1>2, <1>3, <1>4, <1>5

\* What has held is about an instance or the cluster.
LEMMA HeldNamed ==
  ASSUME NEW x, NEW keys, \A k \in keys : k[1] = "listed" => k[2] \in Instances
  PROVE  NamedResult(Held(x, keys))
<1> DEFINE about == {subjectOf(k) : k \in {k \in keys : x.now - x.cluster.since[k] >= MinAge}}
<1>1. about \subseteq Subjects
  BY DEF subjectOf, Subjects
<1>2. Held(x, keys) = IF \E k \in keys : k \notin DOMAIN x.cluster.since
                      THEN Unavailable("no record yet") ELSE Matches(about)
  BY Zenon DEF Held
<1> HIDE DEF about
<1>3. NamedResult(Matches(about)) /\ NamedResult(Unavailable("no record yet"))
  BY <1>1, ResultsNamed
<1> QED BY <1>2, <1>3

\* The rules about the Cluster.
LEMMA ClusterNamed ==
  ASSUME NEW x, NEW rule \in ClusterRules, x.cluster.facts.listed \subseteq Instances,
         x.cluster.facts.reported \subseteq Instances
  PROVE  NamedResult(Evaluate(rule, x))
<1>1. \A r : NamedResult(r) => NamedResult(OnTheCluster(x, r))
  BY ResultsNamed DEF OnTheCluster
<1> DEFINE facts == x.cluster.facts
<1>2. NamedResult(ClusterCondition(x))
  <2> DEFINE condition == facts.condition
             said == CASE ~condition.set -> Clear
                       [] condition.since = Nil -> Unavailable("no transition time")
                       [] OTHER -> OnCluster(x.now - condition.since >= MinAge)
  <2>1. NamedResult(said)
    BY ResultsNamed
  <2>2. ClusterCondition(x) = OnTheCluster(x, said)
    BY DEF ClusterCondition
  <2> HIDE DEF said
  <2> QED BY <1>1, <2>1, <2>2
<1>3. NamedResult(ClusterPhase(x))
  BY <1>1, ResultsNamed DEF ClusterPhase
<1>4. NamedResult(ClusterPhaseHeld(x))
  <2>1. \A k \in {<<"phase", facts.phase>>} \cap {<<"phase", "bad">>} : k[1] = "listed" => k[2] \in Instances
    OBVIOUS
  <2> QED BY <1>1, <2>1, HeldNamed DEF ClusterPhaseHeld
<1>5. NamedResult(StatusListed(x))
  <2>1. \A k \in {<<"listed", n>> : n \in facts.listed} : k[1] = "listed" => k[2] \in Instances
    OBVIOUS
  <2> QED BY <1>1, <2>1, HeldNamed DEF StatusListed
<1>6. NamedResult(ReplicaSwitchStuck(x))
  <2> DEFINE keys == IF facts.switching THEN {<<"switching">>} ELSE {}
  <2>1. \A k \in keys : k[1] = "listed" => k[2] \in Instances
    OBVIOUS
  <2>2. ReplicaSwitchStuck(x) = OnTheCluster(x, Held(x, keys))
    BY DEF ReplicaSwitchStuck
  <2> HIDE DEF keys
  <2> QED BY <1>1, <2>1, <2>2, HeldNamed
<1>7. NamedResult(InstancesShort(x))
  <2> DEFINE keys == IF facts.ready < facts.desired THEN {<<"short", facts.ready, facts.desired>>} ELSE {}
             said == IF Nil \in {facts.desired, facts.ready} THEN Unavailable("no count") ELSE Held(x, keys)
  <2>1. \A k \in keys : k[1] = "listed" => k[2] \in Instances
    OBVIOUS
  <2>2. InstancesShort(x) = OnTheCluster(x, said)
    BY DEF InstancesShort
  <2> HIDE DEF keys
  <2>3. NamedResult(said)
    BY <2>1, HeldNamed, ResultsNamed
  <2> HIDE DEF said
  <2> QED BY <1>1, <2>2, <2>3
<1>8. NamedResult(TimelineDivergence(x))
  <2> DEFINE keys == {<<n, facts.timelines[n]>> :
                         n \in {n \in Instances : facts.timelines[n] \notin {0, facts.timeline}}}
             said == IF facts.timeline = Nil THEN Unavailable("no timeline") ELSE Held(x, keys)
  <2>1. \A k \in keys : k[1] = "listed" => k[2] \in Instances
    BY NamesAssumption
  <2>2. TimelineDivergence(x) = OnTheCluster(x, said)
    BY DEF TimelineDivergence
  <2> HIDE DEF keys
  <2>3. NamedResult(said)
    BY <2>1, HeldNamed, ResultsNamed
  <2> HIDE DEF said
  <2> QED BY <1>1, <2>2, <2>3
<1>9. NamedResult(PrimaryFailing(x))
  BY <1>1, ResultsNamed DEF PrimaryFailing
<1>10. \A within : NamedResult(CertificateExpiring(x, within))
  <2> SUFFICES ASSUME NEW within PROVE NamedResult(CertificateExpiring(x, within))
    OBVIOUS
  <2> DEFINE expiring == {n \in Instances : LET left == facts.expires[n] - x.now IN
                             left <= within /\ (within > 0 => left > 0)}
  <2>1. expiring \subseteq Subjects
    BY DEF Subjects
  <2>2. CertificateExpiring(x, within) = OnTheCluster(x, Matches(expiring))
    BY DEF CertificateExpiring
  <2> HIDE DEF expiring
  <2> QED BY <1>1, <2>1, <2>2, ResultsNamed
<1>11. NamedResult(Reported(x))
  <2>1. facts.reported \subseteq Subjects
    BY DEF Subjects
  <2> QED BY <1>1, <2>1, ResultsNamed DEF Reported
<1>12. NamedResult(PrimaryMismatch(x))
  BY <1>1, ResultsNamed DEF PrimaryMismatch
<1>13. NamedResult(Answered(primaryNamed(x)))
  <2>1. PICK said \in Answers : said = primaryNamed(x)
    BY AnswerIs DEF primaryNamed
  <2>2. Answered(said).on = IF said = "found" THEN {Cluster} ELSE {}
    BY AnsweredIs
  <2> QED BY <2>1, <2>2 DEF NamedResult, Subjects
<1>14. NamedResult(Walked(operatorSilent(x)))
  <2>1. PICK steps : steps = operatorSilent(x)
    OBVIOUS
  <2>2. DOMAIN steps = {1, 2}
    <3>1. PICK one : one = reconciles(x)
      OBVIOUS
    <3>2. PICK other : other = operatorRunning
      OBVIOUS
    <3>3. steps = <<one, other>>
      BY <2>1, <3>1, <3>2 DEF operatorSilent
    <3> QED BY <3>3, PairIs
  <2>3. Walked(steps).on = IF \E i \in DOMAIN steps : steps[i] = "found" THEN {Cluster} ELSE {}
    BY <2>2, WalkedIs
  <2> QED BY <2>1, <2>3 DEF NamedResult, Subjects
<1>15. CASE rule \in {"ClusterCondition", "ClusterPhase", "ClusterPhaseHeld", "StatusListed",
           "ReplicaSwitchStuck", "InstancesShort", "TimelineDivergence"}
  BY <1>2, <1>3, <1>4, <1>5, <1>6, <1>7, <1>8, <1>15 DEF Evaluate
<1>16. CASE rule \in {"PrimaryFailing", "CertificateExpiring", "CertificateExpired", "Reported",
           "PrimaryMismatch", "primaryNamed", "operatorSilent"}
  BY <1>9, <1>10, <1>11, <1>12, <1>13, <1>14, <1>16 DEF Evaluate
<1> QED BY <1>15, <1>16 DEF ClusterRules

\* A step is about the cluster.
LEMMA AnsweredNamed ==
  ASSUME NEW facts, NEW outcomes
  PROVE  NamedResult(Answered(answer(facts, outcomes)))
<1>1. PICK said \in Answers : said = answer(facts, outcomes)
  BY AnswerIs
<1>2. Answered(said).on = IF said = "found" THEN {Cluster} ELSE {}
  BY AnsweredIs
<1> QED BY <1>1, <1>2 DEF NamedResult, Subjects

\* The rules about the backups.
LEMMA BackupsNamed ==
  ASSUME NEW x, NEW rule \in BackupRules
  PROVE  NamedResult(Evaluate(rule, x))
<1>1. \A r : NamedResult(r) => NamedResult(OnBackups(x, r)) /\ NamedResult(OnTheStore(x, r))
  BY ResultsNamed DEF OnBackups, OnTheStore
<1>2. \A S : S \subseteq Instances => NamedResult(OnBackups(x, Matches(S)))
  <2>1. \A S : S \subseteq Instances => NamedResult(Matches(S))
    BY ResultsNamed DEF Subjects
  <2> QED BY <1>1, <2>1
<1>3. CASE rule = "BackupPhase"
  <2> DEFINE on == {n \in Instances : LET b == x.backups.facts.backup[n] IN
                       b.phase = "bad" /\ x.now - b.created >= MinAge}
  <2>1. on \subseteq Instances /\ Evaluate(rule, x) = OnBackups(x, Matches(on))
    BY <1>3 DEF Evaluate, BackupPhase
  <2> HIDE DEF on
  <2> QED BY <1>2, <2>1
<1>4. CASE rule = "ScheduledBackupSuspended"
  <2> DEFINE on == {n \in Instances : x.backups.facts.schedule[n].suspended}
  <2>1. on \subseteq Instances /\ Evaluate(rule, x) = OnBackups(x, Matches(on))
    BY <1>4 DEF Evaluate, ScheduledBackupSuspended
  <2> HIDE DEF on
  <2> QED BY <1>2, <2>1
<1>5. CASE rule = "ScheduledBackupOverdue"
  <2> DEFINE on == {n \in Instances : LET s == x.backups.facts.schedule[n] IN
                       ~s.suspended /\ s.next # Nil /\ x.now - s.next >= MinAge}
  <2>1. on \subseteq Instances /\ Evaluate(rule, x) = OnBackups(x, Matches(on))
    BY <1>5 DEF Evaluate, ScheduledBackupOverdue
  <2> HIDE DEF on
  <2> QED BY <1>2, <2>1
<1>6. CASE rule = "backupCadence"
  <2> DEFINE on == {n \in Instances : LET s == x.backups.facts.schedule[n] IN ~s.suspended /\ s.often}
  <2>1. on \subseteq Instances /\ Evaluate(rule, x) = OnBackups(x, Matches(on))
    BY <1>6 DEF Evaluate, backupCadence
  <2> HIDE DEF on
  <2> QED BY <1>2, <2>1
<1>7. CASE rule = "StoreBackupFailed"
  BY <1>1, <1>7, ResultsNamed DEF Evaluate, StoreBackupFailed
<1>8. CASE rule = "StoreNoBackup"
  BY <1>1, <1>8, ResultsNamed DEF Evaluate, StoreNoBackup
<1>9. CASE rule = "scheduleFiring"
  BY <1>9, AnsweredNamed DEF Evaluate, scheduleFiring
<1> QED BY <1>3, <1>4, <1>5, <1>6, <1>7, <1>8, <1>9 DEF BackupRules

\* The checks of one list each.
LEMMA OnInstances ==
  ASSUME NEW reason, NEW S \in SUBSET Instances
  PROVE  NamedResult(Unless(reason, Matches(S)))
<1>1. NamedResult(Matches(S))
  BY ResultsNamed DEF Subjects
<1> QED BY <1>1, ResultsNamed

\* The rules about the pods and the poolers.
LEMMA PartsNamed ==
  ASSUME NEW x
  PROVE  NamedResult(imagePull(x)) /\ NamedResult(PoolerPhase(x)) /\ NamedResult(PoolerShort(x))
<1>1. NamedResult(imagePull(x))
  <2> DEFINE on == {n \in Instances : x.pods.facts.reason[n] = "bad"}
  <2>1. on \in SUBSET Instances /\ imagePull(x) = Unless(unread(x.pods), Matches(on))
    BY DEF imagePull
  <2> HIDE DEF on
  <2> QED BY <2>1, OnInstances
<1>2. NamedResult(PoolerPhase(x))
  <2> DEFINE on == {n \in Instances : x.poolers.facts.phase[n] = "bad"}
  <2>1. on \in SUBSET Instances /\ PoolerPhase(x) = Unless(unread(x.poolers), Matches(on))
    BY DEF PoolerPhase
  <2> HIDE DEF on
  <2> QED BY <2>1, OnInstances
<1>3. NamedResult(PoolerShort(x))
  <2> DEFINE on == {n \in Instances : LET declared == x.poolers.facts.declared[n] IN
                       declared # Nil /\ x.poolers.facts.ready[n] < declared}
  <2>1. on \in SUBSET Instances /\ PoolerShort(x) = Unless(unread(x.poolers), Matches(on))
    BY DEF PoolerShort
  <2> HIDE DEF on
  <2> QED BY <2>1, OnInstances
<1> QED BY <1>1, <1>2, <1>3

\* The checks that name the cluster only, or the pods of an instance.
LEMMA OthersNamed ==
  ASSUME NEW x
  PROVE  /\ NamedResult(volumeBinding(x)) /\ NamedResult(ContainerState(x))
         /\ NamedResult(RepositoryState(x)) /\ NamedResult(QuorumStandbysShort(x))
         /\ NamedResult(PrimaryLeaseExpired(x)) /\ NamedResult(PrimaryLeaseHolderMismatch(x))
         /\ NamedResult(ImageCatalogMissing(x)) /\ NamedResult(ImageCatalogLacksMajor(x))
         /\ NamedResult(quotaRefusal(x)) /\ NamedResult(podScheduling(x))
<1>1. NamedResult(volumeBinding(x))
  BY ResultsNamed DEF volumeBinding
<1>2. NamedResult(ContainerState(x))
  <2> DEFINE on == {n \in Instances : \/ x.pods.facts.reason[n] = "bad"
                                      \/ x.poolerPods.has /\ x.poolerPods.facts.reason[n] = "bad"}
  <2>1. on \in SUBSET Instances
        /\ ContainerState(x) = Unless(Or(unread(x.pods), poolerPodsUnavailable(x)), Matches(on))
    BY DEF ContainerState
  <2> HIDE DEF on
  <2> QED BY <2>1, OnInstances
<1>3. NamedResult(RepositoryState(x))
  BY ResultsNamed DEF RepositoryState
<1>4. NamedResult(QuorumStandbysShort(x))
  <2> DEFINE q == x.quorum.facts
             said == CASE ~q.present \/ q.number <= 0 -> Clear
                       [] q.present /\ q.number > 0 /\ q.cut -> Unavailable("cut")
                       [] OTHER -> OnCluster(q.standbys < q.number)
  <2>1. QuorumStandbysShort(x) = Unless(unread(x.quorum), said)
    BY DEF QuorumStandbysShort
  <2>2. NamedResult(said)
    BY ResultsNamed
  <2> HIDE DEF said
  <2> QED BY <2>1, <2>2, ResultsNamed
<1>5. \A r : NamedResult(r) => NamedResult(OnTheLease(x, r))
  BY ResultsNamed DEF OnTheLease
<1>6. NamedResult(PrimaryLeaseExpired(x))
  <2> DEFINE lease == x.lease.facts
             facts == x.cluster.facts
             said == CASE ~lease.present -> Clear
                       [] lease.present /\ lease.holder = "" ->
                            OnCluster(/\ facts.current # "" /\ ~moving(facts)
                                      /\ lease.renewed # Nil => x.now - lease.renewed >= MinAge)
                       [] lease.present /\ lease.holder # "" /\ lease.renewed = Nil ->
                            Unavailable("no renewal time")
                       [] OTHER -> OnCluster(x.now - (lease.renewed + lease.duration) >= MinAge)
  <2>1. PrimaryLeaseExpired(x) = OnTheLease(x, said)
    BY DEF PrimaryLeaseExpired
  <2>2. NamedResult(said)
    BY ResultsNamed
  <2> HIDE DEF said
  <2> QED BY <1>5, <2>1, <2>2
<1>7. NamedResult(PrimaryLeaseHolderMismatch(x))
  BY <1>5, ResultsNamed DEF PrimaryLeaseHolderMismatch
<1>8. NamedResult(ImageCatalogMissing(x))
  BY ResultsNamed DEF ImageCatalogMissing
<1>9. NamedResult(ImageCatalogLacksMajor(x))
  <2> DEFINE major == x.cluster.facts.major
             images == x.catalogs.facts.images
             missing == Unless(IF x.catalogs.facts.imagesCut THEN "cut" ELSE "", OnCluster(TRUE))
             said == CASE resolveCatalog(x).is # "found" -> Clear
                       [] resolveCatalog(x).is = "found" /\ major = Nil -> Unavailable("no major version")
                       [] OTHER -> IF major \in images THEN Clear ELSE missing
  <2>1. ImageCatalogLacksMajor(x) = Unless(resolveCatalog(x).why, said)
    BY Zenon DEF ImageCatalogLacksMajor
  <2>2. NamedResult(missing)
    <3>1. PICK why : why = (IF x.catalogs.facts.imagesCut THEN "cut" ELSE "")
      OBVIOUS
    <3>2. missing = Unless(why, OnCluster(TRUE))
      BY <3>1
    <3> HIDE DEF missing
    <3> QED BY <3>2, ResultsNamed
  <2> HIDE DEF missing
  <2>3. NamedResult(said)
    BY <2>2, ResultsNamed
  <2> HIDE DEF said
  <2> QED BY <2>1, <2>3, ResultsNamed
<1>10. NamedResult(quotaRefusal(x))
  BY ResultsNamed DEF quotaRefusal
<1>11. NamedResult(podScheduling(x))
  BY ResultsNamed DEF podScheduling
<1> QED BY <1>1, <1>2, <1>3, <1>4, <1>6, <1>7, <1>8, <1>9, <1>10, <1>11

\* An event that matched is about a pod or a backup of the cluster.
LEMMA EventsNamed ==
  ASSUME NEW x, NEW kinds, x.events.facts.list \in Seq(Emitted)
  PROVE  NamedResult(EventMatch(x, kinds))
<1> DEFINE list == x.events.facts.list
           accepted == {i \in DOMAIN list : list[i].reason = "bad" /\ list[i].kind \in kinds}
           quotedBefore(i) == Cardinality({j \in accepted : j < i /\ admitted(x, list[j])})
           examined == {i \in accepted : quotedBefore(i) < maxQuoted}
           asBackup == \E i \in examined : list[i].kind = "Backup"
           reason == IF asBackup THEN unread(x.backups) ELSE ""
           quoted == {list[i].object : i \in {i \in examined : admitted(x, list[i]) /\ quotedBefore(i) = 0}}
<1>1. EventMatch(x, kinds) = Unless(unread(x.events), Unless(reason, Matches(quoted)))
  BY Zenon DEF EventMatch
<1>2. quoted \subseteq {list[i].object : i \in DOMAIN list}
  OBVIOUS
<1> HIDE DEF quoted, reason
<1>3. \A i \in DOMAIN list : list[i].object = "a"
  <2>1. \A i \in DOMAIN list : list[i] \in Emitted
    OBVIOUS
  <2> HIDE DEF list
  <2> QED BY <2>1 DEF Emitted
<1>4. quoted \in SUBSET Instances
  BY <1>2, <1>3, NamesAssumption
<1>5. NamedResult(Unless(reason, Matches(quoted)))
  BY <1>4, OnInstances
<1> QED BY <1>1, <1>5, ResultsNamed

\* Two checks together name whom they name apart.
LEMMA ComposedNamed ==
  ASSUME NEW a, NEW b, NamedResult(a), NamedResult(b)
  PROVE  NamedResult(AllOf(a, b)) /\ NamedResult(layerViews(<<a, b>>))
<1>1. NamedResult(AllOf(a, b))
  <2> DEFINE on == {s \in a.on : \E o \in b.on : subjectsAgree(s, o)}
  <2>1. on \subseteq Subjects
    BY DEF NamedResult
  <2>2. AllOf(a, b) = IF a.because # "" \/ a.on = {} THEN a ELSE IF b.because # "" THEN b ELSE Matches(on)
    BY DEF AllOf
  <2> HIDE DEF on
  <2>3. NamedResult(Matches(on))
    BY <2>1, ResultsNamed
  <2> QED BY <2>2, <2>3
<1>2. layerViews(<<a, b>>).on = a.on \cup b.on
  BY LayerIs
<1> QED BY <1>1, <1>2 DEF NamedResult

\* The facts of a source in contact name what there is.
LEMMA ContactNamed ==
  ASSUME TypesInv
  PROVE  \A s \in {"cluster", "quotas", "databases", "events"} \cap Read :
             unread(in[s]) = "" /\ check.rule # "scheduleFiring" => NamesInstances(s, in[s].facts)
<1> SUFFICES ASSUME NEW s \in {"cluster", "quotas", "databases", "events"} \cap Read, unread(in[s]) = ""
             PROVE  NamesInstances(s, in[s].facts)
  OBVIOUS
<1>1. s \in Whole \cap Read /\ s \in Watched \cap Read
  BY DEF Whole, Watched
<1>2. NamesInstances(s, truth.facts[s])
  BY <1>1 DEF TypesInv, FactsInv
<1>3. CASE in[s].facts = truth.facts[s]
  BY <1>2, <1>3
<1>4. CASE in[s].facts # truth.facts[s]
  <2>1. s \in Lists \cap Read /\ DOMAIN in[s].facts = DOMAIN CalmFacts[s]
    BY <1>1, <1>4, WholeOrCut
  <2>2. Emptied(s, in[s].facts)
    BY <1>4, <2>1, EmptiedIs
  <2>3. CASE s = "databases"
    <3>1. in[s].facts.refused = {}
      BY <2>2, <2>3 DEF Emptied
    <3> QED BY <2>1, <2>3, <3>1 DEF NamesInstances
  <2>4. CASE s = "events"
    <3>1. in[s].facts.list = <<>>
      BY <2>2, <2>4 DEF Emptied
    <3>3. in[s].facts.list \in Seq(Emitted)
      BY <3>1, CalmIsNamed DEF NamesInstances, CalmFacts, Watched
    <3> QED BY <2>1, <2>4, <3>3 DEF NamesInstances
  <2> QED BY <2>1, <2>3, <2>4 DEF Lists
<1> QED BY <1>3, <1>4

\* The checks that are judged on what is held this moment.
OfMoment == ClusterRules \cup BackupRules \cup EventRules \cup OneList
    \cup {"PrimaryLeaseExpired", "PrimaryLeaseHolderMismatch", "QuorumStandbysShort", "RepositoryState",
          "ContainerState", "ImageCatalogMissing", "ImageCatalogLacksMajor"}
    \cup {"BackupEvent", "AllOfPodAndPooler", "AllOfClusterAndPod", "layer", "instanceReady", "writeService",
          "definitionRefused", "cannotConnect"}

\* Every rule is of the moment, swept, of the past, or a screen.
LEMMA RulesAre ==
  RulesOfOne \cup RulesOfMany \subseteq
      OfMoment \cup ByMetrics \cup ByStatus \cup HistoryRules
          \cup {"InstanceManagerDrift", "poolerUp", "PrimaryDisagreement", "logMatches", "screen"}
<1>1. RulesOfMany \subseteq OfMoment \cup {"poolerUp", "PrimaryDisagreement", "logMatches", "screen"}
  BY DEF RulesOfMany, OfMoment
<1>2. StatusRules \subseteq ByStatus \cup {"InstanceManagerDrift"} /\ MetricRules \subseteq ByMetrics
  BY DEF StatusRules, MetricRules, ByStatus, ByMetrics
<1>3. {"PoolerPhase", "PoolerShort", "imagePull", "volumeBinding", "quotaExhausted", "DeclaredObjectFailed",
       "QuorumStandbysShort", "RepositoryState"} \subseteq OfMoment
  BY DEF OfMoment, OneList
<1>4. ClusterRules \cup BackupRules \cup EventRules \subseteq OfMoment
  BY DEF OfMoment
<1> QED BY <1>1, <1>2, <1>3, <1>4 DEF RulesOfOne

\* A check of the moment that ran names instances or the cluster.
LEMMA MomentNamed ==
  ASSUME TypesInv, check.rule \in OfMoment, result.because = ""
  PROVE  NamedResult(result)
<1> DEFINE rule == check.rule
<1>1. result = Evaluate(rule, in)
  BY DEF result
<1>2. CASE rule \in ClusterRules
  <2>1. "cluster" \in Read /\ rule # "scheduleFiring"
    BY <1>2, IsRead DEF ClusterRules
  <2>2. unread(in.cluster) = ""
    BY <1>1, <1>2, ClusterGate
  <2>3. NamesInstances("cluster", in.cluster.facts)
    BY <2>1, <2>2, ContactNamed
  <2> QED BY <1>1, <1>2, <2>3, ClusterNamed DEF NamesInstances
<1>3. CASE rule \in BackupRules
  BY <1>1, <1>3, BackupsNamed
<1>4. CASE rule \in {"EventMatch", "BackupEvent"}
  <2>1. PICK kinds \in {{"Pod"}, {"Backup"}} : result = EventMatch(in, kinds)
    BY <1>1, <1>4 DEF Evaluate
  <2>2. unread(in.events) = ""
    BY <2>1, Gate DEF EventMatch
  <2>3. "events" \in Read
    BY <1>4, IsRead DEF EventRules
  <2>4. NamesInstances("events", in.events.facts)
    BY <1>4, <2>2, <2>3, ContactNamed
  <2>5. in.events.facts.list \in Seq(Emitted)
    BY <2>4 DEF NamesInstances
  <2> QED BY <2>1, <2>5, EventsNamed
<1>5. CASE rule \in {"quotaExhausted", "DeclaredObjectFailed"}
  <2>1. CASE rule = "quotaExhausted"
    <3>1. result = Unless(unread(in.quotas), Matches(in.quotas.facts.exhausted))
      BY <1>1, <2>1 DEF Evaluate, quotaExhausted
    <3>2. NamesInstances("quotas", in.quotas.facts)
      BY <2>1, <3>1, Gate, IsRead, ContactNamed
    <3> QED BY <3>1, <3>2, OnInstances DEF NamesInstances
  <2>2. CASE rule = "DeclaredObjectFailed"
    <3>1. result = Unless(unread(in.databases), Matches(in.databases.facts.refused))
      BY <1>1, <2>2 DEF Evaluate, DeclaredObjectFailed
    <3>2. NamesInstances("databases", in.databases.facts)
      BY <2>2, <3>1, Gate, IsRead, ContactNamed
    <3> QED BY <3>1, <3>2, OnInstances DEF NamesInstances
  <2> QED BY <1>5, <2>1, <2>2
<1>6. CASE rule \in {"imagePull", "PoolerPhase", "PoolerShort"}
  BY <1>1, <1>6, PartsNamed DEF Evaluate
<1>7. CASE rule \in {"volumeBinding", "ContainerState", "RepositoryState", "QuorumStandbysShort",
           "PrimaryLeaseExpired", "PrimaryLeaseHolderMismatch"}
  BY <1>1, <1>7, OthersNamed DEF Evaluate
<1>8. CASE rule \in {"ImageCatalogMissing", "ImageCatalogLacksMajor", "quotaRefusal", "podScheduling"}
  BY <1>1, <1>8, OthersNamed DEF Evaluate
<1>9. CASE rule = "AllOfPodAndPooler"
  BY <1>1, <1>9, PartsNamed, ComposedNamed DEF Evaluate
<1>10. CASE rule = "layer"
  BY <1>1, <1>10, PartsNamed, ComposedNamed DEF Evaluate
<1>11. CASE rule = "AllOfClusterAndPod"
  <2>1. NamedResult(ClusterPhase(in))
    <3>1. NamedResult(OnCluster(in.cluster.facts.phase = "bad"))
      BY ResultsNamed
    <3> QED BY <3>1, ResultsNamed DEF ClusterPhase, OnTheCluster
  <2> QED BY <1>1, <1>11, <2>1, PartsNamed, ComposedNamed DEF Evaluate
<1>12. CASE rule \in {"instanceReady", "writeService", "definitionRefused"}
  BY <1>1, <1>12, AnsweredNamed DEF Evaluate, instanceReady, writeService, definitionRefused
<1>13. CASE rule = "cannotConnect"
  <2>1. PICK u, v, w : cannotConnect(in) = <<u, v, w>>
    BY DEF cannotConnect
  <2>2. result = Walked(<<u, v, w>>)
    BY <1>1, <1>13, <2>1 DEF Evaluate
  <2>3. Walked(<<u, v, w>>).on = IF "found" \in {u, v, w} THEN {Cluster} ELSE {}
    BY WalkIs
  <2>4. result.on = Walked(<<u, v, w>>).on
    BY <2>2
  <2>5. result.on \subseteq {Cluster}
    BY <2>3, <2>4, Zenon
  <2> QED BY <2>5 DEF NamedResult, Subjects
<1> QED BY <1>2, <1>3, <1>4, <1>5, <1>6, <1>7, <1>8, <1>9, <1>10, <1>11, <1>12, <1>13
       DEF OfMoment, OneList, EventRules

\* What a check of the moment finds is there, and where it reads clear nothing is.
LEMMA MomentFound ==
  ASSUME TypesInv, check.rule \in OfMoment
  PROVE  Agrees
<1> DEFINE rule == check.rule
<1>0. result.because # "" => Agrees
  BY ResultFields DEF Agrees
<1>1. CASE rule \in {"layer", "ContainerState"}
  BY <1>0, <1>1, LayerFound, ContainersFound
<1>2. ASSUME rule \notin {"layer", "ContainerState"}, result.because = ""
      PROVE  Finds
  <2>0. Found(in, truth) = result.on => Finds
    BY DEF Finds
  <2>1. CASE rule \in ClusterRules
    BY <1>2, <2>0, <2>1, ClusterFound
  <2>2. CASE rule \in BackupRules \ {"scheduleFiring"}
    BY <1>2, <2>2, BackupsFound
  <2>3. CASE rule = "scheduleFiring"
    BY <1>2, <2>0, <2>3, ScheduleFound
  <2>4. CASE rule \in EventRules
    BY <1>2, <2>4, EventsFound
  <2>5. CASE rule \in OneList
    BY <1>2, <2>5, ListsFound
  <2>6. CASE rule \in {"PrimaryLeaseExpired", "PrimaryLeaseHolderMismatch"}
    BY <1>2, <2>0, <2>6, LeaseFound
  <2>7. CASE rule = "QuorumStandbysShort"
    BY <1>2, <2>0, <2>7, QuorumFound
  <2>8. CASE rule = "RepositoryState"
    BY <1>2, <2>0, <2>8, EvidenceFound
  <2>9. CASE rule \in {"ImageCatalogMissing", "ImageCatalogLacksMajor"}
    BY <1>2, <2>0, <2>9, CatalogsFound
  <2>10. CASE rule = "BackupEvent"
    BY <1>2, <2>10, BackupEventFound
  <2>11. CASE rule \in {"AllOfPodAndPooler", "AllOfClusterAndPod"}
    BY <1>2, <2>11, AllOfFound
  <2>12. CASE rule \in {"instanceReady", "writeService", "definitionRefused"}
    BY <1>2, <2>0, <2>12, StepsFound
  <2>13. CASE rule = "cannotConnect"
    BY <1>2, <2>0, <2>13, WalkFound
  <2> QED BY <1>2, <2>1, <2>2, <2>3, <2>4, <2>5, <2>6, <2>7, <2>8, <2>9, <2>10, <2>11, <2>12, <2>13
          DEF OfMoment
<1>3. result = Clear => result.because = "" /\ result.on = {}
  BY ResultFields
<1>4. CASE rule \notin {"layer", "ContainerState"}
  BY <1>2, <1>3, <1>4 DEF Agrees, Finds
<1> QED BY <1>1, <1>4

\* A check of the moment rules out, and finds, what there is now.
LEMMA MomentLately ==
  ASSUME GhostInv, check.rule \in OfMoment
  PROVE  (result = Clear /\ ~CutShort => CalmLately) /\ (result.because = "" => IllLately)
<1>1. TypesInv /\ Witnessed
  BY DEF GhostInv
<1>2. Agrees
  BY <1>1, MomentFound
<1>3. ASSUME result = Clear, ~CutShort PROVE CalmLately
  <2>1. Found(in, truth) \ Overlooked = {}
    BY <1>2, <1>3 DEF Agrees
  <2> QED BY <1>1, <2>1, KnownCalm
<1>4. ASSUME result.because = "" PROVE IllLately
  <2>1. result.on \subseteq Found(in, truth)
    BY <1>2, <1>4 DEF Agrees
  <2>2. result.on \subseteq Subjects
    BY <1>1, <1>4, MomentNamed DEF NamedResult
  <2> QED BY <1>1, <2>1, <2>2, NowIsRecent DEF IllLately
<1> QED BY <1>3, <1>4

\* What is quoted of the past.
LEMMA PastCalm ==
  ASSUME GhostInv, check.rule \in HistoryRules \cup {"logMatches"}, result = Clear
  PROVE  CalmLately
<1>1. TypesInv /\ Witnessed
  BY DEF GhostInv
<1>2. Found(in, truth) \ Overlooked = {}
  <2>1. CASE check.rule \in HistoryRules
    BY <1>1, <2>1, HistoryFound
  <2>2. CASE check.rule = "logMatches"
    BY <1>1, <2>2, LogsFound
  <2> QED BY <2>1, <2>2
<1> QED BY <1>1, <1>2, KnownCalm

\* A change or an incarnation that is counted is one there was.
LEMMA HistoryLately ==
  ASSUME GhostInv, check.rule \in HistoryRules
  PROVE  IllLately
<1>1. TypesInv /\ Witnessed
  BY DEF GhostInv
<1>2. result.on \subseteq Found(in, truth)
  BY <1>1, HistoryFound
<1>3. \A x : NamedResult(HistoryIncarnations(x)) /\ NamedResult(HistoryChanges(x))
  BY OnInstances DEF HistoryIncarnations, HistoryChanges
<1>4. result.on \subseteq Subjects
  <2>1. result = HistoryIncarnations(in) \/ result = HistoryChanges(in)
    BY DEF result, Evaluate, HistoryRules
  <2> QED BY <1>3, <2>1 DEF NamedResult
<1> QED BY <1>1, <1>2, <1>4, NowIsRecent DEF IllLately

\* The screen is judged by its checks, one by one.
LEMMA ScreenSays == check.rule = "screen" => result.because # "" /\ result # Clear
<1> SUFFICES ASSUME check.rule = "screen" PROVE result.because # "" /\ result # Clear
  OBVIOUS
<1> DEFINE why == "of its checks, one by one"
<1>1. result = Unavailable(why)
  BY DEF result, Evaluate
<1>2. Unavailable(why).because = why /\ Clear.because = ""
  BY ResultFields
<1> QED BY <1>1, <1>2

\* The check's rule is one of them.
LEMMA RuleIs ==
  ASSUME TypesInv
  PROVE  check.rule \in OfMoment \cup ByMetrics \cup ByStatus \cup HistoryRules
             \cup {"InstanceManagerDrift", "poolerUp", "PrimaryDisagreement", "logMatches", "screen"}
<1>1. check.rule \in RulesOfOne \cup RulesOfMany
  BY ReadIs DEF TypesInv, HInv
<1> QED BY <1>1, RulesAre

\* The invariant says what a clear is worth.
LEMMA GhostsClear == GhostInv => ClearIsTrue
<1> SUFFICES ASSUME GhostInv, outcome = "clear", check.rule \notin Quoting \cup Composed, ~CutShort
             PROVE  CalmLately
  BY DEF ClearIsTrue, CalmLately
<1>1. result = Clear
  BY OutcomeIs
<1>2. check.rule \in OfMoment \cup ByMetrics \cup ByStatus \cup HistoryRules
             \cup {"PrimaryDisagreement", "logMatches", "screen"}
  BY RuleIs DEF GhostInv, Composed
<1>3. CASE check.rule \in OfMoment
  BY <1>1, <1>3, MomentLately
<1>4. CASE check.rule \in ByMetrics \ {"SeriesAbove"}
  BY <1>1, <1>4, InstantsLately
<1>5. CASE check.rule = "SeriesAbove"
  BY <1>1, <1>5, SeriesLately
<1>6. CASE check.rule \in ByStatus
  BY <1>1, <1>6, ReportsLately
<1>7. CASE check.rule \in HistoryRules \cup {"logMatches"}
  BY <1>1, <1>7, PastCalm
<1>8. CASE check.rule = "PrimaryDisagreement"
  BY <1>1, <1>8, AgreementLately
<1>9. check.rule # "screen"
  BY <1>1, ScreenSays
<1> QED BY <1>2, <1>3, <1>4, <1>5, <1>6, <1>7, <1>8, <1>9

\* The invariant says what a match is worth.
LEMMA GhostsMatch == GhostInv => MatchIsCurrent
<1> SUFFICES ASSUME GhostInv, outcome = "matched", check.rule \notin Joint \cup Past
             PROVE  IllLately
  BY DEF MatchIsCurrent, IllLately
<1>1. result.because = ""
  BY OutcomeIs
<1>2. check.rule \in OfMoment \cup ByMetrics \cup ByStatus \cup HistoryRules
             \cup {"InstanceManagerDrift", "poolerUp", "screen"}
  BY RuleIs DEF GhostInv, Joint, Past
<1>3. CASE check.rule \in OfMoment
  BY <1>1, <1>3, MomentLately
<1>4. CASE check.rule \in ByMetrics \ {"SeriesAbove"}
  BY <1>1, <1>4, InstantsLately
<1>5. CASE check.rule = "SeriesAbove"
  BY <1>1, <1>5, SeriesLately
<1>6. CASE check.rule \in ByStatus
  BY <1>1, <1>6, ReportsLately
<1>7. CASE check.rule = "poolerUp"
  BY <1>7, PoolerLately
<1>8. CASE check.rule = "InstanceManagerDrift"
  BY <1>1, <1>8, DriftLately
<1>9. CASE check.rule \in HistoryRules
  BY <1>9, HistoryLately
<1>10. check.rule # "screen"
  BY <1>1, ScreenSays
<1> QED BY <1>2, <1>3, <1>4, <1>5, <1>6, <1>7, <1>8, <1>9, <1>10

\* A check that reads clear rules its subjects out (diagnose.Run, the reasons
\* of stale.go): whatever is observed, lost, refused or swept in part, there was
\* nothing to find as recently as its sources were read.  Left out are a list
\* that was cut, and what the code never looked at: an exporter that never
\* answered, pooler pods never listed, lines nobody heard, changes not kept.
THEOREM ClearHolds == Spec => []ClearIsTrue
<1> QED BY GhostInit, GhostNext, GhostsClear, PTL DEF Spec

\* A check that matched found what was there as recently (freshness.current,
\* unread): no stale snapshot and no expired reading matches one.
THEOREM MatchHolds == Spec => []MatchIsCurrent
<1> QED BY GhostInit, GhostNext, GhostsMatch, PTL DEF Spec

-----------------------------------------------------------------------------
(* Incidents: for any findings and any relations, loops included, a finding *)
(* has at most one parent, belongs to exactly one incident, headed by a      *)
(* root, and is shown once, after its cause.                                 *)

\* Findings in a row, each of a severity, with the causes its check declares.
Listed(findings, n) ==
    /\ n \in Nat /\ DOMAIN findings = 1..n
    /\ \A i \in 1..n : findings[i].severity \in Int /\ findings[i].relations \in Relations

\* The order of the candidates is one: relations first, then findings.
LEMMA FirstIsOne ==
  ASSUME NEW c \in Nat \X Nat, NEW d \in Nat \X Nat, notAfter(c, d), notAfter(d, c)
  PROVE  c[2] = d[2]
BY DEF notAfter

\* What admits a finding is a pair of positions.
LEMMA AdmitsArePositions ==
  ASSUME NEW findings, NEW n, Listed(findings, n), NEW i \in DOMAIN findings
  PROVE  \A c \in admits(findings, i) : c \in Nat \X Nat /\ c[2] \in DOMAIN findings \ {i}
<1>1. findings[i].relations \in Relations
  BY DEF Listed
<1>2. DOMAIN findings[i].relations \subseteq Nat /\ DOMAIN findings \subseteq Nat
  BY <1>1 DEF Relations, Listed
<1>3. admits(findings, i) \subseteq (DOMAIN findings[i].relations) \X (DOMAIN findings \ {i})
  BY Zenon DEF admits, candidates
<1> QED BY <1>2, <1>3

\* However many causes a finding's check declares, and whatever the run
\* found of them, the finding is nested beneath at most one other finding
\* (incidents.go, parentOf).
THEOREM OneParent ==
  ASSUME NEW findings, NEW n, Listed(findings, n), NEW i \in DOMAIN findings
  PROVE  /\ parentOf(findings)[i] \subseteq DOMAIN findings \ {i}
         /\ \A j, k \in parentOf(findings)[i] : j = k
<1> DEFINE all == admits(findings, i)
           first == {c \in all : \A d \in all : notAfter(c, d)}
<1>1. parentOf(findings)[i] = {c[2] : c \in first}
  BY Zenon DEF parentOf
<1>2. \A c \in first : c \in all /\ \A d \in all : notAfter(c, d)
  OBVIOUS
<1>3. \A c \in all : c \in Nat \X Nat /\ c[2] \in DOMAIN findings \ {i}
  BY AdmitsArePositions
<1> HIDE DEF all, first
<1>4. \A c, d \in first : c[2] = d[2]
  BY <1>2, <1>3, FirstIsOne
<1> QED BY <1>1, <1>2, <1>3, <1>4

\* The root of a finding heads an incident: it is its own root, and it is
\* the finding itself or what a climb through the causes meets.  The climb
\* is cut short for loops only, where no cause is topmost (rootOf).
LEMMA RootIsARoot ==
  ASSUME NEW parents, NEW i \in DOMAIN parents
  PROVE  /\ rootOf(parents, i) \in Roots(parents)
         /\ rootOf(parents, i) # i =>
               /\ rootOf(parents, i) \in above(parents, i)
               /\ parents[rootOf(parents, i)] = {}
<1> DEFINE tops == {t \in above(parents, i) : parents[t] = {}}
<1>1. CASE parents[i] = {} \/ tops = {}
  BY <1>1 DEF rootOf, Roots
<1>2. CASE ~(parents[i] = {} \/ tops = {})
  <2> DEFINE top == CHOOSE t \in tops : TRUE
  <2>1. top \in tops
    BY <1>2
  <2>2. rootOf(parents, i) = top
    BY <1>2, Zenon DEF rootOf
  <2>3. top \in above(parents, i) /\ parents[top] = {} /\ top \in DOMAIN parents
    BY <2>1 DEF above
  <2>4. rootOf(parents, top) = top
    BY <2>3 DEF rootOf
  <2> HIDE DEF top
  <2> QED BY <2>2, <2>3, <2>4 DEF Roots
<1> QED BY <1>1, <1>2

\* Every finding of a run is in one incident and in no other, whatever loops
\* the declared causes make; an incident holds its root (groupIncidents).
THEOREM EachFindingIsInOneIncident ==
  ASSUME NEW findings, NEW n, Listed(findings, n), NEW i \in DOMAIN findings
  PROVE  LET parents == parentOf(findings) IN
         /\ \E root \in Roots(parents) : i \in Incident(parents, root)
         /\ \A r, q \in Roots(parents) :
               i \in Incident(parents, r) \cap Incident(parents, q) => r = q
         /\ \A r \in Roots(parents) : r \in Incident(parents, r)
<1> DEFINE parents == parentOf(findings)
<1>1. i \in DOMAIN parents
  BY DEF parentOf
<1>2. rootOf(parents, i) \in Roots(parents)
  BY <1>1, RootIsARoot
<1> HIDE DEF parents
<1>3. i \in Incident(parents, rootOf(parents, i))
  BY <1>1 DEF Incident
<1>4. \A r, q \in Roots(parents) :
         i \in Incident(parents, r) \cap Incident(parents, q) => r = q
  BY DEF Incident
<1>5. \A r \in Roots(parents) : r \in Incident(parents, r)
  BY DEF Incident, Roots
<1> QED BY <1>2, <1>3, <1>4, <1>5 DEF parents

\* An order: none comes before itself, what comes before what comes before
\* comes before, and of two one comes before the other.
Ordering(S, before) ==
    /\ before \in [S -> SUBSET S]
    /\ \A x \in S : x \notin before[x]
    /\ \A x, y \in S : y \in before[x] => before[y] \subseteq before[x]
    /\ \A x, y \in S : x = y \/ x \in before[y] \/ y \in before[x]

\* As many come before another as take their turn before it (sort.SliceStable).
LEMMA InTurn ==
  ASSUME NEW S, IsFiniteSet(S), NEW before, Ordering(S, before)
  PROVE  LET turns == inTurn(before) IN
         /\ DOMAIN turns = 1..Cardinality(S) /\ Cardinality(S) \in Nat
         /\ \A k \in DOMAIN turns : turns[k] \in S
         /\ \A x \in S : \E k \in DOMAIN turns : turns[k] = x
         /\ \A k, l \in DOMAIN turns : k < l => turns[k] \in before[turns[l]]
         /\ \A k, l \in DOMAIN turns : turns[k] = turns[l] => k = l
         /\ \A k, l \in DOMAIN turns : turns[k] \in before[turns[l]] => k < l
<1> DEFINE turns == inTurn(before)
           n == Cardinality(S)
           r == [x \in S |-> Cardinality(before[x]) + 1]
<1>1. n \in Nat
  BY FS_CardinalityType
<1>2. ASSUME NEW x \in S PROVE before[x] \in SUBSET S /\ IsFiniteSet(before[x]) /\ Cardinality(before[x]) \in Nat
  <2>1. before[x] \in SUBSET S
    BY DEF Ordering
  <2>2. IsFiniteSet(before[x])
    BY <2>1, FS_Subset
  <2> QED BY <2>1, <2>2, FS_CardinalityType
<1>3. ASSUME NEW x \in S, NEW y \in before[x] PROVE y \in S /\ r[y] < r[x]
  <2>1. y \in S
    BY <1>2
  <2>2. before[y] \subseteq before[x] /\ before[y] # before[x]
    BY <2>1, <1>3 DEF Ordering
  <2>3. Cardinality(before[y]) <= Cardinality(before[x]) /\ Cardinality(before[y]) # Cardinality(before[x])
    BY <2>2, <1>2, FS_Subset
  <2>4. Cardinality(before[y]) \in Nat /\ Cardinality(before[x]) \in Nat
    BY <1>2, <2>1
  <2> QED BY <2>1, <2>3, <2>4
<1>4. ASSUME NEW x \in S PROVE r[x] \in 1..n
  <2>1. before[x] \subseteq S \ {x} /\ before[x] # S
    BY <1>2 DEF Ordering
  <2>2. Cardinality(before[x]) <= n /\ n # Cardinality(before[x])
    BY <2>1, FS_Subset
  <2>3. Cardinality(before[x]) \in Nat
    BY <1>2
  <2> QED BY <1>1, <2>2, <2>3
<1>5. ASSUME NEW x \in S, NEW y \in S, r[x] = r[y] PROVE x = y
  <2>1. r[x] \in Int /\ r[y] \in Int
    BY <1>4
  <2>2. x = y \/ r[x] < r[y] \/ r[y] < r[x]
    BY <1>3 DEF Ordering
  <2> HIDE DEF r
  <2> QED BY <2>1, <2>2, <1>5
<1>6. r \in Injection(S, 1..n)
  <2>1. r \in [S -> 1..n]
    BY <1>4
  <2>2. IsInjective(r)
    BY <1>5, <2>1 DEF IsInjective
  <2> HIDE DEF r
  <2> QED BY <2>1, <2>2 DEF Injection
<1>7. ASSUME NEW k \in 1..n PROVE \E x \in S : r[x] = k
  <2>1. IsFiniteSet(1..n) /\ Cardinality(1..n) = n
    BY <1>1, FS_Interval
  <2>2. r \in Surjection(S, 1..n)
    <3> HIDE DEF r
    <3> QED BY <1>6, <2>1, FS_Injection
  <2> HIDE DEF r
  <2> QED BY <2>2 DEF Surjection
<1>8. DOMAIN before = S
  BY DEF Ordering
<1>9. turns = [k \in 1..Cardinality(DOMAIN before) |->
                  CHOOSE x \in DOMAIN before : Cardinality(before[x]) = k - 1]
  BY Zenon DEF inTurn
<1>10. ASSUME NEW k \in 1..n PROVE turns[k] \in S /\ r[turns[k]] = k
  <2>1. turns[k] = CHOOSE x \in DOMAIN before : Cardinality(before[x]) = k - 1
    BY <1>8, <1>9
  <2>2. PICK x \in S : r[x] = k
    BY <1>7
  <2>3. Cardinality(before[x]) = k - 1
    BY <2>2, <1>2
  <2>4. turns[k] \in S /\ Cardinality(before[turns[k]]) = k - 1
    BY <1>8, <2>1, <2>3
  <2> HIDE DEF turns
  <2> QED BY <2>4
<1>11. DOMAIN turns = 1..n
  BY <1>8, <1>9
<1> HIDE DEF turns, n, r
<1>12. \A x \in S : \E k \in 1..n : turns[k] = x
  BY <1>4, <1>5, <1>10
<1>13. \A k, l \in 1..n : turns[k] = turns[l] => k = l
  BY <1>10
<1>14. \A k, l \in 1..n : turns[k] \in before[turns[l]] => k < l
  BY <1>3, <1>10
<1>15. ASSUME NEW k \in 1..n, NEW l \in 1..n, k < l PROVE turns[k] \in before[turns[l]]
  <2>1. turns[k] = turns[l] \/ turns[k] \in before[turns[l]] \/ turns[l] \in before[turns[k]]
    BY <1>10 DEF Ordering
  <2>2. k \in Int /\ l \in Int
    BY <1>1, <1>15 DEF n
  <2> QED BY <2>1, <2>2, <1>13, <1>14, <1>15
<1> QED BY <1>1, <1>10, <1>11, <1>12, <1>13, <1>14, <1>15 DEF turns, n

\* Each beneath at most one other.
Nested(parents) ==
    \A i \in DOMAIN parents :
        /\ parents[i] \subseteq DOMAIN parents
        /\ \A j, k \in parents[i] : j = k

\* What a climb meets holds the causes of what it meets, and no more.
LEMMA ClimbIs ==
  ASSUME NEW parents, Nested(parents), NEW i \in DOMAIN parents
  PROVE  /\ above(parents, i) \subseteq DOMAIN parents
         /\ parents[i] \subseteq above(parents, i)
         /\ closed(parents, above(parents, i))
         /\ \A S \in SUBSET DOMAIN parents :
               parents[i] \subseteq S /\ closed(parents, S) => above(parents, i) \subseteq S
<1>1. above(parents, i) \subseteq DOMAIN parents
  BY DEF above
<1>2. parents[i] \subseteq above(parents, i)
  BY DEF above, Nested
<1>3. \A S \in SUBSET DOMAIN parents :
         parents[i] \subseteq S /\ closed(parents, S) => above(parents, i) \subseteq S
  BY DEF above
<1>4. ASSUME NEW k \in above(parents, i), NEW j \in parents[k] PROVE j \in above(parents, i)
  <2>1. j \in DOMAIN parents
    BY <1>1, <1>4 DEF Nested
  <2>2. ASSUME NEW S \in SUBSET DOMAIN parents, parents[i] \subseteq S, closed(parents, S) PROVE j \in S
    <3>1. k \in S
      BY <1>3, <1>4, <2>2
    <3> QED BY <1>4, <2>2, <3>1 DEF closed
  <2> QED BY <2>1, <2>2 DEF above
<1>5. closed(parents, above(parents, i))
  BY <1>4 DEF closed
<1> QED BY <1>1, <1>2, <1>3, <1>5

\* A climb meets nothing, or the cause and what the climb from it meets.
LEMMA ClimbBegins ==
  ASSUME NEW parents, Nested(parents), NEW i \in DOMAIN parents
  PROVE  /\ parents[i] = {} => above(parents, i) = {}
         /\ \A p \in parents[i] :
               p \in DOMAIN parents /\ above(parents, i) = {p} \cup above(parents, p)
<1>1. ASSUME parents[i] = {} PROVE above(parents, i) = {}
  <2>1. closed(parents, {})
    BY DEF closed
  <2> QED BY <1>1, <2>1, ClimbIs
<1>2. ASSUME NEW p \in parents[i] PROVE p \in DOMAIN parents /\ above(parents, i) = {p} \cup above(parents, p)
  <2>1. p \in DOMAIN parents /\ parents[i] = {p}
    BY <1>2 DEF Nested
  <2>2. above(parents, p) \subseteq DOMAIN parents /\ parents[p] \subseteq above(parents, p)
        /\ closed(parents, above(parents, p))
    BY <2>1, ClimbIs
  <2>3. closed(parents, {p} \cup above(parents, p))
    BY <2>2 DEF closed
  <2>4. above(parents, i) \subseteq {p} \cup above(parents, p)
    BY <2>1, <2>2, <2>3, ClimbIs
  <2>5. p \in above(parents, i) /\ above(parents, i) \subseteq DOMAIN parents /\ closed(parents, above(parents, i))
    BY <1>2, ClimbIs
  <2>6. parents[p] \subseteq above(parents, i)
    BY <2>5 DEF closed
  <2>7. above(parents, p) \subseteq above(parents, i)
    BY <2>1, <2>5, <2>6, ClimbIs
  <2> QED BY <2>1, <2>4, <2>5, <2>7
<1> QED BY <1>1, <1>2

Tops(parents, i) == {t \in above(parents, i) : parents[t] = {}}

\* Where a climb ends it passes through: all it meets climbs there, what it
\* starts from is not met again.
LEMMA ClimbEnds ==
  ASSUME NEW parents, Nested(parents), NEW i \in DOMAIN parents, NEW t \in Tops(parents, i)
  PROVE  /\ \A k \in above(parents, i) : k = t \/ t \in above(parents, k)
         /\ i \notin above(parents, i)
         /\ Tops(parents, i) = {t}
<1>1. t \in above(parents, i) /\ parents[t] = {} /\ t \in DOMAIN parents /\ above(parents, t) = {}
  BY ClimbIs, ClimbBegins DEF Tops
<1>2. PICK p : p \in parents[i]
  BY <1>1, ClimbBegins
<1>3. p \in DOMAIN parents /\ parents[i] = {p} /\ above(parents, i) = {p} \cup above(parents, p)
  BY <1>2, ClimbBegins DEF Nested
<1>4. \A k \in above(parents, i) : k = t \/ t \in above(parents, k)
  <2> DEFINE S == {k \in DOMAIN parents : k = t \/ t \in above(parents, k)}
  <2>1. p \in S
    BY <1>1, <1>3
  <2>2. ASSUME NEW k \in S, NEW q \in parents[k] PROVE q \in S
    <3>1. t \in above(parents, k)
      BY <1>1, <2>2
    <3>2. q \in DOMAIN parents /\ above(parents, k) = {q} \cup above(parents, q)
      BY <2>2, ClimbBegins
    <3> QED BY <3>1, <3>2
  <2>3. closed(parents, S) /\ S \in SUBSET DOMAIN parents
    BY <2>2 DEF closed
  <2> HIDE DEF S
  <2>4. above(parents, i) \subseteq S
    BY <1>3, <2>1, <2>3, ClimbIs
  <2> QED BY <2>4 DEF S
<1>5. ASSUME i \in above(parents, i) PROVE FALSE
  <2> DEFINE S == {k \in DOMAIN parents : i \in above(parents, k)}
  <2>1. p \in S
    BY <1>3, <1>5
  <2>2. ASSUME NEW k \in S, NEW q \in parents[k] PROVE q \in S
    <3>1. q \in DOMAIN parents /\ above(parents, k) = {q} \cup above(parents, q)
      BY <2>2, ClimbBegins
    <3>2. i = q \/ i \in above(parents, q)
      BY <2>2, <3>1
    <3> QED BY <3>1, <3>2, <1>5
  <2>3. closed(parents, S) /\ S \in SUBSET DOMAIN parents
    BY <2>2 DEF closed
  <2> HIDE DEF S
  <2>4. above(parents, i) \subseteq S
    BY <1>3, <2>1, <2>3, ClimbIs
  <2>5. i \in above(parents, t)
    BY <1>1, <2>4 DEF S
  <2> QED BY <1>1, <2>5
<1>6. ASSUME NEW u \in Tops(parents, i) PROVE u = t
  <2>1. u \in above(parents, i) /\ parents[u] = {} /\ u \in DOMAIN parents
    BY <1>6, ClimbIs DEF Tops
  <2>2. above(parents, u) = {}
    BY <2>1, ClimbBegins
  <2> QED BY <1>4, <2>1, <2>2
<1> QED BY <1>4, <1>5, <1>6

\* A finding that is not its own root: its cause has the same root, and is
\* less deep.
LEMMA CauseIsAbove ==
  ASSUME NEW parents, Nested(parents), IsFiniteSet(DOMAIN parents),
         NEW i \in DOMAIN parents, rootOf(parents, i) # i
  PROVE  /\ \E p \in DOMAIN parents : /\ parents[i] = {p}
                                      /\ rootOf(parents, p) = rootOf(parents, i)
                                      /\ depth(parents, p) < depth(parents, i)
         /\ depth(parents, i) > 0
<1>1. parents[i] # {} /\ Tops(parents, i) # {}
  BY DEF rootOf, Tops
<1>2. PICK t : t \in Tops(parents, i)
  BY <1>1
<1>3. Tops(parents, i) = {t} /\ i \notin above(parents, i)
  BY <1>2, ClimbEnds
<1>4. rootOf(parents, i) = t
  <2>1. rootOf(parents, i) = CHOOSE u \in Tops(parents, i) : TRUE
    BY <1>1, Zenon DEF rootOf, Tops
  <2> QED BY <1>1, <1>3, <2>1
<1>5. t \in above(parents, i) /\ parents[t] = {}
  BY <1>2 DEF Tops
<1>6. PICK p : p \in parents[i]
  BY <1>1
<1>7. p \in DOMAIN parents /\ parents[i] = {p} /\ above(parents, i) = {p} \cup above(parents, p)
  BY <1>6, ClimbBegins DEF Nested
<1>8. IsFiniteSet(above(parents, i)) /\ above(parents, p) \subseteq above(parents, i)
  <2>1. above(parents, i) \in SUBSET DOMAIN parents
    BY ClimbIs
  <2>2. IsFiniteSet(above(parents, i))
    BY <2>1, FS_Subset
  <2> QED BY <2>2, <1>7
<1>9. IsFiniteSet(above(parents, p))
  BY <1>8, FS_Subset
<1>10. Cardinality(above(parents, i)) \in Nat /\ Cardinality(above(parents, p)) \in Nat
  BY <1>8, <1>9, FS_CardinalityType
<1>11. depth(parents, i) = Cardinality(above(parents, i))
  BY DEF depth
<1>12. Cardinality(above(parents, i)) # 0
  BY <1>5, <1>8, FS_EmptySet
<1>13. depth(parents, i) > 0
  BY <1>10, <1>11, <1>12
<1>14. CASE parents[p] = {}
  <2>1. above(parents, p) = {}
    BY <1>7, <1>14, ClimbBegins
  <2>2. p = t
    BY <1>5, <1>7, <2>1
  <2>3. rootOf(parents, p) = p
    BY <1>14 DEF rootOf
  <2>4. depth(parents, p) = 0
    BY <2>3 DEF depth
  <2> QED BY <1>4, <1>7, <1>13, <2>2, <2>3, <2>4
<1>15. CASE parents[p] # {}
  <2>1. t \in above(parents, p)
    BY <1>5, <1>7, <1>15
  <2>2. t \in Tops(parents, p)
    BY <1>5, <2>1 DEF Tops
  <2>3. Tops(parents, p) = {t} /\ p \notin above(parents, p)
    BY <1>7, <2>2, ClimbEnds
  <2>4. rootOf(parents, p) = t
    <3>1. rootOf(parents, p) = CHOOSE u \in Tops(parents, p) : TRUE
      BY <1>15, <2>3, Zenon DEF rootOf, Tops
    <3> QED BY <2>3, <3>1
  <2>5. rootOf(parents, p) # p
    BY <1>5, <1>15, <2>4
  <2>6. depth(parents, p) = Cardinality(above(parents, p))
    BY <2>5 DEF depth
  <2>7. above(parents, p) # above(parents, i)
    BY <1>7, <2>3
  <2>8. Cardinality(above(parents, p)) <= Cardinality(above(parents, i))
        /\ Cardinality(above(parents, p)) # Cardinality(above(parents, i))
    BY <1>8, <2>7, FS_Subset
  <2>9. depth(parents, p) < depth(parents, i)
    BY <1>10, <1>11, <2>6, <2>8
  <2> QED BY <1>4, <1>7, <1>13, <2>4, <2>9
<1> QED BY <1>14, <1>15

\* Depths are numbers, and a root's is none.
LEMMA DepthIs ==
  ASSUME NEW parents, Nested(parents), IsFiniteSet(DOMAIN parents), NEW i \in DOMAIN parents
  PROVE  depth(parents, i) \in Nat /\ (rootOf(parents, i) = i => depth(parents, i) = 0)
<1>1. above(parents, i) \in SUBSET DOMAIN parents
  BY ClimbIs
<1>2. IsFiniteSet(above(parents, i))
  BY <1>1, FS_Subset
<1>3. Cardinality(above(parents, i)) \in Nat
  BY <1>2, FS_CardinalityType
<1> QED BY <1>3 DEF depth

Deeper(parents, root) ==
    LET members == Incident(parents, root) IN
    [i \in members |-> {j \in members :
        \/ depth(parents, j) < depth(parents, i)
        \/ depth(parents, j) = depth(parents, i) /\ j < i}]

\* Numbered parts, by a number each: a part of numbers is in order.
LEMMA LexOrders ==
  ASSUME NEW S, S \subseteq Nat, NEW rank, \A i \in S : rank[i] \in Int, NEW before,
         before = [i \in S |-> {j \in S : rank[j] < rank[i] \/ (rank[j] = rank[i] /\ j < i)}]
  PROVE  Ordering(S, before)
<1>1. \A i \in S : before[i] = {j \in S : rank[j] < rank[i] \/ (rank[j] = rank[i] /\ j < i)}
  OBVIOUS
<1>2. before \in [S -> SUBSET S]
  OBVIOUS
<1>3. \A x \in S : x \notin before[x]
  BY <1>1
<1>4. ASSUME NEW x \in S, NEW y \in S, y \in before[x] PROVE before[y] \subseteq before[x]
  <2> SUFFICES ASSUME NEW z \in before[y] PROVE z \in before[x]
    OBVIOUS
  <2>1. z \in S /\ (rank[z] < rank[y] \/ (rank[z] = rank[y] /\ z < y))
    BY <1>1
  <2>2. rank[y] < rank[x] \/ (rank[y] = rank[x] /\ y < x)
    BY <1>1, <1>4
  <2>3. rank[x] \in Int /\ rank[y] \in Int /\ rank[z] \in Int /\ x \in Int /\ y \in Int /\ z \in Int
    BY <2>1
  <2>4. rank[z] < rank[x] \/ (rank[z] = rank[x] /\ z < x)
    BY <2>1, <2>2, <2>3
  <2> QED BY <1>1, <2>1, <2>4
<1>5. ASSUME NEW x \in S, NEW y \in S PROVE x = y \/ x \in before[y] \/ y \in before[x]
  BY <1>1
<1> QED BY <1>2, <1>3, <1>4, <1>5 DEF Ordering

\* A card: its members once each, the root first, a consequence after its cause.
LEMMA CardIs ==
  ASSUME NEW parents, NEW n \in Nat, DOMAIN parents = 1..n, Nested(parents), NEW root \in Roots(parents)
  PROVE  LET one == card(parents, root) IN
         /\ DOMAIN one \subseteq Nat \ {0}
         /\ {one[k] : k \in DOMAIN one} = Incident(parents, root)
         /\ \A k, l \in DOMAIN one : one[k] = one[l] => k = l
         /\ \A k \in DOMAIN one : k > 1 => \E j \in 1..(k - 1) : parents[one[k]] = {one[j]}
<1> DEFINE members == Incident(parents, root)
           rank == [i \in members |-> depth(parents, i)]
           before == Deeper(parents, root)
           one == card(parents, root)
<1>1. members \subseteq DOMAIN parents /\ members \subseteq Nat /\ root \in members
  BY DEF Incident, Roots
<1>2. IsFiniteSet(DOMAIN parents) /\ IsFiniteSet(members)
  <2>1. IsFiniteSet(DOMAIN parents)
    BY FS_Interval
  <2> HIDE DEF members
  <2> QED BY <2>1, <1>1, FS_Subset
<1>3. \A i \in members : depth(parents, i) \in Nat /\ rank[i] = depth(parents, i)
  BY <1>1, <1>2, DepthIs
<1>4. Ordering(members, before)
  <2>1. before = [i \in members |-> {j \in members : rank[j] < rank[i] \/ (rank[j] = rank[i] /\ j < i)}]
    BY DEF Deeper
  <2>2. \A i \in members : rank[i] \in Int
    BY <1>3
  <2> HIDE DEF members, rank, before
  <2> QED BY <1>1, <2>1, <2>2, LexOrders
<1>5. \A i \in members : \A j \in before[i] : depth(parents, j) <= depth(parents, i)
  BY <1>3 DEF Deeper
<1>6. one = inTurn(before)
  BY Zenon DEF card, Deeper
<1> HIDE DEF members, rank, before, one
<1>7. /\ DOMAIN one = 1..Cardinality(members) /\ Cardinality(members) \in Nat
      /\ \A k \in DOMAIN one : one[k] \in members
      /\ \A x \in members : \E k \in DOMAIN one : one[k] = x
      /\ \A k, l \in DOMAIN one : k < l => one[k] \in before[one[l]]
      /\ \A k, l \in DOMAIN one : one[k] = one[l] => k = l
      /\ \A k, l \in DOMAIN one : one[k] \in before[one[l]] => k < l
  BY <1>2, <1>4, <1>6, InTurn
<1>8. \A i \in members : rootOf(parents, i) = root
  BY DEF members, Incident
<1>9. ASSUME NEW k \in DOMAIN one, k > 1 PROVE \E j \in 1..(k - 1) : parents[one[k]] = {one[j]}
  <2>1. 1 \in DOMAIN one /\ k \in Nat
    BY <1>7, <1>9
  <2>2. one[1] \in members /\ one[k] \in members /\ one[1] # one[k]
    BY <1>7, <1>9, <2>1
  <2>3. one[k] # root
    <3> SUFFICES ASSUME one[k] = root PROVE FALSE
      OBVIOUS
    <3>1. depth(parents, one[1]) <= depth(parents, root)
      BY <1>5, <1>7, <1>9, <2>1, <2>2
    <3>2. rootOf(parents, root) = root
      BY <1>1, <1>8
    <3>3. depth(parents, root) = 0
      BY <1>1, <1>2, <3>2, DepthIs
    <3>4. rootOf(parents, one[1]) # one[1]
      BY <1>8, <2>2
    <3>5. depth(parents, one[1]) > 0
      BY <1>1, <1>2, <2>2, <3>4, CauseIsAbove
    <3>6. depth(parents, one[1]) \in Nat
      BY <1>3, <2>2
    <3> QED BY <3>1, <3>3, <3>5, <3>6
  <2>4. rootOf(parents, one[k]) # one[k]
    BY <1>8, <2>2, <2>3
  <2>5. PICK p \in DOMAIN parents : /\ parents[one[k]] = {p}
                                    /\ rootOf(parents, p) = rootOf(parents, one[k])
                                    /\ depth(parents, p) < depth(parents, one[k])
    BY <1>1, <1>2, <2>2, <2>4, CauseIsAbove
  <2>6. p \in members
    BY <1>8, <2>2, <2>5 DEF members, Incident
  <2>7. PICK j \in DOMAIN one : one[j] = p
    BY <1>7, <2>6
  <2>8. depth(parents, p) \in Nat /\ depth(parents, one[k]) \in Nat
    BY <1>3, <2>2, <2>6
  <2>9. j # k /\ ~(k < j)
    <3>1. j # k
      BY <2>5, <2>7, <2>8
    <3>2. ASSUME k < j PROVE FALSE
      <4>1. one[k] \in before[p]
        BY <1>7, <2>7, <3>2
      <4>2. depth(parents, one[k]) <= depth(parents, p)
        BY <1>5, <2>6, <4>1
      <4> QED BY <2>5, <2>8, <4>2
    <3> QED BY <3>1, <3>2
  <2>10. j \in 1..(k - 1)
    BY <1>7, <2>1, <2>9
  <2> QED BY <2>5, <2>7, <2>10
<1>10. {one[k] : k \in DOMAIN one} = members
  BY <1>7
<1>11. DOMAIN one \subseteq Nat \ {0}
  BY <1>7
<1> QED BY <1>7, <1>9, <1>10, <1>11 DEF one, members

\* Of some numbered parts one is as bad as any.
LEMMA WorstIs ==
  ASSUME NEW findings, NEW n \in Nat, DOMAIN findings = 1..n,
         \A i \in 1..n : findings[i].severity \in Int,
         NEW incident \in SUBSET (1..n), incident # {}
  PROVE  worst(findings, incident) \in Int
<1> DEFINE severe == [i \in incident |-> findings[i].severity]
           worse(i) == {j \in incident : severe[j] > severe[i]}
           T == {Cardinality(worse(i)) : i \in incident}
<1>1. IsFiniteSet(incident)
  <2>1. IsFiniteSet(1..n)
    BY FS_Interval
  <2> QED BY <2>1, FS_Subset
<1>2. \A i \in incident : severe[i] \in Int /\ severe[i] = findings[i].severity
  OBVIOUS
<1>3. \A i \in incident : IsFiniteSet(worse(i)) /\ Cardinality(worse(i)) \in Nat
  <2> SUFFICES ASSUME NEW i \in incident PROVE IsFiniteSet(worse(i)) /\ Cardinality(worse(i)) \in Nat
    OBVIOUS
  <2>1. worse(i) \in SUBSET incident
    OBVIOUS
  <2> HIDE DEF worse
  <2>2. IsFiniteSet(worse(i))
    BY <1>1, <2>1, FS_Subset
  <2> QED BY <2>2, FS_CardinalityType
<1>4. \E c \in T : \A d \in T : ~(d < c)
  <2>1. T \subseteq Nat /\ T # {}
    BY <1>3
  <2> HIDE DEF T
  <2> QED BY <2>1, Least
<1>5. PICK i \in incident : \A j \in incident : Cardinality(worse(i)) <= Cardinality(worse(j))
  <2>1. PICK c \in T : \A d \in T : ~(d < c)
    BY <1>4
  <2>2. PICK i \in incident : c = Cardinality(worse(i))
    BY <2>1
  <2>3. ASSUME NEW j \in incident PROVE Cardinality(worse(i)) <= Cardinality(worse(j))
    <3>1. Cardinality(worse(j)) \in T
      OBVIOUS
    <3>2. ~(Cardinality(worse(j)) < Cardinality(worse(i)))
      BY <2>1, <2>2, <3>1
    <3>3. Cardinality(worse(j)) \in Nat /\ Cardinality(worse(i)) \in Nat
      BY <1>3
    <3> HIDE DEF worse
    <3> QED BY <3>2, <3>3
  <2> QED BY <2>3
<1>6. ASSUME NEW j \in incident, severe[j] > severe[i] PROVE FALSE
  <2>1. worse(j) \subseteq worse(i) /\ j \in worse(i) /\ j \notin worse(j)
    <3>1. j \in worse(i)
      BY <1>6
    <3>2. j \notin worse(j)
      BY <1>2
    <3>3. ASSUME NEW k \in incident, severe[k] > severe[j] PROVE severe[k] > severe[i]
      <4>1. severe[k] \in Int /\ severe[j] \in Int /\ severe[i] \in Int
        BY <1>2
      <4> HIDE DEF severe
      <4> QED BY <4>1, <3>3, <1>6
    <3> HIDE DEF severe
    <3> QED BY <3>1, <3>2, <3>3
  <2>2. IsFiniteSet(worse(i)) /\ Cardinality(worse(i)) \in Nat /\ Cardinality(worse(j)) \in Nat
        /\ Cardinality(worse(i)) <= Cardinality(worse(j))
    BY <1>3, <1>5
  <2> HIDE DEF worse
  <2>3. Cardinality(worse(j)) <= Cardinality(worse(i)) /\ Cardinality(worse(i)) # Cardinality(worse(j))
    BY <2>1, <2>2, FS_Subset
  <2> QED BY <2>2, <2>3
<1>7. \A j \in incident : severe[j] <= severe[i]
  BY <1>2, <1>6
<1>8. \E s \in {findings[j].severity : j \in incident} : \A j \in incident : findings[j].severity <= s
  BY <1>2, <1>7
<1>9. worst(findings, incident) \in {findings[j].severity : j \in incident}
  BY <1>8 DEF worst
<1> QED BY <1>9

\* The cards: the incidents once each, none above a worse one.
LEMMA CardsAre ==
  ASSUME NEW findings, NEW n \in Nat, DOMAIN findings = 1..n,
         \A i \in 1..n : findings[i].severity \in Int
  PROVE  LET parents == parentOf(findings)
             shown == cards(findings) IN
         \E roots : /\ DOMAIN shown = DOMAIN roots /\ DOMAIN roots \subseteq Nat
                    /\ \A c \in DOMAIN roots : roots[c] \in Roots(parents) /\ shown[c] = card(parents, roots[c])
                    /\ \A r \in Roots(parents) : \E c \in DOMAIN roots : roots[c] = r
                    /\ \A c, d \in DOMAIN roots : roots[c] = roots[d] => c = d
                    /\ \A c, d \in DOMAIN roots : c < d =>
                          worst(findings, Incident(parents, roots[c])) >= worst(findings, Incident(parents, roots[d]))
<1> DEFINE parents == parentOf(findings)
           of == [r \in Roots(parents) |-> worst(findings, Incident(parents, r))]
           before == [r \in Roots(parents) |-> {q \in Roots(parents) : of[q] > of[r] \/ (of[q] = of[r] /\ q < r)}]
           S == Roots(parents)
           shown == cards(findings)
           roots == inTurn(before)
<1>1. DOMAIN parents = 1..n
  BY DEF parentOf
<1>2. S \subseteq 1..n /\ \A r \in S : r \in Incident(parents, r) /\ Incident(parents, r) \in SUBSET (1..n)
  <2> HIDE DEF parents
  <2> QED BY <1>1 DEF Roots, Incident
<1>3. \A r \in S : of[r] \in Int /\ of[r] = worst(findings, Incident(parents, r))
  <2> SUFFICES ASSUME NEW r \in S PROVE worst(findings, Incident(parents, r)) \in Int
    OBVIOUS
  <2>1. PICK incident : incident = Incident(parents, r)
    OBVIOUS
  <2>2. incident \in SUBSET (1..n) /\ incident # {}
    BY <1>2, <2>1
  <2>3. worst(findings, incident) \in Int
    BY <2>2, WorstIs
  <2> QED BY <2>1, <2>3
<1>4. IsFiniteSet(S)
  <2>1. IsFiniteSet(1..n)
    BY FS_Interval
  <2> HIDE DEF S
  <2> QED BY <1>2, <2>1, FS_Subset
<1>5. before = [r \in S |-> {q \in S : of[q] > of[r] \/ (of[q] = of[r] /\ q < r)}]
  OBVIOUS
<1>6. shown = [c \in DOMAIN roots |-> card(parents, roots[c])]
  <2>1. before = [r \in Roots(parents) |-> {q \in Roots(parents) :
                    \/ worst(findings, Incident(parents, q)) > worst(findings, Incident(parents, r))
                    \/ /\ worst(findings, Incident(parents, q)) = worst(findings, Incident(parents, r))
                       /\ q < r}]
    <3> HIDE DEF parents, before
    <3> QED BY <1>3, <1>5
  <2> QED BY <2>1, Zenon DEF cards
<1> HIDE DEF of, before, S, shown, roots
<1>7. Ordering(S, before)
  <2> DEFINE rank == [r \in S |-> -of[r]]
  <2>1. \A r \in S : rank[r] \in Int
    BY <1>3
  <2>2. before = [r \in S |-> {q \in S : rank[q] < rank[r] \/ (rank[q] = rank[r] /\ q < r)}]
    <3>1. ASSUME NEW r \in S, NEW q \in S
          PROVE (rank[q] < rank[r] \/ (rank[q] = rank[r] /\ q < r)) <=> (of[q] > of[r] \/ (of[q] = of[r] /\ q < r))
      BY <1>3
    <3> HIDE DEF rank
    <3> QED BY <1>5, <3>1
  <2>3. S \subseteq Nat
    BY <1>2
  <2> HIDE DEF rank
  <2> QED BY <2>1, <2>2, <2>3, LexOrders
<1>8. /\ DOMAIN roots = 1..Cardinality(S) /\ Cardinality(S) \in Nat
      /\ \A c \in DOMAIN roots : roots[c] \in S
      /\ \A r \in S : \E c \in DOMAIN roots : roots[c] = r
      /\ \A c, d \in DOMAIN roots : c < d => roots[c] \in before[roots[d]]
      /\ \A c, d \in DOMAIN roots : roots[c] = roots[d] => c = d
  BY <1>4, <1>7, InTurn DEF roots
<1>9. \A r \in S : \A q \in before[r] : of[q] >= of[r]
  BY <1>3, <1>5
<1>10. ASSUME NEW c \in DOMAIN roots, NEW d \in DOMAIN roots, c < d
       PROVE worst(findings, Incident(parents, roots[c])) >= worst(findings, Incident(parents, roots[d]))
  <2>1. roots[c] \in S /\ roots[d] \in S /\ roots[c] \in before[roots[d]]
    BY <1>8, <1>10
  <2>2. of[roots[c]] >= of[roots[d]]
    BY <1>9, <2>1
  <2> QED BY <1>3, <2>1, <2>2
<1>11. DOMAIN roots \subseteq Nat /\ DOMAIN shown = DOMAIN roots
  BY <1>6, <1>8
<1>12. \A c \in DOMAIN roots : shown[c] = card(parents, roots[c])
  BY <1>6
<1> HIDE DEF parents
<1>13. /\ DOMAIN shown = DOMAIN roots /\ DOMAIN roots \subseteq Nat
       /\ \A c \in DOMAIN roots : roots[c] \in Roots(parents) /\ shown[c] = card(parents, roots[c])
       /\ \A r \in Roots(parents) : \E c \in DOMAIN roots : roots[c] = r
       /\ \A c, d \in DOMAIN roots : roots[c] = roots[d] => c = d
       /\ \A c, d \in DOMAIN roots : c < d =>
             worst(findings, Incident(parents, roots[c])) >= worst(findings, Incident(parents, roots[d]))
  BY <1>8, <1>10, <1>11, <1>12 DEF S
<1> QED BY <1>13 DEF parents, shown

\* So the causes are nested.
LEMMA ParentsNest ==
  ASSUME NEW findings, NEW n, Listed(findings, n)
  PROVE  Nested(parentOf(findings)) /\ DOMAIN parentOf(findings) = 1..n
<1> DEFINE parents == parentOf(findings)
<1>1. DOMAIN parents = DOMAIN findings
  BY DEF parentOf
<1>2. ASSUME NEW i \in DOMAIN findings
      PROVE  parents[i] \subseteq DOMAIN findings \ {i} /\ \A j, k \in parents[i] : j = k
  BY <1>2, OneParent
<1> HIDE DEF parents
<1>3. Nested(parents) /\ DOMAIN parents = 1..n
  BY <1>1, <1>2 DEF Nested, Listed
<1> QED BY <1>3 DEF parents

\* A finding's place is where its incident is, and its turn in it.
LEMMA PlacesAre ==
  ASSUME NEW shown, NEW i,
         NEW c \in DOMAIN shown, NEW k \in DOMAIN shown[c], shown[c][k] = i,
         \A d \in DOMAIN shown : \A l \in DOMAIN shown[d] : shown[d][l] = i => d = c /\ l = k
  PROVE  Cardinality(places(shown, i)) = 1
<1>1. <<c, k>> \in places(shown, i)
  BY DEF places
<1>2. \A p \in places(shown, i) : p = <<c, k>>
  BY DEF places
<1>3. places(shown, i) = {<<c, k>>}
  BY <1>1, <1>2
<1>4. Cardinality({<<c, k>>}) = 1
  BY FS_Singleton
<1> QED BY <1>3, <1>4

\* The cards of any findings, with whatever causes their checks declare: each
\* finding is shown once, a consequence after its cause and in its card, no
\* card above a worse one (groupIncidents).
THEOREM CardsShowEachOnce ==
  ASSUME NEW findings, NEW n, Listed(findings, n)
  PROVE  /\ EachOnce(findings, cards(findings))
         /\ CauseFirst(parentOf(findings), cards(findings))
         /\ WorstFirst(findings, cards(findings))
<1> DEFINE parents == parentOf(findings)
           shown == cards(findings)
<1>1. Nested(parents) /\ DOMAIN parents = 1..n /\ n \in Nat /\ DOMAIN findings = 1..n
  BY ParentsNest DEF Listed
<1>2. PICK roots : /\ DOMAIN shown = DOMAIN roots /\ DOMAIN roots \subseteq Nat
                   /\ \A c \in DOMAIN roots : roots[c] \in Roots(parents) /\ shown[c] = card(parents, roots[c])
                   /\ \A r \in Roots(parents) : \E c \in DOMAIN roots : roots[c] = r
                   /\ \A c, d \in DOMAIN roots : roots[c] = roots[d] => c = d
                   /\ \A c, d \in DOMAIN roots : c < d =>
                         worst(findings, Incident(parents, roots[c])) >= worst(findings, Incident(parents, roots[d]))
  BY CardsAre DEF Listed
<1> HIDE DEF parents, shown
<1>3. ASSUME NEW c \in DOMAIN roots
      PROVE  /\ DOMAIN shown[c] \subseteq Nat \ {0}
             /\ {shown[c][k] : k \in DOMAIN shown[c]} = Incident(parents, roots[c])
             /\ \A k, l \in DOMAIN shown[c] : shown[c][k] = shown[c][l] => k = l
             /\ \A k \in DOMAIN shown[c] : k > 1 => \E j \in 1..(k - 1) : parents[shown[c][k]] = {shown[c][j]}
  <2>1. roots[c] \in Roots(parents) /\ shown[c] = card(parents, roots[c])
    BY <1>2
  <2>2. PICK one : one = card(parents, roots[c])
    OBVIOUS
  <2>3. /\ DOMAIN one \subseteq Nat \ {0}
        /\ {one[k] : k \in DOMAIN one} = Incident(parents, roots[c])
        /\ \A k, l \in DOMAIN one : one[k] = one[l] => k = l
        /\ \A k \in DOMAIN one : k > 1 => \E j \in 1..(k - 1) : parents[one[k]] = {one[j]}
    BY <1>1, <2>1, <2>2, CardIs
  <2> QED BY <2>1, <2>2, <2>3
<1>4. ASSUME NEW c \in DOMAIN roots, NEW k \in DOMAIN shown[c] PROVE rootOf(parents, shown[c][k]) = roots[c]
  BY <1>3 DEF Incident
<1>5. EachOnce(findings, shown)
  <2> SUFFICES ASSUME NEW i \in DOMAIN findings PROVE Cardinality(places(shown, i)) = 1
    BY DEF EachOnce
  <2>1. i \in DOMAIN parents
    BY <1>1
  <2>2. rootOf(parents, i) \in Roots(parents) /\ i \in Incident(parents, rootOf(parents, i))
    BY <2>1, RootIsARoot DEF Incident
  <2>3. PICK c \in DOMAIN roots : roots[c] = rootOf(parents, i)
    BY <1>2, <2>2
  <2>4. PICK k \in DOMAIN shown[c] : shown[c][k] = i
    BY <1>3, <2>2, <2>3
  <2>5. \A d \in DOMAIN shown : \A l \in DOMAIN shown[d] : shown[d][l] = i => d = c /\ l = k
    BY <1>2, <1>3, <1>4, <2>3, <2>4
  <2> QED BY <1>2, <2>4, <2>5, PlacesAre
<1>6. CauseFirst(parents, shown)
  BY <1>2, <1>3 DEF CauseFirst
<1>7. WorstFirst(findings, shown)
  <2>1. \A c \in DOMAIN shown : {shown[c][k] : k \in DOMAIN shown[c]} = Incident(parents, roots[c])
    BY <1>2, <1>3
  <2>2. ASSUME NEW c \in DOMAIN shown, NEW d \in DOMAIN shown, c < d
        PROVE  worst(findings, {shown[c][k] : k \in DOMAIN shown[c]})
                   >= worst(findings, {shown[d][k] : k \in DOMAIN shown[d]})
    <3>1. PICK upper : upper = {shown[c][k] : k \in DOMAIN shown[c]}
      OBVIOUS
    <3>2. PICK lower : lower = {shown[d][k] : k \in DOMAIN shown[d]}
      OBVIOUS
    <3>3. upper = Incident(parents, roots[c]) /\ lower = Incident(parents, roots[d])
      BY <2>1, <3>1, <3>2
    <3>4. worst(findings, Incident(parents, roots[c])) >= worst(findings, Incident(parents, roots[d]))
      BY <1>2, <2>2
    <3>5. worst(findings, upper) >= worst(findings, lower)
      BY <3>3, <3>4
    <3> QED BY <3>1, <3>2, <3>5
  <2> QED BY <2>2, Zenon DEF WorstFirst
<1> QED BY <1>5, <1>6, <1>7 DEF parents, shown

Ids == {"image-pull", "instant", "primary-failing"}

\* Instances have numbers, and a name each.
Spot(n) == CHOOSE i \in DOMAIN Named : Named[i] = n

\* Each instance has one.
LEMMA SpotIs ==
  ASSUME NEW n \in Instances
  PROVE  Spot(n) \in Nat /\ Named[Spot(n)] = n
<1>1. IsFiniteSet(Instances)
  BY NamesAssumption
<1>2. Cardinality(Instances) \in Nat /\ ExistsBijection(1..Cardinality(Instances), Instances)
  BY <1>1, FS_CardinalityType
<1>3. PICK f : f \in Bijection(1..Cardinality(Instances), Instances)
  BY <1>2 DEF ExistsBijection
<1>4. f \in [1..Cardinality(Instances) -> Instances] /\ \A m \in Instances : \E i \in DOMAIN f : f[i] = m
  BY <1>3 DEF Bijection, Surjection
<1>5. Named \in [1..Cardinality(Instances) -> Instances] /\ \A m \in Instances : \E i \in DOMAIN Named : Named[i] = m
  BY <1>4 DEF Named
<1>6. Spot(n) \in DOMAIN Named /\ Named[Spot(n)] = n
  BY <1>5 DEF Spot
<1>7. DOMAIN Named = 1..Cardinality(Instances)
  BY <1>5
<1> QED BY <1>2, <1>6, <1>7

\* What a finding is told by: its check, and its pod where there may be two.
ToldApart(F) ==
    /\ \A f \in F : /\ f.check \in Ids /\ f.severity = Severity[f.check]
                    /\ f.relations = check.relations[f.check]
                    /\ f.check # "primary-failing" => f.pod \in Instances
    /\ \A f, g \in F : f.check = g.check /\ f.pod = g.pod => f = g
    /\ \A f, g \in F : f.check = "primary-failing" /\ g.check = "primary-failing" => f = g

\* What could not be judged finds nothing.
LEMMA FoundUnless ==
  ASSUME NEW why, NEW said
  PROVE  Unless(why, said).on \subseteq said.on
BY ResultFields DEF Unless

\* The findings of a run are told apart, and finitely many.
LEMMA FindingsAre ==
  ASSUME NEW input, DOMAIN input.metrics.readings \subseteq Instances
  PROVE  ToldApart(findingsOf(input)) /\ IsFiniteSet(findingsOf(input))
<1> DEFINE F == findingsOf(input)
           failing == input.cluster.facts
           pulled == imagePull(input).on
           read == Instant(input, 1).on
<1>1. pulled \subseteq Instances
  <2> DEFINE bad == {n \in Instances : input.pods.facts.reason[n] = "bad"}
  <2>1. imagePull(input) = Unless(unread(input.pods), Matches(bad))
    BY Zenon DEF imagePull
  <2>2. Matches(bad).on = bad
    BY ResultFields
  <2> QED BY <2>1, <2>2, FoundUnless
<1>2. read \subseteq Instances
  <2> DEFINE readings == input.metrics.readings
             refused == {n \in DOMAIN readings : ~current(input, readings[n])}
             bad == {n \in DOMAIN readings \ refused : readings[n].value = 1}
  <2>1. Instant(input, 1) = Unless(offUnless(input.metrics.on), Judged(bad, refused))
    BY Zenon DEF Instant
  <2>2. bad \subseteq Instances
    OBVIOUS
  <2> HIDE DEF bad, refused
  <2>3. Judged(bad, refused).on \subseteq bad
    BY ResultFields DEF Judged
  <2>4. Instant(input, 1).on \subseteq Judged(bad, refused).on
    BY <2>1, FoundUnless
  <2> QED BY <2>2, <2>3, <2>4
<1>3. \A f \in F : \/ \E n \in pulled : f = finding("image-pull", n, NoTime)
                   \/ \E n \in read : f = finding("instant", n, input.metrics.readings[n].at)
                   \/ f = finding("primary-failing", failing.current, failing.failingSince)
  <2> DEFINE ones == {finding("image-pull", n, NoTime) : n \in pulled}
             others == {finding("instant", n, input.metrics.readings[n].at) : n \in read}
             last == {finding("primary-failing", failing.current, failing.failingSince) : s \in PrimaryFailing(input).on}
  <2>1. F = ones \cup others \cup last
    BY Zenon DEF findingsOf
  <2> HIDE DEF F
  <2>2. \A f \in F : f \in ones \/ f \in others \/ f \in last
    BY <2>1
  <2>3. \A f \in last : f = finding("primary-failing", failing.current, failing.failingSince)
    OBVIOUS
  <2>4. \A f \in ones : \E n \in pulled : f = finding("image-pull", n, NoTime)
    OBVIOUS
  <2>5. \A f \in others : \E n \in read : f = finding("instant", n, input.metrics.readings[n].at)
    OBVIOUS
  <2> HIDE DEF ones, others, last, pulled, read, failing
  <2> QED BY <2>2, <2>3, <2>4, <2>5
<1> HIDE DEF F, failing, pulled, read
<1>4. \A id, pod, at : /\ finding(id, pod, at).check = id /\ finding(id, pod, at).pod = pod
                       /\ finding(id, pod, at).severity = Severity[id]
                       /\ finding(id, pod, at).relations = check.relations[id]
  BY DEF finding
<1>5. \A f \in F : /\ f.check \in Ids /\ f.severity = Severity[f.check]
                   /\ f.relations = check.relations[f.check]
                   /\ f.check # "primary-failing" => f.pod \in Instances
                   /\ f.pod \in Instances \cup {failing.current}
  BY <1>1, <1>2, <1>3, <1>4 DEF Ids
<1>6. \A f \in F : /\ f.check = "image-pull" => f = finding("image-pull", f.pod, NoTime)
                   /\ f.check = "instant" => f = finding("instant", f.pod, input.metrics.readings[f.pod].at)
                   /\ f.check = "primary-failing" => f = finding("primary-failing", failing.current, failing.failingSince)
  BY <1>3, <1>4
<1>7. ToldApart(F)
  BY <1>5, <1>6 DEF ToldApart, Ids
<1>8. IsFiniteSet(F)
  <2> DEFINE keys == Ids \X (Instances \cup {failing.current})
             key == [f \in F |-> <<f.check, f.pod>>]
  <2>1. IsFiniteSet(Instances \cup {failing.current})
    BY NamesAssumption, FS_AddElement
  <2>2. IsFiniteSet({"image-pull"}) /\ IsFiniteSet({"image-pull", "instant"}) /\ IsFiniteSet(Ids)
    <3>1. IsFiniteSet({"image-pull"})
      BY FS_Singleton
    <3>2. IsFiniteSet({"image-pull"} \cup {"instant"})
      BY <3>1, FS_AddElement
    <3>3. IsFiniteSet(({"image-pull"} \cup {"instant"}) \cup {"primary-failing"})
      BY <3>2, FS_AddElement
    <3>4. Ids = ({"image-pull"} \cup {"instant"}) \cup {"primary-failing"}
      BY DEF Ids
    <3>5. {"image-pull", "instant"} = {"image-pull"} \cup {"instant"}
      OBVIOUS
    <3> QED BY <3>1, <3>2, <3>3, <3>4, <3>5
  <2>3. IsFiniteSet(keys)
    BY <2>1, <2>2, FS_Product
  <2>4. key \in [F -> keys]
    BY <1>5
  <2>5. \A f, g \in F : key[f] = key[g] => f = g
    BY <1>7 DEF ToldApart
  <2> HIDE DEF key, keys
  <2>6. key \in Injection(F, keys)
    BY <2>4, <2>5 DEF Injection, IsInjective
  <2> QED BY <2>3, <2>6, FS_Injection
<1> QED BY <1>7, <1>8 DEF F

\* The checks of the screen, in the order they run.
Place(id) == CASE id = "image-pull" -> 1 [] id = "instant" -> 2 [] id = "primary-failing" -> 3

\* Each check has one, and the more severe comes first.
LEMMA PlaceIs ==
  ASSUME NEW id \in Ids
  PROVE  /\ (CHOOSE i \in DOMAIN ByID : ByID[i] = id) = Place(id) /\ Place(id) \in 1..3
         /\ Severity[id] \in {1, 2} /\ (Severity[id] = 2) = (Place(id) = 1)
         /\ \A other \in Ids : Place(id) = Place(other) => id = other
<1>1. DOMAIN ByID = {1, 2, 3} /\ ByID[1] = "image-pull" /\ ByID[2] = "instant" /\ ByID[3] = "primary-failing"
  BY DEF ByID
<1>2. (CHOOSE i \in DOMAIN ByID : ByID[i] = id) = Place(id)
  <2>1. CASE id = "image-pull"
    BY <1>1, <2>1 DEF Place
  <2>2. CASE id = "instant"
    BY <1>1, <2>2 DEF Place
  <2>3. CASE id = "primary-failing"
    BY <1>1, <2>3 DEF Place
  <2> QED BY <2>1, <2>2, <2>3 DEF Ids
<1>3. Place("image-pull") = 1 /\ Place("instant") = 2 /\ Place("primary-failing") = 3
  BY DEF Place
<1>4. Severity["image-pull"] = 2 /\ Severity["instant"] = 1 /\ Severity["primary-failing"] = 1
  BY DEF Severity
<1> QED BY <1>2, <1>3, <1>4 DEF Ids

\* Most severe first, then by ID, then by instance: the place is enough.
LEMMA InOrderIs ==
  ASSUME NEW F, ToldApart(F), NEW f \in F, NEW g \in F
  PROVE  inOrder(f, g) <=>
            \/ Place(f.check) < Place(g.check)
            \/ f.check = g.check /\ f.pod # g.pod /\ Spot(f.pod) < Spot(g.pod)
<1>1. f.check \in Ids /\ g.check \in Ids /\ f.severity = Severity[f.check] /\ g.severity = Severity[g.check]
  BY DEF ToldApart
<1>2. inOrder(f, g) =
        IF f.severity # g.severity THEN f.severity > g.severity
        ELSE \/ (CHOOSE i \in DOMAIN ByID : ByID[i] = f.check) < (CHOOSE i \in DOMAIN ByID : ByID[i] = g.check)
             \/ /\ f.check = g.check /\ f.pod # g.pod
                /\ (CHOOSE i \in DOMAIN Named : Named[i] = f.pod) < (CHOOSE i \in DOMAIN Named : Named[i] = g.pod)
  BY Zenon DEF inOrder
<1>3. PICK here : here = Spot(f.pod)
  OBVIOUS
<1>4. PICK there : there = Spot(g.pod)
  OBVIOUS
<1>5. inOrder(f, g) <=>
        IF f.severity # g.severity THEN f.severity > g.severity
        ELSE Place(f.check) < Place(g.check) \/ (f.check = g.check /\ f.pod # g.pod /\ here < there)
  <2>1. (CHOOSE i \in DOMAIN ByID : ByID[i] = f.check) = Place(f.check)
        /\ (CHOOSE i \in DOMAIN ByID : ByID[i] = g.check) = Place(g.check)
    BY <1>1, PlaceIs
  <2>2. here = (CHOOSE i \in DOMAIN Named : Named[i] = f.pod) /\ there = (CHOOSE i \in DOMAIN Named : Named[i] = g.pod)
    BY <1>3, <1>4, Zenon DEF Spot
  <2> QED BY <1>2, <2>1, <2>2
<1>6. PICK p : p = Place(f.check)
  OBVIOUS
<1>7. PICK q : q = Place(g.check)
  OBVIOUS
<1>8. /\ p \in 1..3 /\ q \in 1..3 /\ f.severity \in {1, 2} /\ g.severity \in {1, 2}
      /\ (f.severity = 2) = (p = 1) /\ (g.severity = 2) = (q = 1)
      /\ f.check = g.check => f.severity = g.severity /\ p = q
  BY <1>1, <1>6, <1>7, PlaceIs
<1>9. inOrder(f, g) <=> p < q \/ (f.check = g.check /\ f.pod # g.pod /\ here < there)
  BY <1>5, <1>6, <1>7, <1>8
<1> QED BY <1>3, <1>4, <1>6, <1>7, <1>9

\* The findings of a run are in order.
LEMMA RunOrders ==
  ASSUME NEW F, ToldApart(F)
  PROVE  Ordering(F, [f \in F |-> {g \in F : inOrder(g, f)}])
<1> DEFINE place == [f \in F |-> Place(f.check)]
           spot == [f \in F |-> Spot(f.pod)]
           before == [f \in F |-> {g \in F : inOrder(g, f)}]
<1>1. \A f \in F : place[f] \in Int
  <2> SUFFICES ASSUME NEW f \in F PROVE Place(f.check) \in Int
    OBVIOUS
  <2>1. f.check \in Ids
    BY DEF ToldApart
  <2> QED BY <2>1, PlaceIs
<1>2. \A f, g \in F : (place[f] = place[g]) = (f.check = g.check)
  <2> SUFFICES ASSUME NEW f \in F, NEW g \in F PROVE (Place(f.check) = Place(g.check)) = (f.check = g.check)
    OBVIOUS
  <2>1. f.check \in Ids /\ g.check \in Ids
    BY DEF ToldApart
  <2> QED BY <2>1, PlaceIs
<1>3. \A f, g \in F : f.check = g.check /\ f # g =>
          f.pod # g.pod /\ spot[f] \in Int /\ spot[g] \in Int /\ spot[f] # spot[g]
  <2> SUFFICES ASSUME NEW f \in F, NEW g \in F, f.check = g.check, f # g
               PROVE  f.pod # g.pod /\ Spot(f.pod) \in Int /\ Spot(g.pod) \in Int /\ Spot(f.pod) # Spot(g.pod)
    OBVIOUS
  <2>1. f.pod # g.pod /\ f.check # "primary-failing"
    BY DEF ToldApart
  <2>2. f.pod \in Instances /\ g.pod \in Instances
    BY <2>1 DEF ToldApart
  <2> QED BY <2>1, <2>2, SpotIs
<1>4. \A f, g \in F : g \in before[f] <=>
          place[g] < place[f] \/ (place[g] = place[f] /\ f # g /\ spot[g] < spot[f])
  <2> SUFFICES ASSUME NEW f \in F, NEW g \in F
               PROVE  g \in before[f] <=>
                         place[g] < place[f] \/ (place[g] = place[f] /\ f # g /\ spot[g] < spot[f])
    OBVIOUS
  <2>1. g \in before[f] <=> inOrder(g, f)
    OBVIOUS
  <2>2. inOrder(g, f) <=> place[g] < place[f] \/ (g.check = f.check /\ g.pod # f.pod /\ spot[g] < spot[f])
    BY InOrderIs
  <2>3. g.check = f.check => (g.pod # f.pod <=> g # f)
    BY <1>3
  <2> HIDE DEF before, place, spot
  <2> QED BY <1>2, <2>1, <2>2, <2>3
<1>5. before \in [F -> SUBSET F]
  OBVIOUS
<1> HIDE DEF before, place, spot
<1>6. \A f, g \in F : place[g] = place[f] /\ f # g => spot[f] \in Int /\ spot[g] \in Int /\ spot[f] # spot[g]
  BY <1>2, <1>3
<1>7. \A x \in F : x \notin before[x]
  BY <1>1, <1>4
<1>8. ASSUME NEW x \in F, NEW y \in F, y \in before[x] PROVE before[y] \subseteq before[x]
  <2> SUFFICES ASSUME NEW z \in before[y] PROVE z \in before[x]
    OBVIOUS
  <2>1. z \in F
    BY <1>5
  <2>2. /\ place[z] < place[y] \/ (place[z] = place[y] /\ y # z /\ spot[z] < spot[y])
        /\ place[y] < place[x] \/ (place[y] = place[x] /\ x # y /\ spot[y] < spot[x])
    BY <1>4, <1>8, <2>1
  <2>3. place[x] \in Int /\ place[y] \in Int /\ place[z] \in Int
    BY <1>1, <2>1
  <2>4. CASE place[z] < place[y] \/ place[y] < place[x]
    BY <1>4, <2>1, <2>2, <2>3, <2>4
  <2>5. CASE place[z] = place[y] /\ place[y] = place[x]
    <3>1. spot[x] \in Int /\ spot[y] \in Int /\ spot[z] \in Int /\ spot[z] < spot[y] /\ spot[y] < spot[x]
      BY <1>6, <2>1, <2>2, <2>3, <2>5
    <3>2. spot[z] < spot[x] /\ x # z
      BY <3>1
    <3> QED BY <1>4, <2>1, <2>5, <3>2
  <2> QED BY <2>2, <2>3, <2>4, <2>5
<1>9. ASSUME NEW x \in F, NEW y \in F PROVE x = y \/ x \in before[y] \/ y \in before[x]
  <2> SUFFICES ASSUME x # y PROVE x \in before[y] \/ y \in before[x]
    OBVIOUS
  <2>1. place[x] \in Int /\ place[y] \in Int
    BY <1>1
  <2>2. CASE place[x] # place[y]
    BY <1>4, <2>1, <2>2
  <2>3. CASE place[x] = place[y]
    <3>1. spot[x] \in Int /\ spot[y] \in Int /\ spot[x] # spot[y]
      BY <1>6, <2>3
    <3>2. spot[x] < spot[y] \/ spot[y] < spot[x]
      BY <3>1
    <3> QED BY <1>4, <2>3, <3>2
  <2> QED BY <2>2, <2>3
<1>10. Ordering(F, before)
  BY <1>5, <1>7, <1>8, <1>9 DEF Ordering
<1> QED BY <1>10 DEF before

\* So a screen's run is a list of findings.
LEMMA RunIsListed ==
  ASSUME check \in Checks, check.rule = "screen", NEW input, DOMAIN input.metrics.readings \subseteq Instances
  PROVE  \E n : Listed(Run(input), n)
<1> DEFINE F == findingsOf(input)
           before == [f \in F |-> {g \in F : inOrder(g, f)}]
           run == Run(input)
<1>1. ToldApart(F) /\ IsFiniteSet(F)
  BY FindingsAre
<1>2. Ordering(F, before)
  <2> HIDE DEF F
  <2> QED BY <1>1, RunOrders
<1>3. run = inTurn(before)
  BY Zenon DEF Run
<1> HIDE DEF F, before, run
<1>4. /\ DOMAIN run = 1..Cardinality(F) /\ Cardinality(F) \in Nat
      /\ \A k \in DOMAIN run : run[k] \in F
  BY <1>1, <1>2, <1>3, InTurn
<1>5. ASSUME NEW f \in F PROVE f.severity \in Int /\ f.relations \in Relations
  <2>1. f.check \in Ids /\ f.severity = Severity[f.check] /\ f.relations = check.relations[f.check]
    BY <1>1 DEF ToldApart
  <2>2. Severity[f.check] \in Int
    BY <2>1, PlaceIs
  <2>3. check.relations[f.check] \in Relations
    BY <2>1, RelationsAssumption DEF Ids
  <2> QED BY <2>1, <2>2, <2>3
<1>6. Listed(run, Cardinality(F))
  BY <1>4, <1>5 DEF Listed
<1> QED BY <1>6 DEF run

\* The invariant lists what a screen finds.
LEMMA GhostsShow == GhostInv => EachFindingIsShownOnce
<1> SUFFICES ASSUME GhostInv, check.rule = "screen"
             PROVE  /\ EachOnce(Run(in), cards(Run(in)))
                    /\ CauseFirst(parentOf(Run(in)), cards(Run(in)))
                    /\ WorstFirst(Run(in), cards(Run(in)))
  BY DEF EachFindingIsShownOnce
<1>1. check \in Checks /\ TypesInv /\ HeldTypes
  BY DEF GhostInv, TypesInv, HInv, HeldTypes
<1>2. "metrics" \in Read
  BY <1>1, ReadIs DEF Consulted, ClusterRules, BackupRules, StatusRules, MetricRules, EventRules, HistoryRules
<1>3. DOMAIN in.metrics.readings \subseteq Instances
  BY <1>1, <1>2 DEF TypesInv, MetricsInv
<1>4. PICK n : Listed(Run(in), n)
  BY <1>1, <1>3, RunIsListed
<1> QED BY <1>4, CardsShowEachOnce

\* Every finding of a screen is shown once, beneath what it follows from, and
\* the cards read worst first (groupIncidents), whatever its checks found and
\* whatever causes they declare.
THEOREM EachFindingHolds == Spec => []EachFindingIsShownOnce
<1> QED BY GhostInit, GhostNext, GhostsShow, PTL DEF Spec
==============================================================================
