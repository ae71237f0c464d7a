------------------------------- MODULE Triage -------------------------------
(***************************************************************************)
(* internal/diagnose/triage: the same checks read from a symptom.  A step   *)
(* asks its fact first, then the checks behind it; a playbook asks its      *)
(* steps in order.  Answers are given here as results of Conditions, so     *)
(* that a step that is ruled out is judged as a check that reads clear is.  *)
(***************************************************************************)
EXTENDS Conditions

-----------------------------------------------------------------------------
(* facts.go: absences, unknown over a list that was cut.                    *)

cutOff(facts) == IF facts.cut THEN "cut" ELSE ""

ClusterAbsent(in) == Unless(unread(in.cluster), OnCluster(~in.cluster.facts.present))

NoPrimaryNamed(in) == Unless(unread(in.cluster),
    OnCluster(~in.cluster.facts.present \/ in.cluster.facts.current = ""))

NoReadyInstance(in) == Unless(Or(unread(in.pods), cutOff(in.pods.facts)),
    OnCluster(\A n \in Instances : ~in.pods.facts.ready[n]))

NoWriteService(in) == Unless(Or(unread(in.infrastructure), cutOff(in.infrastructure.facts)),
    OnCluster("read-write" \notin in.infrastructure.facts.services))

NoBackupSchedule(in) == Unless(Or(unread(in.backups), cutOff(in.backups.facts)),
    OnCluster(\A n \in Instances : in.backups.facts.schedule[n].created = Nil))

-----------------------------------------------------------------------------
(* triage.go: a step.                                                       *)

\* answer: of the fact, if there is one, and of what the checks concluded.
answer(facts, outcomes) ==
    IF \E f \in facts : f.because # "" THEN "could not be judged"
    ELSE IF \E f \in facts : f # Clear THEN "found"
    ELSE IF outcomes = {} THEN IF facts = {} THEN "not observable here" ELSE "ruled out"
    ELSE IF "matched" \in outcomes THEN "found"
    ELSE IF "unavailable" \in outcomes \/ {"clear", "off"} \subseteq outcomes
    THEN "could not be judged"
    ELSE IF "clear" \in outcomes THEN "ruled out"
    ELSE IF "off" \in outcomes THEN "needs a switched-off source" ELSE "does not apply"

Answered(said) ==
    CASE said = "found"                       -> OnCluster(TRUE)
      [] said = "ruled out"                   -> Clear
      [] said = "needs a switched-off source" -> Unavailable("off")
      [] OTHER                                -> Unavailable(said)

-----------------------------------------------------------------------------
(* playbooks.go: steps of each shape, and two walks.                        *)

Concluded(in, pin, results) == {evaluateRule(in, pin, r) : r \in results}

primaryNamed(in) ==
    answer({NoPrimaryNamed(in)}, Concluded(in, Nil, {ClusterPhase(in)}))
instanceReady(in) ==
    answer({NoReadyInstance(in)}, Concluded(in, Nil, {InstancesShort(in), imagePull(in)}))
writeService(in) ==
    answer({NoWriteService(in)}, Concluded(in, 1, {ClusterPhase(in)}))
poolerUp(in) ==
    answer({}, Concluded(in, Nil, {PoolerPhase(in), PoolerShort(in), SeriesAbove(in)}))
scheduleFiring(in) ==
    answer({NoBackupSchedule(in)},
        Concluded(in, Nil, {ScheduledBackupSuspended(in), ScheduledBackupOverdue(in), backupCadence(in)}))
definitionRefused(in) ==
    answer({ClusterAbsent(in)}, Concluded(in, Nil, {ClusterPhase(in), ImageCatalogMissing(in)}))
reconciles(in) == answer({}, Concluded(in, Nil, {ClusterPhase(in)}))
operatorRunning == answer({}, {})

\* Evaluate: the first step that was found, 0 when none was.
StartAt(steps) ==
    LET found == {i \in DOMAIN steps : steps[i] = "found"} IN
    IF found = {} THEN 0 ELSE CHOOSE i \in found : \A j \in found : i <= j

\* playbookView: what is said above the steps.
playbookState(steps) ==
    IF StartAt(steps) > 0 THEN "degraded"
    ELSE IF \E i \in DOMAIN steps : steps[i] = "could not be judged" THEN "unknown"
    ELSE "current"

cannotConnect(in) == <<primaryNamed(in), instanceReady(in), writeService(in)>>
operatorSilent(in) == <<reconciles(in), operatorRunning>>

Walked(steps) ==
    CASE playbookState(steps) = "degraded" -> OnCluster(TRUE)
      [] playbookState(steps) = "current"  -> Clear
      [] OTHER                             -> Unavailable("unjudged")
=============================================================================
