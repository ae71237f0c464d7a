----------------------------- MODULE Incidents -----------------------------
(***************************************************************************)
(* internal/web, groupIncidents: the findings of one run nested beneath     *)
(* their declared causes, one card per incident.  A finding is the check    *)
(* that made it, the pod and the instant it is about (NoPod and NoTime if   *)
(* it names none), its severity, and the relations its check declares, in   *)
(* order of preference: [cause, samePod, within], within 0 for no window.   *)
(***************************************************************************)
EXTENDS Integers, Sequences, FiniteSets

NoPod == ""
NoTime == -1
Relations == Seq([cause : STRING, samePod : BOOLEAN, within : Nat])

\* Relation.Holds: the window counts when both carry a time.
Holds(relation, effect, cause) ==
    /\ cause.check = relation.cause
    /\ relation.samePod => effect.pod # NoPod /\ effect.pod = cause.pod
    /\ relation.within > 0 /\ NoTime \notin {effect.at, cause.at} =>
        effect.at - cause.at \in -relation.within..relation.within

\* <<relation, finding>>: what finding i is tried against, in that order.
candidates(findings, i) ==
    {c \in (DOMAIN findings[i].relations) \X (DOMAIN findings \ {i}) :
        LET cause == findings[i].relations[c[1]].cause IN
        cause # findings[i].check /\ cause = findings[c[2]].check}

admits(findings, i) ==
    {c \in candidates(findings, i) :
        Holds(findings[i].relations[c[1]], findings[i], findings[c[2]])}

notAfter(c, d) == c[1] < d[1] \/ (c[1] = d[1] /\ c[2] <= d[2])

\* parentOf: no cause, or the first admitted.
parentOf(findings) ==
    [i \in DOMAIN findings |->
        LET all == admits(findings, i) IN
        {c[2] : c \in {c \in all : \A d \in all : notAfter(c, d)}}]

\* What climbing from i meets.
closed(parents, S) == \A k \in S : parents[k] \subseteq S
above(parents, i) ==
    {j \in DOMAIN parents :
        \A S \in SUBSET DOMAIN parents : parents[i] \subseteq S /\ closed(parents, S) => j \in S}

\* Mutant: a loop is cut where the climb comes back.
rootOfCut(parents, i) ==
    IF parents[i] = {} THEN i
    ELSE LET tops == {t \in above(parents, i) : parents[t] = {}} IN
         CHOOSE t \in (IF tops = {} THEN above(parents, i) \ {i} ELSE tops) : TRUE

\* rootOf: the topmost cause; a climb that would never end is refused.
rootOf(parents, i) ==
    LET tops == {t \in above(parents, i) : parents[t] = {}} IN
    IF parents[i] = {} \/ tops = {} THEN i ELSE CHOOSE t \in tops : TRUE

depth(parents, i) == IF rootOf(parents, i) = i THEN 0 ELSE Cardinality(above(parents, i))

Roots(parents) == {i \in DOMAIN parents : rootOf(parents, i) = i}
Incident(parents, root) == {i \in DOMAIN parents : rootOf(parents, i) = root}

worst(findings, incident) ==
    CHOOSE s \in {findings[i].severity : i \in incident} :
        \A i \in incident : findings[i].severity <= s

\* sort.SliceStable: each in its turn, after as many as come before it.
inTurn(before) ==
    [k \in 1..Cardinality(DOMAIN before) |->
        CHOOSE x \in DOMAIN before : Cardinality(before[x]) = k - 1]

\* An incident as it is read: the root, then the consequences by depth.
card(parents, root) ==
    LET members == Incident(parents, root) IN
    inTurn([i \in members |-> {j \in members :
        \/ depth(parents, j) < depth(parents, i)
        \/ depth(parents, j) = depth(parents, i) /\ j < i}])

\* groupIncidents: the cards, worst first.
cards(findings) ==
    LET parents == parentOf(findings)
        of(root) == worst(findings, Incident(parents, root))
        roots == inTurn([r \in Roots(parents) |-> {q \in Roots(parents) :
                    of(q) > of(r) \/ (of(q) = of(r) /\ q < r)}]) IN
    [c \in DOMAIN roots |-> card(parents, roots[c])]

-----------------------------------------------------------------------------
\* Of cards: each finding is at one place; what is not first in its card comes
\* after its cause; no card is above a worse one.
places(shown, i) ==
    UNION {{<<c, k>> : k \in {k \in DOMAIN shown[c] : shown[c][k] = i}} : c \in DOMAIN shown}
EachOnce(findings, shown) == \A i \in DOMAIN findings : Cardinality(places(shown, i)) = 1

CauseFirst(parents, shown) ==
    \A c \in DOMAIN shown : \A k \in DOMAIN shown[c] :
        k > 1 => \E j \in 1..(k - 1) : parents[shown[c][k]] = {shown[c][j]}

WorstFirst(findings, shown) ==
    LET members(c) == {shown[c][k] : k \in DOMAIN shown[c]} IN
    \A c, d \in DOMAIN shown :
        c < d => worst(findings, members(c)) >= worst(findings, members(d))
=============================================================================
