------------------------------- MODULE PodView -------------------------------
(***************************************************************************)
(* What the pods store promises a reader of the console, with no loop, no   *)
(* watch and no retry in sight.                                             *)
(*                                                                          *)
(* The API server's past is a sequence of states of the pods the cluster's  *)
(* label selects.  A view is a picture of the members at ONE of those       *)
(* states, cut at MaxPods, which only ever moves forward, and a flag that   *)
(* says whether the console is still in contact with the source.  A view    *)
(* built from a listing that FetchPods gave up on is "inexact", and then    *)
(* nothing is promised of its content.                                      *)
(***************************************************************************)
EXTENDS Integers, Sequences, FiniteSets

CONSTANTS
    Names,    \* pod names; naturals, because rosters are ordered by name
    None,     \* no pod of that name
    MaxPods   \* observe.MaxPods: the bound of a published roster

VARIABLES
    hist,     \* hist[i]: the selected pods at the i-th revision
    at,       \* the revision the view shows; 0 before the first view
    shown,    \* the published roster
    fresh,    \* a view exists and contact with the source is not lost
    exact     \* the view comes from a complete listing

viewVars == <<hist, at, shown, fresh, exact>>

\* The pods of one server state whose controller is the configured Cluster.
Members(pods) == [n \in Names |->
    IF pods[n] # None /\ pods[n].member THEN pods[n] ELSE None]

Held(pods) == {n \in Names : pods[n] # None}

\* The first MaxPods pods by name.
Cut(pods) == [n \in Names |->
    IF Cardinality({m \in Held(pods) : m < n}) < MaxPods THEN pods[n] ELSE None]

ViewInit ==
    /\ Len(hist) = 1
    /\ at = 0
    /\ shown = [n \in Names |-> None]
    /\ fresh = FALSE
    /\ exact = TRUE

\* The cluster changes; readers notice nothing yet.
Change ==
    /\ hist' = Append(hist, hist'[Len(hist')])
    /\ UNCHANGED <<at, shown, fresh, exact>>

\* The view moves to a revision no older than the one it shows.
Observe ==
    /\ at' \in at..Len(hist)
    /\ at' > 0
    /\ fresh' = TRUE
    /\ exact' => shown' = Cut(Members(hist[at']))
    /\ UNCHANGED hist

\* Contact is lost: the last good view stays, marked.
Lose ==
    /\ fresh' = FALSE
    /\ UNCHANGED <<hist, at, shown, exact>>

ViewNext == Change \/ Observe \/ Lose

ViewSpec == ViewInit /\ [][ViewNext]_viewVars
=============================================================================
