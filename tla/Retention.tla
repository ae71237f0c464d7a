------------------------------ MODULE Retention ------------------------------
(***************************************************************************)
(* observe/keyed.go: the retained items of one kind, one item a name.  A    *)
(* put at the limit drops the item the policy ranks first, a delete removes *)
(* only the incarnation it names, a publication sorts and cuts.             *)
(*                                                                          *)
(* An item is [name, uid, at, open]: `at' is the instant its policy ranks   *)
(* by (creation, or last occurrence), `open' a request nobody decided yet.  *)
(***************************************************************************)
EXTENDS Integers, FiniteSets

\* The policies the collectors pass: which of two retained items is dropped first.
Evictable(policy, a, b) ==
    \/ policy = "oldest" /\ a.at < b.at
    \/ policy = "lastName" /\ a.name > b.name

\* The orders the stores publish in. All are total: the name breaks ties.
Newer(a, b) == a.at > b.at \/ (a.at = b.at /\ a.name < b.name)
Older(a, b) == a.at < b.at \/ (a.at = b.at /\ a.name < b.name)

\* lessAccessRequest: undecided requests first, longest waiting first.
QueuedBefore(a, b) ==
    \/ a.open /\ ~b.open
    \/ a.open /\ b.open /\ Older(a, b)
    \/ ~a.open /\ ~b.open /\ Newer(a, b)

Less(order, a, b) ==
    \/ order = "name" /\ a.name < b.name
    \/ order = "recency" /\ Newer(a, b)
    \/ order = "queue" /\ QueuedBefore(a, b)

\* keyed.evictee: nothing is ranked before it. Several when the policy ties.
Evictees(kept, policy) ==
    {x \in kept : \A y \in kept : ~Evictable(policy, y, x)}

Named(kept, name) == {x \in kept : x.name = name}

\* keyed.put: the retained sets a put may leave. limit 0 is no limit.
Put(kept, item, policy, limit) ==
    IF Named(kept, item.name) = {} /\ limit > 0 /\ Cardinality(kept) >= limit
    THEN {(kept \ {loser}) \cup {item} : loser \in Evictees(kept, policy)}
    ELSE {(kept \ Named(kept, item.name)) \cup {item}}

\* keyed.remove: a deletion of an older incarnation is not this one's.
Remove(kept, item) == {x \in kept : x.name # item.name \/ x.uid # item.uid}

\* bounded: the first of them in publication order.
Bounded(kept, order, limit) ==
    {x \in kept : Cardinality({y \in kept : Less(order, y, x)}) < limit}

=============================================================================
