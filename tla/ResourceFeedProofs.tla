-------------------------- MODULE ResourceFeedProofs --------------------------
(***************************************************************************)
(* Proofs about ResourceFeed, for any feeds that evict what their pages show *)
(* last, any names, bounds and number of faults: what is not called          *)
(* truncated is complete, what a feed has nothing left to say about is       *)
(* current, but for what left the cluster and the pooler pods whose owners   *)
(* could not be read, and what is evicted would not have been shown.         *)
(***************************************************************************)
EXTENDS ResourceFeed, FiniteSetTheorems, WellFoundedInduction, TLAPS

\* Only an object that declares its cluster may be another's.
Membership == IF profile.source.member = "declared" THEN BOOLEAN ELSE {TRUE}
Objects(k) == [name : NamesOf(k), uid : Int, at : Int, open : BOOLEAN, mine : Membership]

\* At most one object a name, and finitely many.
Whole(k, members) ==
    /\ members \subseteq Objects(k)
    /\ IsFiniteSet(members)
    /\ \A x, y \in members : x.name = y.name => x = y

\* One object is created, changed or deleted.
Change(before, after) ==
    \/ \E x \in after : Named(before, x.name) = {} /\ after = before \cup {x}
    \/ \E x \in before, y \in after :
           y # x /\ y.name = x.name /\ y.uid = x.uid /\ after = (before \ {x}) \cup {y}
    \/ \E x \in before : after = before \ {x}

\* The server's revisions of a kind succeed one another one object at a time.
HistInv ==
    /\ DOMAIN hist = Kinds
    /\ \A k \in Kinds :
        /\ hist[k] \in Seq(SUBSET Objects(k))
        /\ Len(hist[k]) >= 1
        /\ \A i \in 1..Len(hist[k]) : Whole(k, hist[k][i])
        /\ \A i \in 1..Len(hist[k]) : i > 1 => Change(hist[k][i - 1], hist[k][i])

\* A listing is some of the members of one revision, all of them unless it was cut, but
\* for those it knows it missed, of a pinned object none.
ListingOf(k, listing, members) ==
    /\ listing.items \subseteq members
    /\ listing.observed /\ ~listing.cut =>
           \A x \in members \ listing.items : Key(k, x) \in listing.missed
    /\ profile.source.pinned => listing.missed = {}
    /\ listing.observed \/ k \in profile.source.optional

FetchInv ==
    \A k \in Kinds \cap Listed :
        /\ fetched[k].at \in 1..Len(hist[k])
        /\ ListingOf(k, fetched[k], Mine(hist[k][fetched[k].at]))

\* What was just seeded lacks only what the listing missed.
Seeded(k) ==
    /\ kept[k] \subseteq Mine(hist[k][read[k]])
    /\ \A x \in Mine(hist[k][read[k]]) \ kept[k] : Key(k, x) \in missed

\* What is retained tells what was last folded in; a pinned object is retained whole.
Told(k) ==
    /\ profile.source.pinned => kept[k] = hist[k][read[k]]
    /\ ~profile.source.pinned =>
           /\ since[k] \in 1..read[k]
           /\ Tells(k, kept[k], read[k])

\* What is retained of a kind tells what was last folded in, unless its flag is up;
\* what is published is what is retained, cut and flagged.
KeptInv ==
    /\ DOMAIN kept = Kinds /\ DOMAIN flag = Kinds /\ DOMAIN read = Kinds
    /\ \A k \in Kinds :
        /\ Whole(k, kept[k]) /\ flag[k] \in BOOLEAN /\ read[k] \in 1..Len(hist[k])
        /\ snap.gen > 0 /\ k \notin snap.unobserved /\ ~flag[k] => Told(k)
    /\ snap.gen \in Nat
    /\ DOMAIN snap = {"gen", "stale", "shown", "flagged", "unobserved"}
    /\ snap.gen > 0 => \A k \in Kinds :
        /\ snap.shown[k] = Bounded(kept[k], profile.keep.order[k], MaxShown)
        /\ Admitted(k, kept, flag) => k \in snap.flagged

\* The listings stay until contact is lost, and the watches start from them.
PhaseInv ==
    /\ phase \in {"open", "consume"} =>
        /\ Listed = Kinds
        /\ snap.gen > 0
        /\ snap.unobserved = Kinds \ Observed
    /\ phase = "open" => \A k \in Kinds :
           /\ read[k] = fetched[k].at /\ since[k] = read[k]
           /\ k \in Observed /\ ~flag[k] => Seeded(k)
    /\ phase # "consume" => up = {}

\* What the pump of a kind offers is the next change to fold in, and what a pinned
\* object's pump offers is the object at that moment.
Aligned(k) ==
    /\ offer[k] = NoItem =>
        \/ read[k] = cursor[k]
        \/ /\ profile.source.pinned
           /\ hist[k][cursor[k]] = {}
           /\ read[k] = fetched[k].at
    /\ offer[k] # NoItem =>
        /\ offer[k] \in [do : {"put", "delete"}, item : Objects(k)]
        /\ offer[k].item.mine
        /\ profile.source.pinned =>
               hist[k][cursor[k]] = IF offer[k].do = "put" THEN {offer[k].item} ELSE {}
        /\ ~profile.source.pinned =>
               /\ cursor[k] > 1
               /\ read[k] = cursor[k] - 1
               /\ offer[k] = EventAfter(k, cursor[k] - 1)

StreamInv ==
    /\ DOMAIN cursor = Kinds /\ DOMAIN offer = Kinds
    /\ \A k \in Kinds : cursor[k] \in 1..Len(hist[k]) /\ (k \notin up => offer[k] = NoItem)
    /\ phase = "consume" => up \subseteq Observed /\ \A k \in up : Aligned(k)

TypeInv ==
    /\ profile \in Profiles
    /\ phase \in {"fetch", "open", "consume", "wait"}
    /\ refused \subseteq Kinds /\ up \subseteq Kinds
    /\ snap.flagged \subseteq Kinds /\ snap.unobserved \subseteq profile.source.optional

FeedInv == TypeInv /\ HistInv /\ FetchInv /\ KeptInv /\ PhaseInv /\ StreamInv

-----------------------------------------------------------------------------
(* Induction: over numbers, and over the parts of a finite set.              *)

\* A set of numbers has a least element.
LEMMA Least ==
  ASSUME NEW T, T \subseteq Nat, T # {}
  PROVE  \E x \in T : \A y \in T : x <= y
<1> DEFINE R == OpToRel(<, Nat)
<1>1. IsWellFoundedOn(R, Nat)
  BY NatLessThanWellFounded
<1>2. \E x \in T : \A y \in T : ~(<<y, x>> \in R)
  <2> HIDE DEF R
  <2> QED BY <1>1, WFMin
<1>3. \A x, y \in Nat : y < x => <<y, x>> \in R
  BY DEF OpToRel
<1> HIDE DEF R
<1>4. \A x, y \in T : ~(y < x) => x <= y
  OBVIOUS
<1> QED BY <1>2, <1>3, <1>4

\* A set of parts of a finite set has a minimal element.
LEMMA Minimal ==
  ASSUME NEW S, IsFiniteSet(S), NEW T, T \subseteq SUBSET S, T # {}
  PROVE  \E s \in T : \A r \in SUBSET s : r # s => r \notin T
<1> DEFINE R == StrictSubsetOrdering(S)
<1>1. IsWellFoundedOn(R, SUBSET S)
  BY FS_StrictSubsetOrderingWellFounded, FS_FiniteSubsetsOfFinite
<1>2. \E s \in T : \A r \in T : ~(<<r, s>> \in R)
  <2> HIDE DEF R
  <2> QED BY <1>1, WFMin
<1>3. \A r, s \in T : r \subseteq s /\ r # s => <<r, s>> \in R
  BY DEF StrictSubsetOrdering
<1> HIDE DEF R
<1> QED BY <1>2, <1>3

Iterations(V, base, step) ==
    {f \in [Nat -> V] : f[0] = base /\ \A n \in Nat : f[n + 1] = step[f[n]]}

\* A value and a step define a sequence of values.
LEMMA Recursion ==
  ASSUME NEW V, NEW base \in V, NEW step \in [V -> V]
  PROVE  Iterations(V, base, step) # {}
<1> DEFINE Upto(n) == {f \in [0..n -> V] : f[0] = base /\ \A i \in 0..(n - 1) : f[i + 1] = step[f[i]]}
           T == {n \in Nat : Upto(n) = {}}
<1>1. \A n \in Nat : Upto(n) # {}
  <2> SUFFICES ASSUME T # {} PROVE FALSE
    BY Zenon
  <2>1. PICK n \in T : \A m \in T : n <= m
    BY Least
  <2>2. CASE n = 0
    <3>1. [i \in 0..0 |-> base] \in Upto(0)
      OBVIOUS
    <3> QED BY <2>2, <3>1
  <2>3. CASE n > 0
    <3>1. n - 1 \in Nat /\ n - 1 \notin T
      <4>1. T \subseteq Nat
        OBVIOUS
      <4> HIDE DEF T
      <4>2. n \in Nat /\ n - 1 \in Nat /\ ~(n <= n - 1)
        BY <4>1, <2>3
      <4> QED BY <4>2, <2>1
    <3>2. PICK f \in Upto(n - 1) : TRUE
      BY <3>1
    <3> DEFINE g == [i \in 0..n |-> IF i = n THEN step[f[n - 1]] ELSE f[i]]
    <3>3. g \in [0..n -> V] /\ g[0] = base
      BY <3>1, <3>2, <2>3
    <3>4. ASSUME NEW i \in 0..(n - 1) PROVE g[i + 1] = step[g[i]]
      <4>1. CASE i = n - 1
        BY <4>1, <3>1, <2>3
      <4>2. CASE i # n - 1
        <5>1. i \in 0..((n - 1) - 1) /\ i \in 0..(n - 1) /\ i + 1 \in 0..(n - 1)
          BY <4>2, <3>1, <2>3
        <5>2. f[i + 1] = step[f[i]]
          BY <5>1, <3>2
        <5>3. g[i] = f[i] /\ g[i + 1] = f[i + 1]
          BY <5>1, <3>1
        <5> QED BY <5>2, <5>3
      <4> QED BY <4>1, <4>2
    <3>5. g \in Upto(n)
      BY <3>3, <3>4
    <3> QED BY <3>5
  <2> QED BY <2>2, <2>3
<1>2. ASSUME NEW n \in Nat, NEW m \in Nat, n <= m, NEW f \in Upto(n), NEW g \in Upto(m)
      PROVE  f[n] = g[n]
  <2> DEFINE D == {i \in 0..n : f[i] # g[i]}
  <2> SUFFICES ASSUME D # {} PROVE FALSE
    OBVIOUS
  <2>1. PICK i \in D : \A j \in D : i <= j
    <3>1. D \subseteq Nat
      OBVIOUS
    <3> HIDE DEF D
    <3> QED BY <3>1, Least
  <2>2. i # 0
    OBVIOUS
  <2>3. i - 1 \in 0..(n - 1) /\ i - 1 \in 0..n /\ i - 1 \in 0..(m - 1)
    BY <2>2, <1>2
  <2>4. f[i - 1] = g[i - 1]
    BY <2>1, <2>3
  <2>5. f[(i - 1) + 1] = step[f[i - 1]] /\ g[(i - 1) + 1] = step[g[i - 1]]
    BY <2>3
  <2> QED BY <2>4, <2>5
<1> DEFINE F == [n \in Nat |-> (CHOOSE f \in Upto(n) : TRUE)[n]]
<1>3. \A n \in Nat : (CHOOSE f \in Upto(n) : TRUE) \in Upto(n)
  BY <1>1
<1>4. ASSUME NEW n \in Nat PROVE F[n] \in V /\ F[n + 1] = step[F[n]]
  <2> DEFINE f == CHOOSE h \in Upto(n) : TRUE
             g == CHOOSE h \in Upto(n + 1) : TRUE
  <2> HIDE DEF Upto
  <2>1. f \in Upto(n) /\ g \in Upto(n + 1)
    <3>1. n + 1 \in Nat
      OBVIOUS
    <3> QED BY <3>1, <1>3
  <2>2. F[n] = f[n] /\ F[n + 1] = g[n + 1]
    OBVIOUS
  <2> HIDE DEF f, g, F
  <2>3. f[n] = g[n]
    <3>1. n + 1 \in Nat /\ n <= n + 1
      OBVIOUS
    <3> QED BY <3>1, <1>2, <2>1
  <2> USE DEF Upto
  <2>4. n \in 0..((n + 1) - 1)
    OBVIOUS
  <2>5. g[n + 1] = step[g[n]]
    BY <2>1, <2>4
  <2>6. f[n] \in V
    BY <2>1
  <2> QED BY <2>2, <2>3, <2>5, <2>6
<1>5. F[0] = base
  <2> DEFINE f == CHOOSE h \in Upto(0) : TRUE
  <2>1. f \in Upto(0)
    BY <1>3
  <2>2. F[0] = f[0]
    OBVIOUS
  <2> HIDE DEF f
  <2> QED BY <2>1, <2>2
<1>6. F \in [Nat -> V]
  <2>1. F = [n \in Nat |-> F[n]]
    OBVIOUS
  <2> HIDE DEF F
  <2> QED BY <2>1, <1>4
<1> HIDE DEF F
<1> QED BY <1>4, <1>5, <1>6 DEF Iterations

FoldsOf(S, V, base, step, pick) ==
    {g \in [SUBSET S -> V] : \A s \in SUBSET S :
         g[s] = IF s = {} THEN base ELSE step[<<pick[s], g[s \ {pick[s]}]>>]}

\* A fold over a finite set is defined: of the parts of the set, each is folded by
\* taking one element out of it and folding the rest.
LEMMA FoldIsDefined ==
  ASSUME NEW S, IsFiniteSet(S), NEW V, NEW base \in V, NEW step \in [S \X V -> V],
         NEW pick \in [(SUBSET S) \ {{}} -> S], \A s \in (SUBSET S) \ {{}} : pick[s] \in s
  PROVE  FoldsOf(S, V, base, step, pick) # {}
<1> DEFINE W == [SUBSET S -> V]
           next == [h \in W |-> [s \in SUBSET S |->
                       IF s = {} THEN base ELSE step[<<pick[s], h[s \ {pick[s]}]>>]]]
           first == [s \in SUBSET S |-> base]
<1>1. first \in W
  OBVIOUS
<1>2. next \in [W -> W]
  OBVIOUS
<1>3. PICK h \in [Nat -> W] : h[0] = first /\ \A n \in Nat : h[n + 1] = next[h[n]]
  <2> HIDE DEF W, next, first
  <2>1. Iterations(W, first, next) # {}
    BY <1>1, <1>2, Recursion
  <2> QED BY <2>1 DEF Iterations
<1> DEFINE g == [s \in SUBSET S |-> h[Cardinality(s)][s]]
<1>4. \A s \in SUBSET S : Cardinality(s) \in Nat /\ IsFiniteSet(s)
  BY FS_Subset, FS_CardinalityType
<1>5. g \in [SUBSET S -> V]
  BY <1>4
<1>6. g[{}] = base
  <2>1. Cardinality({}) = 0
    BY FS_EmptySet
  <2> QED BY <2>1, <1>3
<1>7. ASSUME NEW s \in SUBSET S, s # {} PROVE g[s] = step[<<pick[s], g[s \ {pick[s]}]>>]
  <2> DEFINE r == s \ {pick[s]}
  <2>1. r \in SUBSET S /\ Cardinality(r) = Cardinality(s) - 1
    BY <1>4, <1>7, FS_RemoveElement
  <2>2. Cardinality(r) \in Nat /\ Cardinality(s) = Cardinality(r) + 1
    BY <1>4, <2>1
  <2>3. h[Cardinality(s)] = next[h[Cardinality(r)]] /\ h[Cardinality(r)] \in W
    BY <1>3, <2>2
  <2>4. g[r] = h[Cardinality(r)][r]
    BY <2>1
  <2>5. g[s] = h[Cardinality(s)][s]
    OBVIOUS
  <2>6. next[h[Cardinality(r)]][s] = step[<<pick[s], h[Cardinality(r)][r]>>]
    BY <2>3, <1>7
  <2> HIDE DEF g, next
  <2> QED BY <2>3, <2>4, <2>5, <2>6
<1> HIDE DEF g
<1>8. \A s \in SUBSET S :
        g[s] = IF s = {} THEN base ELSE step[<<pick[s], g[s \ {pick[s]}]>>]
  BY <1>6, <1>7
<1> QED BY <1>5, <1>8 DEF FoldsOf

\* What a fold is, when its values have a type: it unfolds, and keeps the type.
LEMMA FoldUnfolds ==
  ASSUME NEW S, IsFiniteSet(S), NEW V, NEW base \in V, NEW iter,
         \A s \in SUBSET S :
             \/ s = {} /\ iter[s] = base
             \/ \E x \in s : iter[s \ {x}] \in V => iter[s] \in V
  PROVE  \A s \in SUBSET S : iter[s] \in V
<1> DEFINE T == {s \in SUBSET S : iter[s] \notin V}
<1> SUFFICES ASSUME T # {} PROVE FALSE
  OBVIOUS
<1>1. PICK s \in T : \A r \in SUBSET s : r # s => r \notin T
  <2>1. T \subseteq SUBSET S
    OBVIOUS
  <2> HIDE DEF T
  <2> QED BY <2>1, Minimal
<1>2. PICK x \in s : iter[s \ {x}] \in V => iter[s] \in V
  BY <1>1
<1>3. s \ {x} \in SUBSET s /\ s \ {x} # s /\ s \ {x} \in SUBSET S
  OBVIOUS
<1> QED BY <1>1, <1>2, <1>3

-----------------------------------------------------------------------------
(* What the model's operators return.                                        *)

\* Events are numbered.
LEMMA HappenedIsANumber ==
  ASSUME IsFiniteSet(Kinds), DOMAIN hist = Kinds, \A k \in Kinds : Len(hist[k]) \in Nat
  PROVE  Happened \in Int
<1> DEFINE chosen(s) == CHOOSE x \in s : TRUE
           Sum(iter) == iter = [s \in SUBSET Kinds |->
               IF s = {} THEN 0 ELSE Len(hist[chosen(s)]) - 1 + iter[s \ {chosen(s)}]]
           total == CHOOSE iter : Sum(iter)
           pick == [s \in (SUBSET Kinds) \ {{}} |-> chosen(s)]
           step == [p \in Kinds \X Int |-> Len(hist[p[1]]) - 1 + p[2]]
<1>1. Happened = total[Kinds]
  BY DEF Happened, FoldFunction, FoldFunctionOnSet, MapThenFoldSet
<1>2. \A s \in (SUBSET Kinds) \ {{}} : chosen(s) \in s
  OBVIOUS
<1>3. pick \in [(SUBSET Kinds) \ {{}} -> Kinds] /\ \A s \in (SUBSET Kinds) \ {{}} : pick[s] \in s
  BY <1>2
<1>4. step \in [Kinds \X Int -> Int]
  <2>1. \A p \in Kinds \X Int : p[1] \in Kinds /\ p[2] \in Int
    OBVIOUS
  <2>2. \A p \in Kinds \X Int : Len(hist[p[1]]) - 1 + p[2] \in Int
    BY <2>1
  <2> QED BY <2>2
<1>5. PICK g \in [SUBSET Kinds -> Int] : \A s \in SUBSET Kinds :
        g[s] = IF s = {} THEN 0 ELSE step[<<pick[s], g[s \ {pick[s]}]>>]
  <2> DEFINE V == Int
             K == Kinds
  <2>1. 0 \in V /\ step \in [K \X V -> V] /\ IsFiniteSet(K)
    BY <1>4
  <2>3. pick \in [(SUBSET K) \ {{}} -> K] /\ \A s \in (SUBSET K) \ {{}} : pick[s] \in s
    BY <1>3
  <2> HIDE DEF pick, step, V, K
  <2>2. FoldsOf(K, V, 0, step, pick) # {}
    BY <2>1, <2>3, FoldIsDefined
  <2> QED BY <2>2 DEF FoldsOf, V, K
<1>6. Sum(g)
  <2>1. ASSUME NEW s \in SUBSET Kinds
        PROVE  g[s] = IF s = {} THEN 0 ELSE Len(hist[chosen(s)]) - 1 + g[s \ {chosen(s)}]
    <3>1. CASE s = {}
      BY <3>1, <1>5
    <3>2. CASE s # {}
      <4>1. pick[s] = chosen(s) /\ chosen(s) \in Kinds /\ g[s \ {chosen(s)}] \in Int
        BY <3>2, <1>2
      <4>2. g[s] = step[<<chosen(s), g[s \ {chosen(s)}]>>]
        BY <3>2, <4>1, <1>5
      <4> HIDE DEF chosen
      <4> QED BY <3>2, <4>1, <4>2
    <3> QED BY <3>1, <3>2
  <2>2. g = [s \in SUBSET Kinds |-> g[s]]
    OBVIOUS
  <2> HIDE DEF chosen
  <2> QED BY <2>1, <2>2
<1>7. Sum(total)
  <2> HIDE DEF Sum
  <2> QED BY <1>6
<1>8. \A s \in SUBSET Kinds : total[s] \in Int
  <2>1. \A s \in SUBSET Kinds : total[s] =
          IF s = {} THEN 0 ELSE Len(hist[chosen(s)]) - 1 + total[s \ {chosen(s)}]
    <3> HIDE DEF total, chosen
    <3> QED BY <1>7
  <2> HIDE DEF total
  <2>2. ASSUME NEW s \in SUBSET Kinds
        PROVE  \/ s = {} /\ total[s] = 0
               \/ \E x \in s : total[s \ {x}] \in Int => total[s] \in Int
    <3>1. CASE s = {}
      BY <3>1, <2>1
    <3>2. CASE s # {}
      <4>1. chosen(s) \in s /\ Len(hist[chosen(s)]) \in Nat
        BY <3>2, <1>2
      <4> HIDE DEF chosen
      <4>2. total[s] = Len(hist[chosen(s)]) - 1 + total[s \ {chosen(s)}]
        BY <3>2, <2>1
      <4>3. total[s \ {chosen(s)}] \in Int => total[s] \in Int
        BY <4>1, <4>2
      <4> QED BY <4>1, <4>3, Zenon
    <3> QED BY <3>1, <3>2
  <2>3. 0 \in Int
    OBVIOUS
  <2> QED BY <2>2, <2>3, FoldUnfolds, Zenon
<1> HIDE DEF total
<1> QED BY <1>1, <1>8

\* A put leaves what was there and what is put, or less.
LEMMA PutKeeps ==
  ASSUME NEW r, NEW x, NEW policy, NEW limit, NEW after \in Put(r, x, policy, limit)
  PROVE  after \subseteq r \cup {x} /\ x \in after
BY DEF Put, Evictees

\* Of finitely many objects one has the last name.
LEMMA LastNamed ==
  ASSUME NEW items, IsFiniteSet(items), \A x \in items : x.name \in Int
  PROVE  \A s \in (SUBSET items) \ {{}} : \E x \in s : \A y \in s : y.name <= x.name
<1> DEFINE T == {s \in (SUBSET items) \ {{}} : ~ \E x \in s : \A y \in s : y.name <= x.name}
<1> SUFFICES ASSUME T # {} PROVE FALSE
  OBVIOUS
<1>1. PICK s \in T : \A r \in SUBSET s : r # s => r \notin T
  <2>1. T \subseteq SUBSET items
    OBVIOUS
  <2> HIDE DEF T
  <2> QED BY <2>1, Minimal
<1>2. PICK x \in s : TRUE
  OBVIOUS
<1>3. PICK y \in s : ~(y.name <= x.name)
  OBVIOUS
<1>4. s \ {x} \in (SUBSET items) \ {{}} /\ s \ {x} # s
  BY <1>3
<1>5. PICK z \in s \ {x} : \A v \in s \ {x} : v.name <= z.name
  BY <1>1, <1>4
<1>6. y \in s \ {x} /\ x.name <= y.name
  BY <1>3
<1>7. \A v \in s : v.name <= z.name
  BY <1>5, <1>6
<1> QED BY <1>5, <1>7

\* Whatever the policy and the limit, what is retained of a listing is listed
\* (keyed.put, over the items of the listing).
LEMMA PutAllKeepsParts ==
  ASSUME NEW k, NEW items, IsFiniteSet(items), \A x \in items : x.name \in Int
  PROVE  PutAll(items, k) \subseteq SUBSET items
<1> DEFINE last(s) == CHOOSE x \in s : \A y \in s : y.name <= x.name
           put(x, outcomes) ==
               UNION {Put(r, x, profile.keep.policy[k], LimitOf(k)) : r \in outcomes}
           V == SUBSET SUBSET items
           Puts(iter) == iter = [s \in SUBSET items |->
               IF s = {} THEN {{}} ELSE put(last(s), iter[s \ {last(s)}])]
           all == CHOOSE iter : Puts(iter)
           pick == [s \in (SUBSET items) \ {{}} |-> last(s)]
           step == [p \in items \X V |-> put(p[1], p[2])]
<1>1. PutAll(items, k) = all[items]
  BY DEF PutAll, MapThenFoldSet
<1>2. \A s \in (SUBSET items) \ {{}} : last(s) \in s
  <2> SUFFICES ASSUME NEW s \in (SUBSET items) \ {{}} PROVE last(s) \in s
    OBVIOUS
  <2>1. \E x \in s : \A y \in s : y.name <= x.name
    BY LastNamed
  <2> QED BY <2>1
<1> HIDE DEF last
<1>3. pick \in [(SUBSET items) \ {{}} -> items] /\ \A s \in (SUBSET items) \ {{}} : pick[s] \in s
  BY <1>2
<1>4. \A x \in items, outcomes \in V : put(x, outcomes) \in V
  <2> SUFFICES ASSUME NEW x \in items, NEW outcomes \in V,
                      NEW r \in outcomes,
                      NEW after \in Put(r, x, profile.keep.policy[k], LimitOf(k))
               PROVE  after \subseteq items
    OBVIOUS
  <2>1. after \subseteq r \cup {x}
    BY PutKeeps
  <2> QED BY <2>1
<1> HIDE DEF put
<1>5. step \in [items \X V -> V]
  <2>1. \A p \in items \X V : p[1] \in items /\ p[2] \in V
    OBVIOUS
  <2> HIDE DEF V
  <2>2. \A p \in items \X V : put(p[1], p[2]) \in V
    BY <2>1, <1>4
  <2> QED BY <2>2
<1>6. {{}} \in V
  OBVIOUS
<1> HIDE DEF V
<1>7. PICK g \in [SUBSET items -> V] : \A s \in SUBSET items :
        g[s] = IF s = {} THEN {{}} ELSE step[<<pick[s], g[s \ {pick[s]}]>>]
  <2> HIDE DEF pick, step
  <2>2. FoldsOf(items, V, {{}}, step, pick) # {}
    BY <1>3, <1>5, <1>6, FoldIsDefined
  <2> QED BY <2>2 DEF FoldsOf
<1>8. Puts(g)
  <2>1. ASSUME NEW s \in SUBSET items
        PROVE  g[s] = IF s = {} THEN {{}} ELSE put(last(s), g[s \ {last(s)}])
    <3>1. CASE s = {}
      BY <3>1, <1>7
    <3>2. CASE s # {}
      <4>1. pick[s] = last(s) /\ last(s) \in items /\ g[s \ {last(s)}] \in V
        BY <3>2, <1>2
      <4>2. g[s] = step[<<last(s), g[s \ {last(s)}]>>]
        BY <3>2, <4>1, <1>7
      <4> QED BY <3>2, <4>1, <4>2
    <3> QED BY <3>1, <3>2
  <2>2. g = [s \in SUBSET items |-> g[s]]
    OBVIOUS
  <2> QED BY <2>1, <2>2
<1>9. Puts(all)
  <2> HIDE DEF Puts
  <2> QED BY <1>8
<1>10. \A s \in SUBSET items : all[s] \in V
  <2>1. \A s \in SUBSET items : all[s] =
          IF s = {} THEN {{}} ELSE put(last(s), all[s \ {last(s)}])
    <3> HIDE DEF all
    <3> QED BY <1>9
  <2> HIDE DEF all
  <2>2. ASSUME NEW s \in SUBSET items
        PROVE  \/ s = {} /\ all[s] = {{}}
               \/ \E x \in s : all[s \ {x}] \in V => all[s] \in V
    <3>1. CASE s = {}
      BY <3>1, <2>1
    <3>2. CASE s # {}
      <4>1. last(s) \in s /\ last(s) \in items
        BY <3>2, <1>2
      <4>2. all[s] = put(last(s), all[s \ {last(s)}])
        BY <3>2, <2>1
      <4>3. all[s \ {last(s)}] \in V => all[s] \in V
        BY <4>1, <4>2, <1>4
      <4> QED BY <4>1, <4>3, Zenon
    <3> QED BY <3>1, <3>2
  <2> QED BY <2>2, <1>6, FoldUnfolds, Zenon
<1> HIDE DEF all
<1> QED BY <1>1, <1>10 DEF V

-----------------------------------------------------------------------------
(* Retention.                                                                *)

\* The names, instants and states of objects are comparable.
LEMMA ObjectsAreOrdered ==
  ASSUME NEW k
  PROVE  /\ NamesOf(k) \subseteq Names
         /\ \A x \in Objects(k) : x.name \in NamesOf(k) /\ x.name \in Nat
                                   /\ x.at \in Int /\ x.open \in BOOLEAN
<1>1. Min(Names) \in Names
  <2>1. \E x \in Names : \A y \in Names : x <= y
    BY NamesAssumption, Least
  <2> QED BY <2>1 DEF Min
<1>2. NamesOf(k) \subseteq Names
  BY <1>1 DEF NamesOf
<1> QED BY <1>2, NamesAssumption DEF Objects

\* What is not too much for the page is shown whole.
LEMMA NothingIsCut ==
  ASSUME NEW k, NEW members, Whole(k, members), NEW order, Cardinality(members) <= MaxShown
  PROVE  Bounded(members, order, MaxShown) = members
<1> SUFFICES ASSUME NEW x \in members
             PROVE  Cardinality({y \in members : Less(order, y, x)}) < MaxShown
  BY DEF Bounded
<1> DEFINE before == {y \in members : Less(order, y, x)}
<1>1. x \in Objects(k) /\ IsFiniteSet(members)
  BY DEF Whole
<1>2. x \notin before
  <2>1. x.name \in Nat /\ x.at \in Int
    BY <1>1, ObjectsAreOrdered
  <2>2. ~Newer(x, x) /\ ~Older(x, x) /\ ~(x.name < x.name)
    BY <2>1 DEF Newer, Older
  <2> QED BY <2>2 DEF Less, QueuedBefore
<1>3. before \in SUBSET members /\ before # members
  BY <1>2
<1> HIDE DEF before
<1>4. Cardinality(before) <= Cardinality(members) /\ Cardinality(before) # Cardinality(members)
  BY <1>1, <1>3, FS_Subset
<1>5. Cardinality(before) \in Nat /\ Cardinality(members) \in Nat
  BY <1>1, <1>3, FS_Subset, FS_CardinalityType
<1> QED BY <1>4, <1>5, MaxShownAssumption DEF before

\* A part of a set with one object a name.
LEMMA WholeParts ==
  ASSUME NEW k, NEW members, Whole(k, members), NEW part \in SUBSET members
  PROVE  Whole(k, part)
BY FS_Subset DEF Whole

\* Put keeps one object a name.
LEMMA WholePut ==
  ASSUME NEW k, NEW members, Whole(k, members), NEW x \in Objects(k),
         NEW policy, NEW limit, NEW after \in Put(members, x, policy, limit)
  PROVE  Whole(k, after)
<1>1. after \in SUBSET (members \cup {x})
  BY PutKeeps
<1>2. IsFiniteSet(members \cup {x})
  BY FS_AddElement DEF Whole
<1>3. IsFiniteSet(after)
  BY <1>1, <1>2, FS_Subset
<1>4. Named(members, x.name) \cap after \subseteq {x}
  BY DEF Put, Named, Evictees
<1>5. \A y, z \in after : y.name = z.name => y = z
  BY <1>1, <1>4 DEF Whole, Named
<1> QED BY <1>1, <1>3, <1>5 DEF Whole

\* A put that drops another object is an eviction, and raises the flag.
LEMMA UnlessEvicted ==
  ASSUME NEW k, NEW item, NEW retained \in Applied(k, item), ~Evicted(k, item, retained),
         ~profile.source.pinned, item.do = "put"
  PROVE  retained = (kept[k] \ Named(kept[k], item.item.name)) \cup {item.item}
<1> DEFINE x == item.item
           full == Named(kept[k], x.name) = {} /\ LimitOf(k) > 0 /\ Cardinality(kept[k]) >= LimitOf(k)
<1>1. CASE ~full
  BY <1>1 DEF Applied, Put
<1>2. CASE full
  <2>1. PICK loser \in Evictees(kept[k], profile.keep.policy[k]) :
          retained = (kept[k] \ {loser}) \cup {x}
    BY <1>2 DEF Applied, Put
  <2>2. loser \in kept[k] /\ x \notin kept[k]
    BY <1>2 DEF Evictees, Named
  <2>3. kept[k] \ retained = {loser}
    BY <2>1, <2>2
  <2>4. Cardinality(kept[k] \ retained) = 1 /\ Cardinality(Named(kept[k], x.name)) = 0
    BY <2>3, <1>2, FS_Singleton, FS_EmptySet
  <2> QED BY <2>4 DEF Evicted
<1> QED BY <1>1, <1>2

\* The event of a change makes the change: a put replaces the object of its name, a
\* delete removes the very object it names.
LEMMA EventMakesTheChange ==
  ASSUME HistInv, NEW k \in Kinds, NEW i \in 1..Len(hist[k]), i > 1
  PROVE  LET before == hist[k][i - 1]
             after == hist[k][i]
             event == EventAfter(k, i - 1)
         IN  /\ event \in [do : {"put", "delete"}, item : Objects(k)]
             /\ event # NoItem
             /\ event.do = "put" =>
                    after = (before \ Named(before, event.item.name)) \cup {event.item}
             /\ event.do = "delete" => after = Remove(before, event.item)
<1> DEFINE before == hist[k][i - 1]
           after == hist[k][i]
           event == EventAfter(k, i - 1)
           come == after \ before
           gone == before \ after
<1>1. Whole(k, before) /\ Whole(k, after) /\ Change(before, after)
  <2>1. i - 1 \in 1..Len(hist[k])
    BY DEF HistInv
  <2> QED BY <2>1 DEF HistInv
<1>2. (i - 1) + 1 = i
  OBVIOUS
<1>3. event = IF come # {}
              THEN [do |-> "put", item |-> CHOOSE x \in come : TRUE]
              ELSE [do |-> "delete", item |-> CHOOSE x \in gone : TRUE]
  BY <1>2, Zenon DEF EventAfter
<1> HIDE DEF before, after, event
<1>4. CASE \E x \in after : Named(before, x.name) = {} /\ after = before \cup {x}
  <2>1. PICK x \in after : Named(before, x.name) = {} /\ after = before \cup {x}
    BY <1>4
  <2>2. come = {x}
    BY <2>1 DEF Named
  <2>3. event = [do |-> "put", item |-> x]
    BY <1>3, <2>2
  <2>4. after = (before \ Named(before, event.item.name)) \cup {event.item}
    BY <2>1, <2>3
  <2> QED BY <2>3, <2>4, <1>1 DEF Whole, NoItem, before, after, event
<1>5. CASE \E x \in before, y \in after :
             y # x /\ y.name = x.name /\ y.uid = x.uid /\ after = (before \ {x}) \cup {y}
  <2>1. PICK x \in before, y \in after :
          y # x /\ y.name = x.name /\ y.uid = x.uid /\ after = (before \ {x}) \cup {y}
    BY <1>5
  <2>2. y \notin before /\ Named(before, y.name) = {x}
    BY <2>1, <1>1 DEF Whole, Named
  <2>3. come = {y}
    BY <2>1, <2>2
  <2>4. event = [do |-> "put", item |-> y]
    BY <1>3, <2>3
  <2>5. after = (before \ Named(before, event.item.name)) \cup {event.item}
    BY <2>1, <2>2, <2>4
  <2> QED BY <2>4, <2>5, <1>1 DEF Whole, NoItem, before, after, event
<1>6. CASE \E x \in before : after = before \ {x}
  <2>1. PICK x \in before : after = before \ {x}
    BY <1>6
  <2>2. come = {} /\ gone = {x}
    BY <2>1
  <2>3. event = [do |-> "delete", item |-> x]
    BY <1>3, <2>2
  <2>4. after = Remove(before, event.item)
    BY <2>1, <2>3, <1>1 DEF Whole, Remove
  <2> QED BY <2>3, <2>4, <2>1, <1>1 DEF Whole, NoItem, before, after, event
<1> QED BY <1>1, <1>4, <1>5, <1>6 DEF Change, before, after, event

\* What a pinned object's event says is all there is.
LEMMA PinnedEventIsTheWhole ==
  ASSUME HistInv, profile.source.pinned, NEW k \in Kinds, NEW i \in 1..Len(hist[k]), i > 1
  PROVE  LET event == EventAfter(k, i - 1) IN
         hist[k][i] = IF event.do = "put" THEN {event.item} ELSE {}
<1> DEFINE before == hist[k][i - 1]
           after == hist[k][i]
           event == EventAfter(k, i - 1)
<1>1. Whole(k, before) /\ Whole(k, after)
  <2>1. i - 1 \in 1..Len(hist[k])
    BY DEF HistInv
  <2> QED BY <2>1 DEF HistInv
<1>2. \A x \in Objects(k) : x.name = Min(Names)
  BY DEF Objects, NamesOf
<1>3. /\ event \in [do : {"put", "delete"}, item : Objects(k)]
      /\ event.do = "put" => after = (before \ Named(before, event.item.name)) \cup {event.item}
      /\ event.do = "delete" => after = Remove(before, event.item)
  BY EventMakesTheChange, Zenon
<1>4. Change(before, after)
  BY DEF HistInv
<1> HIDE DEF before, after, event
<1>5. \A x, y \in after : x = y
  BY <1>1, <1>2 DEF Whole
<1>6. \A x, y \in before : x = y
  BY <1>1, <1>2 DEF Whole
<1>7. CASE event.do = "put"
  <2>1. event.item \in after
    BY <1>7, <1>3
  <2> QED BY <2>1, <1>5, <1>7 DEF after, event
<1>8. CASE event.do = "delete"
  <2>1. after \subseteq before /\ event.item.name = Min(Names)
    BY <1>8, <1>3, <1>2 DEF Remove
  <2>2. after = {}
    <3> SUFFICES ASSUME NEW x \in after PROVE FALSE
      OBVIOUS
    <3>1. before \subseteq {x} /\ after = {x} /\ before = {x}
      BY <2>1, <1>5, <1>6
    <3> QED BY <3>1, <1>4 DEF Change, Named
  <2> QED BY <2>2, <1>8 DEF after, event
<1> QED BY <1>3, <1>7, <1>8

-----------------------------------------------------------------------------
(* The invariant holds at first, and the server keeps it.                    *)

\* The feed of a behaviour does not change, and so neither do its kinds.
LEMMA SameFeed ==
  ASSUME profile' = profile
  PROVE  /\ Kinds' = Kinds
         /\ \A k : NamesOf(k)' = NamesOf(k) /\ Objects(k)' = Objects(k)
         /\ \A k, members : Whole(k, members)' = Whole(k, members)
BY DEF Kinds, NamesOf, Objects, Whole, Membership

\* A kind has had a first revision and has a last one.
LEMMA Revisions ==
  ASSUME HistInv, NEW k \in Kinds
  PROVE  /\ Len(hist[k]) \in Nat
         /\ 1 \in 1..Len(hist[k]) /\ Len(hist[k]) \in 1..Len(hist[k])
<1> DEFINE n == Len(hist[k])
<1>1. hist[k] \in Seq(SUBSET Objects(k)) /\ n >= 1
  BY DEF HistInv
<1>2. n \in Nat
  BY <1>1
<1> HIDE DEF n
<1>3. 1 \in 1..n /\ n \in 1..n
  BY <1>1, <1>2
<1> QED BY <1>2, <1>3 DEF n

\* Nothing is fetched, retained or published.
LEMMA FeedInit == Init => FeedInv
<1> SUFFICES ASSUME Init PROVE FeedInv
  OBVIOUS
<1>1. TypeInv
  BY DEF Init, TypeInv
<1>2. ASSUME NEW k \in Kinds
      PROVE  \E members : hist[k] = <<members>> /\ Whole(k, members)
  <2>1. PICK present : /\ \E some \in Starting : present = some \cap NamesOf(k)
                       /\ hist[k] = <<{Elder(n) : n \in present}>>
    <3>1. PICK some \in [Kinds -> Starting] :
            hist = [j \in Kinds |-> <<{Elder(n) : n \in some[j] \cap NamesOf(j)}>>]
      BY DEF Init
    <3> QED BY <3>1
  <2> DEFINE members == {Elder(n) : n \in present}
  <2>2. present \in SUBSET Names /\ present \subseteq NamesOf(k)
    BY <2>1, BoundsAssumption
  <2>3. present \subseteq Nat /\ IsFiniteSet(present)
    BY <2>2, NamesAssumption, FS_Subset
  <2>4. TRUE \in Membership /\ TRUE \in BOOLEAN
    BY DEF Membership
  <2>7. members \subseteq Objects(k)
    <3> SUFFICES ASSUME NEW n \in present PROVE Elder(n) \in Objects(k)
      OBVIOUS
    <3>1. n \in NamesOf(k) /\ 0 \in Int /\ n \div 2 \in Int
      BY <2>2, <2>3
    <3> QED BY <3>1, <2>4 DEF Elder, Objects
  <2>8. \A x, y \in members : x.name = y.name => x = y
    <3>1. \A x \in members : x = Elder(x.name)
      BY DEF Elder
    <3> HIDE DEF members
    <3> QED BY <3>1, Zenon
  <2>9. IsFiniteSet(members)
    <3> DEFINE f == [n \in present |-> Elder(n)]
    <3>1. f \in Surjection(present, members)
      BY DEF Surjection
    <3> QED BY <3>1, <2>3, FS_Surjection
  <2> QED BY <2>1, <2>7, <2>8, <2>9 DEF Whole
<1>3. HistInv
  <2>1. DOMAIN hist = Kinds
    BY DEF Init
  <2>2. ASSUME NEW k \in Kinds
        PROVE  /\ hist[k] \in Seq(SUBSET Objects(k))
               /\ Len(hist[k]) >= 1
               /\ \A i \in 1..Len(hist[k]) : Whole(k, hist[k][i])
               /\ \A i \in 1..Len(hist[k]) : ~(i > 1)
    <3>1. PICK members : hist[k] = <<members>> /\ Whole(k, members)
      BY <1>2
    <3>2. members \in SUBSET Objects(k)
      BY <3>1 DEF Whole
    <3>3. <<members>> \in Seq(SUBSET Objects(k))
      BY <3>2
    <3>4. Len(<<members>>) = 1 /\ <<members>>[1] = members
      OBVIOUS
    <3>5. hist[k] \in Seq(SUBSET Objects(k)) /\ Len(hist[k]) = 1 /\ hist[k][1] = members
      BY <3>1, <3>3, <3>4, Zenon
    <3>6. PICK n : n = Len(hist[k])
      OBVIOUS
    <3>7. n = 1 /\ n >= 1 /\ \A i \in 1..n : i = 1 /\ ~(i > 1)
      <4>1. n = 1
        BY <3>5, <3>6, Zenon
      <4> QED BY <4>1
    <3>8. \A i \in 1..n : Whole(k, hist[k][i])
      <4>1. Whole(k, hist[k][1])
        BY <3>1, <3>5, Zenon
      <4> QED BY <3>7, <4>1, Zenon
    <3> QED BY <3>5, <3>6, <3>7, <3>8, Zenon
  <2> QED BY <2>1, <2>2, Zenon DEF HistInv
<1>4. \A k \in Kinds : 1 \in 1..Len(hist[k])
  BY <1>3, Revisions
<1>5. FetchInv
  BY DEF Init, FetchInv, Listed
<1>6. KeptInv
  <2>1. \A k \in Kinds : Whole(k, kept[k])
    BY FS_EmptySet DEF Init, Whole
  <2> QED BY <2>1, <1>4 DEF Init, KeptInv
<1>7. StreamInv
  BY <1>4 DEF Init, StreamInv
<1>8. PhaseInv
  BY DEF Init, PhaseInv
<1> QED BY <1>1, <1>3, <1>5, <1>6, <1>7, <1>8 DEF FeedInv

\* What a step leaves alone keeps its part of the invariant.
LEMMA HistFrame ==
  ASSUME HistInv, UNCHANGED <<profile, hist>>
  PROVE  HistInv'
<1>1. Kinds' = Kinds /\ \A k : Objects(k)' = Objects(k)
  BY SameFeed
<1>2. \A k, i : Whole(k, hist[k][i])' = Whole(k, hist[k][i])
  BY DEF Whole, Objects, NamesOf, Membership
<1>3. \A k, i : Change(hist[k][i - 1], hist[k][i]) => Change(hist[k][i - 1], hist[k][i])'
  BY DEF Change, Named
<1> SUFFICES ASSUME NEW k \in Kinds
             PROVE  /\ hist[k] \in Seq(SUBSET Objects(k)) /\ Len(hist[k]) >= 1
                    /\ \A i \in 1..Len(hist[k]) : Whole(k, hist[k][i])'
                    /\ \A i \in 1..Len(hist[k]) :
                           i > 1 => Change(hist[k][i - 1], hist[k][i])'
  BY <1>1 DEF HistInv
<1> QED BY <1>2, <1>3 DEF HistInv

\* What is retained goes on telling what was folded in, whatever is recorded or missed
\* since.
LEMMA ToldFrame ==
  ASSUME NEW k \in Kinds, Told(k), profile' = profile,
         read[k] \in Nat, \A i \in 1..read[k] : hist'[k][i] = hist[k][i],
         read[k] >= 1, kept'[k] = kept[k], read'[k] = read[k], since'[k] = since[k],
         missed \subseteq missed', failed \subseteq failed'
  PROVE  Told(k)'
<1>1. hist'[k][read[k]] = hist[k][read[k]]
  OBVIOUS
<1>2. CASE profile.source.pinned
  BY <1>1, <1>2 DEF Told
<1>3. CASE ~profile.source.pinned
  <2>1. since[k] \in 1..read[k] /\ Tells(k, kept[k], read[k])
    BY <1>3 DEF Told
  <2>2. ASSUME NEW x, Unproven(k, x) PROVE Unproven(k, x)'
    BY <2>2 DEF Unproven, Key
  <2>3. ASSUME NEW x, Strayed(k, x, read[k]) PROVE Strayed(k, x, read[k])'
    <3>1. PICK j \in since[k]..read[k] - 1 :
            x \in Mine(hist[k][j]) /\ \E y \in hist[k][j + 1] : Key(k, y) = Key(k, x) /\ ~y.mine
      BY <2>3 DEF Strayed
    <3>2. j \in 1..read[k] /\ j + 1 \in 1..read[k]
      BY <2>1
    <3>3. hist'[k][j] = hist[k][j] /\ hist'[k][j + 1] = hist[k][j + 1]
      BY <3>2
    <3> QED BY <3>1, <3>3 DEF Strayed, Mine, Key
  <2>4. Tells(k, kept[k], read[k])'
    <3>1. Mine(hist[k][read[k]])' = Mine(hist[k][read[k]])
      BY <1>1 DEF Mine
    <3>2. \A x \in (Mine(hist[k][read[k]]) \ kept[k])' : Unproven(k, x)'
      BY <3>1, <2>1, <2>2 DEF Tells
    <3>3. \A x \in (kept[k] \ Mine(hist[k][read[k]]))' :
             Unproven(k, x)' \/ Strayed(k, x, read[k])'
      BY <3>1, <2>1, <2>2, <2>3 DEF Tells
    <3> QED BY <3>2, <3>3 DEF Tells
  <2> QED BY <1>3, <2>1, <2>4 DEF Told
<1> QED BY <1>2, <1>3

\* A step that adds nothing to the server's past, and folds nothing in.
LEMMA ToldStands ==
  ASSUME FeedInv, UNCHANGED <<profile, hist, kept, read, since>>,
         missed \subseteq missed', failed \subseteq failed'
  PROVE  \A k \in Kinds : Told(k) => Told(k)'
<1>1. \A k \in Kinds : read[k] \in Nat /\ read[k] >= 1
  BY DEF FeedInv, KeptInv
<1> QED BY <1>1, ToldFrame

\* A step that retains and publishes what was there, stale or not.
LEMMA KeptFrame ==
  ASSUME KeptInv, UNCHANGED <<profile, hist, kept, flag, read>>,
         \/ UNCHANGED snap
         \/ snap' = [snap EXCEPT !.stale = snap.gen > 0],
         \A k \in Kinds : k \notin snap.unobserved /\ ~flag[k] /\ Told(k) => Told(k)'
  PROVE  KeptInv'
<1>1. /\ snap'.gen = snap.gen /\ snap'.unobserved = snap.unobserved
      /\ snap'.flagged = snap.flagged /\ snap'.shown = snap.shown
      /\ DOMAIN snap' = DOMAIN snap
  BY DEF KeptInv
<1>2. \A k : Whole(k, kept[k])' = Whole(k, kept[k])
  BY DEF Whole, Objects, NamesOf, Membership
<1>3. \A k : Admitted(k, kept, flag)' = Admitted(k, kept, flag)
  BY DEF Admitted
<1>4. Kinds' = Kinds
  BY SameFeed
<1> QED BY <1>1, <1>2, <1>3, <1>4 DEF KeptInv

\* A step that lists nothing.
LEMMA FetchFrame ==
  ASSUME FetchInv, UNCHANGED <<profile, hist, fetched>>
  PROVE  FetchInv'
<1>1. Kinds' = Kinds /\ Listed' = Listed
  BY SameFeed DEF Listed
<1>2. \A k \in Kinds \cap Listed :
        ListingOf(k, fetched[k], Mine(hist[k][fetched[k].at])) =>
            ListingOf(k, fetched[k], Mine(hist[k][fetched[k].at]))'
  BY DEF ListingOf, Mine, Key
<1> QED BY <1>1, <1>2 DEF FetchInv

\* A step that leaves the loop where it is.
LEMMA PhaseFrame ==
  ASSUME PhaseInv, UNCHANGED <<profile, hist, phase, fetched, kept, flag, read, snap, since,
                               missed, up>>
  PROVE  PhaseInv'
<1>1. Kinds' = Kinds /\ Listed' = Listed /\ Observed' = Observed
  BY SameFeed DEF Listed, Observed
<1>2. \A k : Seeded(k) => Seeded(k)'
  BY DEF Seeded, Mine, Key
<1> QED BY <1>1, <1>2 DEF PhaseInv

\* A pump that reads, holds and offers what it did.
LEMMA AlignedFrame ==
  ASSUME NEW k \in Kinds, Aligned(k), UNCHANGED <<profile, hist, fetched>>,
         read'[k] = read[k], cursor'[k] = cursor[k], offer'[k] = offer[k]
  PROVE  Aligned(k)'
BY SameFeed DEF Aligned, NoItem, EventAfter

\* A step that leaves every pump alone.
LEMMA StreamFrame ==
  ASSUME StreamInv, up \subseteq Kinds,
         UNCHANGED <<profile, hist, phase, fetched, read, up, cursor, offer>>
  PROVE  StreamInv'
<1>1. Kinds' = Kinds /\ Observed' = Observed /\ NoItem' = NoItem
  BY SameFeed DEF Observed, NoItem
<1>2. \A k \in up : Aligned(k) => Aligned(k)'
  BY AlignedFrame
<1> QED BY <1>1, <1>2 DEF StreamInv

\* Revisions are only ever added: whatever was said of an earlier one stands.
LEMMA FeedGrows ==
  ASSUME FeedInv, UNCHANGED <<profile, loopVars, streamVars>>, TypeInv', HistInv',
         NEW k \in Kinds, NEW members, hist' = [hist EXCEPT ![k] = Append(@, members)]
  PROVE  FeedInv'
<1>1. Kinds' = Kinds
  BY SameFeed
<1>2. \A j \in Kinds : /\ Len(hist[j]) \in Nat /\ Len(hist'[j]) \in Nat
                        /\ Len(hist[j]) <= Len(hist'[j])
                        /\ \A i \in 1..Len(hist[j]) : hist'[j][i] = hist[j][i]
  <2> SUFFICES ASSUME NEW j \in Kinds
               PROVE  /\ Len(hist[j]) \in Nat /\ Len(hist'[j]) \in Nat
                      /\ Len(hist[j]) <= Len(hist'[j])
                      /\ \A i \in 1..Len(hist[j]) : hist'[j][i] = hist[j][i]
    OBVIOUS
  <2>1. hist[j] \in Seq(SUBSET Objects(j)) /\ j \in DOMAIN hist
    BY DEF FeedInv, HistInv
  <2>2. CASE j # k
    BY <2>1, <2>2
  <2>3. CASE j = k
    <3>1. hist'[j] = Append(hist[j], members)
      BY <2>1, <2>3
    <3> QED BY <3>1, <2>1
  <2> QED BY <2>2, <2>3
<1>3. FetchInv'
  <2>1. Listed' = Listed /\ fetched' = fetched /\ profile' = profile
    BY DEF Listed, loopVars
  <2>2. \A j \in Kinds \cap Listed :
           fetched[j].at \in 1..Len(hist'[j]) /\ hist'[j][fetched[j].at] = hist[j][fetched[j].at]
    BY <1>2 DEF FeedInv, FetchInv
  <2>3. \A j \in Kinds \cap Listed : ListingOf(j, fetched[j], Mine(hist[j][fetched[j].at]))'
    BY <2>1, <2>2 DEF FeedInv, FetchInv, ListingOf, Mine, Key
  <2> QED BY <1>1, <2>1, <2>2, <2>3 DEF FetchInv
<1>4. KeptInv'
  <2>2. UNCHANGED <<profile, kept, flag, read, snap, since, missed, failed>>
    BY DEF loopVars, streamVars
  <2>3. \A j \in Kinds :
           read[j] \in 1..Len(hist'[j]) /\ hist'[j][read[j]] = hist[j][read[j]]
    BY <1>2 DEF FeedInv, KeptInv
  <2>4. \A j : Admitted(j, kept, flag)' = Admitted(j, kept, flag)
    BY <2>2 DEF Admitted
  <2>5. \A j : Whole(j, kept[j])' = Whole(j, kept[j])
    BY <2>2 DEF Whole, Objects, NamesOf, Membership
  <2>6. \A j \in Kinds : Told(j) => Told(j)'
    <3> SUFFICES ASSUME NEW j \in Kinds, Told(j) PROVE Told(j)'
      OBVIOUS
    <3>1. read[j] \in 1..Len(hist[j])
      BY DEF FeedInv, KeptInv
    <3>2. /\ read[j] \in Nat /\ read[j] >= 1
          /\ \A i \in 1..read[j] : hist'[j][i] = hist[j][i]
      BY <3>1, <1>2
    <3> QED BY <2>2, <3>2, ToldFrame
  <2> QED BY <1>1, <2>2, <2>3, <2>4, <2>5, <2>6 DEF FeedInv, KeptInv
<1>6. PhaseInv'
  <2>1. /\ UNCHANGED <<phase, fetched, kept, flag, read, snap, since, missed, up>>
        /\ Observed' = Observed /\ Listed' = Listed
    BY <1>1 DEF loopVars, streamVars, Observed, Listed
  <2>2. \A j \in Kinds : hist'[j][read[j]] = hist[j][read[j]]
    BY <1>2 DEF FeedInv, KeptInv
  <2>3. \A j \in Kinds : Seeded(j) => Seeded(j)'
    BY <2>1, <2>2 DEF Seeded, Mine, Key
  <2> QED BY <1>1, <2>1, <2>3 DEF FeedInv, PhaseInv
<1>5. StreamInv'
  <2>1. UNCHANGED <<profile, phase, fetched, read, up, cursor, offer>> /\ Observed' = Observed
    BY <1>1 DEF loopVars, streamVars, Observed
  <2>2. \A j \in Kinds :
           cursor[j] \in 1..Len(hist'[j]) /\ hist'[j][cursor[j]] = hist[j][cursor[j]]
    BY <1>2 DEF FeedInv, StreamInv
  <2>3. ASSUME NEW j \in Kinds, Aligned(j) PROVE Aligned(j)'
    <3>1. cursor[j] > 1 => EventAfter(j, cursor[j] - 1)' = EventAfter(j, cursor[j] - 1)
      <4> SUFFICES ASSUME cursor[j] > 1
                   PROVE  EventAfter(j, cursor[j] - 1)' = EventAfter(j, cursor[j] - 1)
        OBVIOUS
      <4>1. cursor[j] \in 1..Len(hist[j])
        BY DEF FeedInv, StreamInv
      <4>2. cursor[j] - 1 \in 1..Len(hist[j]) /\ (cursor[j] - 1) + 1 = cursor[j]
        BY <4>1, <1>2
      <4>3. hist'[j][cursor[j] - 1] = hist[j][cursor[j] - 1]
        BY <4>2, <1>2
      <4>4. cursor' = cursor
        BY <2>1
      <4> QED BY <4>2, <4>3, <4>4, <2>2, Zenon DEF EventAfter
    <3>2. Objects(j)' = Objects(j)
      BY SameFeed
    <3>3. NoItem' = NoItem
      BY DEF NoItem
    <3> QED BY <2>1, <2>2, <2>3, <3>1, <3>2, <3>3 DEF Aligned
  <2>4. up \subseteq Kinds
    BY DEF FeedInv, TypeInv
  <2> QED BY <1>1, <2>1, <2>2, <2>3, <2>4 DEF FeedInv, StreamInv
<1> QED BY <1>3, <1>4, <1>5, <1>6 DEF FeedInv

\* A change of one object is recorded.
LEMMA FeedRecords ==
  ASSUME FeedInv, NEW k \in Kinds, NEW members, Record(k, members),
         Whole(k, members), Change(Live(k), members)
  PROVE  FeedInv'
<1>1. UNCHANGED <<profile, refused, loopVars, streamVars>>
  BY DEF Record
<1>2. hist' = [hist EXCEPT ![k] = Append(@, members)]
  BY DEF Record
<1>3. TypeInv'
  BY <1>1, SameFeed DEF FeedInv, TypeInv, loopVars, streamVars
<1>4. HistInv'
  <2>1. DOMAIN hist' = Kinds /\ Kinds' = Kinds
    BY <1>1, <1>2, SameFeed DEF FeedInv, HistInv
  <2>2. ASSUME NEW j \in Kinds
        PROVE  /\ hist'[j] \in Seq(SUBSET Objects(j))
               /\ Len(hist'[j]) >= 1
               /\ \A i \in 1..Len(hist'[j]) : Whole(j, hist'[j][i])
               /\ \A i \in 1..Len(hist'[j]) : i > 1 => Change(hist'[j][i - 1], hist'[j][i])
    <3>1. /\ hist[j] \in Seq(SUBSET Objects(j)) /\ j \in DOMAIN hist
          /\ Len(hist[j]) >= 1
          /\ \A i \in 1..Len(hist[j]) : Whole(j, hist[j][i])
          /\ \A i \in 1..Len(hist[j]) : i > 1 => Change(hist[j][i - 1], hist[j][i])
      BY DEF FeedInv, HistInv
    <3>2. CASE j # k
      <4>1. hist'[j] = hist[j]
        BY <1>2, <3>1, <3>2
      <4> QED BY <3>1, <4>1
    <3>3. CASE j = k
      <4> DEFINE n == Len(hist[j])
      <4>1. hist'[j] = Append(hist[j], members)
        BY <1>2, <3>1, <3>3
      <4>2. members \in SUBSET Objects(j)
        BY <3>3 DEF Whole
      <4>3. /\ hist'[j] \in Seq(SUBSET Objects(j)) /\ Len(hist'[j]) = n + 1 /\ n \in Nat
            /\ \A i \in 1..n : hist'[j][i] = hist[j][i]
            /\ hist'[j][n + 1] = members
        BY <4>1, <4>2, <3>1
      <4>4. \A i \in 1..(n + 1) : i \in 1..n \/ i = n + 1
        BY <4>3
      <4>5. \A i \in 1..(n + 1) : Whole(j, hist'[j][i])
        BY <4>3, <4>4, <3>1, <3>3
      <4>6. Change(hist'[j][n], hist'[j][n + 1])
        BY <4>3, <3>1, <3>3 DEF Live
      <4>7. ASSUME NEW i \in 1..(n + 1), i > 1 PROVE Change(hist'[j][i - 1], hist'[j][i])
        <5>1. CASE i = n + 1
          <6>1. i - 1 = n
            BY <5>1, <4>3
          <6> QED BY <6>1, <5>1, <4>6
        <5>2. CASE i # n + 1
          <6>1. i \in 1..n /\ i - 1 \in 1..n
            BY <5>2, <4>7, <4>3
          <6> QED BY <6>1, <4>3, <4>7, <3>1
        <5> QED BY <5>1, <5>2
      <4> HIDE DEF n
      <4> QED BY <4>3, <4>5, <4>7
    <3> QED BY <3>2, <3>3
  <2>3. \A j, s : Objects(j)' = Objects(j) /\ Whole(j, s)' = Whole(j, s)
    BY <1>1, SameFeed
  <2>4. \A j \in Kinds : \A i \in 1..Len(hist'[j]) : Whole(j, hist[j][i])'
    BY <2>2, <1>1 DEF Whole, Objects, NamesOf, Membership
  <2>5. \A a, b : Change(a, b)' = Change(a, b)
    BY DEF Change, Named
  <2>6. \A j \in Kinds : \A i \in 1..Len(hist'[j]) : i > 1 => Change(hist[j][i - 1], hist[j][i])'
    BY <2>2 DEF Change, Named
  <2> QED BY <2>1, <2>2, <2>3, <2>4, <2>6 DEF HistInv
<1> QED BY <1>1, <1>2, <1>3, <1>4, FeedGrows

\* Objects are created, changed and deleted one at a time.
LEMMA FeedServer == ASSUME FeedInv, Server PROVE FeedInv'
<1>1. PICK k \in Kinds :
        \/ \E n \in NamesOf(k) : Create(k, n) \/ Update(k, n) \/ Delete(k, n) \/ Transfer(k, n)
        \/ Regrant(k)
  BY DEF Server
<1>2. Whole(k, Live(k))
  BY Revisions DEF FeedInv, HistInv, Live
<1>3. Happened \in Int
  <2>1. IsFiniteSet(Kinds)
    BY ProfilesAssumption DEF FeedInv, TypeInv, Kinds
  <2>2. \A j \in Kinds : Len(hist[j]) \in Nat
    BY DEF FeedInv, HistInv
  <2> QED BY <2>1, <2>2, HappenedIsANumber DEF FeedInv, HistInv
<1>4. \A event \in Int : Instant(event) \in Int
  BY DEF Instant
<1>5. ASSUME NEW n \in NamesOf(k), Create(k, n) PROVE FeedInv'
  <2> DEFINE x == Born(n, Happened + 1)
             members == Live(k) \cup {x}
  <2>1. x \in Objects(k) /\ x.name = n
    <3>1. TRUE \in Membership /\ TRUE \in BOOLEAN
      BY DEF Membership
    <3>2. Happened + 1 \in Int /\ Instant(Happened + 1) \in Int
      BY <1>3, <1>4
    <3> QED BY <3>1, <3>2 DEF Born, Objects
  <2>2. Named(Live(k), n) = {} /\ Record(k, members)
    BY <1>5 DEF Create
  <2> HIDE DEF x
  <2>3. Whole(k, members)
    BY <1>2, <2>1, <2>2, FS_AddElement DEF Whole, Named
  <2>4. Change(Live(k), members)
    BY <2>1, <2>2 DEF Change
  <2> HIDE DEF members
  <2> QED BY <2>2, <2>3, <2>4, FeedRecords
<1>6. ASSUME NEW n \in NamesOf(k), Update(k, n) PROVE FeedInv'
  <2>1. PICK x \in Named(Live(k), n) :
          /\ x.open
          /\ Record(k, (Live(k) \ {x}) \cup {[x EXCEPT !.open = FALSE,
                !.at = IF profile.keep.renews THEN Instant(Happened + 1) ELSE @]})
    BY <1>6, Zenon DEF Update
  <2> DEFINE y == [x EXCEPT !.open = FALSE,
                     !.at = IF profile.keep.renews THEN Instant(Happened + 1) ELSE @]
             members == (Live(k) \ {x}) \cup {y}
  <2>2. x \in Live(k) /\ x \in Objects(k)
    BY <1>2 DEF Named, Whole
  <2>3. Instant(Happened + 1) \in Int
    BY <1>3, <1>4
  <2>4. y \in Objects(k) /\ y.name = x.name /\ y.uid = x.uid /\ y # x
    BY <2>1, <2>2, <2>3 DEF Objects
  <2>5. Record(k, members)
    BY <2>1
  <2> HIDE DEF y
  <2>6. Whole(k, members)
    <3>1. IsFiniteSet(members)
      BY <1>2, FS_RemoveElement, FS_AddElement DEF Whole
    <3> QED BY <3>1, <1>2, <2>2, <2>4 DEF Whole
  <2>7. Change(Live(k), members)
    BY <2>2, <2>4 DEF Change
  <2> HIDE DEF members
  <2> QED BY <2>5, <2>6, <2>7, FeedRecords
<1>9. ASSUME NEW n \in NamesOf(k), Transfer(k, n) PROVE FeedInv'
  <2>1. PICK x \in Named(Live(k), n) :
          Record(k, (Live(k) \ {x}) \cup {[x EXCEPT !.mine = ~x.mine]})
    BY <1>9 DEF Transfer
  <2> DEFINE y == [x EXCEPT !.mine = ~x.mine]
             members == (Live(k) \ {x}) \cup {y}
  <2>2. x \in Live(k) /\ x \in Objects(k) /\ profile.source.member = "declared"
    BY <1>2, <1>9 DEF Named, Whole, Transfer
  <2>3. x \in [name : NamesOf(k), uid : Int, at : Int, open : BOOLEAN, mine : BOOLEAN]
    BY <2>2 DEF Objects, Membership
  <2>4. /\ y \in [name : NamesOf(k), uid : Int, at : Int, open : BOOLEAN, mine : BOOLEAN]
        /\ y.name = x.name /\ y.uid = x.uid /\ y # x
    BY <2>3
  <2>5. y \in Objects(k)
    BY <2>2, <2>4 DEF Objects, Membership
  <2>6. Record(k, members)
    BY <2>1
  <2> HIDE DEF y
  <2>7. Whole(k, members)
    <3>1. IsFiniteSet(members)
      BY <1>2, FS_RemoveElement, FS_AddElement DEF Whole
    <3> QED BY <3>1, <1>2, <2>2, <2>4, <2>5 DEF Whole
  <2>8. Change(Live(k), members)
    BY <2>2, <2>4 DEF Change
  <2> HIDE DEF members
  <2> QED BY <2>6, <2>7, <2>8, FeedRecords
<1>7. ASSUME NEW n \in NamesOf(k), Delete(k, n) PROVE FeedInv'
  <2> DEFINE members == Live(k) \ Named(Live(k), n)
  <2>1. Named(Live(k), n) # {} /\ Record(k, members)
    BY <1>7 DEF Delete
  <2>2. Whole(k, members)
    <3>1. members \in SUBSET Live(k)
      OBVIOUS
    <3> HIDE DEF members
    <3> QED BY <3>1, <1>2, WholeParts
  <2>3. Change(Live(k), members)
    <3>1. PICK x \in Named(Live(k), n) : TRUE
      BY <2>1
    <3>2. x \in Live(k) /\ Named(Live(k), n) = {x}
      BY <1>2 DEF Whole, Named
    <3> QED BY <3>2 DEF Change
  <2> HIDE DEF members
  <2> QED BY <2>1, <2>2, <2>3, FeedRecords
<1>8. CASE Regrant(k)
  <2>1. UNCHANGED <<profile, hist, loopVars, streamVars>> /\ refused' \subseteq Kinds
    BY <1>8 DEF Regrant, FeedInv, TypeInv
  <2>2. UNCHANGED <<phase, fetched, kept, flag, read, snap, since, missed, up, cursor, offer,
                    failed, ended>>
    BY <2>1 DEF loopVars, streamVars
  <2>3. TypeInv'
    BY <2>1, <2>2, SameFeed DEF FeedInv, TypeInv
  <2>4. FetchInv' /\ PhaseInv'
    BY <2>1, <2>2, FetchFrame, PhaseFrame DEF FeedInv
  <2>5. StreamInv'
    BY <2>1, <2>2, StreamFrame DEF FeedInv, TypeInv
  <2>6. KeptInv'
    BY <2>1, <2>2, ToldStands, KeptFrame DEF FeedInv
  <2> QED BY <2>1, <2>2, <2>3, <2>4, <2>5, <2>6, HistFrame DEF FeedInv
<1> QED BY <1>1, <1>5, <1>6, <1>7, <1>8, <1>9

-----------------------------------------------------------------------------
(* The collector keeps it.                                                   *)

\* A kind is listed, or its refusal noted.
LEMMA FeedLists ==
  ASSUME FeedInv, NEW k, NEW listing, phase = "fetch", FetchedKind(k, listing),
         k \in Kinds => ListingOf(k, listing, Mine(Live(k)))
  PROVE  FeedInv'
<1>1. UNCHANGED <<profile, hist, refused, phase, kept, flag, read, snap, since, missed, up,
                  cursor, offer, failed>>
  BY DEF FetchedKind, streamVars
<1>2. Kinds' = Kinds
  BY <1>1, SameFeed
<1>3. TypeInv'
  BY <1>1, <1>2 DEF FeedInv, TypeInv
<1>4. FetchInv'
  <2>1. Listed' = Listed \cup {k}
    BY DEF FetchedKind, Listed
  <2>2. ASSUME NEW j \in Kinds \cap (Listed \cup {k})
        PROVE  /\ fetched'[j].at \in 1..Len(hist[j])
               /\ ListingOf(j, fetched'[j], Mine(hist[j][fetched'[j].at]))
    <3>1. CASE j = k
      <4>1. fetched'[j] = [items |-> listing.items, cut |-> listing.cut,
                           observed |-> listing.observed, missed |-> listing.missed,
                           at |-> Len(hist[j])]
        BY <3>1 DEF FetchedKind
      <4>2. Len(hist[j]) \in 1..Len(hist[j])
        BY Revisions DEF FeedInv
      <4> QED BY <3>1, <4>1, <4>2 DEF Live, ListingOf
    <3>2. CASE j # k
      <4>1. fetched'[j] = fetched[j] /\ j \in Kinds \cap Listed
        BY <3>2 DEF FetchedKind
      <4> QED BY <4>1 DEF FeedInv, FetchInv
    <3> QED BY <3>1, <3>2
  <2>3. \A j \in Kinds \cap (Listed \cup {k}) :
          ListingOf(j, fetched[j], Mine(hist[j][fetched[j].at]))'
    BY <1>1, <2>2 DEF ListingOf, Mine, Key
  <2> QED BY <1>1, <1>2, <2>1, <2>2, <2>3 DEF FetchInv
<1>5. PhaseInv' /\ StreamInv'
  <2>1. NoItem' = NoItem
    BY DEF NoItem
  <2> QED BY <1>1, <1>2, <2>1 DEF FeedInv, PhaseInv, StreamInv
<1>6. KeptInv'
  BY <1>1, ToldStands, KeptFrame DEF FeedInv
<1> QED BY <1>1, <1>3, <1>4, <1>5, <1>6, HistFrame DEF FeedInv

\* Contact is lost: what is on offer is gone with the stream.
LEMMA FeedLosesContact ==
  ASSUME FeedInv, up = {}, LoseContact, UNCHANGED streamVars
  PROVE  FeedInv'
<1>1. /\ UNCHANGED <<profile, hist, refused, kept, flag, read, since, missed, up, cursor,
                       offer, failed>>
      /\ phase' = "wait" /\ fetched' = <<>> /\ snap' = [snap EXCEPT !.stale = snap.gen > 0]
  BY DEF LoseContact, streamVars
<1>2. Kinds' = Kinds /\ NoItem' = NoItem
  BY <1>1, SameFeed DEF NoItem
<1>3. KeptInv'
  BY <1>1, ToldStands, KeptFrame DEF FeedInv
<1>4. TypeInv'
  <2>1. snap'.flagged = snap.flagged /\ snap'.unobserved = snap.unobserved
    BY <1>1 DEF FeedInv, KeptInv
  <2> QED BY <1>1, <1>2, <2>1 DEF FeedInv, TypeInv
<1>5. FetchInv'
  BY <1>1 DEF FetchInv, Listed
<1>6. PhaseInv' /\ StreamInv'
  BY <1>1, <1>2 DEF FeedInv, PhaseInv, StreamInv
<1> QED BY <1>1, <1>3, <1>4, <1>5, <1>6, HistFrame DEF FeedInv

\* A publication says what is retained, and of which kinds less than was there.
LEMMA Published ==
  ASSUME NEW retained, NEW sticky, NEW observed, snap.gen \in Nat,
         Publish(retained, sticky, observed)
  PROVE  /\ DOMAIN snap' = {"gen", "stale", "shown", "flagged", "unobserved"}
         /\ snap'.gen \in Nat /\ snap'.gen > 0
         /\ snap'.unobserved = Kinds \ observed
         /\ snap'.flagged \subseteq Kinds
         /\ \A k \in Kinds :
               /\ snap'.shown[k] = Bounded(retained[k], profile.keep.order[k], MaxShown)
               /\ Admitted(k, retained, sticky) => k \in snap'.flagged
<1> DEFINE cut == {k \in Kinds : Admitted(k, retained, sticky)}
<1>1. snap' = [gen        |-> snap.gen + 1,
               stale      |-> FALSE,
               shown      |-> [k \in Kinds |->
                   Bounded(retained[k], profile.keep.order[k], MaxShown)],
               flagged    |-> IF profile.keep.shared /\ cut # {} THEN Kinds ELSE cut,
               unobserved |-> Kinds \ observed]
  BY DEF Publish
<1>2. cut \subseteq Kinds /\ \A k \in Kinds : Admitted(k, retained, sticky) => k \in cut
  OBVIOUS
<1> HIDE DEF cut
<1> QED BY <1>1, <1>2

\* A pinned object is of the cluster.
LEMMA PinnedAreMine ==
  ASSUME TypeInv, profile.source.pinned, NEW k, NEW members, Whole(k, members)
  PROVE  Mine(members) = members
<1>1. Membership = {TRUE}
  BY ProfilesAssumption DEF TypeInv, Membership
<1> QED BY <1>1 DEF Whole, Objects, Mine

\* The whole seed: every kind fetched, folded in and published.
LEMMA FeedSeeds == ASSUME FeedInv, Seed PROVE FeedInv'
<1>1. PICK retained \in [Kinds -> UNION {PutAll(fetched[k].items, k) : k \in Kinds}] :
        /\ \A k \in Kinds : retained[k] \in PutAll(fetched[k].items, k)
        /\ kept' = retained
        /\ flag' = [k \in Kinds |-> fetched[k].cut \/ retained[k] # fetched[k].items]
        /\ Publish(retained, flag', {k \in Kinds : fetched[k].observed})
  BY DEF Seed
<1>2. /\ UNCHANGED <<profile, hist, refused, fetched, up, cursor, offer>>
      /\ phase = "fetch" /\ phase' = "open" /\ Listed = Kinds
      /\ read' = [k \in Kinds |-> fetched[k].at] /\ since' = read'
      /\ missed' = UNION {fetched[k].missed : k \in Kinds}
  BY DEF Seed, serverVars, streamVars
<1>3. /\ Kinds' = Kinds /\ NoItem' = NoItem /\ Listed' = Listed /\ Observed' = Observed
      /\ \A k : Objects(k)' = Objects(k)
  BY <1>2, SameFeed DEF NoItem, Listed, Observed
<1>4. /\ DOMAIN snap' = {"gen", "stale", "shown", "flagged", "unobserved"}
      /\ snap'.gen \in Nat /\ snap'.gen > 0
      /\ snap'.unobserved = Kinds \ Observed
      /\ snap'.flagged \subseteq Kinds
      /\ \A k \in Kinds :
            /\ snap'.shown[k] = Bounded(retained[k], profile.keep.order[k], MaxShown)
            /\ Admitted(k, retained, flag') => k \in snap'.flagged
  BY <1>1, Published DEF FeedInv, KeptInv, Observed
<1>5. ASSUME NEW k \in Kinds
      PROVE  /\ Whole(k, retained[k])
             /\ fetched[k].at \in 1..Len(hist[k])
             /\ Whole(k, hist[k][fetched[k].at])
             /\ fetched[k].observed /\ ~flag'[k] =>
                    /\ retained[k] \subseteq Mine(hist[k][fetched[k].at])
                    /\ \A x \in Mine(hist[k][fetched[k].at]) \ retained[k] :
                           Key(k, x) \in fetched[k].missed
             /\ profile.source.pinned => fetched[k].missed = {}
             /\ fetched[k].observed \/ k \in profile.source.optional
  <2> DEFINE items == fetched[k].items
             members == Mine(hist[k][fetched[k].at])
  <2>1. /\ fetched[k].at \in 1..Len(hist[k])
        /\ items \subseteq members
        /\ fetched[k].observed /\ ~fetched[k].cut =>
               \A x \in members \ items : Key(k, x) \in fetched[k].missed
        /\ profile.source.pinned => fetched[k].missed = {}
        /\ fetched[k].observed \/ k \in profile.source.optional
    BY <1>2 DEF FeedInv, FetchInv, ListingOf
  <2>2. Whole(k, hist[k][fetched[k].at])
    BY <2>1 DEF FeedInv, HistInv
  <2>3. Whole(k, items)
    <3>1. items \in SUBSET hist[k][fetched[k].at]
      BY <2>1 DEF Mine
    <3> QED BY <3>1, <2>2, WholeParts
  <2>4. retained[k] \in SUBSET items
    <3>1. IsFiniteSet(items) /\ \A x \in items : x.name \in Int
      BY <2>3, ObjectsAreOrdered DEF Whole
    <3>2. PutAll(items, k) \subseteq SUBSET items
      BY <3>1, PutAllKeepsParts
    <3> QED BY <3>2, <1>1
  <2>5. Whole(k, retained[k])
    BY <2>3, <2>4, WholeParts
  <2>6. flag'[k] = (fetched[k].cut \/ retained[k] # fetched[k].items)
    BY <1>1
  <2> HIDE DEF members
  <2>7. ~flag'[k] => ~fetched[k].cut /\ retained[k] = items
    BY <2>6
  <2> QED BY <2>1, <2>2, <2>5, <2>7 DEF members
<1>6. TypeInv'
  <2>1. snap'.unobserved \subseteq profile.source.optional
    BY <1>4, <1>5 DEF Observed
  <2> QED BY <1>2, <1>3, <1>4, <2>1 DEF FeedInv, TypeInv
<1>7. FetchInv'
  BY <1>2, FetchFrame DEF FeedInv
<1>11. ASSUME NEW k \in Kinds, k \in Observed, ~flag'[k] PROVE Seeded(k)'
  <2>1. read'[k] = fetched[k].at /\ kept'[k] = retained[k] /\ fetched[k].observed
    BY <1>1, <1>2, <1>11 DEF Observed
  <2>2. fetched[k].missed \subseteq missed'
    BY <1>2
  <2> QED BY <1>2, <1>5, <1>11, <2>1, <2>2 DEF Seeded, Mine, Key
<1>12. ASSUME NEW k \in Kinds, k \in Observed, ~flag'[k] PROVE Told(k)'
  <2>1. /\ read'[k] = fetched[k].at /\ since'[k] = read'[k] /\ fetched[k].observed
        /\ kept'[k] = retained[k]
    BY <1>1, <1>2, <1>12 DEF Observed
  <2>2. CASE ~profile.source.pinned
    <3>1. read'[k] \in 1..Len(hist[k]) /\ since'[k] \in 1..read'[k]
      BY <2>1, <1>5
    <3>2. Tells(k, kept[k], read[k])'
      BY <1>11, <1>12 DEF Seeded, Tells, Unproven
    <3> QED BY <1>2, <2>2, <3>1, <3>2 DEF Told
  <2>3. CASE profile.source.pinned
    <3>1. Mine(hist[k][fetched[k].at]) = hist[k][fetched[k].at]
      BY <2>3, <1>5, PinnedAreMine DEF FeedInv
    <3>2. retained[k] = hist[k][fetched[k].at]
      BY <1>5, <1>12, <2>1, <2>3, <3>1
    <3> QED BY <1>2, <2>1, <2>3, <3>2 DEF Told
  <2> QED BY <2>2, <2>3
<1>8. KeptInv'
  <2>1. DOMAIN kept' = Kinds /\ DOMAIN flag' = Kinds /\ DOMAIN read' = Kinds
    BY <1>1, <1>2
  <2>2. ASSUME NEW k \in Kinds
        PROVE  /\ Whole(k, kept[k])' /\ flag'[k] \in BOOLEAN /\ read'[k] \in 1..Len(hist'[k])
               /\ k \notin snap'.unobserved /\ ~flag'[k] => Told(k)'
    <3>1. read'[k] = fetched[k].at /\ kept'[k] = retained[k] /\ hist' = hist
      BY <1>1, <1>2
    <3>2. flag'[k] \in BOOLEAN
      BY <1>1
    <3>3. Whole(k, kept[k])'
      BY <1>3, <1>5, <3>1 DEF Whole
    <3>4. k \notin snap'.unobserved => k \in Observed
      BY <1>4
    <3> QED BY <1>5, <1>12, <3>1, <3>2, <3>3, <3>4
  <2>3. \A k \in Kinds : Admitted(k, kept, flag)' = Admitted(k, retained, flag')
    BY <1>1 DEF Admitted
  <2> QED BY <1>1, <1>2, <1>3, <1>4, <2>1, <2>2, <2>3 DEF KeptInv
<1>9. PhaseInv'
  <2>1. \A k \in Kinds : /\ read'[k] = fetched'[k].at /\ since'[k] = read'[k]
                          /\ k \in Observed /\ ~flag'[k] => Seeded(k)'
    BY <1>2, <1>11
  <2>2. up = {}
    BY <1>2 DEF FeedInv, PhaseInv
  <2> QED BY <1>2, <1>3, <1>4, <2>1, <2>2 DEF PhaseInv
<1>10. StreamInv'
  BY <1>2, <1>3 DEF FeedInv, StreamInv
<1> QED BY <1>2, <1>6, <1>7, <1>8, <1>9, <1>10, HistFrame DEF FeedInv

\* The watches start where the listings ended, or from the object as it is.
LEMMA FeedOpens == ASSUME FeedInv, OpenWatches PROVE FeedInv'
<1>1. /\ UNCHANGED <<profile, hist, refused, fetched, kept, flag, read, snap, since, missed>>
      /\ phase = "open" /\ phase' = "consume" /\ up' = Observed
      /\ cursor' = [k \in Kinds |-> IF profile.source.pinned THEN Len(hist[k]) ELSE fetched[k].at]
      /\ offer' = [k \in Kinds |->
             IF profile.source.pinned /\ Live(k) # {}
             THEN [do |-> "put", item |-> CHOOSE x \in Live(k) : TRUE]
             ELSE NoItem]
  BY DEF OpenWatches, serverVars
<1>2. /\ Kinds' = Kinds /\ NoItem' = NoItem /\ Listed' = Listed /\ Observed' = Observed
      /\ \A k : Objects(k)' = Objects(k)
  BY <1>1, SameFeed DEF NoItem, Listed, Observed
<1>3. Listed = Kinds /\ \A k \in Kinds : read[k] = fetched[k].at
  BY <1>1 DEF FeedInv, PhaseInv
<1>4. TypeInv' /\ FetchInv' /\ PhaseInv'
  BY <1>1, <1>2, FetchFrame DEF FeedInv, TypeInv, PhaseInv, Observed
<1>7. \A k \in Kinds : k \notin snap.unobserved /\ ~flag[k] /\ Told(k) => Told(k)'
  <2> SUFFICES ASSUME NEW k \in Kinds, k \notin snap.unobserved, ~flag[k], Told(k) PROVE Told(k)'
    OBVIOUS
  <2>1. Seeded(k)
    BY <1>1 DEF FeedInv, PhaseInv
  <2>2. CASE profile.source.pinned
    BY <2>2, <1>1 DEF Told
  <2>3. CASE ~profile.source.pinned
    <3>1. Tells(k, kept[k], read[k])'
      BY <1>1, <2>1 DEF Seeded, Tells, Unproven, Mine, Key
    <3> QED BY <1>1, <2>3, <3>1 DEF Told
  <2> QED BY <2>2, <2>3
<1>5. ASSUME NEW k \in Kinds
      PROVE  /\ cursor'[k] \in 1..Len(hist[k])
             /\ k \notin Observed => offer'[k] = NoItem
             /\ Aligned(k)'
  <2>1. /\ cursor'[k] = IF profile.source.pinned THEN Len(hist[k]) ELSE fetched[k].at
        /\ offer'[k] = IF profile.source.pinned /\ Live(k) # {}
                       THEN [do |-> "put", item |-> CHOOSE x \in Live(k) : TRUE]
                       ELSE NoItem
    BY <1>1
  <2>2. Len(hist[k]) \in 1..Len(hist[k]) /\ fetched[k].at \in 1..Len(hist[k])
    BY <1>3, Revisions DEF FeedInv, FetchInv
  <2>3. Whole(k, Live(k))
    BY <2>2 DEF FeedInv, HistInv, Live
  <2>4. CASE ~profile.source.pinned
    <3>1. cursor'[k] = read[k] /\ offer'[k] = NoItem
      BY <2>1, <2>4, <1>3
    <3> QED BY <3>1, <2>2, <1>1, <1>2, <1>3 DEF Aligned
  <2>5. CASE profile.source.pinned /\ Live(k) = {}
    <3>1. cursor'[k] = Len(hist[k]) /\ offer'[k] = NoItem /\ hist[k][Len(hist[k])] = {}
      BY <2>1, <2>5 DEF Live
    <3> QED BY <3>1, <2>2, <2>5, <1>1, <1>2, <1>3 DEF Aligned
  <2>6. CASE profile.source.pinned /\ Live(k) # {}
    <3>1. PICK x : x = CHOOSE y \in Live(k) : TRUE
      OBVIOUS
    <3>2. x \in Live(k) /\ x \in Objects(k)
      BY <3>1, <2>3, <2>6 DEF Whole
    <3>3. Live(k) = {x}
      <4>1. \A y \in Objects(k) : y.name = Min(Names)
        BY <2>6 DEF Objects, NamesOf
      <4> QED BY <4>1, <3>2, <2>3 DEF Whole
    <3>4. cursor'[k] = Len(hist[k]) /\ offer'[k] = [do |-> "put", item |-> x]
      BY <2>1, <2>6, <3>1
    <3>5. k \in Observed
      <4>1. profile.source.optional = {}
        BY <2>6, ProfilesAssumption DEF FeedInv, TypeInv
      <4> QED BY <4>1, <1>3 DEF FeedInv, FetchInv, ListingOf, Observed
    <3>6. offer'[k] # NoItem /\ offer'[k] \in [do : {"put", "delete"}, item : Objects(k)]
      BY <3>2, <3>4 DEF NoItem
    <3>8. offer'[k].item.mine
      BY <3>2, <3>4, <2>3, <2>6, PinnedAreMine DEF Mine, FeedInv
    <3>7. hist[k][Len(hist[k])] = {x}
      BY <3>3 DEF Live
    <3> QED BY <3>4, <3>5, <3>6, <3>7, <3>8, <2>2, <2>6, <1>1, <1>2 DEF Aligned
  <2> QED BY <2>4, <2>5, <2>6
<1>6. StreamInv'
  BY <1>1, <1>2, <1>5 DEF StreamInv, Observed
<1>8. KeptInv'
  BY <1>1, <1>7, KeptFrame DEF FeedInv
<1> QED BY <1>1, <1>4, <1>6, <1>8, HistFrame DEF FeedInv

\* What a pump takes is the next change.
LEMMA FeedTakes == ASSUME FeedInv, NEW k \in Kinds, PumpTakes(k) PROVE FeedInv'
<1>1. /\ UNCHANGED <<profile, hist, refused, phase, fetched, kept, flag, read, snap, since,
                       missed, up, failed>>
      /\ k \in up /\ offer[k] = NoItem /\ cursor[k] < Len(hist[k])
      /\ profile.source.member = "declared" => EventAfter(k, cursor[k]).item.mine
      /\ offer' = [offer EXCEPT ![k] = EventAfter(k, cursor[k])]
      /\ cursor' = [cursor EXCEPT ![k] = @ + 1]
  BY DEF PumpTakes, Reads, serverVars, loopVars
<1>2. /\ Kinds' = Kinds /\ NoItem' = NoItem /\ Listed' = Listed /\ Observed' = Observed
      /\ \A j : Objects(j)' = Objects(j)
  BY <1>1, SameFeed DEF NoItem, Listed, Observed
<1>3. TypeInv' /\ FetchInv' /\ PhaseInv'
  BY <1>1, <1>2, FetchFrame, PhaseFrame DEF FeedInv, TypeInv
<1>4. DOMAIN cursor' = Kinds /\ DOMAIN offer' = Kinds
  BY <1>1 DEF FeedInv, StreamInv
<1>5. \A j \in Kinds : j # k => cursor'[j] = cursor[j] /\ offer'[j] = offer[j]
  BY <1>1 DEF FeedInv, StreamInv
<1>6. /\ cursor'[k] = cursor[k] + 1 /\ offer'[k] = EventAfter(k, cursor[k])
      /\ cursor[k] \in 1..Len(hist[k]) /\ Len(hist[k]) \in Nat
  BY <1>1, Revisions DEF FeedInv, StreamInv
<1>7. cursor'[k] \in 1..Len(hist[k]) /\ cursor'[k] > 1 /\ cursor'[k] - 1 = cursor[k]
  BY <1>1, <1>6
<1>8. phase = "consume"
  BY <1>1 DEF FeedInv, PhaseInv
<1>9. /\ offer'[k] \in [do : {"put", "delete"}, item : Objects(k)] /\ offer'[k] # NoItem
      /\ offer'[k].item.mine
      /\ profile.source.pinned =>
             hist[k][cursor'[k]] = IF offer'[k].do = "put" THEN {offer'[k].item} ELSE {}
  <2>1. HistInv
    BY DEF FeedInv
  <2>2. EventAfter(k, cursor'[k] - 1) = offer'[k]
    BY <1>6, <1>7
  <2>3. LET event == EventAfter(k, cursor'[k] - 1)
        IN  event \in [do : {"put", "delete"}, item : Objects(k)] /\ event # NoItem
    BY <2>1, <1>7, EventMakesTheChange, Zenon
  <2>4. profile.source.pinned =>
          LET event == EventAfter(k, cursor'[k] - 1)
          IN  hist[k][cursor'[k]] = IF event.do = "put" THEN {event.item} ELSE {}
    BY <2>1, <1>7, PinnedEventIsTheWhole, Zenon
  <2>5. offer'[k].item \in Objects(k)
    BY <2>2, <2>3
  <2>6. offer'[k].item.mine
    <3>1. offer'[k].item.mine \in Membership
      BY <2>5 DEF Objects
    <3>2. CASE profile.source.member = "declared"
      BY <3>2, <1>1, <1>6
    <3>3. CASE profile.source.member # "declared"
      BY <3>1, <3>3 DEF Membership
    <3> QED BY <3>2, <3>3
  <2> QED BY <2>2, <2>3, <2>4, <2>6
<1>10. Aligned(k)'
  <2>1. ~profile.source.pinned => read[k] = cursor[k]
    BY <1>1, <1>8 DEF FeedInv, StreamInv, Aligned
  <2>2. EventAfter(k, cursor[k] - 1)' = offer'[k]
    <3>1. EventAfter(k, cursor[k] - 1)' = EventAfter(k, cursor'[k] - 1)
      BY <1>1 DEF EventAfter
    <3> QED BY <3>1, <1>6, <1>7
  <2> QED BY <1>1, <1>2, <1>7, <1>9, <2>1, <2>2 DEF Aligned
<1>11. \A j \in up : j # k => Aligned(j)'
  <2>1. \A j \in up : Aligned(j) /\ j \in Kinds
    BY <1>8 DEF FeedInv, StreamInv, TypeInv
  <2> QED BY <2>1, <1>1, <1>5, AlignedFrame
<1>12. StreamInv'
  <2>1. \A j \in Kinds : cursor'[j] \in 1..Len(hist[j]) /\ (j \notin up => offer'[j] = NoItem)
    BY <1>1, <1>5, <1>7 DEF FeedInv, StreamInv
  <2>2. up \subseteq Observed /\ \A j \in up : Aligned(j)'
    BY <1>8, <1>10, <1>11 DEF FeedInv, StreamInv
  <2> QED BY <1>1, <1>2, <1>4, <2>1, <2>2 DEF StreamInv
<1>13. KeptInv'
  BY <1>1, ToldStands, KeptFrame DEF FeedInv
<1> QED BY <1>1, <1>3, <1>12, <1>13, HistFrame DEF FeedInv

\* A pump returns; what it could not send is dropped.
LEMMA FeedEnds ==
  ASSUME FeedInv, NEW k \in Kinds, PumpEnds(k) \/ PumpLetsGo(k)
  PROVE  FeedInv'
<1>1. /\ UNCHANGED <<profile, hist, refused, phase, fetched, kept, flag, read, snap, since,
                       missed, cursor, failed>>
      /\ k \in up /\ up' = up \ {k}
      /\ \/ offer[k] = NoItem /\ offer' = offer
         \/ offer' = [offer EXCEPT ![k] = NoItem]
  BY DEF PumpEnds, PumpLetsGo, Returns, serverVars, loopVars
<1>2. Kinds' = Kinds /\ NoItem' = NoItem /\ Listed' = Listed /\ Observed' = Observed
  BY <1>1, SameFeed DEF NoItem, Listed, Observed
<1>6. phase = "consume"
  BY <1>1 DEF FeedInv, PhaseInv
<1>3. TypeInv' /\ FetchInv' /\ PhaseInv'
  BY <1>1, <1>2, <1>6, FetchFrame DEF FeedInv, TypeInv, PhaseInv
<1>4. DOMAIN offer' = Kinds /\ offer'[k] = NoItem
  BY <1>1 DEF FeedInv, StreamInv
<1>5. \A j \in Kinds : j # k => offer'[j] = offer[j]
  BY <1>1 DEF FeedInv, StreamInv
<1>7. \A j \in up' : Aligned(j)'
  <2>1. \A j \in up' : Aligned(j) /\ j \in Kinds /\ j # k
    BY <1>1, <1>6 DEF FeedInv, StreamInv, TypeInv
  <2>2. \A j \in up' : read'[j] = read[j] /\ cursor'[j] = cursor[j] /\ offer'[j] = offer[j]
    BY <2>1, <1>1, <1>5
  <2> QED BY <2>1, <2>2, <1>1, AlignedFrame
<1>8. StreamInv'
  BY <1>1, <1>2, <1>4, <1>5, <1>6, <1>7 DEF FeedInv, StreamInv
<1>9. KeptInv'
  BY <1>1, ToldStands, KeptFrame DEF FeedInv
<1> QED BY <1>1, <1>3, <1>8, <1>9, HistFrame DEF FeedInv

\* An event that is skipped leaves what is retained telling the revision after it: what
\* left the cluster has strayed, and what could not be proved is unproven.
LEMMA SkippedIsTold ==
  ASSUME HistInv, NEW k \in Kinds, NEW i \in 1..Len(hist[k]), i > 1,
         NEW page, Tells(k, page, i - 1), since[k] \in 1..(i - 1),
         missed' = missed, failed \subseteq failed', UNCHANGED <<hist, since>>,
         LET x == EventAfter(k, i - 1).item IN
             \/ ~x.mine
             \/ EventAfter(k, i - 1).do = "put" /\ Key(k, x) \in failed'
  PROVE  Tells(k, page, i)'
<1> DEFINE before == hist[k][i - 1]
           after == hist[k][i]
           event == EventAfter(k, i - 1)
           x == event.item
<1>1. Whole(k, before) /\ Whole(k, after) /\ Change(before, after)
  <2>1. i - 1 \in 1..Len(hist[k])
    BY DEF HistInv
  <2> QED BY <2>1 DEF HistInv
<1>2. (i - 1) + 1 = i /\ i - 1 \in since[k]..i - 1
  OBVIOUS
<1>3. event = IF after \ before # {}
              THEN [do |-> "put", item |-> CHOOSE y \in after \ before : TRUE]
              ELSE [do |-> "delete", item |-> CHOOSE y \in before \ after : TRUE]
  BY <1>2, Zenon DEF EventAfter
<1>4. /\ \A y : Unproven(k, y) => Unproven(k, y)'
      /\ \A y : y.name = x.name /\ y.uid = x.uid /\ Key(k, x) \in failed' => Unproven(k, y)'
  BY DEF Unproven, Key
<1>5. \A y : Strayed(k, y, i - 1) => Strayed(k, y, i)'
  <2> SUFFICES ASSUME NEW y, Strayed(k, y, i - 1) PROVE Strayed(k, y, i)'
    OBVIOUS
  <2>1. PICK j \in since[k]..(i - 1) - 1 :
          y \in Mine(hist[k][j]) /\ \E z \in hist[k][j + 1] : Key(k, z) = Key(k, y) /\ ~z.mine
    BY DEF Strayed
  <2>2. j \in since[k]..i - 1
    OBVIOUS
  <2> QED BY <2>1, <2>2 DEF Strayed, Mine, Key
<1>6. ASSUME NEW y \in Mine(before), NEW z \in after, z.name = y.name, z.uid = y.uid, ~z.mine
      PROVE  Strayed(k, y, i)'
  <2>1. z \in hist[k][(i - 1) + 1] /\ Key(k, z) = Key(k, y)
    BY <1>2, <1>6 DEF Key
  <2> QED BY <1>2, <1>6, <2>1 DEF Strayed, Mine, Key
<1>7. /\ \A y \in Mine(before) \ page : Unproven(k, y)
      /\ \A y \in page \ Mine(before) : Unproven(k, y) \/ Strayed(k, y, i - 1)
  BY DEF Tells
<1>8. ~x.mine \/ (event.do = "put" /\ Key(k, x) \in failed')
  OBVIOUS
<1> SUFFICES /\ \A y \in Mine(after) \ page : Unproven(k, y)'
             /\ \A y \in page \ Mine(after) : Unproven(k, y)' \/ Strayed(k, y, i)'
  BY DEF Tells, Mine
<1> HIDE DEF before, after, event
<1>9. CASE \E y \in after : Named(before, y.name) = {} /\ after = before \cup {y}
  <2>1. PICK y \in after : Named(before, y.name) = {} /\ after = before \cup {y}
    BY <1>9
  <2>2. after \ before = {y}
    BY <2>1 DEF Named
  <2>3. x = y /\ event.do = "put"
    BY <1>3, <2>2
  <2> QED BY <2>1, <2>3, <1>4, <1>5, <1>7, <1>8 DEF Mine
<1>10. CASE \E y \in before, z \in after :
              z # y /\ z.name = y.name /\ z.uid = y.uid /\ after = (before \ {y}) \cup {z}
  <2>1. PICK y \in before, z \in after :
          z # y /\ z.name = y.name /\ z.uid = y.uid /\ after = (before \ {y}) \cup {z}
    BY <1>10
  <2>2. z \notin before
    BY <2>1, <1>1 DEF Whole
  <2>3. after \ before = {z}
    BY <2>1, <2>2
  <2>4. x = z /\ event.do = "put"
    BY <1>3, <2>3
  <2>5. \A w \in Mine(after) \ page : w = z \/ w \in Mine(before) \ page
    BY <2>1 DEF Mine
  <2>6. \A w \in page \ Mine(after) : (w = y /\ y \in Mine(before)) \/ w \in page \ Mine(before)
    BY <2>1 DEF Mine
  <2>7. CASE ~z.mine
    <3>1. z \notin Mine(after)
      BY <2>7 DEF Mine
    <3>2. y \in Mine(before) => Strayed(k, y, i)'
      BY <2>1, <2>7, <1>6
    <3> QED BY <3>1, <3>2, <2>5, <2>6, <1>4, <1>5, <1>7
  <2>8. CASE Key(k, x) \in failed'
    <3>1. Unproven(k, z)' /\ Unproven(k, y)'
      BY <2>1, <2>4, <2>8, <1>4
    <3> QED BY <3>1, <2>5, <2>6, <1>4, <1>5, <1>7
  <2> QED BY <2>4, <2>7, <2>8, <1>8
<1>11. CASE \E y \in before : after = before \ {y}
  <2>1. PICK y \in before : after = before \ {y}
    BY <1>11
  <2>2. after \ before = {} /\ before \ after = {y}
    BY <2>1
  <2>3. x = y /\ event.do = "delete"
    BY <1>3, <2>2
  <2>4. Mine(after) = Mine(before)
    BY <2>1, <2>3, <1>8 DEF Mine
  <2> QED BY <2>4, <1>4, <1>5, <1>7
<1> QED BY <1>1, <1>9, <1>10, <1>11 DEF Change

\* What a pump skips is folded in as it stands.
LEMMA FeedSkips == ASSUME FeedInv, NEW k \in Kinds, PumpSkips(k) PROVE FeedInv'
<1>1. /\ UNCHANGED <<profile, hist, refused, phase, fetched, kept, flag, snap, since, missed,
                       up, offer>>
      /\ k \in up /\ offer[k] = NoItem /\ cursor[k] < Len(hist[k])
      /\ failed \subseteq failed'
      /\ cursor' = [cursor EXCEPT ![k] = @ + 1]
      /\ read' = [read EXCEPT ![k] = cursor'[k]]
  BY DEF PumpSkips, Reads
<1>2. LET event == EventAfter(k, cursor[k]) IN
      \/ profile.source.member = "declared" /\ ~event.item.mine
      \/ /\ profile.source.member = "proven" /\ event.do = "put"
         /\ Key(k, event.item) \in failed'
  BY DEF PumpSkips, Walked
<1>3. ~profile.source.pinned
  BY <1>2, ProfilesAssumption DEF FeedInv, TypeInv
<1>4. /\ Kinds' = Kinds /\ NoItem' = NoItem /\ Listed' = Listed /\ Observed' = Observed
      /\ \A j : Objects(j)' = Objects(j)
  BY <1>1, SameFeed DEF NoItem, Listed, Observed
<1>5. phase = "consume"
  BY <1>1 DEF FeedInv, PhaseInv
<1>6. /\ k \in Observed /\ read[k] = cursor[k] /\ cursor[k] \in 1..Len(hist[k])
      /\ Len(hist[k]) \in Nat
  BY <1>1, <1>3, <1>5, Revisions DEF FeedInv, StreamInv, Aligned
<1>7. /\ cursor'[k] = cursor[k] + 1 /\ read'[k] = cursor'[k]
      /\ DOMAIN cursor' = Kinds /\ DOMAIN read' = Kinds
      /\ \A j \in Kinds : j # k => cursor'[j] = cursor[j] /\ read'[j] = read[j]
  BY <1>1 DEF FeedInv, StreamInv, KeptInv
<1>8. cursor'[k] \in 1..Len(hist[k]) /\ cursor'[k] > 1 /\ cursor'[k] - 1 = cursor[k]
  BY <1>1, <1>6, <1>7
<1>9. TypeInv' /\ FetchInv' /\ PhaseInv'
  BY <1>1, <1>4, <1>5, FetchFrame DEF FeedInv, TypeInv, PhaseInv
<1>10. ASSUME NEW j \in Kinds, j # k, Told(j) PROVE Told(j)'
  <2>1. read[j] \in Nat /\ read[j] >= 1
    BY DEF FeedInv, KeptInv
  <2> QED BY <2>1, <1>1, <1>7, <1>10, ToldFrame
<1>11. ASSUME Told(k) PROVE Told(k)'
  <2>1. PICK i : i = cursor'[k]
    OBVIOUS
  <2>2. PICK page : page = kept[k]
    OBVIOUS
  <2>3. since[k] \in 1..(i - 1) /\ Tells(k, page, i - 1)
    BY <1>3, <1>6, <1>8, <1>11, <2>1, <2>2 DEF Told
  <2>4. i \in 1..Len(hist[k]) /\ i > 1 /\ i - 1 = cursor[k]
    BY <1>8, <2>1
  <2>5. LET x == EventAfter(k, i - 1).item IN
            \/ ~x.mine
            \/ EventAfter(k, i - 1).do = "put" /\ Key(k, x) \in failed'
    BY <1>2, <2>4
  <2>6. Tells(k, page, i)'
    BY <1>1, <2>3, <2>4, <2>5, SkippedIsTold DEF FeedInv
  <2>7. kept'[k] = page /\ read'[k] = i
    BY <1>1, <1>7, <2>1, <2>2
  <2>8. Tells(k, kept[k], read[k])'
    BY <2>6, <2>7 DEF Tells
  <2>9. since'[k] \in 1..read'[k]
    BY <1>1, <1>7, <1>8, <2>1, <2>3
  <2> QED BY <1>1, <1>3, <2>8, <2>9 DEF Told
<1>12. KeptInv'
  <2>1. \A j : Whole(j, kept[j])' = Whole(j, kept[j])
    BY <1>1 DEF Whole, Objects, NamesOf, Membership
  <2>2. \A j : Admitted(j, kept, flag)' = Admitted(j, kept, flag)
    BY <1>1 DEF Admitted
  <2>3. \A j \in Kinds : read'[j] \in 1..Len(hist[j])
    BY <1>7, <1>8 DEF FeedInv, KeptInv
  <2>4. \A j \in Kinds : Told(j) => Told(j)'
    BY <1>10, <1>11
  <2> QED BY <1>1, <1>4, <1>7, <2>1, <2>2, <2>3, <2>4 DEF FeedInv, KeptInv
<1>13. StreamInv'
  <2>1. Aligned(k)'
    BY <1>1, <1>4, <1>7 DEF Aligned
  <2>2. \A j \in up : j # k => Aligned(j)'
    <3>1. \A j \in up : Aligned(j) /\ j \in Kinds
      BY <1>5 DEF FeedInv, StreamInv, TypeInv
    <3> QED BY <3>1, <1>1, <1>7, AlignedFrame
  <2>3. \A j \in Kinds : cursor'[j] \in 1..Len(hist[j])
    BY <1>7, <1>8 DEF FeedInv, StreamInv
  <2> QED BY <1>1, <1>4, <1>5, <1>7, <2>1, <2>2, <2>3 DEF FeedInv, StreamInv
<1> QED BY <1>1, <1>9, <1>12, <1>13, HistFrame DEF FeedInv

\* Folding an event in changes what is retained as the event changes the kind.
LEMMA FoldedIsTold ==
  ASSUME HistInv, NEW k \in Kinds, NEW i \in 1..Len(hist[k]), i > 1,
         NEW page, Tells(k, page, i - 1), EventAfter(k, i - 1).item.mine,
         NEW retained,
         LET event == EventAfter(k, i - 1) IN
             retained = IF event.do = "put"
                        THEN (page \ Named(page, event.item.name)) \cup {event.item}
                        ELSE Remove(page, event.item)
  PROVE  Tells(k, retained, i)
<1> DEFINE before == hist[k][i - 1]
           after == hist[k][i]
           event == EventAfter(k, i - 1)
           x == event.item
<1>1. Whole(k, before)
  <2>1. i - 1 \in 1..Len(hist[k])
    OBVIOUS
  <2> QED BY <2>1 DEF HistInv
<1>2. /\ event \in [do : {"put", "delete"}, item : Objects(k)]
      /\ event.do = "put" => after = (before \ Named(before, x.name)) \cup {x}
      /\ event.do = "delete" => after = Remove(before, x)
  BY EventMakesTheChange, Zenon
<1>3. /\ \A y \in Mine(before) \ page : Unproven(k, y)
      /\ \A y \in page \ Mine(before) : Unproven(k, y) \/ Strayed(k, y, i - 1)
  BY DEF Tells
<1>4. \A y : Strayed(k, y, i - 1) => Strayed(k, y, i)
  <2>1. \A j \in since[k]..(i - 1) - 1 : j \in since[k]..i - 1
    OBVIOUS
  <2> QED BY <2>1 DEF Strayed
<1>5. retained = IF event.do = "put" THEN (page \ Named(page, x.name)) \cup {x}
                 ELSE Remove(page, x)
  OBVIOUS
<1>6. x.mine
  OBVIOUS
<1> SUFFICES /\ \A y \in Mine(after) \ retained : Unproven(k, y)
             /\ \A y \in retained \ Mine(after) : Unproven(k, y) \/ Strayed(k, y, i)
  BY DEF Tells
<1> HIDE DEF before, after, event
<1>7. CASE event.do = "put"
  <2>1. \A y \in Mine(after) \ retained : y \in Mine(before) \ page
    BY <1>2, <1>5, <1>7 DEF Mine, Named
  <2>2. \A y \in retained \ Mine(after) : y \in page \ Mine(before)
    BY <1>2, <1>5, <1>6, <1>7 DEF Mine, Named
  <2> QED BY <2>1, <2>2, <1>3, <1>4
<1>8. CASE event.do = "delete"
  <2>1. \A y \in Mine(after) \ retained : y \in Mine(before) \ page
    BY <1>2, <1>5, <1>8 DEF Mine, Remove
  <2>2. \A y \in retained \ Mine(after) : y \in page \ Mine(before)
    BY <1>2, <1>5, <1>8 DEF Mine, Remove
  <2> QED BY <2>1, <2>2, <1>3, <1>4
<1> QED BY <1>2, <1>7, <1>8

\* What an event leaves of a kind is whole, and tells what the server held after it
\* unless the flag goes up.
LEMMA AppliedIsTheRevision ==
  ASSUME FeedInv, phase = "consume", NEW k \in up, offer[k] # NoItem,
         NEW retained \in Applied(k, offer[k])
  PROVE  /\ Whole(k, retained)
         /\ profile.source.pinned => retained = hist[k][cursor[k]]
         /\ ~profile.source.pinned /\ ~flag[k] /\ ~Evicted(k, offer[k], retained) =>
                since[k] \in 1..cursor[k] /\ Tells(k, retained, cursor[k])
<1> DEFINE item == offer[k]
           x == offer[k].item
<1>1. /\ k \in Kinds /\ k \in Observed /\ Aligned(k)
      /\ Whole(k, kept[k]) /\ flag[k] \in BOOLEAN
      /\ cursor[k] \in 1..Len(hist[k])
  BY DEF FeedInv, TypeInv, StreamInv, KeptInv
<1>2. /\ item \in [do : {"put", "delete"}, item : Objects(k)] /\ x.mine
      /\ profile.source.pinned =>
             hist[k][cursor[k]] = IF item.do = "put" THEN {x} ELSE {}
      /\ ~profile.source.pinned =>
             cursor[k] > 1 /\ read[k] = cursor[k] - 1 /\ item = EventAfter(k, cursor[k] - 1)
  BY <1>1 DEF Aligned
<1>3. x \in Objects(k) /\ item.do \in {"put", "delete"}
  BY <1>2
<1>4. CASE profile.source.pinned
  <2>1. retained = IF item.do = "put" THEN {x} ELSE {}
    BY <1>4 DEF Applied
  <2>2. IsFiniteSet({x}) /\ IsFiniteSet({})
    BY FS_Singleton, FS_EmptySet
  <2>3. Whole(k, retained)
    BY <1>3, <2>1, <2>2 DEF Whole
  <2> QED BY <1>2, <1>4, <2>1, <2>3
<1>5. CASE ~profile.source.pinned
  <2>1. ~flag[k] => since[k] \in 1..(cursor[k] - 1) /\ Tells(k, kept[k], cursor[k] - 1)
    BY <1>1, <1>2, <1>5 DEF FeedInv, KeptInv, PhaseInv, Told
  <2>2. /\ HistInv /\ cursor[k] \in 1..Len(hist[k]) /\ cursor[k] > 1
        /\ EventAfter(k, cursor[k] - 1) = item
    BY <1>1, <1>2, <1>5 DEF FeedInv
  <2>3. Whole(k, retained)
    <3>1. CASE item.do = "put"
      BY <1>1, <1>3, <1>5, <3>1, WholePut DEF Applied
    <3>2. CASE item.do = "delete"
      <4>1. retained \in SUBSET kept[k]
        BY <1>5, <3>2 DEF Applied, Remove
      <4> QED BY <1>1, <4>1, WholeParts
    <3> QED BY <1>3, <3>1, <3>2
  <2>4. ~Evicted(k, item, retained) =>
           retained = IF item.do = "put"
                      THEN (kept[k] \ Named(kept[k], x.name)) \cup {x}
                      ELSE Remove(kept[k], x)
    <3>1. CASE item.do = "put"
      BY <1>5, <3>1, UnlessEvicted
    <3>2. CASE item.do = "delete"
      BY <1>5, <3>2 DEF Applied
    <3> QED BY <1>3, <3>1, <3>2
  <2>5. ASSUME ~flag[k], ~Evicted(k, item, retained)
        PROVE  since[k] \in 1..cursor[k] /\ Tells(k, retained, cursor[k])
    <3>1. PICK i : i = cursor[k]
      OBVIOUS
    <3>2. PICK page : page = kept[k]
      OBVIOUS
    <3>3. /\ i \in 1..Len(hist[k]) /\ i > 1
          /\ Tells(k, page, i - 1) /\ EventAfter(k, i - 1).item.mine
      BY <1>2, <2>1, <2>2, <2>5, <3>1, <3>2
    <3>4. LET event == EventAfter(k, i - 1) IN
              retained = IF event.do = "put"
                         THEN (page \ Named(page, event.item.name)) \cup {event.item}
                         ELSE Remove(page, event.item)
      BY <2>2, <2>4, <2>5, <3>1, <3>2
    <3>5. Tells(k, retained, i)
      BY <1>1, <2>2, <3>3, <3>4, FoldedIsTold
    <3>6. since[k] \in 1..cursor[k]
      BY <2>1, <2>2, <2>5
    <3> QED BY <3>1, <3>5, <3>6
  <2> QED BY <1>5, <2>3, <2>5
<1> QED BY <1>4, <1>5

\* An event is folded in and published.
LEMMA FeedConsumes == ASSUME FeedInv, NEW k \in Kinds, Consume(k) PROVE FeedInv'
<1>1. PICK retained \in Applied(k, offer[k]) :
        /\ kept' = [kept EXCEPT ![k] = retained]
        /\ flag' = [flag EXCEPT ![k] = @ \/ Evicted(k, offer[k], retained)]
        /\ Publish(kept', flag', Kinds \ snap.unobserved)
  BY DEF Consume
<1>2. /\ UNCHANGED <<profile, hist, refused, phase, fetched, since, missed, up, cursor, failed>>
      /\ phase = "consume" /\ offer[k] # NoItem
      /\ read' = [read EXCEPT ![k] = cursor[k]]
      /\ offer' = [offer EXCEPT ![k] = NoItem]
  BY DEF Consume, serverVars
<1>3. /\ Kinds' = Kinds /\ NoItem' = NoItem /\ Listed' = Listed /\ Observed' = Observed
  BY <1>2, SameFeed DEF NoItem, Listed, Observed
<1>4. /\ snap.gen \in Nat /\ snap.gen > 0 /\ snap.unobserved = Kinds \ Observed
      /\ Listed = Kinds /\ k \in up
  BY <1>2 DEF FeedInv, KeptInv, PhaseInv, StreamInv
<1>5. /\ DOMAIN snap' = {"gen", "stale", "shown", "flagged", "unobserved"}
      /\ snap'.gen \in Nat /\ snap'.gen > 0
      /\ snap'.unobserved = Kinds \ (Kinds \ snap.unobserved)
      /\ snap'.flagged \subseteq Kinds
      /\ \A j \in Kinds :
            /\ snap'.shown[j] = Bounded(kept'[j], profile.keep.order[j], MaxShown)
            /\ Admitted(j, kept', flag') => j \in snap'.flagged
  BY <1>1, <1>4, Published
<1>6. snap'.unobserved = snap.unobserved
  BY <1>4, <1>5
<1>7. /\ Whole(k, retained)
      /\ profile.source.pinned => retained = hist[k][cursor[k]]
      /\ ~profile.source.pinned /\ ~flag[k] /\ ~Evicted(k, offer[k], retained) =>
             since[k] \in 1..cursor[k] /\ Tells(k, retained, cursor[k])
  BY <1>2, <1>4, AppliedIsTheRevision
<1>8. /\ DOMAIN kept = Kinds /\ DOMAIN flag = Kinds /\ DOMAIN read = Kinds
      /\ DOMAIN offer = Kinds /\ flag[k] \in BOOLEAN /\ cursor[k] \in 1..Len(hist[k])
  BY DEF FeedInv, KeptInv, StreamInv
<1>9. /\ kept'[k] = retained /\ read'[k] = cursor[k] /\ offer'[k] = NoItem
      /\ flag'[k] = (flag[k] \/ Evicted(k, offer[k], retained))
      /\ \A j \in Kinds : j # k => /\ kept'[j] = kept[j] /\ flag'[j] = flag[j]
                                   /\ read'[j] = read[j] /\ offer'[j] = offer[j]
      /\ DOMAIN kept' = Kinds /\ DOMAIN flag' = Kinds /\ DOMAIN read' = Kinds
      /\ DOMAIN offer' = Kinds
  BY <1>1, <1>2, <1>8
<1>10. TypeInv' /\ FetchInv' /\ PhaseInv'
  BY <1>2, <1>3, <1>4, <1>5, <1>6, FetchFrame DEF FeedInv, TypeInv, PhaseInv
<1>11. KeptInv'
  <2>1. ASSUME NEW j \in Kinds
        PROVE  /\ Whole(j, kept[j])' /\ flag'[j] \in BOOLEAN /\ read'[j] \in 1..Len(hist'[j])
               /\ j \notin snap'.unobserved /\ ~flag'[j] => Told(j)'
    <3>1. CASE j = k
      <4>1. Whole(k, kept[k])'
        BY <1>2, <1>7, <1>9, SameFeed DEF Whole
      <4>2. flag'[k] \in BOOLEAN
        BY <1>8, <1>9 DEF Evicted
      <4>3. ASSUME ~flag'[k] PROVE Told(k)'
        <5>1. ~flag[k] /\ ~Evicted(k, offer[k], retained)
          BY <1>9, <4>3
        <5>2. CASE profile.source.pinned
          BY <5>2, <1>2, <1>7, <1>9 DEF Told
        <5>3. CASE ~profile.source.pinned
          <6>1. since[k] \in 1..cursor[k] /\ Tells(k, retained, cursor[k])
            BY <5>1, <5>3, <1>7
          <6>2. Tells(k, kept[k], read[k])'
            BY <6>1, <1>2, <1>9 DEF Tells, Unproven, Strayed, Mine, Key
          <6> QED BY <6>1, <6>2, <5>3, <1>2, <1>9 DEF Told
        <5> QED BY <5>2, <5>3
      <4> QED BY <3>1, <4>1, <4>2, <4>3, <1>2, <1>8, <1>9
    <3>2. CASE j # k
      <4>1. Whole(j, kept[j])'
        BY <3>2, <1>2, <1>9, SameFeed DEF FeedInv, KeptInv, Whole
      <4>2. Told(j) => Told(j)'
        <5>1. read[j] \in Nat /\ read[j] >= 1
          BY DEF FeedInv, KeptInv
        <5> QED BY <3>2, <5>1, <1>2, <1>9, ToldFrame
      <4> QED BY <3>2, <4>1, <4>2, <1>2, <1>4, <1>6, <1>9 DEF FeedInv, KeptInv
    <3> QED BY <3>1, <3>2
  <2>2. \A j : Admitted(j, kept, flag)' = Admitted(j, kept', flag')
    BY DEF Admitted
  <2> QED BY <1>2, <1>3, <1>5, <1>9, <2>1, <2>2 DEF KeptInv
<1>12. StreamInv'
  <2>1. \A j \in up : Aligned(j)'
    <3> SUFFICES ASSUME NEW j \in up PROVE Aligned(j)'
      OBVIOUS
    <3>1. Aligned(j) /\ j \in Kinds
      BY <1>2 DEF FeedInv, StreamInv, TypeInv
    <3>2. CASE j = k
      BY <3>2, <1>2, <1>3, <1>9 DEF Aligned
    <3>3. CASE j # k
      BY <3>1, <3>3, <1>2, <1>9, AlignedFrame
    <3> QED BY <3>2, <3>3
  <2>2. \A j \in Kinds : j \notin up => offer'[j] = NoItem
    BY <1>4, <1>9 DEF FeedInv, StreamInv
  <2> QED BY <1>2, <1>3, <1>9, <2>1, <2>2 DEF FeedInv, StreamInv
<1> QED BY <1>2, <1>10, <1>11, <1>12, HistFrame DEF FeedInv

\* A step that changes nothing.
LEMMA FeedStutters == ASSUME FeedInv, UNCHANGED vars PROVE FeedInv'
<1>1. UNCHANGED <<profile, hist, refused, phase, fetched, kept, flag, read, snap, since, missed,
                  up, cursor, offer, failed>>
  BY DEF vars, serverVars, loopVars, streamVars
<1>2. Kinds' = Kinds /\ Listed' = Listed /\ Observed' = Observed
  BY <1>1, SameFeed DEF Listed, Observed
<1>3. TypeInv' /\ FetchInv' /\ PhaseInv'
  BY <1>1, <1>2, FetchFrame, PhaseFrame DEF FeedInv, TypeInv
<1>4. StreamInv'
  BY <1>1, StreamFrame DEF FeedInv, TypeInv
<1>5. KeptInv'
  BY <1>1, ToldStands, KeptFrame DEF FeedInv
<1> QED BY <1>1, <1>3, <1>4, <1>5, HistFrame DEF FeedInv

\* One step of the collector.
LEMMA FeedCollector == ASSUME FeedInv, Collector PROVE FeedInv'
<1>1. CASE ListKind
  <2>1. PICK l \in Listings(NextKind, Mine(Live(NextKind))) :
          FetchedKind(NextKind,
              [items |-> l.items, cut |-> l.cut, observed |-> TRUE, missed |-> {}])
    BY <1>1 DEF ListKind
  <2>2. l.items \subseteq Mine(Live(NextKind)) /\ (~l.cut => l.items = Mine(Live(NextKind)))
    BY DEF Listings
  <2>3. phase = "fetch"
    BY <1>1 DEF ListKind, Fetching
  <2> DEFINE listing == [items |-> l.items, cut |-> l.cut, observed |-> TRUE, missed |-> {}]
  <2>4. /\ listing.items = l.items /\ listing.cut = l.cut /\ listing.observed
        /\ listing.missed = {}
    OBVIOUS
  <2>5. FetchedKind(NextKind, listing)
    BY <2>1
  <2> HIDE DEF listing
  <2>6. ListingOf(NextKind, listing, Mine(Live(NextKind)))
    BY <2>2, <2>4 DEF ListingOf
  <2> QED BY <2>3, <2>5, <2>6, FeedLists
<1>6. CASE ListUnproven
  <2>1. PICK out \in SUBSET Live(NextKind) :
          FetchedKind(NextKind,
              [items |-> Live(NextKind) \ out, cut |-> FALSE, observed |-> TRUE,
               missed |-> {Key(NextKind, x) : x \in out}])
    BY <1>6 DEF ListUnproven
  <2>2. phase = "fetch" /\ profile.source.member = "proven"
    BY <1>6 DEF ListUnproven, Fetching
  <2> DEFINE listing == [items |-> Live(NextKind) \ out, cut |-> FALSE, observed |-> TRUE,
                         missed |-> {Key(NextKind, x) : x \in out}]
  <2>3. /\ listing.items = Live(NextKind) \ out /\ listing.observed
        /\ listing.missed = {Key(NextKind, x) : x \in out}
    OBVIOUS
  <2>4. FetchedKind(NextKind, listing)
    BY <2>1
  <2> HIDE DEF listing
  <2>5. ~profile.source.pinned /\ Membership = {TRUE}
    BY <2>2, ProfilesAssumption DEF FeedInv, TypeInv, Membership
  <2>6. ASSUME NextKind \in Kinds PROVE ListingOf(NextKind, listing, Mine(Live(NextKind)))
    <3>1. Whole(NextKind, Live(NextKind))
      BY <2>6, Revisions DEF FeedInv, HistInv, Live
    <3>2. Mine(Live(NextKind)) = Live(NextKind)
      BY <2>5, <3>1 DEF Whole, Objects, Mine
    <3> QED BY <2>3, <2>5, <3>2 DEF ListingOf
  <2> QED BY <2>2, <2>4, <2>6, FeedLists
<1>2. CASE ListRefused
  <2> DEFINE listing == [items |-> {}, cut |-> FALSE, observed |-> FALSE, missed |-> {}]
  <2>1. /\ phase = "fetch" /\ NextKind \in profile.source.optional
        /\ FetchedKind(NextKind, listing)
    BY <1>2 DEF ListRefused, Fetching
  <2>2. listing.items = {} /\ ~listing.observed /\ listing.missed = {}
    OBVIOUS
  <2> HIDE DEF listing
  <2>3. ListingOf(NextKind, listing, Mine(Live(NextKind)))
    BY <2>1, <2>2 DEF ListingOf
  <2> QED BY <2>1, <2>3, FeedLists
<1>3. CASE FetchFails \/ OpenFails
  <2>1. phase \in {"fetch", "open"} /\ LoseContact /\ UNCHANGED streamVars
    BY <1>3 DEF FetchFails, Fetching, OpenFails
  <2>2. up = {}
    BY <2>1 DEF FeedInv, PhaseInv
  <2> QED BY <2>1, <2>2, FeedLosesContact
<1>4. CASE StreamCloses
  BY <1>4, FeedLosesContact DEF StreamCloses
<1>5. CASE WaitEnds
  <2>1. /\ UNCHANGED <<profile, hist, refused, fetched, kept, flag, read, snap, since, missed,
                         up, cursor, offer, failed>>
        /\ phase = "wait" /\ phase' = "fetch"
    BY <1>5 DEF WaitEnds, serverVars, streamVars
  <2>2. Kinds' = Kinds /\ Listed' = Listed /\ NoItem' = NoItem
    BY <2>1, SameFeed DEF Listed, NoItem
  <2>3. TypeInv' /\ FetchInv' /\ PhaseInv' /\ StreamInv'
    BY <2>1, <2>2, FetchFrame DEF FeedInv, TypeInv, PhaseInv, StreamInv
  <2>4. KeptInv'
    BY <2>1, ToldStands, KeptFrame DEF FeedInv
  <2> QED BY <2>1, <2>3, <2>4, HistFrame DEF FeedInv
<1> QED BY <1>1, <1>2, <1>3, <1>4, <1>5, <1>6, FeedSeeds, FeedOpens, FeedConsumes DEF Collector

\* The inductive invariant under the results on the other feeds.
THEOREM FeedHolds == Spec => []FeedInv
<1>1. FeedInv /\ [Next]_vars => FeedInv'
  <2> SUFFICES ASSUME FeedInv, [Next]_vars PROVE FeedInv'
    OBVIOUS
  <2>1. CASE Next
    BY <2>1, FeedServer, FeedCollector, FeedTakes, FeedSkips, FeedEnds DEF Next, Pump
  <2>2. CASE UNCHANGED vars
    BY <2>2, FeedStutters
  <2> QED BY <2>1, <2>2
<1> QED BY <1>1, FeedInit, PTL DEF Spec

-----------------------------------------------------------------------------
(* What it is for.                                                           *)

\* Types, and that a pump that is down offers nothing, for any feeds and bounds.
THEOREM TypesHold == Spec => []TypeOK
<1>1. FeedInv => TypeOK
  BY DEF FeedInv, TypeInv, KeptInv, StreamInv, TypeOK
<1> QED BY <1>1, FeedHolds, PTL

\* A kind that is not flagged is shown as it is retained, and tells what was folded in.
LEMMA UnflaggedIsShown ==
  ASSUME FeedInv, snap.gen > 0, NEW k \in Kinds, k \notin snap.flagged, k \notin snap.unobserved
  PROVE  snap.shown[k] = kept[k] /\ Told(k) /\ Tells(k, snap.shown[k], read[k])
<1>1. ~Admitted(k, kept, flag) /\ Whole(k, kept[k])
  BY DEF FeedInv, KeptInv
<1>2. ~flag[k] /\ ~(Cardinality(kept[k]) > MaxShown)
  BY <1>1 DEF Admitted
<1>3. Cardinality(kept[k]) \in Nat
  BY <1>1, FS_CardinalityType DEF Whole
<1>4. Cardinality(kept[k]) <= MaxShown
  BY <1>2, <1>3, MaxShownAssumption
<1>5. Bounded(kept[k], profile.keep.order[k], MaxShown) = kept[k]
  BY <1>1, <1>4, NothingIsCut
<1>6. snap.shown[k] = kept[k] /\ Told(k) /\ read[k] \in 1..Len(hist[k])
  BY <1>2, <1>5 DEF FeedInv, KeptInv
<1>7. CASE profile.source.pinned
  <2>1. kept[k] = Mine(hist[k][read[k]])
    BY <1>6, <1>7, PinnedAreMine DEF Told, FeedInv, HistInv
  <2>2. kept[k] \ Mine(hist[k][read[k]]) = {} /\ Mine(hist[k][read[k]]) \ kept[k] = {}
    BY <2>1
  <2>3. Tells(k, kept[k], read[k])
    BY <2>2 DEF Tells
  <2> QED BY <1>6, <2>3
<1>8. CASE ~profile.source.pinned
  BY <1>6, <1>8 DEF Told
<1> QED BY <1>6, <1>7, <1>8

\* For every feed: a kind shown as observed and not truncated tells what the server held
\* when the last page or event folded into it was current, whatever interleaving of
\* watches, evictions, refusals and lost contacts led there, but for what the code cannot
\* see of it: members it could not prove, and members that strayed (observe, published;
\* poolerPodIsMember; the membership guards of the pumps).
THEOREM UnflaggedHolds == Spec => []UnflaggedIsComplete
<1>1. FeedInv => UnflaggedIsComplete
  BY UnflaggedIsShown DEF UnflaggedIsComplete
<1> QED BY <1>1, FeedHolds, PTL

\* For every feed: one with nothing left to deliver tells the present, but for what it
\* could not prove, what strayed to another cluster and is skipped from then on, and the
\* one deletion that a pinned object's watch cannot tell (kube/cluster.go).
THEOREM BlindSpotHolds == Spec => []BlindSpotsAreKnown
<1>1. FeedInv => BlindSpotsAreKnown
  <2> SUFFICES ASSUME FeedInv, NEW k \in up, phase = "consume", offer[k] = NoItem,
                      cursor[k] = Len(hist[k]), k \notin snap.flagged
               PROVE  \/ Tells(k, snap.shown[k], Len(hist[k]))
                      \/ /\ profile.source.pinned
                         /\ Live(k) = {}
                         /\ read[k] = fetched[k].at
                         /\ snap.shown[k] = hist[k][fetched[k].at]
    BY DEF BlindSpotsAreKnown
  <2>1. k \in Kinds /\ k \in Observed /\ Aligned(k)
    BY DEF FeedInv, TypeInv, StreamInv
  <2>2. snap.gen > 0 /\ k \notin snap.unobserved
    BY <2>1 DEF FeedInv, PhaseInv
  <2>3. snap.shown[k] = kept[k] /\ Told(k) /\ Tells(k, snap.shown[k], read[k])
    BY <2>1, <2>2, UnflaggedIsShown
  <2> QED BY <2>1, <2>3 DEF Aligned, Live, Told
<1> QED BY <1>1, FeedHolds, PTL

\* Everything else of a full kind is shown before what its policy drops, if that is one.
LEMMA EvictedIsLast ==
  ASSUME NEW k, NEW members, Whole(k, members), NEW policy, NEW order,
         \/ policy = "lastName" /\ order = "name"
         \/ policy = "oldest" /\ order = "recency",
         NEW x \in Evictees(members, policy), ~(Cardinality(Evictees(members, policy)) > 1)
  PROVE  \A y \in members \ {x} : Less(order, y, x)
<1> SUFFICES ASSUME NEW y \in members \ {x} PROVE Less(order, y, x)
  OBVIOUS
<1>1. x \in members /\ \A z \in members : ~Evictable(policy, z, x)
  BY DEF Evictees
<1>2. \A z \in members : z.name \in Nat /\ z.at \in Int
  BY ObjectsAreOrdered DEF Whole
<1>3. CASE policy = "lastName" /\ order = "name"
  <2>1. ~(y.name > x.name) /\ y.name # x.name
    BY <1>1, <1>3 DEF Evictable, Whole
  <2> QED BY <2>1, <1>1, <1>2, <1>3 DEF Less
<1>4. CASE policy = "oldest" /\ order = "recency"
  <2>1. y \notin Evictees(members, policy)
    <3> SUFFICES ASSUME y \in Evictees(members, policy) PROVE FALSE
      OBVIOUS
    <3> DEFINE E == Evictees(members, policy)
    <3>1. E \in SUBSET members
      BY DEF Evictees
    <3>2. IsFiniteSet(E) /\ Cardinality(E) \in Nat
      BY <3>1, FS_Subset, FS_CardinalityType DEF Whole
    <3>3. {x, y} \in SUBSET E /\ x # y
      OBVIOUS
    <3>4. {x, y} = {x} \cup {y} /\ IsFiniteSet({x}) /\ Cardinality({x}) = 1
      BY FS_Singleton
    <3>5. Cardinality({x, y}) = 2
      <4>1. y \notin {x}
        BY <3>3
      <4>2. Cardinality({x} \cup {y}) = Cardinality({x}) + 1
        BY <4>1, <3>4, FS_AddElement
      <4> QED BY <4>2, <3>4
    <3> HIDE DEF E
    <3>6. Cardinality({x, y}) <= Cardinality(E)
      BY <3>2, <3>3, FS_Subset
    <3> QED BY <3>2, <3>5, <3>6 DEF E
  <2>2. PICK z \in members : z.at < y.at
    BY <2>1, <1>4 DEF Evictees, Evictable
  <2>3. ~(z.at < x.at)
    BY <1>1, <1>4 DEF Evictable
  <2>4. y.at > x.at
    BY <1>1, <1>2, <2>2, <2>3
  <2> QED BY <2>4, <1>4 DEF Less, Newer
<1> QED BY <1>3, <1>4

\* For every feed but the queue of access requests: what a full kind evicts is off the
\* page, or tied with another that could have gone instead (keyed.evictee, bounded).
THEOREM EvictedHolds == Spec => []EvictedIsOffThePage
<1>1. FeedInv => EvictedIsOffThePage
  <2> SUFFICES ASSUME FeedInv, NEW k \in Kinds, phase = "consume",
                      profile.keep.order[k] # "queue", offer[k].do = "put",
                      Named(kept[k], offer[k].item.name) = {},
                      NEW retained \in Applied(k, offer[k]),
                      NEW x \in kept[k] \ retained,
                      ~(Cardinality(Evictees(kept[k], profile.keep.policy[k])) > 1)
               PROVE  x \notin Bounded(kept[k] \cup {offer[k].item},
                                       profile.keep.order[k], MaxShown)
    BY DEF EvictedIsOffThePage
  <2> DEFINE item == offer[k].item
             policy == profile.keep.policy[k]
             order == profile.keep.order[k]
             all == kept[k] \cup {item}
             shownBefore == {y \in all : Less(order, y, x)}
  <2>1. offer[k] # NoItem
    BY DEF NoItem
  <2>2. /\ Whole(k, kept[k]) /\ item \in Objects(k)
    BY <2>1 DEF FeedInv, StreamInv, KeptInv, Aligned
  <2>3. ~profile.source.pinned
    <3> SUFFICES ASSUME profile.source.pinned PROVE FALSE
      OBVIOUS
    <3>1. x.name = Min(Names) /\ item.name = Min(Names)
      BY <2>2 DEF Whole, Objects, NamesOf, Membership
    <3> QED BY <3>1 DEF Named
  <2>4. /\ LimitOf(k) > 0 /\ Cardinality(kept[k]) >= LimitOf(k)
        /\ x \in Evictees(kept[k], policy)
    <3>1. retained \in Put(kept[k], item, policy, LimitOf(k))
      BY <2>3 DEF Applied
    <3>2. CASE LimitOf(k) > 0 /\ Cardinality(kept[k]) >= LimitOf(k)
      <4>1. PICK loser \in Evictees(kept[k], policy) : retained = (kept[k] \ {loser}) \cup {item}
        BY <3>1, <3>2 DEF Put
      <4>2. x = loser
        BY <4>1
      <4> QED BY <3>2, <4>1, <4>2
    <3>3. CASE ~(LimitOf(k) > 0 /\ Cardinality(kept[k]) >= LimitOf(k))
      <4>1. retained = (kept[k] \ Named(kept[k], item.name)) \cup {item}
        BY <3>1, <3>3 DEF Put
      <4> QED BY <4>1
    <3> QED BY <3>2, <3>3
  <2>5. /\ RetainedAsShown(policy, order) /\ profile.keep.slack \in Nat \ {0}
    BY ProfilesAssumption DEF FeedInv, TypeInv, Kinds
  <2>6. policy # "never"
    BY <2>4 DEF LimitOf
  <2>7. Cardinality(kept[k]) \in Nat /\ Cardinality(kept[k]) >= MaxShown + 1
    <3>1. Cardinality(kept[k]) \in Nat
      BY <2>2, FS_CardinalityType DEF Whole
    <3>2. LimitOf(k) = MaxShown + profile.keep.slack
      BY <2>6 DEF LimitOf
    <3> QED BY <3>1, <3>2, <2>4, <2>5, MaxShownAssumption
  <2>8. \A y \in kept[k] \ {x} : Less(order, y, x)
    <3>1. \/ policy = "lastName" /\ order = "name"
          \/ policy = "oldest" /\ order = "recency"
      BY <2>5, <2>6 DEF RetainedAsShown
    <3> HIDE DEF policy, order
    <3>2. ~(Cardinality(Evictees(kept[k], policy)) > 1)
      BY DEF policy
    <3> QED BY <2>2, <2>4, <3>1, <3>2, EvictedIsLast
  <2>9. Cardinality(shownBefore) >= MaxShown
    <3>1. IsFiniteSet(kept[k] \ {x}) /\ Cardinality(kept[k] \ {x}) = Cardinality(kept[k]) - 1
      BY <2>2, FS_RemoveElement DEF Whole
    <3>2. IsFiniteSet(all)
      BY <2>2, FS_AddElement DEF Whole
    <3>3. shownBefore \in SUBSET all /\ kept[k] \ {x} \in SUBSET shownBefore
      BY <2>8
    <3> HIDE DEF all, shownBefore
    <3>4. IsFiniteSet(shownBefore) /\ Cardinality(shownBefore) \in Nat
      BY <3>2, <3>3, FS_Subset, FS_CardinalityType
    <3>5. Cardinality(kept[k] \ {x}) <= Cardinality(shownBefore)
      BY <3>3, <3>4, FS_Subset
    <3> QED BY <3>1, <3>4, <3>5, <2>7, MaxShownAssumption
  <2>10. Cardinality(shownBefore) \in Nat
    <3>1. IsFiniteSet(all) /\ shownBefore \in SUBSET all
      BY <2>2, FS_AddElement DEF Whole
    <3> HIDE DEF all, shownBefore
    <3> QED BY <3>1, FS_Subset, FS_CardinalityType
  <2>11. ~(Cardinality(shownBefore) < MaxShown)
    <3> HIDE DEF shownBefore
    <3> QED BY <2>9, <2>10, MaxShownAssumption
  <2> QED BY <2>11, Zenon DEF Bounded
<1> QED BY <1>1, FeedHolds, PTL
=============================================================================
