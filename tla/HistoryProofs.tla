--------------------------- MODULE HistoryProofs ---------------------------
(***************************************************************************)
(* For every set of objects, scopes, limits and revisions: a capture that  *)
(* has seeded knows the server as of what it recorded, an unmarked         *)
(* timeline is whole, the generation tells of every change, retention      *)
(* holds, the figures the store derives are those of its timeline, and     *)
(* what it says of an object is a life. For every key space, every set of  *)
(* values and every bound on calls and failures: the journal loses no call *)
(* while the process lives, and its file is always one moment of the call  *)
(* sequence, never an earlier one than before. For the two together, and   *)
(* any number of restarts: what the file, the journal and the calls to     *)
(* come add up to reads back as the store, and the file's counter never    *)
(* goes back.                                                              *)
(***************************************************************************)
EXTENDS HistoryJournal, JournalMirror, FiniteSetTheorems, SequenceTheorems, WellFoundedInduction, TLAPS

-----------------------------------------------------------------------------
(* Induction: over numbers, and over the parts of a finite set.              *)

\* A set of numbers has a least element.
LEMMA Least ==
  ASSUME NEW T, T \subseteq Nat, T # {}
  PROVE  \E x \in T : \A y \in T : x <= y
<1> DEFINE R == OpToRel(<, Nat)
<1>1. IsWellFoundedOn(R, Nat)
  BY NatLessThanWellFounded
<1>2. \E x \in T : \A y \in T : ~(<<y, x>> \in R)
  <2> HIDE DEF R
  <2> QED BY <1>1, WFMin
<1>3. \A x, y \in Nat : y < x => <<y, x>> \in R
  BY DEF OpToRel
<1> HIDE DEF R
<1>4. \A x, y \in T : ~(y < x) => x <= y
  OBVIOUS
<1> QED BY <1>2, <1>3, <1>4

\* A set of parts of a finite set has a minimal element.
LEMMA Minimal ==
  ASSUME NEW S, IsFiniteSet(S), NEW T, T \subseteq SUBSET S, T # {}
  PROVE  \E s \in T : \A r \in SUBSET s : r # s => r \notin T
<1> DEFINE R == StrictSubsetOrdering(S)
<1>1. IsWellFoundedOn(R, SUBSET S)
  BY FS_StrictSubsetOrderingWellFounded, FS_FiniteSubsetsOfFinite
<1>2. \E s \in T : \A r \in T : ~(<<r, s>> \in R)
  <2> HIDE DEF R
  <2> QED BY <1>1, WFMin
<1>3. \A r, s \in T : r \subseteq s /\ r # s => <<r, s>> \in R
  BY DEF StrictSubsetOrdering
<1> HIDE DEF R
<1> QED BY <1>2, <1>3

Iterations(V, base, step) ==
    {f \in [Nat -> V] : f[0] = base /\ \A n \in Nat : f[n + 1] = step[f[n]]}

\* A value and a step define a sequence of values.
LEMMA Recursion ==
  ASSUME NEW V, NEW base \in V, NEW step \in [V -> V]
  PROVE  Iterations(V, base, step) # {}
<1> DEFINE Upto(n) == {f \in [0..n -> V] : f[0] = base /\ \A i \in 0..(n - 1) : f[i + 1] = step[f[i]]}
           T == {n \in Nat : Upto(n) = {}}
<1>1. \A n \in Nat : Upto(n) # {}
  <2> SUFFICES ASSUME T # {} PROVE FALSE
    BY Zenon
  <2>1. PICK n \in T : \A m \in T : n <= m
    BY Least
  <2>2. CASE n = 0
    <3>1. [i \in 0..0 |-> base] \in Upto(0)
      OBVIOUS
    <3> QED BY <2>2, <3>1
  <2>3. CASE n > 0
    <3>1. n - 1 \in Nat /\ n - 1 \notin T
      <4>1. T \subseteq Nat
        OBVIOUS
      <4> HIDE DEF T
      <4>2. n \in Nat /\ n - 1 \in Nat /\ ~(n <= n - 1)
        BY <4>1, <2>3
      <4> QED BY <4>2, <2>1
    <3>2. PICK f \in Upto(n - 1) : TRUE
      BY <3>1
    <3> DEFINE g == [i \in 0..n |-> IF i = n THEN step[f[n - 1]] ELSE f[i]]
    <3>3. g \in [0..n -> V] /\ g[0] = base
      BY <3>1, <3>2, <2>3
    <3>4. ASSUME NEW i \in 0..(n - 1) PROVE g[i + 1] = step[g[i]]
      <4>1. CASE i = n - 1
        BY <4>1, <3>1, <2>3
      <4>2. CASE i # n - 1
        <5>1. i \in 0..((n - 1) - 1) /\ i \in 0..(n - 1) /\ i + 1 \in 0..(n - 1)
          BY <4>2, <3>1, <2>3
        <5>2. f[i + 1] = step[f[i]]
          BY <5>1, <3>2
        <5>3. g[i] = f[i] /\ g[i + 1] = f[i + 1]
          BY <5>1, <3>1
        <5> QED BY <5>2, <5>3
      <4> QED BY <4>1, <4>2
    <3>5. g \in Upto(n)
      BY <3>3, <3>4
    <3> QED BY <3>5
  <2> QED BY <2>2, <2>3
<1>2. ASSUME NEW n \in Nat, NEW m \in Nat, n <= m, NEW f \in Upto(n), NEW g \in Upto(m)
      PROVE  f[n] = g[n]
  <2> DEFINE D == {i \in 0..n : f[i] # g[i]}
  <2> SUFFICES ASSUME D # {} PROVE FALSE
    OBVIOUS
  <2>1. PICK i \in D : \A j \in D : i <= j
    <3>1. D \subseteq Nat
      OBVIOUS
    <3> HIDE DEF D
    <3> QED BY <3>1, Least
  <2>2. i # 0
    OBVIOUS
  <2>3. i - 1 \in 0..(n - 1) /\ i - 1 \in 0..n /\ i - 1 \in 0..(m - 1)
    BY <2>2, <1>2
  <2>4. f[i - 1] = g[i - 1]
    BY <2>1, <2>3
  <2>5. f[(i - 1) + 1] = step[f[i - 1]] /\ g[(i - 1) + 1] = step[g[i - 1]]
    BY <2>3
  <2> QED BY <2>4, <2>5
<1> DEFINE F == [n \in Nat |-> (CHOOSE f \in Upto(n) : TRUE)[n]]
<1>3. \A n \in Nat : (CHOOSE f \in Upto(n) : TRUE) \in Upto(n)
  BY <1>1
<1>4. ASSUME NEW n \in Nat PROVE F[n] \in V /\ F[n + 1] = step[F[n]]
  <2> DEFINE f == CHOOSE h \in Upto(n) : TRUE
             g == CHOOSE h \in Upto(n + 1) : TRUE
  <2> HIDE DEF Upto
  <2>1. f \in Upto(n) /\ g \in Upto(n + 1)
    <3>1. n + 1 \in Nat
      OBVIOUS
    <3> QED BY <3>1, <1>3
  <2>2. F[n] = f[n] /\ F[n + 1] = g[n + 1]
    OBVIOUS
  <2> HIDE DEF f, g, F
  <2>3. f[n] = g[n]
    <3>1. n + 1 \in Nat /\ n <= n + 1
      OBVIOUS
    <3> QED BY <3>1, <1>2, <2>1
  <2> USE DEF Upto
  <2>4. n \in 0..((n + 1) - 1)
    OBVIOUS
  <2>5. g[n + 1] = step[g[n]]
    BY <2>1, <2>4
  <2>6. f[n] \in V
    BY <2>1
  <2> QED BY <2>2, <2>3, <2>5, <2>6
<1>5. F[0] = base
  <2> DEFINE f == CHOOSE h \in Upto(0) : TRUE
  <2>1. f \in Upto(0)
    BY <1>3
  <2>2. F[0] = f[0]
    OBVIOUS
  <2> HIDE DEF f
  <2> QED BY <2>1, <2>2
<1>6. F \in [Nat -> V]
  <2>1. F = [n \in Nat |-> F[n]]
    OBVIOUS
  <2> HIDE DEF F
  <2> QED BY <2>1, <1>4
<1> HIDE DEF F
<1> QED BY <1>4, <1>5, <1>6 DEF Iterations

FoldsOf(S, V, base, step, pick) ==
    {g \in [SUBSET S -> V] : \A s \in SUBSET S :
         g[s] = IF s = {} THEN base ELSE step[<<pick[s], g[s \ {pick[s]}]>>]}

\* A fold over a finite set is defined: of the parts of the set, each is folded by
\* taking one element out of it and folding the rest.
LEMMA FoldIsDefined ==
  ASSUME NEW S, IsFiniteSet(S), NEW V, NEW base \in V, NEW step \in [S \X V -> V],
         NEW pick \in [(SUBSET S) \ {{}} -> S], \A s \in (SUBSET S) \ {{}} : pick[s] \in s
  PROVE  FoldsOf(S, V, base, step, pick) # {}
<1> DEFINE W == [SUBSET S -> V]
           next == [h \in W |-> [s \in SUBSET S |->
                       IF s = {} THEN base ELSE step[<<pick[s], h[s \ {pick[s]}]>>]]]
           first == [s \in SUBSET S |-> base]
<1>1. first \in W
  OBVIOUS
<1>2. next \in [W -> W]
  OBVIOUS
<1>3. PICK h \in [Nat -> W] : h[0] = first /\ \A n \in Nat : h[n + 1] = next[h[n]]
  <2> HIDE DEF W, next, first
  <2>1. Iterations(W, first, next) # {}
    BY <1>1, <1>2, Recursion
  <2> QED BY <2>1 DEF Iterations
<1> DEFINE g == [s \in SUBSET S |-> h[Cardinality(s)][s]]
<1>4. \A s \in SUBSET S : Cardinality(s) \in Nat /\ IsFiniteSet(s)
  BY FS_Subset, FS_CardinalityType
<1>5. g \in [SUBSET S -> V]
  BY <1>4
<1>6. g[{}] = base
  <2>1. Cardinality({}) = 0
    BY FS_EmptySet
  <2> QED BY <2>1, <1>3
<1>7. ASSUME NEW s \in SUBSET S, s # {} PROVE g[s] = step[<<pick[s], g[s \ {pick[s]}]>>]
  <2> DEFINE r == s \ {pick[s]}
  <2>1. r \in SUBSET S /\ Cardinality(r) = Cardinality(s) - 1
    BY <1>4, <1>7, FS_RemoveElement
  <2>2. Cardinality(r) \in Nat /\ Cardinality(s) = Cardinality(r) + 1
    BY <1>4, <2>1
  <2>3. h[Cardinality(s)] = next[h[Cardinality(r)]] /\ h[Cardinality(r)] \in W
    BY <1>3, <2>2
  <2>4. g[r] = h[Cardinality(r)][r]
    BY <2>1
  <2>5. g[s] = h[Cardinality(s)][s]
    OBVIOUS
  <2>6. next[h[Cardinality(r)]][s] = step[<<pick[s], h[Cardinality(r)][r]>>]
    BY <2>3, <1>7
  <2> HIDE DEF g, next
  <2> QED BY <2>3, <2>4, <2>5, <2>6
<1> HIDE DEF g
<1>8. \A s \in SUBSET S :
        g[s] = IF s = {} THEN base ELSE step[<<pick[s], g[s \ {pick[s]}]>>]
  BY <1>6, <1>7
<1> QED BY <1>5, <1>8 DEF FoldsOf

\* A set of numbers up to some bound has a greatest element, which Max is.
LEMMA Greatest ==
  ASSUME NEW n \in Nat, NEW s \in SUBSET (1..n), s # {}
  PROVE  Max(s) \in s /\ \A y \in s : Max(s) >= y
<1> DEFINE T == {n - x : x \in s}
<1>1. T \subseteq Nat /\ T # {}
  <2>1. \A x \in s : n - x \in Nat
    OBVIOUS
  <2> QED BY <2>1
<1>2. PICK t \in T : \A r \in T : t <= r
  <2> HIDE DEF T
  <2> QED BY <1>1, Least
<1>3. PICK x \in s : t = n - x
  OBVIOUS
<1>4. \A y \in s : x >= y
  <2> SUFFICES ASSUME NEW y \in s PROVE x >= y
    OBVIOUS
  <2>1. n - y \in T
    OBVIOUS
  <2>2. n - x <= n - y
    BY <2>1, <1>2, <1>3
  <2> QED BY <2>2
<1> QED BY <1>4 DEF Max

LeftFolds(n, V, base, step) ==
    {g \in [SUBSET (1..n) -> V] : \A s \in SUBSET (1..n) :
         g[s] = IF s = {} THEN base ELSE step[<<Max(s), g[s \ {Max(s)}]>>]}

\* Folding a sequence from the left takes its positions in order, the last one out.
LEMMA FoldOfASequence ==
  ASSUME NEW n \in Nat, NEW V, NEW base \in V, NEW step \in [(1..n) \X V -> V]
  PROVE  LeftFolds(n, V, base, step) # {}
<1> DEFINE S == 1..n
           pick == [s \in (SUBSET S) \ {{}} |-> Max(s)]
<1>1. IsFiniteSet(S)
  BY FS_Interval
<1>2. \A s \in (SUBSET S) \ {{}} : Max(s) \in s
  BY Greatest
<1>3. pick \in [(SUBSET S) \ {{}} -> S] /\ \A s \in (SUBSET S) \ {{}} : pick[s] \in s
  BY <1>2
<1>4. \A s \in (SUBSET S) \ {{}} : pick[s] = Max(s)
  OBVIOUS
<1>5. step \in [S \X V -> V]
  OBVIOUS
<1> HIDE DEF S, pick
<1>6. FoldsOf(S, V, base, step, pick) # {}
  BY <1>1, <1>3, <1>5, FoldIsDefined
<1>7. PICK g \in [SUBSET S -> V] : \A s \in SUBSET S :
        g[s] = IF s = {} THEN base ELSE step[<<pick[s], g[s \ {pick[s]}]>>]
  BY <1>6 DEF FoldsOf
<1>8. \A s \in SUBSET S :
        g[s] = IF s = {} THEN base ELSE step[<<Max(s), g[s \ {Max(s)}]>>]
  BY <1>7, <1>4
<1> QED BY <1>7, <1>8 DEF S, LeftFolds

\* A run of n values that starts in W[0] and steps from W[k - 1] into W[k] ends in W[n].
LEMMA Reaches ==
  ASSUME NEW n \in Nat, NEW f, NEW W, f[0] \in W[0],
         \A k \in 1..n : f[k - 1] \in W[k - 1] => f[k] \in W[k]
  PROVE  f[n] \in W[n]
<1> DEFINE T == {k \in 0..n : f[k] \notin W[k]}
<1> SUFFICES ASSUME T # {} PROVE FALSE
  OBVIOUS
<1>1. PICK k \in T : \A j \in T : k <= j
  <2>1. T \subseteq Nat
    OBVIOUS
  <2> HIDE DEF T
  <2> QED BY <2>1, Least
<1>2. k # 0
  OBVIOUS
<1>3. k \in 1..n /\ k - 1 \in 0..n /\ k - 1 \notin T
  <2>1. k - 1 \in 0..n /\ k \in 1..n /\ ~(k <= k - 1)
    BY <1>2
  <2> HIDE DEF T
  <2> QED BY <2>1, <1>1
<1> QED BY <1>3

\* A prefix of the positions, without the last of them.
LEMMA PositionsUpTo ==
  ASSUME NEW n \in Nat, NEW k \in 1..n
  PROVE  /\ 1..k \in SUBSET (1..n) /\ 1..k # {}
         /\ Max(1..k) = k
         /\ (1..k) \ {k} = 1..(k - 1)
<1>1. k \in 1..k /\ \A j \in 1..k : k >= j
  OBVIOUS
<1>2. \A j \in 1..k : (\A i \in 1..k : j >= i) => j = k
  OBVIOUS
<1>3. Max(1..k) = k
  BY <1>1, <1>2 DEF Max
<1>4. 1..k \in SUBSET (1..n) /\ 1..k # {}
  OBVIOUS
<1>5. \A x : x \in (1..k) \ {k} <=> x \in 1..(k - 1)
  OBVIOUS
<1> QED BY <1>3, <1>4, <1>5

-----------------------------------------------------------------------------
(* The store's types, and the calls it makes.                                *)

PersisterCall ==
    [call : {"Append", "Update"}, rev : Revision] \cup [call : {"Evict"}, seq : Nat]
    \cup [call : {"MarkEvicted"}] \cup [call : {"PutObject"}, uid : Uids, record : Content]
    \cup [call : {"DeleteObject"}, uid : Uids]

Store ==
    [perObject : Nat, seq : Nat, generation : Nat, entries : Seq(Revision), bytes : Int,
     objects : [Uids -> State \cup {Gone}], evicted : BOOLEAN, out : Seq(PersisterCall)]

\* What the store holds each object to be.
Known(st) == [u \in Uids |-> IF st.objects[u] = Gone THEN Gone ELSE record(st.objects[u])]

\* The fields a mutation makes the store of.
LEMMA StoreOf ==
  ASSUME NEW perObject \in Nat, NEW seq \in Nat, NEW generation \in Nat,
         NEW entries \in Seq(Revision), NEW bytes \in Int,
         NEW objects \in [Uids -> State \cup {Gone}], NEW evicted \in BOOLEAN,
         NEW out \in Seq(PersisterCall)
  PROVE  [perObject |-> perObject, seq |-> seq, generation |-> generation,
          entries |-> entries, bytes |-> bytes, objects |-> objects,
          evicted |-> evicted, out |-> out] \in Store
BY DEF Store

\* A revision's cost is a number, and its parts have their types.
LEMMA RevisionParts ==
  ASSUME NEW rev \in Revision
  PROVE  /\ revisionSize(rev) \in Nat
         /\ rev.seq \in Nat \ {0} /\ rev.uid \in Uids /\ rev.change \in Changes
         /\ rev.content \in Content
BY DEF Revision, revisionSize, Content

\* A state's parts, and its record.
LEMMA StateParts ==
  ASSUME NEW state \in State
  PROVE  /\ state.count \in Int /\ state.last \in Nat
         /\ record(state) \in Content /\ record(state) # Gone /\ state # Gone
         /\ record(state).spec = state.spec /\ record(state).status = state.status
<1>1. record(state) \in Content
  BY DEF State, Content, record
<1> QED BY <1>1, GoneAssumption DEF State, record

\* The calls made so far, and one more.
Called(calls, call) == IF Persisted THEN Append(calls, call) ELSE calls

\* Those an eviction adds: the mark is called once.
EvictionCalled(calls, marked, seq) ==
    LET removed == Called(calls, [call |-> "Evict", seq |-> seq])
    IN  IF marked THEN removed ELSE Called(removed, [call |-> "MarkEvicted"])

\* A mirrored call is all that Mirror adds.
LEMMA MirrorIs ==
  ASSUME NEW st \in Store, NEW call \in PersisterCall
  PROVE  /\ Mirror(st, call) \in Store
         /\ Mirror(st, call) = [st EXCEPT !.out = Mirror(st, call).out]
         /\ Mirror(st, call).out = Called(st.out, call)
<1>1. st.out \in Seq(PersisterCall)
  BY DEF Store
<1>2. Append(st.out, call) \in Seq(PersisterCall)
  BY <1>1, AppendProperties
<1> QED BY <1>1, <1>2 DEF Mirror, Called, Store

\* Without the i-th element.
LEMMA Removed ==
  ASSUME NEW V, NEW s \in Seq(V), NEW i \in 1..Len(s)
  PROVE  /\ RemoveAt(s, i) \in Seq(V)
         /\ Len(RemoveAt(s, i)) = Len(s) - 1
         /\ \A j \in 1..(Len(s) - 1) :
                RemoveAt(s, i)[j] = IF j < i THEN s[j] ELSE s[j + 1]
<1> DEFINE front == SubSeq(s, 1, i - 1)
           back == SubSeq(s, i + 1, Len(s))
<1>1. /\ front \in Seq(V) /\ Len(front) = i - 1
      /\ \A j \in 1..(i - 1) : front[j] = s[j]
  BY SMT
<1>2. /\ back \in Seq(V) /\ Len(back) = Len(s) - i
      /\ \A j \in 1..(Len(s) - i) : back[j] = s[i + j]
  BY SMT
<1>3. RemoveAt(s, i) = front \o back
  BY DEF RemoveAt
<1> HIDE DEF front, back
<1>4. /\ front \o back \in Seq(V) /\ Len(front \o back) = Len(s) - 1
      /\ \A j \in 1..(Len(s) - 1) :
             (front \o back)[j] = IF j <= i - 1 THEN front[j] ELSE back[j - (i - 1)]
  <2>1. /\ front \o back \in Seq(V) /\ Len(front \o back) = Len(front) + Len(back)
        /\ \A j \in 1..(Len(front) + Len(back)) :
               (front \o back)[j] = IF j <= Len(front) THEN front[j] ELSE back[j - Len(front)]
    BY <1>1, <1>2, ConcatProperties
  <2>2. Len(front) + Len(back) = Len(s) - 1
    BY <1>1, <1>2
  <2> QED BY <1>1, <2>1, <2>2
<1>5. ASSUME NEW j \in 1..(Len(s) - 1)
      PROVE  (front \o back)[j] = IF j < i THEN s[j] ELSE s[j + 1]
  <2>1. CASE j < i
    <3>1. j <= i - 1 /\ j \in 1..(i - 1)
      BY <2>1
    <3> QED BY <2>1, <3>1, <1>1, <1>4
  <2>2. CASE ~(j < i)
    <3>1. ~(j <= i - 1) /\ j - (i - 1) \in 1..(Len(s) - i) /\ i + (j - (i - 1)) = j + 1
      BY <2>2
    <3> QED BY <2>2, <3>1, <1>2, <1>4
  <2> QED BY <2>1, <2>2
<1> QED BY <1>3, <1>4, <1>5

-----------------------------------------------------------------------------
(* A timeline: its revisions, their order and their cost.                    *)

Ascends(e) == \A i, j \in 1..Len(e) : i < j => e[i].seq < e[j].seq

Elems(e) == {e[i] : i \in 1..Len(e)}

\* What the timeline retains of an object.
Revs(st, u) == {rev \in Elems(st.entries) : rev.uid = u}

\* In order, a sequence number is one revision's.
LEMMA OneEach ==
  ASSUME NEW e \in Seq(Revision), Ascends(e), NEW q \in Elems(e), NEW r \in Elems(e), q.seq = r.seq
  PROVE  q = r
<1>1. PICK i, j \in 1..Len(e) : q = e[i] /\ r = e[j]
  BY DEF Elems
<1>2. e[i].seq \in Nat /\ e[j].seq \in Nat
  <2>1. e[i] \in Revision /\ e[j] \in Revision
    OBVIOUS
  <2> QED BY <2>1, RevisionParts
<1>3. ~(i < j) /\ ~(j < i)
  BY <1>1, <1>2 DEF Ascends
<1> QED BY <1>1, <1>3

LEMMA ElemsAre ==
  ASSUME NEW e \in Seq(Revision) PROVE Elems(e) \in SUBSET Revision /\ IsFiniteSet(Elems(e))
<1>1. Len(e) \in Nat /\ \A i \in 1..Len(e) : e[i] \in Revision
  OBVIOUS
<1>2. IsFiniteSet(1..Len(e))
  BY <1>1, FS_Interval
<1> DEFINE f == [i \in 1..Len(e) |-> e[i]]
<1>3. IsFiniteSet(Elems(e))
  <2>1. f \in Surjection(1..Len(e), Elems(e))
    BY DEF Surjection, Elems
  <2> HIDE DEF f
  <2> QED BY <1>2, <2>1, FS_Surjection
<1> QED BY <1>1, <1>3 DEF Elems

\* One revision less.
LEMMA WithoutOne ==
  ASSUME NEW e \in Seq(Revision), Ascends(e), NEW i \in 1..Len(e)
  PROVE  /\ Ascends(RemoveAt(e, i))
         /\ Elems(RemoveAt(e, i)) = Elems(e) \ {e[i]}
<1> DEFINE n == Len(e)
           d == RemoveAt(e, i)
<1>1. /\ d \in Seq(Revision) /\ Len(d) = n - 1
      /\ \A j \in 1..(n - 1) : d[j] = IF j < i THEN e[j] ELSE e[j + 1]
  BY Removed
<1>2. n \in Nat /\ \A j \in 1..n : e[j] \in Revision /\ e[j].seq \in Nat
  <2>1. n \in Nat /\ \A j \in 1..n : e[j] \in Revision
    OBVIOUS
  <2> QED BY <2>1, RevisionParts
<1> HIDE DEF d
<1>3. Ascends(d)
  <2> SUFFICES ASSUME NEW j \in 1..(n - 1), NEW k \in 1..(n - 1), j < k PROVE d[j].seq < d[k].seq
    BY <1>1 DEF Ascends
  <2> DEFINE a == IF j < i THEN j ELSE j + 1
             b == IF k < i THEN k ELSE k + 1
  <2>1. a \in 1..n /\ b \in 1..n /\ a < b
    BY <1>2
  <2>2. d[j] = e[a] /\ d[k] = e[b]
    BY <1>1
  <2> HIDE DEF a, b
  <2> QED BY <2>1, <2>2 DEF Ascends
<1>4. ASSUME NEW r PROVE r \in Elems(d) <=> r \in Elems(e) /\ r # e[i]
  <2>1. ASSUME NEW j \in 1..(n - 1) PROVE d[j] \in Elems(e) /\ d[j] # e[i]
    <3> DEFINE a == IF j < i THEN j ELSE j + 1
    <3>1. a \in 1..n /\ a # i
      BY <1>2
    <3>2. d[j] = e[a]
      BY <1>1
    <3> HIDE DEF a
    <3>3. e[a].seq # e[i].seq
      <4>1. CASE a < i
        <5>1. e[a].seq < e[i].seq
          BY <4>1, <3>1 DEF Ascends
        <5> QED BY <5>1, <3>1, <1>2
      <4>2. CASE i < a
        <5>1. e[i].seq < e[a].seq
          BY <4>2, <3>1 DEF Ascends
        <5> QED BY <5>1, <3>1, <1>2
      <4> QED BY <3>1, <4>1, <4>2
    <3> QED BY <3>1, <3>2, <3>3 DEF Elems
  <2>2. ASSUME NEW a \in 1..n, a # i PROVE e[a] \in Elems(d)
    <3> DEFINE j == IF a < i THEN a ELSE a - 1
    <3>1. j \in 1..(n - 1) /\ a = IF j < i THEN j ELSE j + 1
      BY <1>2, <2>2
    <3> HIDE DEF j
    <3>2. d[j] = e[a]
      BY <1>1, <3>1
    <3> QED BY <1>1, <3>1, <3>2 DEF Elems
  <2>3. r \in Elems(d) => r \in Elems(e) /\ r # e[i]
    BY <1>1, <2>1 DEF Elems
  <2>4. r \in Elems(e) /\ r # e[i] => r \in Elems(d)
    BY <2>2 DEF Elems
  <2> QED BY <2>3, <2>4
<1> QED BY <1>3, <1>4 DEF d

\* One revision more.
LEMMA WithOneMore ==
  ASSUME NEW e \in Seq(Revision), Ascends(e), NEW rev \in Revision,
         \A r \in Elems(e) : r.seq < rev.seq
  PROVE  /\ Ascends(Append(e, rev))
         /\ Elems(Append(e, rev)) = Elems(e) \cup {rev}
<1> DEFINE n == Len(e)
           d == Append(e, rev)
<1>1. /\ n \in Nat /\ Len(d) = n + 1 /\ d[n + 1] = rev
      /\ \A j \in 1..n : d[j] = e[j]
  BY AppendProperties
<1> HIDE DEF d
<1>2. Ascends(d)
  <2> SUFFICES ASSUME NEW j \in 1..(n + 1), NEW k \in 1..(n + 1), j < k PROVE d[j].seq < d[k].seq
    BY <1>1 DEF Ascends
  <2>1. j \in 1..n /\ (k \in 1..n \/ k = n + 1)
    BY <1>1
  <2> QED BY <2>1, <1>1 DEF Ascends, Elems
<1>3. ASSUME NEW r PROVE r \in Elems(d) <=> r \in Elems(e) \/ r = rev
  <2>1. \A j : j \in 1..(n + 1) <=> (j \in 1..n \/ j = n + 1)
    BY <1>1
  <2> QED BY <1>1, <2>1 DEF Elems
<1> QED BY <1>2, <1>3 DEF d

\* One revision rewritten.
LEMMA WithOneRewritten ==
  ASSUME NEW e \in Seq(Revision), Ascends(e), NEW i \in 1..Len(e), NEW rev \in Revision,
         rev.seq = e[i].seq
  PROVE  /\ Ascends([e EXCEPT ![i] = rev])
         /\ Elems([e EXCEPT ![i] = rev]) = (Elems(e) \ {e[i]}) \cup {rev}
<1> DEFINE n == Len(e)
           d == [e EXCEPT ![i] = rev]
<1>1. /\ n \in Nat /\ Len(d) = n /\ d[i] = rev
      /\ \A j \in 1..n : j # i => d[j] = e[j]
  BY ExceptSeq
<1> HIDE DEF d
<1>2. Ascends(d)
  <2>1. \A j \in 1..n : d[j].seq = e[j].seq
    BY <1>1
  <2> QED BY <1>1, <2>1 DEF Ascends
<1>3. \A j \in 1..n : j # i => e[j] # e[i]
  <2> SUFFICES ASSUME NEW j \in 1..n, j # i, e[j] = e[i] PROVE FALSE
    OBVIOUS
  <2>1. e[j].seq \in Nat /\ e[i].seq = e[j].seq
    BY RevisionParts
  <2>2. j < i \/ i < j
    BY <1>1
  <2> QED BY <2>1, <2>2 DEF Ascends
<1>4. ASSUME NEW r PROVE r \in Elems(d) <=> (r \in Elems(e) /\ r # e[i]) \/ r = rev
  BY <1>1, <1>3 DEF Elems
<1> QED BY <1>2, <1>4 DEF d

\* The byte total: the sum of the costs, position by position.
Sums(e, total) ==
    \E p \in [0..Len(e) -> Int] :
        /\ p[0] = 0
        /\ \A k \in 1..Len(e) : p[k] = p[k - 1] + revisionSize(e[k])
        /\ total = p[Len(e)]

LEMMA SizesOf ==
  ASSUME NEW e \in Seq(Revision) PROVE \A k \in 1..Len(e) : revisionSize(e[k]) \in Int
<1>1. \A k \in 1..Len(e) : e[k] \in Revision
  OBVIOUS
<1> QED BY <1>1, RevisionParts

LEMMA SumWithoutOne ==
  ASSUME NEW e \in Seq(Revision), NEW i \in 1..Len(e), NEW total, Sums(e, total)
  PROVE  Sums(RemoveAt(e, i), total - revisionSize(e[i]))
<1> DEFINE n == Len(e)
           d == RemoveAt(e, i)
           size == revisionSize(e[i])
<1>0. /\ d \in Seq(Revision) /\ Len(d) = n - 1
      /\ \A j \in 1..(n - 1) : d[j] = IF j < i THEN e[j] ELSE e[j + 1]
  BY Removed
<1>1. /\ Len(d) = n - 1 /\ n \in Nat
      /\ \A j \in 1..(n - 1) : d[j] = IF j < i THEN e[j] ELSE e[j + 1]
  BY <1>0
<1>2. PICK p \in [0..n -> Int] : /\ p[0] = 0
                                 /\ \A k \in 1..n : p[k] = p[k - 1] + revisionSize(e[k])
                                 /\ total = p[n]
  BY DEF Sums
<1>3. size \in Int /\ \A k \in 1..n : revisionSize(e[k]) \in Int
  BY SizesOf
<1> HIDE DEF d, size
<1> DEFINE q == [k \in 0..(n - 1) |-> IF k < i THEN p[k] ELSE p[k + 1] - size]
<1>4. q \in [0..(n - 1) -> Int]
  BY <1>1, <1>3
<1>5. q[0] = 0 /\ q[n - 1] = total - size
  <2>1. 0 \in 0..(n - 1) /\ n - 1 \in 0..(n - 1) /\ 0 < i
    BY <1>1
  <2>2. CASE n - 1 < i
    <3>1. i = n /\ q[n - 1] = p[n - 1]
      BY <2>1, <2>2, <1>1
    <3>2. p[n] = p[n - 1] + size /\ p[n - 1] \in Int
      BY <3>1, <1>1, <1>2 DEF size
    <3> QED BY <2>1, <3>1, <3>2, <1>2, <1>3
  <2>3. CASE ~(n - 1 < i)
    BY <2>1, <2>3, <1>1, <1>2
  <2> QED BY <2>2, <2>3
<1>6. ASSUME NEW k \in 1..(n - 1) PROVE q[k] = q[k - 1] + revisionSize(d[k])
  <2>1. /\ k \in 0..(n - 1) /\ k - 1 \in 0..(n - 1) /\ k \in 1..n /\ k + 1 \in 1..n
        /\ (k + 1) - 1 = k /\ (k - 1) + 1 = k
    BY <1>1
  <2>2. /\ p[k] = p[k - 1] + revisionSize(e[k]) /\ p[k + 1] = p[k] + revisionSize(e[k + 1])
        /\ p[k] \in Int /\ p[k - 1] \in Int /\ p[k + 1] \in Int
        /\ revisionSize(e[k]) \in Int /\ revisionSize(e[k + 1]) \in Int
    <3>1. p[k + 1] = p[(k + 1) - 1] + revisionSize(e[k + 1])
      BY <2>1, <1>2
    <3>2. k \in 0..n /\ k - 1 \in 0..n /\ k + 1 \in 0..n
      BY <2>1, <1>1
    <3>3. p[k] \in Int /\ p[k - 1] \in Int /\ p[k + 1] \in Int
      BY <3>2, <1>2
    <3>4. p[k] = p[k - 1] + revisionSize(e[k])
      BY <2>1, <1>2
    <3>5. revisionSize(e[k]) \in Int /\ revisionSize(e[k + 1]) \in Int
      BY <2>1, <1>3
    <3> QED BY <3>1, <3>3, <3>4, <3>5, <2>1
  <2>3. CASE k < i
    <3>1. q[k] = p[k] /\ q[k - 1] = p[k - 1] /\ d[k] = e[k]
      BY <2>1, <2>3, <1>1
    <3> HIDE DEF q
    <3> QED BY <3>1, <2>2
  <2>4. CASE k = i
    <3>1. q[k] = p[k + 1] - size /\ q[k - 1] = p[k - 1] /\ d[k] = e[k + 1]
      BY <2>1, <2>4, <1>1
    <3> HIDE DEF q
    <3> QED BY <3>1, <2>2, <2>4, <1>3 DEF size
  <2>5. CASE k > i
    <3>1. q[k] = p[k + 1] - size /\ q[k - 1] = p[k] - size /\ d[k] = e[k + 1]
      BY <2>1, <2>5, <1>1
    <3> HIDE DEF q
    <3> QED BY <3>1, <2>2, <1>3
  <2> QED BY <2>3, <2>4, <2>5, <1>1
<1> HIDE DEF q
<1>7. Sums(d, total - size)
  BY <1>1, <1>4, <1>5, <1>6 DEF Sums
<1> QED BY <1>7 DEF d, size

LEMMA SumWithOneMore ==
  ASSUME NEW e \in Seq(Revision), NEW rev \in Revision, NEW total, Sums(e, total)
  PROVE  Sums(Append(e, rev), total + revisionSize(rev))
<1> DEFINE n == Len(e)
           d == Append(e, rev)
           size == revisionSize(rev)
<1>1. /\ n \in Nat /\ Len(d) = n + 1 /\ d[n + 1] = rev
      /\ \A j \in 1..n : d[j] = e[j]
  BY AppendProperties
<1>2. PICK p \in [0..n -> Int] : /\ p[0] = 0
                                 /\ \A k \in 1..n : p[k] = p[k - 1] + revisionSize(e[k])
                                 /\ total = p[n]
  BY DEF Sums
<1>3. size \in Int
  BY RevisionParts
<1> HIDE DEF d
<1> DEFINE q == [k \in 0..(n + 1) |-> IF k = n + 1 THEN total + size ELSE p[k]]
<1>4. total \in Int /\ q \in [0..(n + 1) -> Int]
  <2>1. n \in 0..n /\ \A k \in 0..(n + 1) : k # n + 1 => k \in 0..n
    BY <1>1
  <2> HIDE DEF size
  <2> QED BY <2>1, <1>1, <1>2, <1>3
<1>5. q[0] = 0 /\ q[n + 1] = total + size
  BY <1>1, <1>2
<1>6. ASSUME NEW k \in 1..(n + 1) PROVE q[k] = q[k - 1] + revisionSize(d[k])
  <2>1. CASE k = n + 1
    <3>1. k - 1 = n /\ n \in 0..(n + 1) /\ n # n + 1 /\ k \in 0..(n + 1)
      BY <2>1, <1>1
    <3>2. q[k] = total + size /\ q[k - 1] = p[n]
      BY <3>1, <2>1
    <3>3. revisionSize(d[k]) = size
      BY <2>1, <1>1
    <3> QED BY <3>2, <3>3, <1>2
  <2>2. CASE k # n + 1
    <3>1. k \in 1..n /\ k - 1 \in 0..(n + 1) /\ k - 1 # n + 1 /\ k \in 0..(n + 1)
      BY <2>2, <1>1
    <3> QED BY <3>1, <2>2, <1>1, <1>2
  <2> QED BY <2>1, <2>2
<1> HIDE DEF q
<1>7. Sums(d, total + size)
  BY <1>1, <1>4, <1>5, <1>6 DEF Sums
<1> QED BY <1>7 DEF d

LEMMA SumWithOneRewritten ==
  ASSUME NEW e \in Seq(Revision), NEW i \in 1..Len(e), NEW rev \in Revision,
         NEW total, Sums(e, total)
  PROVE  Sums([e EXCEPT ![i] = rev], total - revisionSize(e[i]) + revisionSize(rev))
<1> DEFINE n == Len(e)
           d == [e EXCEPT ![i] = rev]
           was == revisionSize(e[i])
           now == revisionSize(rev)
<1>1. /\ n \in Nat /\ Len(d) = n /\ d[i] = rev
      /\ \A j \in 1..n : j # i => d[j] = e[j]
  BY ExceptSeq
<1>2. PICK p \in [0..n -> Int] : /\ p[0] = 0
                                 /\ \A k \in 1..n : p[k] = p[k - 1] + revisionSize(e[k])
                                 /\ total = p[n]
  BY DEF Sums
<1>3. was \in Int /\ now \in Int /\ \A k \in 1..n : revisionSize(e[k]) \in Int
  BY SizesOf, RevisionParts
<1> HIDE DEF d
<1> DEFINE q == [k \in 0..n |-> IF k < i THEN p[k] ELSE p[k] - was + now]
<1>4. q \in [0..n -> Int]
  <2> HIDE DEF was, now
  <2> QED BY <1>2, <1>3
<1>5. q[0] = 0 /\ q[n] = total - was + now
  BY <1>1, <1>2
<1>6. ASSUME NEW k \in 1..n PROVE q[k] = q[k - 1] + revisionSize(d[k])
  <2>1. k - 1 \in 0..n /\ k \in 0..n
    BY <1>1
  <2>2. /\ p[k] = p[k - 1] + revisionSize(e[k])
        /\ p[k] \in Int /\ p[k - 1] \in Int /\ revisionSize(e[k]) \in Int
    BY <2>1, <1>2, <1>3
  <2>3. CASE k < i
    <3>1. q[k] = p[k] /\ q[k - 1] = p[k - 1] /\ d[k] = e[k]
      BY <2>1, <2>3, <1>1
    <3> HIDE DEF q
    <3> QED BY <3>1, <2>2
  <2>4. CASE k = i
    <3>1. q[k] = p[k] - was + now /\ q[k - 1] = p[k - 1] /\ d[k] = rev
      BY <2>1, <2>4, <1>1
    <3>2. revisionSize(d[k]) = now /\ p[k] = p[k - 1] + was /\ was \in Int /\ now \in Int
      BY <3>1, <2>2, <2>4, <1>3
    <3> HIDE DEF q, was, now
    <3> QED BY <3>1, <3>2, <2>2
  <2>5. CASE k > i
    <3>1. q[k] = p[k] - was + now /\ q[k - 1] = p[k - 1] - was + now /\ d[k] = e[k]
      BY <2>1, <2>5, <1>1
    <3> HIDE DEF q, was, now
    <3> QED BY <3>1, <2>2, <1>3
  <2> QED BY <2>3, <2>4, <2>5, <1>1
<1> HIDE DEF q
<1>7. Sums(d, total - was + now)
  BY <1>1, <1>4, <1>5, <1>6 DEF Sums
<1> QED BY <1>7 DEF d

-----------------------------------------------------------------------------
(* The revisions of one object: a life, and what the newest of them says.    *)

Newest(S, r) == r \in S /\ \A k \in S : k.seq <= r.seq

\* q may follow r: nothing after a death or before a birth, and no change that is none.
\* Those of X may be born again after a death that was not observed.
Coherent(r, q, X) ==
    /\ r.change \in Deletions => r.change = "deleted-unobserved" /\ r.uid \in X
    /\ r.change \in Deletions <=> q.change \in Births
    /\ q.change = "spec" => r.content.spec # q.content.spec
    /\ q.change = "status" => r.content.spec = q.content.spec

Between(S, r, q) == {k \in S : r.seq < k.seq /\ k.seq < q.seq}

Life(S, X) == \A r, q \in S : r.seq < q.seq /\ Between(S, r, q) = {} => Coherent(r, q, X)

\* The newest of them is of a living object, and says what it is.
Speaks(S, content) == \A r \in S : Newest(S, r) => r.change \notin Deletions /\ r.content = content

\* The newest of them, if there is one, is a death that was not observed.
Unseen(S) == \A r \in S : Newest(S, r) => r.change = "deleted-unobserved"

\* What the object's state says of them: their number, and which is the newest.  The
\* objects of X may be known by less than their number.
Figures(S, state, u, X) ==
    /\ state.count <= Cardinality(S)
    /\ u \notin X => state.count = Cardinality(S)
    /\ state.last # 0 => \E r \in S : r.seq = state.last /\ Newest(S, r)

\* Each sequence number is one revision's.
Distinct(S) == S \in SUBSET Revision /\ \A q, r \in S : q.seq = r.seq => q = r

\* T is S without some of its oldest.
Oldest(S, T) == T \subseteq S /\ \A r \in S, q \in T : r \notin T => r.seq < q.seq

LEMMA SeqsAre == ASSUME NEW S, Distinct(S) PROVE \A r \in S : r.seq \in Nat
BY RevisionParts DEF Distinct

LEMMA OldestSelf == ASSUME NEW S PROVE Oldest(S, S)
BY DEF Oldest

LEMMA OldestAgain ==
  ASSUME NEW S, NEW T, NEW R, Oldest(S, T), Oldest(T, R) PROVE Oldest(S, R)
BY DEF Oldest

\* Without its oldest, a life is a life, and its newest says the same.
LEMMA LifeWithoutOldest ==
  ASSUME NEW X, NEW S, Distinct(S), NEW T, Oldest(S, T)
  PROVE  /\ Life(S, X) => Life(T, X)
         /\ \A content : Speaks(S, content) => Speaks(T, content)
         /\ Unseen(S) => Unseen(T)
<1>0. \A r \in S : r.seq \in Nat
  BY SeqsAre
<1>1. ASSUME Life(S, X) PROVE Life(T, X)
  <2> SUFFICES ASSUME NEW r \in T, NEW q \in T, r.seq < q.seq, Between(T, r, q) = {}
               PROVE  Coherent(r, q, X)
    BY DEF Life
  <2>1. Between(S, r, q) = {}
    <3> SUFFICES ASSUME NEW k \in S, r.seq < k.seq, k.seq < q.seq PROVE FALSE
      BY DEF Between
    <3>1. k \notin T
      BY DEF Between
    <3>2. k.seq < r.seq
      BY <3>1 DEF Oldest
    <3> QED BY <3>2, <1>0 DEF Oldest
  <2> QED BY <2>1, <1>1 DEF Life, Oldest
<1>2. ASSUME NEW r, Newest(T, r) PROVE Newest(S, r)
  <2> SUFFICES ASSUME NEW k \in S PROVE k.seq <= r.seq
    BY <1>2 DEF Newest, Oldest
  <2>1. r \in T /\ r \in S
    BY <1>2 DEF Newest, Oldest
  <2>2. CASE k \in T
    BY <2>2, <1>2 DEF Newest
  <2>3. CASE k \notin T
    <3>1. k.seq < r.seq
      BY <2>1, <2>3 DEF Oldest
    <3> QED BY <3>1, <2>1, <1>0
  <2> QED BY <2>2, <2>3
<1>3. ASSUME NEW content, Speaks(S, content) PROVE Speaks(T, content)
  BY <1>2, <1>3 DEF Speaks, Oldest
<1>4. Unseen(S) => Unseen(T)
  BY <1>2 DEF Unseen, Oldest
<1> QED BY <1>1, <1>3, <1>4

\* A life goes on with what may follow its newest.
LEMMA LifeGoesOn ==
  ASSUME NEW X, NEW S, Distinct(S), NEW rev \in Revision, \A k \in S : k.seq < rev.seq,
         Life(S, X), \A r \in S : Newest(S, r) => Coherent(r, rev, X)
  PROVE  /\ Distinct(S \cup {rev})
         /\ Life(S \cup {rev}, X)
         /\ Newest(S \cup {rev}, rev)
         /\ \A r : Newest(S \cup {rev}, r) => r = rev
<1> DEFINE T == S \cup {rev}
<1>0. rev.seq \in Nat /\ \A r \in S : r.seq \in Nat
  BY SeqsAre, RevisionParts
<1>1. Distinct(T)
  <2>1. \A k \in S : k.seq # rev.seq
    BY <1>0
  <2> QED BY <2>1 DEF Distinct
<1>2. Newest(T, rev)
  BY <1>0 DEF Newest
<1>3. ASSUME NEW r, Newest(T, r) PROVE r = rev
  <2>1. r \in T /\ rev.seq <= r.seq
    BY <1>3 DEF Newest
  <2>2. CASE r \in S
    <3>1. r.seq < rev.seq
      BY <2>2
    <3> QED BY <3>1, <2>1, <2>2, <1>0
  <2> QED BY <2>1, <2>2
<1>4. Life(T, X)
  <2> SUFFICES ASSUME NEW r \in T, NEW q \in T, r.seq < q.seq, Between(T, r, q) = {}
               PROVE  Coherent(r, q, X)
    BY DEF Life
  <2>1. r \in S
    <3> SUFFICES ASSUME r = rev PROVE FALSE
      OBVIOUS
    <3>1. q \in S \/ q = rev
      OBVIOUS
    <3> QED BY <3>1, <1>0
  <2>2. CASE q \in S
    <3>1. Between(S, r, q) = {}
      BY DEF Between
    <3> QED BY <2>1, <2>2, <3>1 DEF Life
  <2>3. CASE q = rev
    <3>1. ASSUME NEW k \in S PROVE k.seq <= r.seq
      <4>1. ~(r.seq < k.seq /\ k.seq < rev.seq)
        BY <2>3 DEF Between
      <4> QED BY <4>1, <2>1, <1>0
    <3>2. Newest(S, r)
      BY <2>1, <3>1 DEF Newest
    <3> QED BY <2>1, <2>3, <3>2
  <2> QED BY <2>2, <2>3
<1> QED BY <1>1, <1>2, <1>3, <1>4

\* The newest is a status change, whose status is rewritten.
LEMMA LifeRewritten ==
  ASSUME NEW X, NEW S, Distinct(S), Life(S, X), NEW old, Newest(S, old), old.change = "status",
         NEW new \in Revision, new.seq = old.seq, new.change = "status",
         new.content.spec = old.content.spec
  PROVE  LET T == (S \ {old}) \cup {new}
         IN  Distinct(T) /\ Life(T, X) /\ Newest(T, new) /\ (\A r : Newest(T, r) => r = new)
<1> DEFINE T == (S \ {old}) \cup {new}
<1>0. old \in S /\ old.seq \in Nat /\ \A r \in S : r.seq \in Nat /\ r.seq <= old.seq
  BY SeqsAre DEF Newest
<1>1. Distinct(T)
  BY <1>0 DEF Distinct
<1>2. Newest(T, new)
  BY <1>0 DEF Newest
<1>3. ASSUME NEW r, Newest(T, r) PROVE r = new
  <2>1. r \in T /\ new.seq <= r.seq
    BY <1>3 DEF Newest
  <2>2. CASE r \in S /\ r # old
    <3>1. r.seq = old.seq
      BY <2>1, <2>2, <1>0
    <3> QED BY <3>1, <2>2, <1>0 DEF Distinct
  <2> QED BY <2>1, <2>2
<1>4. Life(T, X)
  <2> SUFFICES ASSUME NEW r \in T, NEW q \in T, r.seq < q.seq, Between(T, r, q) = {}
               PROVE  Coherent(r, q, X)
    BY DEF Life
  <2>1. r \in S /\ r # old
    <3> SUFFICES ASSUME r = new PROVE FALSE
      OBVIOUS
    <3>1. q.seq <= new.seq /\ q.seq \in Nat /\ new.seq \in Nat
      BY <1>0
    <3> QED BY <3>1
  <2>2. CASE q \in S /\ q # old
    <3>1. Between(S, r, q) = {}
      <4> SUFFICES ASSUME NEW k \in S, r.seq < k.seq, k.seq < q.seq PROVE FALSE
        BY DEF Between
      <4>1. k # old
        BY <2>2, <1>0
      <4> QED BY <4>1 DEF Between
    <3> QED BY <2>1, <2>2, <3>1 DEF Life
  <2>3. CASE q = new
    <3>1. Between(S, r, old) = {}
      <4> SUFFICES ASSUME NEW k \in S, r.seq < k.seq, k.seq < old.seq PROVE FALSE
        BY DEF Between
      <4>1. k # old
        BY <1>0
      <4> QED BY <4>1, <2>3 DEF Between
    <3>2. Coherent(r, old, X)
      BY <3>1, <2>1, <2>3, <1>0 DEF Life
    <3> QED BY <3>2, <2>3 DEF Coherent, Births, Deletions
  <2> QED BY <2>2, <2>3
<1> QED BY <1>1, <1>2, <1>3, <1>4

-----------------------------------------------------------------------------
(* Retention.                                                                *)

\* What eviction does, field by field.
LEMMA EvictIs ==
  ASSUME NEW st \in Store, NEW i \in 1..Len(st.entries)
  PROVE  LET rev == st.entries[i]
             t   == evict(st, i)
             state == st.objects[rev.uid]
         IN  /\ t \in Store
             /\ t.perObject = st.perObject /\ t.seq = st.seq /\ t.generation = st.generation
             /\ t.entries = RemoveAt(st.entries, i)
             /\ t.bytes = st.bytes - revisionSize(rev)
             /\ t.evicted
             /\ t.objects = [st.objects EXCEPT ![rev.uid] =
                    IF state = Gone THEN Gone
                    ELSE [state EXCEPT !.count = @ - 1, !.last = IF @ = rev.seq THEN 0 ELSE @]]
             /\ t.out = EvictionCalled(st.out, st.evicted, rev.seq)
<1> DEFINE rev == st.entries[i]
           state == st.objects[rev.uid]
           gone == [call |-> "Evict", seq |-> rev.seq]
           mark == [call |-> "MarkEvicted"]
           removed == Mirror(st, gone)
           marked == IF st.evicted THEN removed ELSE Mirror(removed, mark)
           after == IF state = Gone THEN Gone
                    ELSE [state EXCEPT !.count = @ - 1, !.last = IF @ = rev.seq THEN 0 ELSE @]
           objects == [st.objects EXCEPT ![rev.uid] = after]
           entries == RemoveAt(st.entries, i)
           bytes == st.bytes - revisionSize(rev)
<1>1. st.entries \in Seq(Revision) /\ st.objects \in [Uids -> State \cup {Gone}] /\ st.bytes \in Int
  BY DEF Store
<1>2. rev \in Revision
  BY <1>1
<1>3. rev.uid \in Uids /\ rev.seq \in Nat /\ revisionSize(rev) \in Nat
  BY <1>2, RevisionParts
<1>4. /\ marked \in Store /\ \E out \in Seq(PersisterCall) : marked = [st EXCEPT !.out = out]
      /\ marked.out = EvictionCalled(st.out, st.evicted, rev.seq)
  <2>1. gone \in PersisterCall /\ mark \in PersisterCall
    BY <1>3 DEF PersisterCall
  <2>0. EvictionCalled(st.out, st.evicted, rev.seq)
          = IF st.evicted THEN Called(st.out, gone) ELSE Called(Called(st.out, gone), mark)
    BY DEF EvictionCalled
  <2> HIDE DEF gone, mark
  <2>2. /\ removed \in Store /\ removed = [st EXCEPT !.out = removed.out]
        /\ removed.out = Called(st.out, gone)
    BY <2>1, MirrorIs
  <2> HIDE DEF removed
  <2>3. Mirror(removed, mark) \in Store
        /\ Mirror(removed, mark) = [removed EXCEPT !.out = Mirror(removed, mark).out]
        /\ Mirror(removed, mark).out = Called(removed.out, mark)
    BY <2>1, <2>2, MirrorIs
  <2>4. Mirror(removed, mark) = [st EXCEPT !.out = Mirror(removed, mark).out]
    BY <2>2, <2>3 DEF Store
  <2>5. \A t \in Store : t.out \in Seq(PersisterCall)
    BY DEF Store
  <2> QED BY <2>0, <2>2, <2>3, <2>4, <2>5
<1>5. evict(st, i) = [marked EXCEPT !.entries = RemoveAt(@, i), !.bytes = @ - revisionSize(rev),
                                   !.evicted = TRUE, !.objects[rev.uid] = after]
  BY DEF evict
<1>6. after \in State \cup {Gone}
  <2>1. state \in State \cup {Gone}
    BY <1>1, <1>3
  <2> HIDE DEF state, rev
  <2>2. ASSUME state # Gone PROVE after \in State
    <3>1. state \in State
      BY <2>1, <2>2
    <3>2. state.count - 1 \in Int /\ (IF state.last = rev.seq THEN 0 ELSE state.last) \in Nat
      BY <3>1 DEF State
    <3> QED BY <2>2, <3>1, <3>2 DEF State
  <2> QED BY <2>2
<1>7. objects \in [Uids -> State \cup {Gone}]
  <2> HIDE DEF after
  <2> QED BY <1>1, <1>6
<1>8. entries \in Seq(Revision)
  BY <1>1, Removed
<1>9. bytes \in Int
  BY <1>1, <1>3
<1> HIDE DEF marked, after
<1>10. evict(st, i) = [st EXCEPT !.out = marked.out, !.entries = entries, !.bytes = bytes,
                                 !.evicted = TRUE, !.objects = objects]
  <2>1. PICK out \in Seq(PersisterCall) : marked = [st EXCEPT !.out = out]
    BY <1>4
  <2> HIDE DEF rev
  <2> QED BY <2>1, <1>5 DEF Store
<1>11. marked.out \in Seq(PersisterCall)
  BY <1>4 DEF Store
<1>12. /\ evict(st, i) \in Store
       /\ evict(st, i).perObject = st.perObject /\ evict(st, i).seq = st.seq
       /\ evict(st, i).generation = st.generation
       /\ evict(st, i).entries = entries /\ evict(st, i).bytes = bytes
       /\ evict(st, i).evicted /\ evict(st, i).objects = objects
       /\ evict(st, i).out = marked.out
  <2> HIDE DEF entries, bytes, objects
  <2> QED BY <1>7, <1>8, <1>9, <1>10, <1>11 DEF Store
<1>13. objects = [st.objects EXCEPT ![rev.uid] =
                    IF state = Gone THEN Gone
                    ELSE [state EXCEPT !.count = @ - 1, !.last = IF @ = rev.seq THEN 0 ELSE @]]
  BY DEF after
<1> HIDE DEF objects
<1> QED BY <1>4, <1>12, <1>13

\* t is s after some evictions, if any: marked, and nothing else is forgotten.
Trimmed(s, t) ==
    /\ t \in Store
    /\ t.perObject = s.perObject /\ t.seq = s.seq /\ t.generation = s.generation
    /\ Known(t) = Known(s)
    /\ s.evicted => t.evicted
    /\ t.evicted \/ t.entries = s.entries

LEMMA TrimmedSelf == ASSUME NEW s \in Store PROVE Trimmed(s, s)
BY DEF Trimmed

LEMMA TrimmedAgain ==
  ASSUME NEW s, NEW t, NEW r, Trimmed(s, t), Trimmed(t, r) PROVE Trimmed(s, r)
BY DEF Trimmed

\* An eviction takes a revision from the timeline, not the object from the store.
LEMMA EvictTrims ==
  ASSUME NEW st \in Store, NEW i \in 1..Len(st.entries)
  PROVE  Trimmed(st, evict(st, i))
<1> DEFINE rev == st.entries[i]
           t == evict(st, i)
           state == st.objects[rev.uid]
<1>1. /\ t \in Store
      /\ t.perObject = st.perObject /\ t.seq = st.seq /\ t.generation = st.generation
      /\ t.evicted
      /\ t.objects = [st.objects EXCEPT ![rev.uid] =
             IF state = Gone THEN Gone
             ELSE [state EXCEPT !.count = @ - 1, !.last = IF @ = rev.seq THEN 0 ELSE @]]
  BY EvictIs
<1>2. st.objects \in [Uids -> State \cup {Gone}] /\ t.objects \in [Uids -> State \cup {Gone}]
  BY <1>1 DEF Store
<1> HIDE DEF t
<1>3. ASSUME NEW u \in Uids PROVE Known(t)[u] = Known(st)[u]
  <2>1. CASE u = rev.uid /\ state # Gone
    <3>1. state \in State
      BY <1>2, <2>1
    <3>2. t.objects[u] = [state EXCEPT !.count = @ - 1, !.last = IF @ = rev.seq THEN 0 ELSE @]
      BY <1>1, <1>2, <2>1
    <3> HIDE DEF state, rev
    <3>5. state.count - 1 \in Int /\ (IF state.last = rev.seq THEN 0 ELSE state.last) \in Nat
      BY <3>1 DEF State
    <3>3. t.objects[u].spec = state.spec /\ t.objects[u].status = state.status /\ t.objects[u] \in State
      BY <3>1, <3>2, <3>5 DEF State
    <3>4. t.objects[u] # Gone
      BY <3>3, GoneAssumption
    <3> QED BY <2>1, <3>3, <3>4 DEF Known, record, state
  <2>2. CASE ~(u = rev.uid /\ state # Gone)
    <3>1. t.objects[u] = st.objects[u]
      BY <1>1, <1>2, <2>2
    <3> QED BY <3>1 DEF Known
  <2> QED BY <2>1, <2>2
<1>4. Known(t) = Known(st)
  BY <1>3 DEF Known
<1> HIDE DEF rev, state
<1> QED BY <1>1, <1>4 DEF Trimmed, t

\* enforcePerObject evicts the object's oldest retained revision, or nothing.
LEMMA EnforcePerObjectIs ==
  ASSUME NEW st \in Store, NEW u \in Uids
  PROVE  \/ enforcePerObject(st, u) = st
         \/ /\ st.perObject > 0 /\ st.objects[u].count > st.perObject
            /\ \E i \in 1..Len(st.entries) :
                  /\ st.entries[i].uid = u
                  /\ \A j \in 1..Len(st.entries) : st.entries[j].uid = u => i <= j
                  /\ enforcePerObject(st, u) = evict(st, i)
<1> DEFINE own == {i \in DOMAIN st.entries : st.entries[i].uid = u}
           first == CHOOSE i \in own : \A j \in own : i <= j
<1>1. DOMAIN st.entries = 1..Len(st.entries)
  BY DEF Store
<1>2. CASE st.perObject > 0 /\ st.objects[u].count > st.perObject /\ own # {}
  <2>1. own \subseteq Nat /\ own # {}
    BY <1>1, <1>2
  <2>2. \E x \in own : \A y \in own : x <= y
    <3> HIDE DEF own
    <3> QED BY <2>1, Least
  <2>3. first \in own /\ \A j \in own : first <= j
    BY <2>2
  <2>4. enforcePerObject(st, u) = evict(st, first)
    BY <1>2 DEF enforcePerObject
  <2> HIDE DEF first
  <2> QED BY <1>1, <1>2, <2>3, <2>4
<1>3. CASE ~(st.perObject > 0 /\ st.objects[u].count > st.perObject /\ own # {})
  BY <1>3 DEF enforcePerObject
<1> QED BY <1>2, <1>3

\* One turn of enforceBounds' loop.
Turn(s) == IF OverBounds(s) THEN evict(s, 1) ELSE s

LEMMA TurnTrims == ASSUME NEW s \in Store PROVE Trimmed(s, Turn(s))
<1>1. CASE OverBounds(s)
  <2>1. s.entries # <<>> /\ s.entries \in Seq(Revision)
    BY <1>1 DEF OverBounds, Store
  <2>2. 1 \in 1..Len(s.entries)
    BY <2>1
  <2> QED BY <1>1, <2>2, EvictTrims DEF Turn
<1>2. CASE ~OverBounds(s)
  BY <1>2, TrimmedSelf DEF Turn
<1> QED BY <1>1, <1>2

\* The loop of enforceBounds, unrolled: one turn for each revision there was.
LEMMA EnforceBoundsRuns ==
  ASSUME NEW st \in Store
  PROVE  \E f \in [0..Len(st.entries) -> Store] :
            /\ f[0] = st
            /\ \A k \in 1..Len(st.entries) : f[k] = Turn(f[k - 1])
            /\ enforceBounds(st) = f[Len(st.entries)]
<1> DEFINE n == Len(st.entries)
           S == 1..n
           Turns(iter) == iter = [s \in SUBSET S |-> IF s = {} THEN st ELSE Turn(iter[s \ {Max(s)}])]
           all == CHOOSE iter : Turns(iter)
           step == [p \in S \X Store |-> Turn(p[2])]
<1>1. n \in Nat /\ DOMAIN st.entries = S
  BY DEF Store
<1>2. enforceBounds(st) = all[S]
  BY <1>1, Zenon DEF enforceBounds, FoldLeft, MapThenFoldSet, Turn
<1>3. step \in [S \X Store -> Store]
  <2>1. \A s \in Store : Turn(s) \in Store
    BY TurnTrims DEF Trimmed
  <2>2. \A p \in S \X Store : Turn(p[2]) \in Store
    BY <2>1
  <2> QED BY <2>2
<1>4. PICK g \in [SUBSET S -> Store] : \A s \in SUBSET S :
        g[s] = IF s = {} THEN st ELSE step[<<Max(s), g[s \ {Max(s)}]>>]
  <2> HIDE DEF n, step
  <2>1. LeftFolds(n, Store, st, step) # {}
    BY <1>1, <1>3, FoldOfASequence
  <2> QED BY <2>1 DEF LeftFolds
<1>5. Turns(g)
  <2>1. ASSUME NEW s \in SUBSET S, s # {} PROVE g[s] = Turn(g[s \ {Max(s)}])
    <3>1. Max(s) \in S
      <4> HIDE DEF n
      <4> QED BY <1>1, <2>1, Greatest
    <3>2. s \ {Max(s)} \in SUBSET S
      OBVIOUS
    <3> HIDE DEF S
    <3> QED BY <2>1, <3>1, <3>2, <1>4
  <2>2. g = [s \in SUBSET S |-> g[s]]
    OBVIOUS
  <2> HIDE DEF S
  <2> QED BY <2>1, <2>2, <1>4
<1>6. Turns(all)
  <2> HIDE DEF Turns
  <2> QED BY <1>5
<1> HIDE DEF all
<1>7. \A s \in SUBSET S : all[s] = IF s = {} THEN st ELSE Turn(all[s \ {Max(s)}])
  <2> HIDE DEF S
  <2> QED BY <1>6
<1> DEFINE f == [k \in 0..n |-> all[1..k]]
<1>8. f[0] = st
  <2>1. 1..0 = {} /\ {} \in SUBSET S
    OBVIOUS
  <2>2. all[{}] = st
    <3> HIDE DEF S
    <3> QED BY <2>1, <1>7
  <2>3. f[0] = all[1..0]
    BY <1>1
  <2> QED BY <2>1, <2>2, <2>3
<1>9. ASSUME NEW k \in 1..n PROVE f[k] = Turn(f[k - 1])
  <2>1. /\ 1..k \in SUBSET S /\ 1..k # {}
        /\ Max(1..k) = k
        /\ (1..k) \ {k} = 1..(k - 1)
    BY <1>1, PositionsUpTo
  <2>2. k \in 0..n /\ k - 1 \in 0..n
    BY <1>1
  <2> HIDE DEF S, n
  <2> QED BY <2>1, <2>2, <1>7
<1>10. f[n] = all[S]
  BY <1>1
<1> DEFINE W == [k \in 0..n |-> Store]
<1>11. \A k \in 0..n : f[k] \in Store
  <2> SUFFICES ASSUME NEW m \in 0..n PROVE f[m] \in Store
    OBVIOUS
  <2>1. f[0] \in W[0] /\ \A k \in 1..m : f[k - 1] \in W[k - 1] => f[k] \in W[k]
    <3>1. f[0] \in W[0]
      BY <1>8, <1>1
    <3>2. ASSUME NEW k \in 1..m, f[k - 1] \in W[k - 1] PROVE f[k] \in W[k]
      <4>1. k \in 1..n /\ W[k - 1] = Store /\ W[k] = Store
        BY <1>1
      <4> HIDE DEF f, W
      <4> QED BY <3>2, <4>1, <1>9, TurnTrims DEF Trimmed
    <3> QED BY <3>1, <3>2
  <2> HIDE DEF f, W
  <2>2. f[m] \in W[m]
    <3>1. m \in Nat
      BY <1>1
    <3> QED BY <2>1, <3>1, Reaches
  <2> QED BY <2>2 DEF W
<1>12. f \in [0..n -> Store]
  <2>1. f = [k \in 0..n |-> f[k]]
    OBVIOUS
  <2> HIDE DEF f
  <2> QED BY <1>11, <2>1
<1> HIDE DEF f
<1> QED BY <1>2, <1>8, <1>9, <1>10, <1>12

LEMMA EnforceBoundsTrims == ASSUME NEW st \in Store PROVE Trimmed(st, enforceBounds(st))
<1> DEFINE n == Len(st.entries)
           W == [k \in 0..n |-> {t \in Store : Trimmed(st, t)}]
<1>0. n \in Nat
  BY DEF Store
<1>1. PICK f \in [0..n -> Store] :
            /\ f[0] = st
            /\ \A k \in 1..n : f[k] = Turn(f[k - 1])
            /\ enforceBounds(st) = f[n]
  BY EnforceBoundsRuns
<1>2. f[0] \in W[0]
  BY <1>0, <1>1, TrimmedSelf
<1>3. ASSUME NEW k \in 1..n, f[k - 1] \in W[k - 1] PROVE f[k] \in W[k]
  <2>1. k - 1 \in 0..n /\ k \in 0..n
    BY <1>0
  <2>2. f[k - 1] \in Store /\ Trimmed(st, f[k - 1])
    BY <2>1, <1>3
  <2>3. Trimmed(f[k - 1], f[k])
    BY <2>2, <1>1, TurnTrims
  <2>4. Trimmed(st, f[k]) /\ f[k] \in Store
    BY <2>1, <2>2, <2>3, TrimmedAgain
  <2> QED BY <2>1, <2>4
<1>4. f[n] \in W[n]
  <2> HIDE DEF W, n
  <2> QED BY <1>0, <1>2, <1>3, Reaches
<1> QED BY <1>0, <1>1, <1>4

-----------------------------------------------------------------------------
(* What the store derives, through evictions.                                *)

\* Timeline, byte total, lives and figures agree, whatever the bounds.
Kept(st, X) ==
    /\ Ascends(st.entries)
    /\ \A r \in Elems(st.entries) : r.seq <= st.seq
    /\ Sums(st.entries, st.bytes)
    /\ \A u \in Uids : Life(Revs(st, u), X)
    /\ \A u \in Uids : st.objects[u] # Gone => Figures(Revs(st, u), st.objects[u], u, X)

\* t is s after evictions, each of an object's oldest.
Shrunk(s, t, X) ==
    /\ Trimmed(s, t)
    /\ Kept(t, X)
    /\ \A u \in Uids : Oldest(Revs(s, u), Revs(t, u))

\* An object's revisions, as a set.
LEMMA RevsAre ==
  ASSUME NEW st \in Store, Ascends(st.entries), NEW u \in Uids
  PROVE  /\ Distinct(Revs(st, u)) /\ IsFiniteSet(Revs(st, u))
         /\ Cardinality(Revs(st, u)) \in Nat
<1>1. st.entries \in Seq(Revision)
  BY DEF Store
<1>2. Elems(st.entries) \in SUBSET Revision /\ IsFiniteSet(Elems(st.entries))
  BY <1>1, ElemsAre
<1>3. Revs(st, u) \subseteq Elems(st.entries)
  BY DEF Revs
<1>4. IsFiniteSet(Revs(st, u))
  BY <1>2, <1>3, FS_Subset
<1>5. \A q, r \in Elems(st.entries) : q.seq = r.seq => q = r
  BY <1>1, OneEach
<1> QED BY <1>2, <1>3, <1>4, <1>5, FS_CardinalityType DEF Distinct

LEMMA ShrunkSelf == ASSUME NEW X, NEW s \in Store, Kept(s, X) PROVE Shrunk(s, s, X)
BY TrimmedSelf, OldestSelf DEF Shrunk

LEMMA ShrunkAgain ==
  ASSUME NEW X, NEW s, NEW t, NEW r, Shrunk(s, t, X), Shrunk(t, r, X) PROVE Shrunk(s, r, X)
BY TrimmedAgain, OldestAgain DEF Shrunk

\* An eviction of an object's oldest revision.
LEMMA EvictShrinks ==
  ASSUME NEW X, NEW st \in Store, Kept(st, X), NEW i \in 1..Len(st.entries),
         \A j \in 1..Len(st.entries) : st.entries[j].uid = st.entries[i].uid => i <= j
  PROVE  /\ Shrunk(st, evict(st, i), X)
         /\ Revs(evict(st, i), st.entries[i].uid) = Revs(st, st.entries[i].uid) \ {st.entries[i]}
         /\ st.entries[i] \in Revs(st, st.entries[i].uid)
         /\ Len(evict(st, i).entries) = Len(st.entries) - 1
<1> DEFINE e == st.entries
           rev == e[i]
           t == evict(st, i)
           state == st.objects[rev.uid]
<1>1. /\ t \in Store
      /\ t.seq = st.seq
      /\ t.entries = RemoveAt(e, i)
      /\ t.bytes = st.bytes - revisionSize(rev)
      /\ t.objects = [st.objects EXCEPT ![rev.uid] =
             IF state = Gone THEN Gone
             ELSE [state EXCEPT !.count = @ - 1, !.last = IF @ = rev.seq THEN 0 ELSE @]]
  BY EvictIs
<1>2. e \in Seq(Revision) /\ st.objects \in [Uids -> State \cup {Gone}]
  BY DEF Store
<1>3. rev \in Revision /\ rev \in Elems(e) /\ rev.uid \in Uids /\ rev.seq \in Nat
  <2>1. rev \in Revision
    BY <1>2
  <2> QED BY <2>1, RevisionParts DEF Elems
<1>4. Trimmed(st, t)
  BY EvictTrims
<1>5. /\ Ascends(t.entries) /\ Elems(t.entries) = Elems(e) \ {rev}
      /\ Len(t.entries) = Len(e) - 1
  BY <1>1, <1>2, WithoutOne, Removed DEF Kept
<1>6. Sums(t.entries, t.bytes)
  BY <1>1, <1>2, SumWithoutOne DEF Kept
<1> HIDE DEF t
<1>7. /\ Revs(t, rev.uid) = Revs(st, rev.uid) \ {rev} /\ rev \in Revs(st, rev.uid)
      /\ \A u \in Uids : u # rev.uid => Revs(t, u) = Revs(st, u)
  BY <1>3, <1>5 DEF Revs
<1>8. \A q \in Revs(st, rev.uid) : q # rev => rev.seq < q.seq
  <2> SUFFICES ASSUME NEW q \in Revs(st, rev.uid), q # rev PROVE rev.seq < q.seq
    OBVIOUS
  <2>1. PICK j \in 1..Len(e) : q = e[j]
    BY DEF Revs, Elems
  <2>2. i <= j /\ i # j
    BY <2>1 DEF Revs
  <2>3. i < j
    BY <2>1, <2>2
  <2> QED BY <2>1, <2>3 DEF Kept, Ascends
<1>9. \A u \in Uids : Oldest(Revs(st, u), Revs(t, u))
  <2> SUFFICES ASSUME NEW u \in Uids PROVE Oldest(Revs(st, u), Revs(t, u))
    OBVIOUS
  <2>1. CASE u # rev.uid
    BY <2>1, <1>7, OldestSelf
  <2>2. CASE u = rev.uid
    BY <2>2, <1>7, <1>8 DEF Oldest
  <2> QED BY <2>1, <2>2
<1>10. \A u \in Uids : Life(Revs(t, u), X)
  <2> SUFFICES ASSUME NEW u \in Uids PROVE Life(Revs(t, u), X)
    OBVIOUS
  <2>1. Distinct(Revs(st, u)) /\ Life(Revs(st, u), X)
    BY RevsAre DEF Kept
  <2>2. Oldest(Revs(st, u), Revs(t, u))
    BY <1>9
  <2> QED BY <2>1, <2>2, LifeWithoutOldest
<1>11. \A u \in Uids : t.objects[u] # Gone => Figures(Revs(t, u), t.objects[u], u, X)
  <2> SUFFICES ASSUME NEW u \in Uids, t.objects[u] # Gone
               PROVE  Figures(Revs(t, u), t.objects[u], u, X)
    OBVIOUS
  <2>1. CASE u # rev.uid
    <3>1. t.objects[u] = st.objects[u]
      BY <2>1, <1>1, <1>2
    <3> QED BY <2>1, <3>1, <1>7 DEF Kept
  <2>2. CASE u = rev.uid
    <3> DEFINE S == Revs(st, u)
    <3>1. /\ state \in State
          /\ t.objects[u] = [state EXCEPT !.count = @ - 1,
                                          !.last = IF @ = rev.seq THEN 0 ELSE @]
      BY <2>2, <1>1, <1>2
    <3>2. Figures(S, state, u, X)
      <4>1. state # Gone
        BY <3>1, StateParts
      <4> QED BY <2>2, <4>1 DEF Kept
    <3>3. IsFiniteSet(S) /\ rev \in S /\ Revs(t, u) = S \ {rev}
      BY <2>2, <1>7, RevsAre DEF Kept
    <3> HIDE DEF S, state, rev
    <3>4. /\ t.objects[u].count = state.count - 1
          /\ t.objects[u].last = IF state.last = rev.seq THEN 0 ELSE state.last
      BY <3>1 DEF State
    <3>5. Cardinality(S \ {rev}) = Cardinality(S) - 1
      BY <3>3, FS_RemoveElement
    <3>6. ASSUME t.objects[u].last # 0
          PROVE  \E r \in S \ {rev} : r.seq = t.objects[u].last /\ Newest(S \ {rev}, r)
      <4>1. t.objects[u].last = state.last /\ state.last # rev.seq /\ state.last # 0
        BY <3>4, <3>6
      <4>2. PICK r \in S : r.seq = state.last /\ Newest(S, r)
        BY <3>2, <4>1 DEF Figures
      <4> QED BY <4>1, <4>2 DEF Newest
    <3>7. /\ t.objects[u].count <= Cardinality(S \ {rev})
          /\ u \notin X => t.objects[u].count = Cardinality(S \ {rev})
      <4>1. state.count \in Int /\ Cardinality(S) \in Nat
        BY <3>1, <3>3, FS_CardinalityType DEF State
      <4> QED BY <4>1, <3>2, <3>4, <3>5 DEF Figures
    <3> QED BY <3>3, <3>6, <3>7 DEF Figures
  <2> QED BY <2>1, <2>2
<1>12. Kept(t, X)
  BY <1>1, <1>5, <1>6, <1>10, <1>11 DEF Kept
<1> QED BY <1>4, <1>5, <1>7, <1>9, <1>12 DEF Shrunk, t

\* An object's retention limit, and the two of the whole timeline.
Within(st, u) == st.perObject > 0 => Cardinality(Revs(st, u)) <= st.perObject

Fits(st) ==
    /\ MaxRevisions > 0 => Len(st.entries) <= MaxRevisions
    /\ MaxBytes > 0 => st.bytes <= MaxBytes

LEMMA ShrunkIsWithin ==
  ASSUME NEW X, NEW s \in Store, Ascends(s.entries), NEW t, Shrunk(s, t, X), NEW u \in Uids, Within(s, u)
  PROVE  Within(t, u)
<1>1. Revs(t, u) \subseteq Revs(s, u) /\ t.perObject = s.perObject
  BY DEF Shrunk, Oldest, Trimmed
<1>2. IsFiniteSet(Revs(s, u)) /\ Cardinality(Revs(s, u)) \in Nat
  BY RevsAre
<1>3. Cardinality(Revs(t, u)) <= Cardinality(Revs(s, u)) /\ Cardinality(Revs(t, u)) \in Nat
  BY <1>1, <1>2, FS_Subset, FS_CardinalityType
<1>4. s.perObject \in Nat
  BY DEF Store
<1> QED BY <1>1, <1>2, <1>3, <1>4 DEF Within

\* One revision over its limit, an object is brought back to it.
LEMMA EnforcePerObjectShrinks ==
  ASSUME NEW X, NEW st \in Store, Kept(st, X), NEW u \in Uids, st.objects[u] # Gone,
         st.perObject > 0 /\ u \notin X => Cardinality(Revs(st, u)) <= st.perObject + 1
  PROVE  Shrunk(st, enforcePerObject(st, u), X) /\ (u \notin X => Within(enforcePerObject(st, u), u))
<1> DEFINE t == enforcePerObject(st, u)
           own == {i \in DOMAIN st.entries : st.entries[i].uid = u}
<1>1. /\ u \notin X => st.objects[u].count = Cardinality(Revs(st, u))
      /\ Cardinality(Revs(st, u)) \in Nat /\ st.perObject \in Nat
  <2>1. Figures(Revs(st, u), st.objects[u], u, X) /\ Ascends(st.entries)
    BY DEF Kept
  <2> QED BY <2>1, RevsAre DEF Figures, Store
<1>2. CASE st.perObject > 0 /\ st.objects[u].count > st.perObject /\ own # {}
  <2>1. PICK i \in 1..Len(st.entries) :
                  /\ st.entries[i].uid = u
                  /\ \A j \in 1..Len(st.entries) : st.entries[j].uid = u => i <= j
                  /\ t = evict(st, i)
    <3>1. t # st
      <4> SUFFICES ASSUME t = st PROVE FALSE
        OBVIOUS
      <4>1. t = evict(st, CHOOSE i \in own : \A j \in own : i <= j)
        BY <1>2 DEF enforcePerObject
      <4> DEFINE first == CHOOSE i \in own : \A j \in own : i <= j
      <4>2. first \in 1..Len(st.entries)
        <5>1. own \subseteq Nat
          BY DEF Store
        <5>2. \E x \in own : \A y \in own : x <= y
          <6> HIDE DEF own
          <6> QED BY <5>1, <1>2, Least
        <5>3. first \in own
          BY <5>2
        <5> HIDE DEF first
        <5> QED BY <5>3 DEF Store
      <4> HIDE DEF first, t
      <4>3. evict(st, first).entries = RemoveAt(st.entries, first)
        BY <4>2, EvictIs
      <4>4. Len(evict(st, first).entries) = Len(st.entries) - 1 /\ Len(st.entries) \in Nat
        <5>1. st.entries \in Seq(Revision)
          BY DEF Store
        <5> QED BY <5>1, <4>2, <4>3, Removed
      <4>5. t = evict(st, first)
        BY <4>1 DEF first
      <4> DEFINE e == evict(st, first)
      <4>6. e = st /\ Len(e.entries) = Len(st.entries) - 1
        BY <4>4, <4>5
      <4> HIDE DEF e
      <4> QED BY <4>4, <4>6
    <3> QED BY <3>1, EnforcePerObjectIs
  <2> HIDE DEF t
  <2>2. /\ Shrunk(st, evict(st, i), X)
        /\ Revs(evict(st, i), u) = Revs(st, u) \ {st.entries[i]}
        /\ st.entries[i] \in Revs(st, u)
    BY <2>1, EvictShrinks
  <2>3. IsFiniteSet(Revs(st, u))
    BY RevsAre DEF Kept
  <2>4. Cardinality(Revs(t, u)) = Cardinality(Revs(st, u)) - 1
    BY <2>1, <2>2, <2>3, FS_RemoveElement
  <2>5. t.perObject = st.perObject
    BY <2>1, <2>2 DEF Shrunk, Trimmed
  <2>6. u \notin X => Within(t, u)
    BY <2>4, <2>5, <1>1 DEF Within
  <2> QED BY <2>1, <2>2, <2>6 DEF t
<1>3. CASE ~(st.perObject > 0 /\ st.objects[u].count > st.perObject /\ own # {})
  <2>1. t = st
    BY <1>3 DEF enforcePerObject
  <2>2. u \notin X => Within(st, u)
    <3>1. CASE own = {}
      <4>1. Revs(st, u) = {}
        BY <3>1 DEF Revs, Elems, Store
      <4> QED BY <4>1, <1>1, FS_EmptySet DEF Within
    <3>2. CASE own # {}
      BY <3>2, <1>1, <1>3 DEF Within
    <3> QED BY <3>1, <3>2
  <2> QED BY <2>1, <2>2, ShrunkSelf
<1> QED BY <1>2, <1>3

\* A turn of enforceBounds' loop evicts the oldest of all.
LEMMA TurnShrinks ==
  ASSUME NEW X, NEW s \in Store, Kept(s, X)
  PROVE  /\ Shrunk(s, Turn(s), X)
         /\ IF OverBounds(s) THEN Len(Turn(s).entries) = Len(s.entries) - 1 ELSE Turn(s) = s
<1>1. CASE OverBounds(s)
  <2>1. s.entries # <<>> /\ s.entries \in Seq(Revision)
    BY <1>1 DEF OverBounds, Store
  <2>2. 1 \in 1..Len(s.entries) /\ \A j \in 1..Len(s.entries) : 1 <= j
    BY <2>1
  <2>3. Turn(s) = evict(s, 1)
    BY <1>1 DEF Turn
  <2> QED BY <1>1, <2>2, <2>3, EvictShrinks
<1>2. CASE ~OverBounds(s)
  BY <1>2, ShrunkSelf DEF Turn
<1> QED BY <1>1, <1>2

\* A timeline of no revisions costs nothing.
LEMMA EmptyFits ==
  ASSUME NEW X, NEW s \in Store, Kept(s, X), ~OverBounds(s) PROVE Fits(s)
<1>1. s.entries \in Seq(Revision) /\ s.bytes \in Int /\ Len(s.entries) \in Nat
  BY DEF Store
<1>2. CASE s.entries = <<>>
  <2>1. Len(s.entries) = 0
    BY <1>2
  <2>2. s.bytes = 0
    BY <2>1 DEF Kept, Sums
  <2> QED BY <2>1, <2>2, TimelineAssumption DEF Fits
<1>3. CASE s.entries # <<>>
  BY <1>1, <1>3, TimelineAssumption DEF OverBounds, Fits
<1> QED BY <1>2, <1>3

\* As many turns as there are revisions bring the timeline within its bounds.
LEMMA EnforceBoundsShrinks ==
  ASSUME NEW X, NEW st \in Store, Kept(st, X)
  PROVE  Shrunk(st, enforceBounds(st), X) /\ Fits(enforceBounds(st))
<1> DEFINE n == Len(st.entries)
           Done(t, k) == ~OverBounds(t) \/ Len(t.entries) = n - k
           W == [k \in 0..n |-> {t \in Store : Shrunk(st, t, X) /\ Done(t, k)}]
<1>0. n \in Nat
  BY DEF Store
<1>1. PICK f \in [0..n -> Store] :
            /\ f[0] = st
            /\ \A k \in 1..n : f[k] = Turn(f[k - 1])
            /\ enforceBounds(st) = f[n]
  BY EnforceBoundsRuns
<1>2. f[0] \in W[0]
  <2>1. Done(st, 0)
    BY <1>0
  <2> HIDE DEF Done
  <2> QED BY <2>1, <1>0, <1>1, ShrunkSelf
<1>3. ASSUME NEW k \in 1..n, f[k - 1] \in W[k - 1] PROVE f[k] \in W[k]
  <2>1. k - 1 \in 0..n /\ k \in 0..n
    BY <1>0
  <2>2. f[k - 1] \in Store /\ Shrunk(st, f[k - 1], X) /\ Done(f[k - 1], k - 1)
    <3> HIDE DEF Done
    <3> QED BY <2>1, <1>3
  <2> DEFINE s == f[k - 1]
  <2>3. f[k] = Turn(s) /\ f[k] \in Store
    BY <2>1, <1>1
  <2>4. /\ Shrunk(s, f[k], X)
        /\ IF OverBounds(s) THEN Len(f[k].entries) = Len(s.entries) - 1 ELSE f[k] = s
    <3>1. Kept(s, X)
      BY <2>2 DEF Shrunk
    <3> HIDE DEF s
    <3> QED BY <2>2, <2>3, <3>1, TurnShrinks DEF s
  <2>5. Shrunk(st, f[k], X)
    BY <2>2, <2>4, ShrunkAgain
  <2>6. Done(f[k], k)
    <3>1. Len(s.entries) \in Nat
      BY <2>2 DEF Store
    <3>2. CASE OverBounds(s)
      <4>1. Len(s.entries) = n - (k - 1)
        BY <2>2, <3>2
      <4>2. Len(f[k].entries) = n - k
        BY <2>4, <3>2, <4>1, <1>0
      <4> QED BY <4>2
    <3>3. CASE ~OverBounds(s)
      BY <3>3, <2>4
    <3> QED BY <3>2, <3>3
  <2> HIDE DEF Done
  <2> QED BY <2>1, <2>3, <2>5, <2>6
<1>4. f[n] \in W[n]
  <2> HIDE DEF W, n
  <2> QED BY <1>0, <1>2, <1>3, Reaches
<1>5. f[n] \in Store /\ Shrunk(st, f[n], X) /\ Done(f[n], n)
  <2> HIDE DEF Done
  <2> QED BY <1>0, <1>4
<1>6. ~OverBounds(f[n])
  <2>1. CASE Len(f[n].entries) = 0
    <3>1. f[n].entries \in Seq(Revision)
      BY <1>5 DEF Store
    <3>2. f[n].entries = <<>>
      BY <2>1, <3>1
    <3> QED BY <3>2 DEF OverBounds
  <2> QED BY <2>1, <1>0, <1>5
<1>7. Fits(f[n])
  BY <1>5, <1>6, EmptyFits DEF Shrunk
<1> QED BY <1>1, <1>5, <1>7

-----------------------------------------------------------------------------
(* Recording.                                                                *)

\* m is s with one more revision, before the bounds are enforced.
Added(s, rev, m) ==
    /\ m \in Store
    /\ m.perObject = s.perObject /\ m.seq = s.seq + 1 /\ m.generation = s.generation + 1
    /\ m.entries = Append(s.entries, rev)
    /\ m.bytes = s.bytes + revisionSize(rev)
    /\ m.objects = [s.objects EXCEPT ![rev.uid].count = @ + 1, ![rev.uid].last = rev.seq]
    /\ m.evicted = s.evicted
    /\ m.out = Called(s.out, [call |-> "Append", rev |-> rev])

\* The revision append retains.
NewRevision(s, u, change, gap, content) ==
    [seq |-> s.seq + 1, uid |-> u, change |-> change, gap |-> gap, content |-> content]

LEMMA AppendIs ==
  ASSUME NEW st \in Store, NEW u \in Uids, st.objects[u] # Gone,
         NEW change \in Changes, NEW gap \in BOOLEAN, NEW content \in Content
  PROVE  /\ NewRevision(st, u, change, gap, content) \in Revision
         /\ \E m : /\ Added(st, NewRevision(st, u, change, gap, content), m)
                   /\ append(st, u, change, gap, content) =
                          enforceBounds(enforcePerObject(m, u))
<1> DEFINE rev == NewRevision(st, u, change, gap, content)
           entries == Append(st.entries, rev)
           bytes == st.bytes + revisionSize(rev)
           objects == [st.objects EXCEPT ![u].count = @ + 1, ![u].last = rev.seq]
           added == [st EXCEPT !.seq = @ + 1, !.generation = @ + 1, !.entries = entries,
                               !.bytes = bytes, !.objects = objects]
           call == [call |-> "Append", rev |-> rev]
           m == Mirror(added, call)
<1>1. /\ st.entries \in Seq(Revision) /\ st.objects \in [Uids -> State \cup {Gone}]
      /\ st.bytes \in Int /\ st.seq \in Nat /\ st.generation \in Nat
  BY DEF Store
<1>2. rev \in Revision /\ rev.uid = u /\ rev.seq = st.seq + 1
  BY <1>1 DEF NewRevision, Revision
<1>3. append(st, u, change, gap, content) = enforceBounds(enforcePerObject(m, u))
  <2>1. rev.seq = st.seq + 1
    BY <1>2
  <2>2. added = [st EXCEPT !.seq = @ + 1, !.generation = @ + 1, !.entries = Append(@, rev),
                           !.bytes = @ + revisionSize(rev), !.objects[u].count = @ + 1,
                           !.objects[u].last = rev.seq]
    <3> HIDE DEF rev
    <3> QED BY DEF Store
  <2> QED BY <2>2 DEF append, NewRevision
<1> HIDE DEF rev
<1>4. entries \in Seq(Revision) /\ bytes \in Int
  BY <1>1, <1>2, AppendProperties, RevisionParts
<1>5. objects \in [Uids -> State \cup {Gone}]
  <2> DEFINE state == st.objects[u]
             after == [state EXCEPT !.count = @ + 1, !.last = rev.seq]
  <2>1. state \in State
    BY <1>1
  <2>2. objects = [st.objects EXCEPT ![u] = after]
    BY <1>1
  <2> HIDE DEF state
  <2>3. state.count + 1 \in Int /\ rev.seq \in Nat
    BY <2>1, <1>1, <1>2 DEF State
  <2>4. after \in State
    BY <2>1, <2>3 DEF State
  <2> HIDE DEF after
  <2> QED BY <2>2, <2>4, <1>1
<1> HIDE DEF entries, bytes, objects
<1>6. added \in Store
  <2>1. st.seq + 1 \in Nat /\ st.generation + 1 \in Nat
    BY <1>1
  <2> QED BY <2>1, <1>4, <1>5 DEF Store
<1>7. call \in PersisterCall
  BY <1>2 DEF PersisterCall
<1> HIDE DEF call
<1>8. m \in Store /\ m = [added EXCEPT !.out = m.out] /\ m.out = Called(added.out, call)
  <2> HIDE DEF added
  <2> QED BY <1>6, <1>7, MirrorIs
<1> HIDE DEF m
<1>9. /\ m.perObject = st.perObject /\ m.seq = st.seq + 1 /\ m.generation = st.generation + 1
      /\ m.entries = entries /\ m.bytes = bytes /\ m.objects = objects
      /\ m.evicted = st.evicted /\ m.out = Called(st.out, call)
  BY <1>8 DEF Store
<1>10. Added(st, rev, m)
  <2>1. m.objects = [st.objects EXCEPT ![rev.uid].count = @ + 1, ![rev.uid].last = rev.seq]
    BY <1>9, <1>2 DEF objects
  <2> QED BY <1>8, <1>9, <2>1 DEF Added, entries, bytes, call
<1> QED BY <1>2, <1>3, <1>10 DEF rev

-----------------------------------------------------------------------------
(* What mutations do to what the store claims.                               *)

\* Unmarked, the timeline is every revision ever recorded.
Honest(st) ==
    ~st.evicted => \A n \in 1..st.seq : \E i \in DOMAIN st.entries : st.entries[i].seq = n

\* From s to t, the generation tells of a change to the timeline.
Tells(s, t) ==
    /\ t.generation >= s.generation
    /\ t.entries = s.entries \/ t.generation > s.generation

\* t is s after recording that u is now content.
Recorded(s, t, u, content) ==
    /\ t \in Store
    /\ t.perObject = s.perObject
    /\ Tells(s, t)
    /\ Honest(s) => Honest(t)
    /\ Known(t) = [Known(s) EXCEPT ![u] = content]

LEMMA TrimmedIsHonest ==
  ASSUME NEW s, NEW t, Trimmed(s, t), Honest(s) PROVE Honest(t)
BY DEF Trimmed, Honest

LEMMA TellsAgain ==
  ASSUME NEW s \in Store, NEW t \in Store, NEW r \in Store, Tells(s, t), Tells(t, r)
  PROVE  Tells(s, r)
<1>1. s.generation \in Nat /\ t.generation \in Nat /\ r.generation \in Nat
  BY DEF Store
<1> QED BY <1>1 DEF Tells

\* Retaining a revision changes nothing of what is known of the objects.
LEMMA AddedIsKnown ==
  ASSUME NEW st \in Store, NEW u \in Uids, st.objects[u] # Gone, NEW rev \in Revision, rev.uid = u,
         NEW m, Added(st, rev, m)
  PROVE  Known(m) = Known(st)
<1>1. st.objects \in [Uids -> State \cup {Gone}] /\ m.objects \in [Uids -> State \cup {Gone}]
  BY DEF Store, Added
<1>2. m.objects = [st.objects EXCEPT ![u].count = @ + 1, ![u].last = rev.seq]
  BY DEF Added
<1>3. ASSUME NEW o \in Uids PROVE Known(m)[o] = Known(st)[o]
  <2>1. CASE o = u
    <3> DEFINE state == st.objects[u]
    <3>1. state \in State
      BY <1>1
    <3>2. m.objects[u] = [state EXCEPT !.count = @ + 1, !.last = rev.seq]
      BY <1>1, <1>2
    <3> HIDE DEF state
    <3>3. m.objects[u].spec = state.spec /\ m.objects[u].status = state.status
      BY <3>1, <3>2 DEF State
    <3>4. m.objects[u] # Gone
      <4>1. state.count + 1 \in Int /\ rev.seq \in Nat
        BY <3>1, RevisionParts DEF State
      <4>2. m.objects[u] \in State
        BY <3>1, <3>2, <4>1 DEF State
      <4> QED BY <4>2, GoneAssumption
    <3> QED BY <2>1, <3>3, <3>4 DEF Known, record, state
  <2>2. CASE o # u
    <3>1. m.objects[o] = st.objects[o]
      BY <1>1, <1>2, <2>2
    <3> QED BY <3>1 DEF Known
  <2> QED BY <2>1, <2>2
<1> QED BY <1>3 DEF Known

\* The sequence and the generation grow; what objects are is not touched.
LEMMA AppendRecords ==
  ASSUME NEW st \in Store, NEW u \in Uids, st.objects[u] # Gone,
         NEW change \in Changes, NEW gap \in BOOLEAN, NEW content \in Content
  PROVE  LET t == append(st, u, change, gap, content)
         IN  /\ t \in Store
             /\ t.perObject = st.perObject
             /\ t.generation = st.generation + 1
             /\ Known(t) = Known(st)
             /\ Honest(st) => Honest(t)
<1> DEFINE rev == NewRevision(st, u, change, gap, content)
           t == append(st, u, change, gap, content)
<1>1. rev \in Revision /\ \E m : Added(st, rev, m) /\ t = enforceBounds(enforcePerObject(m, u))
  BY AppendIs
<1>2. rev.uid = u /\ rev.seq = st.seq + 1
  BY DEF NewRevision
<1> HIDE DEF rev, t
<1>3. PICK m : Added(st, rev, m) /\ t = enforceBounds(enforcePerObject(m, u))
  BY <1>1
<1>4. m \in Store
  BY <1>3 DEF Added
<1>5. Trimmed(m, t)
  <2>1. Trimmed(m, enforcePerObject(m, u))
    BY <1>4, EnforcePerObjectIs, EvictTrims, TrimmedSelf
  <2>2. enforcePerObject(m, u) \in Store
    BY <2>1 DEF Trimmed
  <2> QED BY <2>1, <2>2, <1>3, EnforceBoundsTrims, TrimmedAgain
<1>6. Known(m) = Known(st)
  BY <1>1, <1>2, <1>3, AddedIsKnown
<1>7. ASSUME Honest(st) PROVE Honest(m)
  <2> SUFFICES ASSUME ~m.evicted, NEW n \in 1..m.seq
               PROVE  \E i \in DOMAIN m.entries : m.entries[i].seq = n
    BY DEF Honest
  <2>1. st.entries \in Seq(Revision) /\ st.seq \in Nat
    BY DEF Store
  <2>2. m.entries = Append(st.entries, rev) /\ ~st.evicted /\ m.seq = st.seq + 1
    BY <1>3 DEF Added
  <2>3. /\ DOMAIN m.entries = 1..(Len(st.entries) + 1)
        /\ m.entries[Len(st.entries) + 1] = rev
        /\ \A i \in 1..Len(st.entries) : m.entries[i] = st.entries[i]
    BY <1>1, <2>1, <2>2, AppendProperties
  <2>4. CASE n = st.seq + 1
    <3>1. Len(st.entries) + 1 \in DOMAIN m.entries
      BY <2>1, <2>3
    <3> QED BY <2>3, <2>4, <3>1, <1>2
  <2>5. CASE n # st.seq + 1
    <3>1. n \in 1..st.seq
      BY <2>1, <2>2, <2>5
    <3>2. PICK i \in 1..Len(st.entries) : st.entries[i].seq = n
      <4>1. DOMAIN st.entries = 1..Len(st.entries)
        BY <2>1
      <4> QED BY <4>1, <3>1, <2>2, <1>7 DEF Honest
    <3>3. i \in DOMAIN m.entries
      BY <2>1, <2>3
    <3> QED BY <3>2, <3>3, <2>3
  <2> QED BY <2>4, <2>5
<1> QED BY <1>3, <1>5, <1>6, <1>7, TrimmedIsHonest DEF Trimmed, Added, t

-----------------------------------------------------------------------------
(* What the store derives, through mutations.                                *)

\* The lock is free: the limits hold,
Bounded(st, X) == Fits(st) /\ \A u \in Uids \ X : Within(st, u)

\* and of a live object the newest revision says what it is known to be.
Sound(st, X) ==
    /\ Kept(st, X)
    /\ Bounded(st, X)
    /\ \A u \in Uids : Known(st)[u] # Gone => Speaks(Revs(st, u), Known(st)[u])

\* The store has one more revision, which may follow the object's newest.
LEMMA AddedIsKept ==
  ASSUME NEW X, NEW st \in Store, Kept(st, X), NEW rev \in Revision, NEW m, Added(st, rev, m),
         rev.seq = st.seq + 1, st.objects[rev.uid] # Gone,
         \A r \in Revs(st, rev.uid) : Newest(Revs(st, rev.uid), r) => Coherent(r, rev, X)
  PROVE  /\ Kept(m, X)
         /\ Revs(m, rev.uid) = Revs(st, rev.uid) \cup {rev}
         /\ Newest(Revs(m, rev.uid), rev)
         /\ \A r : Newest(Revs(m, rev.uid), r) => r = rev
         /\ Cardinality(Revs(m, rev.uid)) = Cardinality(Revs(st, rev.uid)) + 1
         /\ \A o \in Uids : o # rev.uid => Revs(m, o) = Revs(st, o)
<1> DEFINE u == rev.uid
           e == st.entries
           S == Revs(st, u)
<1>1. /\ m \in Store /\ m.seq = st.seq + 1
      /\ m.entries = Append(e, rev)
      /\ m.bytes = st.bytes + revisionSize(rev)
      /\ m.objects = [st.objects EXCEPT ![u].count = @ + 1, ![u].last = rev.seq]
  BY DEF Added
<1>2. /\ e \in Seq(Revision) /\ st.seq \in Nat /\ u \in Uids /\ rev.seq \in Nat
      /\ st.objects \in [Uids -> State \cup {Gone}]
  BY RevisionParts DEF Store
<1>3. Ascends(e) /\ \A r \in Elems(e) : r.seq <= st.seq
  BY DEF Kept
<1>4. \A r \in Elems(e) : r.seq < rev.seq
  <2>1. \A r \in Elems(e) : r.seq \in Nat
    BY <1>2, ElemsAre, RevisionParts
  <2> QED BY <2>1, <1>2, <1>3
<1>5. Ascends(m.entries) /\ Elems(m.entries) = Elems(e) \cup {rev}
  BY <1>1, <1>2, <1>3, <1>4, WithOneMore
<1>6. Sums(m.entries, m.bytes)
  BY <1>1, <1>2, SumWithOneMore DEF Kept
<1>7. Revs(m, u) = S \cup {rev} /\ \A o \in Uids : o # u => Revs(m, o) = Revs(st, o)
  BY <1>5 DEF Revs
<1>8. Distinct(S) /\ IsFiniteSet(S) /\ Cardinality(S) \in Nat
  BY <1>2, <1>3, RevsAre
<1>9. \A k \in S : k.seq < rev.seq
  BY <1>4 DEF Revs
<1>10. /\ Life(S \cup {rev}, X) /\ Newest(S \cup {rev}, rev)
       /\ \A r : Newest(S \cup {rev}, r) => r = rev
  <2>1. Life(S, X)
    BY <1>2 DEF Kept
  <2>2. \A r \in S : Newest(S, r) => Coherent(r, rev, X)
    OBVIOUS
  <2> HIDE DEF S
  <2> QED BY <2>1, <2>2, <1>8, <1>9, LifeGoesOn
<1>11. Cardinality(S \cup {rev}) = Cardinality(S) + 1
  <2>1. rev \notin S
    BY <1>2, <1>9
  <2> QED BY <2>1, <1>8, FS_AddElement
<1>12. \A o \in Uids : Life(Revs(m, o), X)
  BY <1>7, <1>10 DEF Kept
<1>13. ASSUME NEW o \in Uids, m.objects[o] # Gone PROVE Figures(Revs(m, o), m.objects[o], o, X)
  <2>1. CASE o # u
    <3>1. m.objects[o] = st.objects[o]
      BY <2>1, <1>1, <1>2
    <3> QED BY <2>1, <3>1, <1>7, <1>13 DEF Kept
  <2>2. CASE o = u
    <3> DEFINE state == st.objects[u]
    <3>1. state \in State /\ m.objects[u] = [state EXCEPT !.count = @ + 1, !.last = rev.seq]
      BY <1>1, <1>2
    <3>2. Figures(S, state, u, X)
      BY <1>2 DEF Kept
    <3> HIDE DEF state, S
    <3>3. m.objects[u].count = state.count + 1 /\ m.objects[u].last = rev.seq
      BY <3>1 DEF State
    <3>4. rev \in S \cup {rev}
      OBVIOUS
    <3>5. state.count \in Int /\ Cardinality(S) \in Nat
      BY <3>1, <1>8 DEF State, S
    <3>6. /\ m.objects[u].count <= Cardinality(S \cup {rev})
          /\ u \notin X => m.objects[u].count = Cardinality(S \cup {rev})
      BY <3>2, <3>3, <3>5, <1>11 DEF Figures
    <3>7. Figures(S \cup {rev}, m.objects[u], u, X)
      BY <3>3, <3>4, <3>6, <1>10 DEF Figures
    <3> QED BY <2>2, <3>7, <1>7
  <2> QED BY <2>1, <2>2
<1>14. \A r \in Elems(m.entries) : r.seq <= m.seq
  <2>1. \A r \in Elems(e) : r.seq \in Nat
    BY <1>2, ElemsAre, RevisionParts
  <2> QED BY <2>1, <1>1, <1>2, <1>3, <1>5
<1>15. Kept(m, X)
  BY <1>5, <1>6, <1>12, <1>13, <1>14 DEF Kept
<1> QED BY <1>7, <1>10, <1>11, <1>15

\* append, once the limits are enforced again.
LEMMA AppendKeeps ==
  ASSUME NEW X, NEW st \in Store, Kept(st, X), \A o \in Uids \ X : Within(st, o),
         NEW u \in Uids, st.objects[u] # Gone,
         NEW change \in Changes, NEW gap \in BOOLEAN, NEW content \in Content,
         \A r \in Revs(st, u) : Newest(Revs(st, u), r) =>
             Coherent(r, NewRevision(st, u, change, gap, content), X)
  PROVE  LET t == append(st, u, change, gap, content)
         IN  /\ t \in Store /\ Kept(t, X) /\ Bounded(t, X)
             /\ \A o \in Uids : o # u => Oldest(Revs(st, o), Revs(t, o))
             /\ change \notin Deletions => Speaks(Revs(t, u), content)
             /\ change = "deleted-unobserved" => Unseen(Revs(t, u))
<1> DEFINE rev == NewRevision(st, u, change, gap, content)
           t == append(st, u, change, gap, content)
<1>1. rev \in Revision /\ \E m : Added(st, rev, m) /\ t = enforceBounds(enforcePerObject(m, u))
  BY AppendIs
<1>2. rev.uid = u /\ rev.seq = st.seq + 1 /\ rev.change = change /\ rev.content = content
  BY DEF NewRevision
<1>3. \A r \in Revs(st, u) : Newest(Revs(st, u), r) => Coherent(r, rev, X)
  OBVIOUS
<1> HIDE DEF rev, t
<1>4. PICK m : Added(st, rev, m) /\ t = enforceBounds(enforcePerObject(m, u))
  BY <1>1
<1>5. /\ Kept(m, X)
      /\ Revs(m, u) = Revs(st, u) \cup {rev}
      /\ \A r : Newest(Revs(m, u), r) => r = rev
      /\ Cardinality(Revs(m, u)) = Cardinality(Revs(st, u)) + 1
      /\ \A o \in Uids : o # u => Revs(m, o) = Revs(st, o)
  <2> DEFINE v == rev.uid
  <2>1. v = u
    BY <1>2
  <2>2. /\ Kept(m, X)
        /\ Revs(m, v) = Revs(st, v) \cup {rev}
        /\ \A r : Newest(Revs(m, v), r) => r = rev
        /\ Cardinality(Revs(m, v)) = Cardinality(Revs(st, v)) + 1
        /\ \A o \in Uids : o # v => Revs(m, o) = Revs(st, o)
    <3>1. \A r \in Revs(st, rev.uid) : Newest(Revs(st, rev.uid), r) => Coherent(r, rev, X)
      BY <2>1, <1>3
    <3>2. st.objects[rev.uid] # Gone /\ rev.seq = st.seq + 1
      BY <2>1, <1>2
    <3>3. rev \in Revision /\ Added(st, rev, m) /\ Kept(st, X) /\ st \in Store
      BY <1>1, <1>4
    <3>4. /\ Kept(m, X)
          /\ Revs(m, rev.uid) = Revs(st, rev.uid) \cup {rev}
          /\ \A r : Newest(Revs(m, rev.uid), r) => r = rev
          /\ Cardinality(Revs(m, rev.uid)) = Cardinality(Revs(st, rev.uid)) + 1
          /\ \A o \in Uids : o # rev.uid => Revs(m, o) = Revs(st, o)
      BY ONLY st \in Store, <3>1, <3>2, <3>3, AddedIsKept
    <3> QED BY <3>4
  <2> HIDE DEF v
  <2> QED BY <2>1, <2>2
<1>6. m \in Store /\ m.perObject = st.perObject /\ m.objects[u] # Gone
  <2>1. m \in Store /\ m.objects = [st.objects EXCEPT ![u].count = @ + 1, ![u].last = rev.seq]
    BY <1>2, <1>4 DEF Added
  <2> DEFINE state == st.objects[u]
  <2>2. state \in State /\ m.objects[u] = [state EXCEPT !.count = @ + 1, !.last = rev.seq]
    BY <2>1 DEF Store
  <2> HIDE DEF state
  <2>3. m.objects[u] \in State
    <3>1. state.count + 1 \in Int /\ rev.seq \in Nat
      BY <2>2, <1>1, RevisionParts DEF State
    <3> QED BY <2>2, <3>1 DEF State
  <2>4. m.objects[u] # Gone
    BY <2>3, StateParts
  <2> QED BY <2>1, <2>4, <1>4 DEF Added
<1>7. /\ \A o \in Uids \ X : o # u => Within(m, o)
      /\ m.perObject > 0 /\ u \notin X => Cardinality(Revs(m, u)) <= m.perObject + 1
  <2>1. Cardinality(Revs(st, u)) \in Nat /\ st.perObject \in Nat
    BY RevsAre DEF Kept, Store
  <2> QED BY <2>1, <1>5, <1>6 DEF Within
<1> DEFINE p == enforcePerObject(m, u)
<1>8. Shrunk(m, p, X) /\ (u \notin X => Within(p, u))
  BY <1>5, <1>6, <1>7, EnforcePerObjectShrinks
<1> HIDE DEF p
<1>9. p \in Store /\ Kept(p, X)
  BY <1>8 DEF Shrunk, Trimmed
<1>10. t = enforceBounds(p)
  BY <1>4 DEF p
<1>11. Shrunk(p, t, X) /\ Fits(t)
  BY <1>9, <1>10, EnforceBoundsShrinks
<1>12. \A o \in Uids \ X : Within(t, o)
  <2> SUFFICES ASSUME NEW o \in Uids \ X PROVE Within(t, o)
    OBVIOUS
  <2>1. Within(p, o)
    <3>1. CASE o = u
      BY <3>1, <1>8
    <3>2. CASE o # u
      BY <3>2, <1>5, <1>6, <1>7, <1>8, ShrunkIsWithin DEF Kept
    <3> QED BY <3>1, <3>2
  <2> QED BY <2>1, <1>9, <1>11, ShrunkIsWithin DEF Kept
<1>13. Shrunk(m, t, X)
  BY <1>8, <1>11, ShrunkAgain
<1>14. t \in Store /\ Kept(t, X) /\ Bounded(t, X)
  BY <1>11, <1>12, <1>13 DEF Shrunk, Trimmed, Bounded
<1>15. \A o \in Uids : o # u => Oldest(Revs(st, o), Revs(t, o))
  BY <1>5, <1>13 DEF Shrunk
<1>16. ASSUME change \notin Deletions PROVE Speaks(Revs(t, u), content)
  <2>1. Speaks(Revs(m, u), content)
    BY <1>2, <1>5, <1>16 DEF Speaks
  <2>2. Distinct(Revs(m, u)) /\ Oldest(Revs(m, u), Revs(t, u))
    BY <1>5, <1>6, <1>13, RevsAre DEF Shrunk, Kept
  <2> QED BY <2>1, <2>2, LifeWithoutOldest
<1>17. ASSUME change = "deleted-unobserved" PROVE Unseen(Revs(t, u))
  <2>1. Unseen(Revs(m, u))
    BY <1>2, <1>5, <1>17 DEF Unseen
  <2>2. Distinct(Revs(m, u)) /\ Oldest(Revs(m, u), Revs(t, u))
    BY <1>5, <1>6, <1>13, RevsAre DEF Shrunk, Kept
  <2> QED BY <2>1, <2>2, LifeWithoutOldest
<1> QED BY <1>14, <1>15, <1>16, <1>17 DEF t

\* t is s with u kept as content.
Committed(s, t, u, content) ==
    /\ t \in Store
    /\ t.perObject = s.perObject /\ t.seq = s.seq /\ t.generation = s.generation
    /\ t.entries = s.entries /\ t.bytes = s.bytes /\ t.evicted = s.evicted
    /\ t.objects = [s.objects EXCEPT ![u].spec = content.spec, ![u].status = content.status]
    /\ Known(t) = [Known(s) EXCEPT ![u] = content]
    /\ t.out = Called(s.out, [call |-> "PutObject", uid |-> u, record |-> content])

\* What is kept of an object is what it was observed to be.
LEMMA CommitIs ==
  ASSUME NEW st \in Store, NEW u \in Uids, st.objects[u] # Gone, NEW content \in Content
  PROVE  Committed(st, commit(st, u, content), u, content)
<1> DEFINE state == st.objects[u]
           after == [state EXCEPT !.spec = content.spec, !.status = content.status]
           objects == [st.objects EXCEPT ![u] = after]
           set == [st EXCEPT !.objects = objects]
           call == [call |-> "PutObject", uid |-> u, record |-> record(after)]
           t == Mirror(set, call)
<1>1. st.objects \in [Uids -> State \cup {Gone}] /\ state \in State
  BY DEF Store
<1>2. content.spec \in 0..1 /\ content.status \in 0..1
  BY DEF Content
<1>3. after \in State /\ after.spec = content.spec /\ after.status = content.status
      /\ after.count = state.count /\ after.last = state.last
  <2> HIDE DEF state
  <2> QED BY <1>1, <1>2 DEF State
<1>4. record(after) = content
  <2>1. record(after) = [spec |-> content.spec, status |-> content.status]
    <3> HIDE DEF after
    <3> QED BY <1>3 DEF record
  <2> QED BY <2>1 DEF Content
<1>5. objects = [st.objects EXCEPT ![u].spec = content.spec, ![u].status = content.status]
  BY <1>1
<1>6. commit(st, u, content) = t
  <2>1. set = [st EXCEPT !.objects[u].spec = content.spec, !.objects[u].status = content.status]
    BY <1>5 DEF Store
  <2>2. set.objects[u] = after
    <3> HIDE DEF after
    <3> QED BY <1>1 DEF Store
  <2> HIDE DEF after, set
  <2>3. t = Mirror(set, [call |-> "PutObject", uid |-> u, record |-> record(set.objects[u])])
    BY <2>2
  <2> QED BY <2>1, <2>3 DEF commit
<1>14. call = [call |-> "PutObject", uid |-> u, record |-> content]
  BY <1>4
<1> HIDE DEF after
<1>7. objects \in [Uids -> State \cup {Gone}]
  BY <1>1, <1>3
<1>8. objects[u] = after /\ \A o \in Uids : o # u => objects[o] = st.objects[o]
  BY <1>1
<1> HIDE DEF objects
<1>9. set \in Store
  BY <1>7 DEF Store
<1>10. call \in PersisterCall
  BY <1>4 DEF PersisterCall
<1> HIDE DEF call
<1>11. t \in Store /\ t = [set EXCEPT !.out = t.out] /\ t.out = Called(set.out, call)
  <2> HIDE DEF set
  <2> QED BY <1>9, <1>10, MirrorIs
<1> HIDE DEF t
<1>12. /\ t.perObject = st.perObject /\ t.seq = st.seq /\ t.generation = st.generation
       /\ t.entries = st.entries /\ t.bytes = st.bytes /\ t.evicted = st.evicted
       /\ t.objects = objects /\ t.out = Called(st.out, call)
  BY <1>11 DEF Store
<1>13. Known(t) = [Known(st) EXCEPT ![u] = content]
  <2>1. ASSUME NEW o \in Uids PROVE Known(t)[o] = [Known(st) EXCEPT ![u] = content][o]
    <3>1. CASE o = u
      <4>1. after # Gone
        BY <1>3, GoneAssumption
      <4>2. Known(t)[u] = content
        BY <4>1, <1>4, <1>8, <1>12 DEF Known
      <4> QED BY <3>1, <4>2 DEF Known
    <3>2. CASE o # u
      <4>1. t.objects[o] = st.objects[o]
        BY <3>2, <1>8, <1>12
      <4> QED BY <3>2, <4>1 DEF Known
    <3> QED BY <3>1, <3>2
  <2> QED BY <2>1 DEF Known
<1> QED BY <1>5, <1>6, <1>11, <1>12, <1>13, <1>14 DEF Committed

\* A transition that is retained, then committed.
LEMMA TransitionRecords ==
  ASSUME NEW st \in Store, NEW u \in Uids, st.objects[u] # Gone,
         NEW change \in Changes, NEW gap \in BOOLEAN, NEW content \in Content
  PROVE  Recorded(st, commit(append(st, u, change, gap, content), u, content), u, content)
<1> DEFINE a == append(st, u, change, gap, content)
<1>1. /\ a \in Store /\ a.perObject = st.perObject /\ a.generation = st.generation + 1
      /\ Known(a) = Known(st) /\ (Honest(st) => Honest(a))
  BY AppendRecords
<1> HIDE DEF a
<1>2. a.objects[u] # Gone
  <2>1. Known(st)[u] # Gone
    <3>1. st.objects[u] \in State
      BY DEF Store
    <3> QED BY <3>1, StateParts DEF Known
  <2>2. Known(a)[u] # Gone
    BY <1>1, <2>1
  <2> QED BY <2>2 DEF Known
<1> DEFINE t == commit(a, u, content)
<1>3. /\ t \in Store /\ t.perObject = a.perObject /\ t.seq = a.seq /\ t.generation = a.generation
      /\ t.entries = a.entries /\ t.evicted = a.evicted
      /\ Known(t) = [Known(a) EXCEPT ![u] = content]
  <2>1. Committed(a, t, u, content)
    BY <1>1, <1>2, CommitIs
  <2> HIDE DEF t
  <2> QED BY <2>1 DEF Committed
<1> HIDE DEF t
<1>4. st.generation \in Nat
  BY DEF Store
<1>5. Tells(st, t)
  BY <1>1, <1>3, <1>4 DEF Tells
<1>6. Honest(st) => Honest(t)
  BY <1>1, <1>3 DEF Honest
<1> QED BY <1>1, <1>3, <1>5, <1>6 DEF Recorded, t, a

\* The coalescing target is a position of the timeline.
LEMMA TargetIs ==
  ASSUME NEW st \in Store, NEW u \in Uids, target(st, u) # 0
  PROVE  /\ target(st, u) \in 1..Len(st.entries)
         /\ st.entries[target(st, u)].seq = st.objects[u].last
         /\ st.entries[target(st, u)].change = "status"
<1> DEFINE ts == {i \in DOMAIN st.entries : /\ st.entries[i].seq = st.objects[u].last
                                            /\ st.entries[i].change = "status"}
<1>1. ts # {} /\ target(st, u) = CHOOSE i \in ts : TRUE
  BY DEF target
<1>2. target(st, u) \in ts
  BY <1>1
<1>3. DOMAIN st.entries = 1..Len(st.entries)
  BY DEF Store
<1> QED BY <1>2, <1>3

\* The status of a retained revision, rewritten.
Rewritten(rev, content) == [rev EXCEPT !.content.status = content.status]

\* p is s with the i-th revision rewritten to content, before the bounds are enforced.
Coalesced(s, p, i, u, content) ==
    /\ p \in Store
    /\ p.perObject = s.perObject /\ p.seq = s.seq /\ p.generation = s.generation + 1
    /\ p.entries = [s.entries EXCEPT ![i] = Rewritten(s.entries[i], content)]
    /\ p.bytes = s.bytes - revisionSize(s.entries[i])
                     + revisionSize(Rewritten(s.entries[i], content))
    /\ p.evicted = s.evicted
    /\ p.objects = [s.objects EXCEPT ![u].spec = content.spec, ![u].status = content.status]
    /\ Known(p) = [Known(s) EXCEPT ![u] = content]
    /\ p.out = Called(Called(s.out, [call |-> "Update", rev |-> Rewritten(s.entries[i], content)]),
                      [call |-> "PutObject", uid |-> u, record |-> content])

LEMMA CoalesceIs ==
  ASSUME NEW st \in Store, NEW u \in Uids, st.objects[u] # Gone, target(st, u) # 0,
         NEW content \in Content
  PROVE  \E p : /\ Coalesced(st, p, target(st, u), u, content)
                /\ coalesce(st, u, content) = enforceBounds(p)
<1> DEFINE i == target(st, u)
           rev == st.entries[i]
           last == Rewritten(rev, content)
           entries == [st.entries EXCEPT ![i] = last]
           bytes == st.bytes - revisionSize(rev) + revisionSize(last)
           set == [st EXCEPT !.entries = entries, !.bytes = bytes]
           call == [call |-> "Update", rev |-> last]
           told == Mirror(set, call)
           put == commit(told, u, content)
           p == [put EXCEPT !.generation = @ + 1]
<1>1. i \in 1..Len(st.entries)
  BY TargetIs
<1>2. st.entries \in Seq(Revision) /\ st.bytes \in Int /\ st.generation \in Nat
  BY DEF Store
<1>3. coalesce(st, u, content) = enforceBounds(p)
  <2>1. set = [st EXCEPT !.entries[i] = last,
                         !.bytes = @ - revisionSize(rev) + revisionSize(last)]
    <3> HIDE DEF i, rev, last
    <3> QED BY DEF Store
  <2>2. p = [put EXCEPT !.generation = @ + 1]
    OBVIOUS
  <2> HIDE DEF p, set
  <2>3. put = commit(Mirror([st EXCEPT !.entries[i] = last,
                         !.bytes = @ - revisionSize(rev) + revisionSize(last)], call), u, content)
    BY <2>1
  <2> QED BY <2>2, <2>3 DEF coalesce, Rewritten
<1>4. rev \in Revision
  BY <1>1, <1>2
<1>5. last \in Revision
  <2> HIDE DEF rev
  <2>1. rev.content \in Content /\ content.status \in 0..1
    BY <1>4 DEF Revision, Content
  <2>2. [rev.content EXCEPT !.status = content.status] \in Content
    BY <2>1 DEF Content
  <2> QED BY <1>4, <2>1, <2>2 DEF Rewritten, Revision
<1>6. revisionSize(rev) \in Nat /\ revisionSize(last) \in Nat
  BY <1>4, <1>5, RevisionParts
<1> HIDE DEF last
<1>7. entries \in Seq(Revision) /\ bytes \in Int
  BY <1>1, <1>2, <1>5, <1>6, ExceptSeq
<1> HIDE DEF entries, bytes
<1>8. set \in Store
  BY <1>7 DEF Store
<1>9. call \in PersisterCall
  BY <1>5 DEF PersisterCall
<1> HIDE DEF call
<1>10. told \in Store /\ told = [set EXCEPT !.out = told.out] /\ told.out = Called(set.out, call)
  <2> HIDE DEF set
  <2> QED BY <1>8, <1>9, MirrorIs
<1> HIDE DEF told
<1>11. /\ told.perObject = st.perObject /\ told.seq = st.seq
       /\ told.generation = st.generation /\ told.objects = st.objects
       /\ told.entries = entries /\ told.bytes = bytes /\ told.evicted = st.evicted
       /\ told.out = Called(st.out, call)
  BY <1>10 DEF Store
<1>12. Committed(told, put, u, content)
  BY <1>10, <1>11, CommitIs
<1> HIDE DEF put
<1>13. put \in Store
  BY <1>12 DEF Committed
<1>14. p \in Store
  <2>1. put.generation + 1 \in Nat
    BY <1>13 DEF Store
  <2> QED BY <1>13, <2>1 DEF Store
<1>15. /\ p.perObject = put.perObject /\ p.seq = put.seq
       /\ p.generation = put.generation + 1 /\ p.objects = put.objects
       /\ p.entries = put.entries /\ p.bytes = put.bytes /\ p.evicted = put.evicted
       /\ p.out = put.out
  BY <1>13 DEF Store
<1> HIDE DEF p
<1>16. Known(p) = Known(put) /\ Known(told) = Known(st)
  BY <1>11, <1>15 DEF Known
<1>18. put.out = Called(told.out, [call |-> "PutObject", uid |-> u, record |-> content])
  BY <1>12 DEF Committed
<1>19. p.out = Called(Called(st.out, [call |-> "Update", rev |-> last]),
                      [call |-> "PutObject", uid |-> u, record |-> content])
  BY <1>11, <1>15, <1>18 DEF call
<1>17. Coalesced(st, p, i, u, content)
  <2> HIDE DEF i, rev
  <2> QED BY <1>11, <1>12, <1>14, <1>15, <1>16, <1>19 DEF Committed, Coalesced, entries, bytes, last, rev
<1> QED BY <1>3, <1>17

LEMMA CoalesceRecords ==
  ASSUME NEW st \in Store, NEW u \in Uids, st.objects[u] # Gone, target(st, u) # 0,
         NEW content \in Content
  PROVE  Recorded(st, coalesce(st, u, content), u, content)
<1> DEFINE i == target(st, u)
           t == coalesce(st, u, content)
<1>1. PICK p : Coalesced(st, p, i, u, content) /\ t = enforceBounds(p)
  BY CoalesceIs
<1>2. i \in 1..Len(st.entries)
  BY TargetIs
<1>3. Trimmed(p, t)
  BY <1>1, EnforceBoundsTrims DEF Coalesced
<1> HIDE DEF t, i
<1>4. st.generation \in Nat /\ st.entries \in Seq(Revision)
  BY DEF Store
<1>5. Honest(st) => Honest(p)
  <2>1. /\ DOMAIN p.entries = DOMAIN st.entries
        /\ \A j \in DOMAIN st.entries : p.entries[j].seq = st.entries[j].seq
    <3>1. p.entries = [st.entries EXCEPT ![i] = Rewritten(st.entries[i], content)]
      BY <1>1 DEF Coalesced
    <3>2. Rewritten(st.entries[i], content).seq = st.entries[i].seq
      <4>1. st.entries[i] \in Revision
        BY <1>2, <1>4
      <4> QED BY <4>1 DEF Rewritten, Revision
    <3> QED BY <3>1, <3>2, <1>4
  <2> QED BY <2>1, <1>1 DEF Coalesced, Honest
<1>6. Tells(st, t)
  BY <1>1, <1>3, <1>4 DEF Coalesced, Trimmed, Tells
<1>7. Honest(st) => Honest(t)
  BY <1>3, <1>5, TrimmedIsHonest
<1> QED BY <1>1, <1>3, <1>6, <1>7 DEF Coalesced, Trimmed, Recorded, t

\* An object observed for the first time is kept before its birth is retained.
LEMMA BirthRecords ==
  ASSUME NEW st \in Store, NEW u \in Uids, NEW change \in Changes, NEW content \in Content
  PROVE  LET fresh == [spec |-> content.spec, status |-> content.status, count |-> 0, last |-> 0]
             base == [st EXCEPT !.objects[u] = fresh]
         IN  Recorded(st, commit(append(base, u, change, FALSE, content), u, content), u, content)
<1> DEFINE fresh == [spec |-> content.spec, status |-> content.status, count |-> 0, last |-> 0]
           base == [st EXCEPT !.objects[u] = fresh]
           t == commit(append(base, u, change, FALSE, content), u, content)
<1>1. fresh \in State /\ fresh # Gone
  <2>1. fresh \in State
    BY DEF State, Content
  <2> QED BY <2>1, GoneAssumption
<1> HIDE DEF fresh
<1>2. st.objects \in [Uids -> State \cup {Gone}]
  BY DEF Store
<1>3. base \in Store /\ base.objects[u] # Gone
  BY <1>1, <1>2 DEF Store
<1>4. /\ base.perObject = st.perObject /\ base.seq = st.seq
      /\ base.generation = st.generation
      /\ base.entries = st.entries /\ base.evicted = st.evicted
      /\ \A o \in Uids : o # u => base.objects[o] = st.objects[o]
  BY <1>2 DEF Store
<1> HIDE DEF base
<1>5. Recorded(base, t, u, content)
  BY <1>3, TransitionRecords
<1> HIDE DEF t
<1>6. [Known(base) EXCEPT ![u] = content] = [Known(st) EXCEPT ![u] = content]
  BY <1>4 DEF Known
<1>7. Recorded(st, t, u, content)
  BY <1>4, <1>5, <1>6 DEF Recorded, Tells, Honest
<1> QED BY <1>7 DEF t, base, fresh

\* observe leaves the store knowing the object as observed, whatever it knew.
LEMMA ObserveRecords ==
  ASSUME NEW st \in Store, NEW u \in Uids, NEW content \in Content,
         NEW seed \in BOOLEAN, NEW within \in BOOLEAN
  PROVE  Recorded(st, observe(st, u, content, seed, within), u, content)
<1> DEFINE state == st.objects[u]
           fresh == [spec |-> content.spec, status |-> content.status, count |-> 0, last |-> 0]
           base == [st EXCEPT !.objects[u] = fresh]
           birth == IF seed THEN "first-observed" ELSE "created"
           change == IF content.spec # state.spec THEN "spec" ELSE "status"
           t == observe(st, u, content, seed, within)
<1>1. CASE state = Gone
  <2>1. t = commit(append(base, u, birth, FALSE, content), u, content)
    BY <1>1 DEF observe
  <2>2. birth \in Changes
    BY DEF Changes
  <2> HIDE DEF birth
  <2> QED BY <2>1, <2>2, BirthRecords
<1>2. CASE state # Gone /\ record(state) = content
  <2> DEFINE call == [call |-> "PutObject", uid |-> u, record |-> content]
  <2>1. t = Mirror(st, call)
    BY <1>2 DEF observe
  <2>2. call \in PersisterCall
    BY DEF PersisterCall
  <2> HIDE DEF call, t
  <2>3. t \in Store /\ t = [st EXCEPT !.out = t.out]
    BY <2>1, <2>2, MirrorIs
  <2>4. /\ t.perObject = st.perObject /\ t.seq = st.seq /\ t.generation = st.generation
        /\ t.entries = st.entries /\ t.evicted = st.evicted /\ t.objects = st.objects
    BY <2>3 DEF Store
  <2>5. Known(t) = [Known(st) EXCEPT ![u] = content]
    BY <1>2, <2>4 DEF Known
  <2>6. Tells(st, t) /\ (Honest(st) => Honest(t))
    <3>1. st.generation \in Nat
      BY DEF Store
    <3> QED BY <3>1, <2>4 DEF Tells, Honest
  <2>7. Recorded(st, t, u, content)
    BY <2>3, <2>4, <2>5, <2>6 DEF Recorded
  <2> QED BY <2>7 DEF t
<1>3. CASE /\ state # Gone /\ record(state) # content /\ change = "status"
           /\ ~seed /\ within /\ target(st, u) # 0
  <2>1. t = coalesce(st, u, content)
    BY <1>3 DEF observe
  <2> HIDE DEF t
  <2>2. Recorded(st, t, u, content)
    BY <1>3, <2>1, CoalesceRecords
  <2> QED BY <2>2 DEF t
<1>4. CASE /\ state # Gone /\ record(state) # content
           /\ ~(change = "status" /\ ~seed /\ within /\ target(st, u) # 0)
  <2>1. t = commit(append(st, u, change, seed, content), u, content)
    BY <1>4 DEF observe
  <2>2. change \in Changes
    BY DEF Changes
  <2> HIDE DEF t, change
  <2>3. Recorded(st, t, u, content)
    BY <1>4, <2>1, <2>2, TransitionRecords
  <2> QED BY <2>3 DEF t
<1> QED BY <1>1, <1>2, <1>3, <1>4

\* delete leaves the store without the object.
LEMMA DeleteRecords ==
  ASSUME NEW st \in Store, NEW u \in Uids, NEW change \in Deletions
  PROVE  Recorded(st, delete(st, u, change), u, Gone)
<1> DEFINE state == st.objects[u]
           t == delete(st, u, change)
<1>1. CASE state = Gone
  <2>1. t = st
    BY <1>1 DEF delete
  <2>2. Known(st) = [Known(st) EXCEPT ![u] = Gone]
    BY <1>1 DEF Known
  <2>3. st.generation \in Nat
    BY DEF Store
  <2> HIDE DEF t
  <2>4. Recorded(st, t, u, Gone)
    BY <2>1, <2>2, <2>3 DEF Recorded, Tells
  <2> QED BY <2>4 DEF t
<1>2. CASE state # Gone
  <2> DEFINE gap == change = "deleted-unobserved"
             a == append(st, u, change, gap, record(state))
             b == [a EXCEPT !.objects[u] = Gone]
             call == [call |-> "DeleteObject", uid |-> u]
  <2>1. t = Mirror(b, call)
    BY <1>2 DEF delete, forget
  <2>2. record(state) \in Content /\ change \in Changes /\ gap \in BOOLEAN
    <3>1. state \in State
      BY <1>2 DEF Store
    <3> QED BY <3>1, StateParts DEF Changes, Deletions
  <2> HIDE DEF gap
  <2>3. /\ a \in Store /\ a.perObject = st.perObject /\ a.generation = st.generation + 1
        /\ Known(a) = Known(st) /\ (Honest(st) => Honest(a))
    BY <1>2, <2>2, AppendRecords
  <2> HIDE DEF a
  <2>4. call \in PersisterCall
    BY DEF PersisterCall
  <2>5. a.objects \in [Uids -> State \cup {Gone}]
    BY <2>3 DEF Store
  <2>6. b \in Store
    BY <2>3, <2>5 DEF Store
  <2> HIDE DEF t, b, call
  <2>7. t \in Store /\ t = [b EXCEPT !.out = t.out]
    BY <2>1, <2>4, <2>6, MirrorIs
  <2> USE DEF b
  <2>8. /\ t.perObject = a.perObject /\ t.seq = a.seq /\ t.generation = a.generation
        /\ t.entries = a.entries /\ t.evicted = a.evicted
        /\ t.objects = [a.objects EXCEPT ![u] = Gone]
    BY <2>3, <2>7 DEF Store
  <2> HIDE DEF b
  <2>9. Known(t) = [Known(a) EXCEPT ![u] = Gone]
    BY <2>5, <2>8 DEF Known
  <2>10. Tells(st, t) /\ (Honest(st) => Honest(t))
    <3>1. st.generation \in Nat
      BY DEF Store
    <3> QED BY <3>1, <2>3, <2>8 DEF Tells, Honest
  <2>11. Recorded(st, t, u, Gone)
    BY <2>3, <2>7, <2>8, <2>9, <2>10 DEF Recorded
  <2> QED BY <2>11 DEF t
<1> QED BY <1>1, <1>2

-----------------------------------------------------------------------------
(* What the store derives, through observations and deletions.               *)

\* t derives what it should, and retains of no other object than u more than s.
Spread(s, t, u, X) ==
    /\ Sound(t, X)
    /\ \A o \in Uids : o # u => Oldest(Revs(s, o), Revs(t, o))

\* Committing what the newest revision says.
LEMMA CommitIsSound ==
  ASSUME NEW X, NEW st \in Store, Kept(st, X), Bounded(st, X), NEW u \in Uids, st.objects[u] # Gone,
         NEW content \in Content, Speaks(Revs(st, u), content),
         \A o \in Uids : o # u /\ Known(st)[o] # Gone => Speaks(Revs(st, o), Known(st)[o])
  PROVE  Sound(commit(st, u, content), X) /\ \A o \in Uids : Revs(commit(st, u, content), o) = Revs(st, o)
<1> DEFINE t == commit(st, u, content)
<1>1. Committed(st, t, u, content)
  BY CommitIs
<1> HIDE DEF t
<1>2. /\ t \in Store /\ t.perObject = st.perObject /\ t.seq = st.seq
      /\ t.entries = st.entries /\ t.bytes = st.bytes
      /\ t.objects = [st.objects EXCEPT ![u].spec = content.spec, ![u].status = content.status]
      /\ Known(t) = [Known(st) EXCEPT ![u] = content]
  BY <1>1 DEF Committed
<1>3. \A o \in Uids : Revs(t, o) = Revs(st, o)
  BY <1>2 DEF Revs
<1>4. ASSUME NEW o \in Uids, t.objects[o] # Gone PROVE Figures(Revs(t, o), t.objects[o], o, X)
  <2>1. st.objects \in [Uids -> State \cup {Gone}]
    BY DEF Store
  <2>2. CASE o # u
    <3>1. t.objects[o] = st.objects[o]
      BY <1>2, <2>1, <2>2
    <3> QED BY <3>1, <1>3, <1>4 DEF Kept
  <2>3. CASE o = u
    <3> DEFINE state == st.objects[u]
    <3>1. /\ state \in State
          /\ t.objects[u] = [state EXCEPT !.spec = content.spec, !.status = content.status]
      BY <1>2, <2>1
    <3>2. Figures(Revs(st, u), state, u, X)
      BY DEF Kept
    <3> HIDE DEF state
    <3>3. t.objects[u].count = state.count /\ t.objects[u].last = state.last
      BY <3>1 DEF State
    <3>4. Figures(Revs(st, u), t.objects[u], u, X)
      BY <3>2, <3>3 DEF Figures
    <3> QED BY <2>3, <3>4, <1>3
  <2> QED BY <2>2, <2>3
<1>5. Kept(t, X)
  <2>1. \A o \in Uids : Life(Revs(t, o), X)
    BY <1>3 DEF Kept
  <2> QED BY <2>1, <1>2, <1>4 DEF Kept
<1>6. Bounded(t, X)
  BY <1>2, <1>3 DEF Bounded, Fits, Within
<1>7. ASSUME NEW o \in Uids, Known(t)[o] # Gone PROVE Speaks(Revs(t, o), Known(t)[o])
  <2>1. CASE o = u
    <3>1. Known(t)[u] = content
      BY <1>2 DEF Known
    <3> QED BY <2>1, <3>1, <1>3
  <2>2. CASE o # u
    <3>1. Known(t)[o] = Known(st)[o]
      BY <2>2, <1>2 DEF Known
    <3> QED BY <2>2, <3>1, <1>3, <1>7
  <2> QED BY <2>1, <2>2
<1> QED BY <1>3, <1>5, <1>6, <1>7 DEF Sound, t

\* A change that may follow the object's newest revision is retained, and committed.
LEMMA TransitionIsSound ==
  ASSUME NEW X, NEW st \in Store, Kept(st, X), Bounded(st, X), NEW u \in Uids,
         st.objects[u] # Gone,
         \A o \in Uids : o # u /\ Known(st)[o] # Gone => Speaks(Revs(st, o), Known(st)[o]),
         NEW change \in Changes \ Deletions, NEW gap \in BOOLEAN, NEW content \in Content,
         \A r \in Revs(st, u) : Newest(Revs(st, u), r) =>
             Coherent(r, NewRevision(st, u, change, gap, content), X)
  PROVE  Spread(st, commit(append(st, u, change, gap, content), u, content), u, X)
<1> DEFINE a == append(st, u, change, gap, content)
<1>1. /\ a \in Store /\ Kept(a, X) /\ Bounded(a, X)
      /\ \A o \in Uids : o # u => Oldest(Revs(st, o), Revs(a, o))
      /\ change \notin Deletions => Speaks(Revs(a, u), content)
  <2>1. \A o \in Uids \ X : Within(st, o)
    BY DEF Bounded
  <2> QED BY <2>1, AppendKeeps
<1>2. Known(a) = Known(st)
  BY AppendRecords
<1> HIDE DEF a
<1>3. a.objects[u] # Gone
  <2>1. st.objects[u] \in State
    BY DEF Store
  <2>2. Known(st)[u] # Gone
    BY <2>1, StateParts DEF Known
  <2>3. Known(a)[u] # Gone
    BY <2>2, <1>2
  <2> QED BY <2>3 DEF Known
<1>4. ASSUME NEW o \in Uids, o # u, Known(a)[o] # Gone PROVE Speaks(Revs(a, o), Known(a)[o])
  <2>1. Speaks(Revs(st, o), Known(st)[o])
    BY <1>2, <1>4
  <2>2. Distinct(Revs(st, o))
    BY RevsAre DEF Kept
  <2>3. Oldest(Revs(st, o), Revs(a, o))
    BY <1>1, <1>4
  <2> QED BY <2>1, <2>2, <2>3, <1>2, LifeWithoutOldest
<1> DEFINE t == commit(a, u, content)
<1>5. Sound(t, X) /\ \A o \in Uids : Revs(t, o) = Revs(a, o)
  BY <1>1, <1>3, <1>4, CommitIsSound
<1> HIDE DEF t
<1>6. \A o \in Uids : o # u => Oldest(Revs(st, o), Revs(t, o))
  BY <1>1, <1>5
<1> QED BY <1>5, <1>6 DEF Spread, t, a

\* The coalescing target is the object's newest revision, a status change: rewritten
\* to what is observed.
LEMMA CoalesceIsSound ==
  ASSUME NEW X, NEW st \in Store, Sound(st, X), NEW u \in Uids, st.objects[u] # Gone, target(st, u) # 0,
         NEW content \in Content, content.spec = st.objects[u].spec
  PROVE  Spread(st, coalesce(st, u, content), u, X)
<1> DEFINE i == target(st, u)
           e == st.entries
           rev == e[i]
           new == Rewritten(rev, content)
           t == coalesce(st, u, content)
           state == st.objects[u]
           S == Revs(st, u)
<1>1. PICK p : Coalesced(st, p, i, u, content) /\ t = enforceBounds(p)
  BY CoalesceIs
<1>2. i \in 1..Len(e) /\ rev.seq = state.last /\ rev.change = "status"
  BY TargetIs
<1>3. /\ e \in Seq(Revision) /\ state \in State /\ Kept(st, X) /\ Bounded(st, X)
      /\ st.objects \in [Uids -> State \cup {Gone}]
  BY DEF Store, Sound
<1>4. rev \in Revision /\ rev \in Elems(e) /\ rev.seq \in Nat \ {0}
  BY <1>2, <1>3, RevisionParts DEF Elems
<1> HIDE DEF t, i
<1>5. Newest(S, rev) /\ Distinct(S) /\ Life(S, X) /\ IsFiniteSet(S)
  <2>1. PICK r \in S : r.seq = state.last /\ Newest(S, r)
    BY <1>2, <1>3, <1>4 DEF Kept, Figures
  <2>2. r \in Elems(e) /\ Ascends(e)
    BY <1>3 DEF Revs, Kept
  <2>3. r = rev
    <3> HIDE DEF rev, e, S, state
    <3> QED BY <2>1, <2>2, <1>2, <1>3, <1>4, OneEach
  <2> QED BY <2>1, <2>2, <2>3, <1>3, RevsAre DEF Kept
<1>6. rev.uid = u
  BY <1>5 DEF Newest, Revs
<1>7. rev.content = record(state)
  <2>1. Known(st)[u] = record(state) /\ Known(st)[u] # Gone
    BY <1>3, StateParts DEF Known
  <2> QED BY <2>1, <1>5 DEF Sound, Speaks, Newest
<1>8. /\ new \in Revision /\ new.seq = rev.seq /\ new.uid = u /\ new.change = "status"
      /\ new.content = content
  <2> DEFINE c == [rev.content EXCEPT !.status = content.status]
  <2>1. c = content
    <3>1. rev.content.spec = content.spec /\ rev.content \in Content
      BY <1>3, <1>7, StateParts
    <3> QED BY <3>1 DEF Content
  <2>2. new = [rev EXCEPT !.content = c]
    BY <1>4 DEF Rewritten, Revision
  <2> HIDE DEF c, new, rev
  <2> QED BY <2>1, <2>2, <1>2, <1>4, <1>6 DEF Revision
<1>9. new.content.spec = rev.content.spec
  BY <1>3, <1>7, <1>8, StateParts
<1> HIDE DEF new, state
<1>10. /\ p \in Store /\ p.perObject = st.perObject /\ p.seq = st.seq
       /\ p.entries = [e EXCEPT ![i] = new]
       /\ p.bytes = st.bytes - revisionSize(rev) + revisionSize(new)
       /\ p.objects = [st.objects EXCEPT ![u].spec = content.spec, ![u].status = content.status]
       /\ Known(p) = [Known(st) EXCEPT ![u] = content]
  BY <1>1 DEF Coalesced, new
<1>11. /\ Ascends(p.entries) /\ Elems(p.entries) = (Elems(e) \ {rev}) \cup {new}
       /\ Len(p.entries) = Len(e)
  <2>1. Ascends(e) /\ new.seq = e[i].seq
    BY <1>3, <1>8 DEF Kept
  <2>2. Len([e EXCEPT ![i] = new]) = Len(e)
    BY <1>2, <1>3
  <2>3. Ascends([e EXCEPT ![i] = new]) /\ Elems([e EXCEPT ![i] = new]) = (Elems(e) \ {e[i]}) \cup {new}
    <3>1. e \in Seq(Revision) /\ i \in 1..Len(e) /\ new \in Revision
      BY <1>2, <1>3, <1>8
    <3> HIDE DEF e
    <3> QED BY <2>1, <3>1, WithOneRewritten
  <2> QED BY <2>2, <2>3, <1>10
<1>12. Sums(p.entries, p.bytes)
  BY <1>2, <1>3, <1>8, <1>10, SumWithOneRewritten DEF Kept
<1>13. Revs(p, u) = (S \ {rev}) \cup {new} /\ \A o \in Uids : o # u => Revs(p, o) = Revs(st, o)
  BY <1>6, <1>8, <1>11 DEF Revs
<1> DEFINE T == (S \ {rev}) \cup {new}
<1>14. Life(T, X) /\ Newest(T, new) /\ \A r : Newest(T, r) => r = new
  <2>1. new.seq = rev.seq /\ new.change = "status" /\ rev.change = "status" /\ new \in Revision
    BY <1>2, <1>8
  <2> HIDE DEF S, rev
  <2> QED BY <2>1, <1>5, <1>9, LifeRewritten, ZenonT(60)
<1>15. Cardinality(T) = Cardinality(S)
  <2>1. rev \in S /\ Cardinality(S) \in Nat
    BY <1>5, FS_CardinalityType DEF Newest
  <2>2. IsFiniteSet(S \ {rev}) /\ Cardinality(S \ {rev}) = Cardinality(S) - 1
    BY <2>1, <1>5, FS_RemoveElement
  <2>3. new \notin S \ {rev}
    BY <1>8, <2>1, <1>5 DEF Distinct
  <2>4. Cardinality(T) = Cardinality(S \ {rev}) + 1
    BY <2>2, <2>3, FS_AddElement
  <2> QED BY <2>1, <2>2, <2>4
<1> HIDE DEF T, S, e, rev
<1>16. ASSUME NEW o \in Uids, p.objects[o] # Gone PROVE Figures(Revs(p, o), p.objects[o], o, X)
  <2>1. CASE o # u
    <3>1. p.objects[o] = st.objects[o]
      BY <2>1, <1>3, <1>10
    <3> QED BY <2>1, <3>1, <1>3, <1>13, <1>16 DEF Kept
  <2>2. CASE o = u
    <3>1. /\ state \in State
          /\ p.objects[u] = [state EXCEPT !.spec = content.spec, !.status = content.status]
      BY <1>3, <1>10 DEF state
    <3>2. p.objects[u].count = state.count /\ p.objects[u].last = state.last
      BY <3>1 DEF State
    <3>3. Figures(S, state, u, X)
      BY <1>3 DEF Kept, S, state
    <3>4. new \in T
      BY DEF T
    <3>5. Figures(T, p.objects[u], u, X)
      BY <3>2, <3>3, <3>4, <1>2, <1>8, <1>14, <1>15 DEF Figures
    <3> QED BY <2>2, <3>5, <1>13 DEF T
  <2> QED BY <2>1, <2>2
<1>17. Kept(p, X)
  <2>1. \A o \in Uids : Life(Revs(p, o), X)
    BY <1>3, <1>13, <1>14 DEF Kept, T
  <2>2. \A r \in Elems(p.entries) : r.seq <= p.seq
    BY <1>3, <1>4, <1>8, <1>10, <1>11 DEF Kept, e
  <2> QED BY <2>1, <2>2, <1>11, <1>12, <1>16 DEF Kept
<1>18. \A o \in Uids \ X : Within(p, o)
  BY <1>3, <1>10, <1>13, <1>15 DEF Bounded, Within, S, T
<1>19. Shrunk(p, t, X) /\ Fits(t)
  BY <1>1, <1>10, <1>17, EnforceBoundsShrinks
<1>20. t \in Store /\ Kept(t, X) /\ Known(t) = Known(p)
  BY <1>19 DEF Shrunk, Trimmed
<1>21. Bounded(t, X)
  <2>1. \A o \in Uids \ X : Within(t, o)
    BY <1>10, <1>17, <1>18, <1>19, ShrunkIsWithin DEF Kept
  <2> QED BY <2>1, <1>19 DEF Bounded
<1>22. ASSUME NEW o \in Uids, Known(t)[o] # Gone PROVE Speaks(Revs(t, o), Known(t)[o])
  <2>1. Speaks(Revs(p, o), Known(p)[o])
    <3>1. CASE o = u
      <4>1. Known(p)[u] = content
        BY <1>10 DEF Known
      <4>2. Speaks(T, content)
        BY <1>8, <1>14 DEF Speaks, Deletions
      <4> QED BY <3>1, <4>1, <4>2, <1>13 DEF T
    <3>2. CASE o # u
      <4>1. Known(p)[o] = Known(st)[o]
        BY <3>2, <1>10 DEF Known
      <4> QED BY <3>2, <4>1, <1>13, <1>20, <1>22 DEF Sound
    <3> QED BY <3>1, <3>2
  <2>2. Distinct(Revs(p, o)) /\ Oldest(Revs(p, o), Revs(t, o))
    BY <1>10, <1>17, <1>19, RevsAre DEF Shrunk, Kept
  <2> QED BY <2>1, <2>2, <1>20, LifeWithoutOldest
<1>23. \A o \in Uids : o # u => Oldest(Revs(st, o), Revs(t, o))
  BY <1>13, <1>19 DEF Shrunk
<1>24. Sound(t, X)
  BY <1>20, <1>21, <1>22 DEF Sound
<1> QED BY <1>23, <1>24 DEF Spread, t

\* The objects the store knows or has revisions of; those it knows no more, and may not
\* know again, given that those of X may come back from a death that was not observed.
Heard(st) == {u \in Uids : Known(st)[u] # Gone \/ Revs(st, u) # {}}
Buried(st, X) ==
    {u \in Uids : /\ Known(st)[u] = Gone /\ Revs(st, u) # {}
                  /\ u \in X => ~Unseen(Revs(st, u))}

\* A birth: the object has no revision yet, or is one of X and none since a death that
\* was not observed.
LEMMA BirthIsSound ==
  ASSUME NEW X, NEW st \in Store, Sound(st, X), NEW u \in Uids, Revs(st, u) = {} \/ u \in X, Unseen(Revs(st, u)),
         NEW change \in Births, NEW content \in Content
  PROVE  LET fresh == [spec |-> content.spec, status |-> content.status, count |-> 0, last |-> 0]
             base == [st EXCEPT !.objects[u] = fresh]
         IN  Spread(st, commit(append(base, u, change, FALSE, content), u, content), u, X)
<1> DEFINE fresh == [spec |-> content.spec, status |-> content.status, count |-> 0, last |-> 0]
           base == [st EXCEPT !.objects[u] = fresh]
           t == commit(append(base, u, change, FALSE, content), u, content)
<1>1. fresh \in State /\ fresh # Gone /\ fresh.count = 0 /\ fresh.last = 0
  <2>1. fresh \in State
    BY DEF State, Content
  <2> QED BY <2>1, GoneAssumption
<1> HIDE DEF fresh
<1>2. st.objects \in [Uids -> State \cup {Gone}]
  BY DEF Store
<1>3. base \in Store /\ base.objects[u] = fresh
  BY <1>1, <1>2 DEF Store
<1>4. /\ base.perObject = st.perObject /\ base.seq = st.seq /\ base.bytes = st.bytes
      /\ base.entries = st.entries
      /\ \A o \in Uids : o # u => base.objects[o] = st.objects[o]
  BY <1>2 DEF Store
<1> HIDE DEF base
<1>5. \A o \in Uids : Revs(base, o) = Revs(st, o)
  BY <1>4 DEF Revs
<1>6. Kept(base, X)
  <2>1. ASSUME NEW o \in Uids, base.objects[o] # Gone PROVE Figures(Revs(base, o), base.objects[o], o, X)
    <3>1. CASE o = u
      <4>1. Cardinality(Revs(st, u)) \in Nat
        BY RevsAre DEF Sound, Kept
      <4>2. u \notin X => Cardinality(Revs(st, u)) = 0
        BY FS_EmptySet
      <4> QED BY <3>1, <4>1, <4>2, <1>1, <1>3, <1>5 DEF Figures
    <3>2. CASE o # u
      BY <3>2, <2>1, <1>4, <1>5 DEF Sound, Kept
    <3> QED BY <3>1, <3>2
  <2>2. \A o \in Uids : Life(Revs(base, o), X)
    BY <1>5 DEF Sound, Kept
  <2> QED BY <2>1, <2>2, <1>4 DEF Sound, Kept
<1>7. Bounded(base, X)
  BY <1>4, <1>5 DEF Sound, Bounded, Fits, Within
<1>8. ASSUME NEW o \in Uids, o # u, Known(base)[o] # Gone PROVE Speaks(Revs(base, o), Known(base)[o])
  <2>1. Known(base)[o] = Known(st)[o]
    BY <1>4, <1>8 DEF Known
  <2> QED BY <2>1, <1>5, <1>8 DEF Sound
<1>10. Spread(base, t, u, X)
  <2>1. change \in Changes \ Deletions
    BY DEF Births, Changes, Deletions
  <2>2. \A r \in Revs(base, u) : Newest(Revs(base, u), r) =>
             Coherent(r, NewRevision(base, u, change, FALSE, content), X)
    <3> SUFFICES ASSUME NEW r \in Revs(st, u), Newest(Revs(st, u), r)
                 PROVE  Coherent(r, NewRevision(base, u, change, FALSE, content), X)
      BY <1>5
    <3>1. r.change = "deleted-unobserved" /\ u \in X /\ r.uid = u
      BY DEF Unseen, Revs
    <3> QED BY <3>1 DEF Coherent, NewRevision, Births, Deletions
  <2>3. base.objects[u] # Gone
    BY <1>1, <1>3
  <2> QED BY <2>1, <2>2, <2>3, <1>3, <1>6, <1>7, <1>8, TransitionIsSound
<1> HIDE DEF t
<1>11. Spread(st, t, u, X)
  BY <1>5, <1>10 DEF Spread
<1> QED BY <1>11 DEF t, base, fresh

\* observe, of an object that the store knows, never retained, or may know again.
LEMMA ObserveIsSound ==
  ASSUME NEW X, NEW st \in Store, Sound(st, X), NEW u \in Uids, u \notin Buried(st, X),
         NEW content \in Content, NEW seed \in BOOLEAN, NEW within \in BOOLEAN
  PROVE  Spread(st, observe(st, u, content, seed, within), u, X)
<1> DEFINE state == st.objects[u]
           fresh == [spec |-> content.spec, status |-> content.status, count |-> 0, last |-> 0]
           base == [st EXCEPT !.objects[u] = fresh]
           birth == IF seed THEN "first-observed" ELSE "created"
           change == IF content.spec # state.spec THEN "spec" ELSE "status"
           t == observe(st, u, content, seed, within)
<1>1. CASE state = Gone
  <2>1. t = commit(append(base, u, birth, FALSE, content), u, content)
    BY <1>1 DEF observe
  <2>2. birth \in Births
    BY DEF Births
  <2>3. (Revs(st, u) = {} \/ u \in X) /\ Unseen(Revs(st, u))
    BY <1>1 DEF Buried, Known, Unseen
  <2> HIDE DEF birth
  <2> QED BY <2>1, <2>2, <2>3, BirthIsSound
<1>2. CASE state # Gone /\ record(state) = content
  <2> DEFINE call == [call |-> "PutObject", uid |-> u, record |-> content]
  <2>1. t = Mirror(st, call)
    BY <1>2 DEF observe
  <2>2. call \in PersisterCall
    BY DEF PersisterCall
  <2> HIDE DEF call, t
  <2>3. t \in Store /\ t = [st EXCEPT !.out = t.out]
    BY <2>1, <2>2, MirrorIs
  <2>4. /\ t.perObject = st.perObject /\ t.seq = st.seq /\ t.bytes = st.bytes
        /\ t.entries = st.entries /\ t.objects = st.objects
    BY <2>3 DEF Store
  <2>5. Known(t) = Known(st) /\ \A o \in Uids : Revs(t, o) = Revs(st, o)
    BY <2>4 DEF Known, Revs
  <2>6. Kept(t, X)
    <3>1. \A o \in Uids : Life(Revs(t, o), X) /\ (t.objects[o] # Gone => Figures(Revs(t, o), t.objects[o], o, X))
      BY <2>4, <2>5 DEF Sound, Kept
    <3> QED BY <3>1, <2>4 DEF Sound, Kept
  <2>7. Bounded(t, X)
    BY <2>4, <2>5 DEF Sound, Bounded, Fits, Within
  <2>8. Sound(t, X)
    BY <2>5, <2>6, <2>7 DEF Sound
  <2>9. Spread(st, t, u, X)
    BY <2>5, <2>8, OldestSelf DEF Spread
  <2> QED BY <2>9 DEF t
<1>3. CASE /\ state # Gone /\ record(state) # content /\ change = "status"
           /\ ~seed /\ within /\ target(st, u) # 0
  <2>1. t = coalesce(st, u, content)
    BY <1>3 DEF observe
  <2>2. content.spec = st.objects[u].spec
    BY <1>3
  <2> HIDE DEF t
  <2>3. Spread(st, t, u, X)
    BY <1>3, <2>1, <2>2, CoalesceIsSound
  <2> QED BY <2>3 DEF t
<1>4. CASE /\ state # Gone /\ record(state) # content
           /\ ~(change = "status" /\ ~seed /\ within /\ target(st, u) # 0)
  <2>1. t = commit(append(st, u, change, seed, content), u, content)
    BY <1>4 DEF observe
  <2>2. change \in Changes \ Deletions /\ change \notin Births
    BY DEF Changes, Deletions, Births
  <2>3. /\ change = "spec" => state.spec # content.spec
        /\ change = "status" => state.spec = content.spec
    OBVIOUS
  <2> HIDE DEF t, change
  <2>4. ASSUME NEW r \in Revs(st, u), Newest(Revs(st, u), r)
        PROVE  Coherent(r, NewRevision(st, u, change, seed, content), X)
    <3>1. state \in State
      BY <1>4 DEF Store
    <3>2. Known(st)[u] = record(state) /\ Known(st)[u] # Gone
      BY <3>1, StateParts DEF Known
    <3>3. r.change \notin Deletions /\ r.content = record(state)
      BY <2>4, <3>2 DEF Sound, Speaks
    <3>4. r.content.spec = state.spec
      BY <3>1, <3>3, StateParts
    <3> QED BY <2>2, <2>3, <3>3, <3>4 DEF Coherent, NewRevision, Deletions
  <2>5. Spread(st, t, u, X)
    <3> HIDE DEF state
    <3>1. st.objects[u] # Gone
      BY <1>4 DEF state
    <3> QED BY <2>1, <2>2, <2>4, <3>1, TransitionIsSound DEF Sound
  <2> QED BY <2>5 DEF t
<1> QED BY <1>1, <1>2, <1>3, <1>4

\* delete, of any object: one the store does not know leaves nothing behind.
LEMMA DeleteIsSound ==
  ASSUME NEW X, NEW st \in Store, Sound(st, X), NEW u \in Uids, NEW change \in Deletions
  PROVE  /\ Spread(st, delete(st, u, change), u, X)
         /\ Known(st)[u] = Gone => delete(st, u, change) = st
         /\ Known(st)[u] # Gone /\ change = "deleted-unobserved" =>
                Unseen(Revs(delete(st, u, change), u))
<1> DEFINE state == st.objects[u]
           t == delete(st, u, change)
<1>1. CASE state = Gone
  <2>1. t = st /\ Known(st)[u] = Gone
    BY <1>1 DEF delete, Known
  <2> QED BY <2>1, OldestSelf DEF Spread
<1>2. CASE state # Gone
  <2> DEFINE gap == change = "deleted-unobserved"
             a == append(st, u, change, gap, record(state))
             b == [a EXCEPT !.objects[u] = Gone]
             call == [call |-> "DeleteObject", uid |-> u]
  <2>1. t = Mirror(b, call)
    BY <1>2 DEF delete, forget
  <2>2. state \in State /\ record(state) \in Content /\ change \in Changes /\ gap \in BOOLEAN
    <3>1. state \in State
      BY <1>2 DEF Store
    <3> QED BY <3>1, StateParts DEF Changes, Deletions
  <2>3. Known(st)[u] = record(state) /\ Known(st)[u] # Gone
    BY <2>2, StateParts DEF Known
  <2> HIDE DEF gap
  <2>4. \A r \in Revs(st, u) : Newest(Revs(st, u), r) =>
             Coherent(r, NewRevision(st, u, change, gap, record(state)), X)
    <3> SUFFICES ASSUME NEW r \in Revs(st, u), Newest(Revs(st, u), r)
                 PROVE  Coherent(r, NewRevision(st, u, change, gap, record(state)), X)
      OBVIOUS
    <3>1. r.change \notin Deletions
      BY <2>3 DEF Sound, Speaks
    <3>2. change \notin Births /\ change # "spec" /\ change # "status"
      BY DEF Deletions, Births
    <3> QED BY <3>1, <3>2 DEF Coherent, NewRevision
  <2>5. /\ a \in Store /\ Kept(a, X) /\ Bounded(a, X)
        /\ \A o \in Uids : o # u => Oldest(Revs(st, o), Revs(a, o))
        /\ change = "deleted-unobserved" => Unseen(Revs(a, u))
    <3> HIDE DEF state
    <3>1. Kept(st, X) /\ (\A o \in Uids \ X : Within(st, o)) /\ st.objects[u] # Gone
      BY <1>2 DEF Sound, Bounded, state
    <3> QED BY <2>2, <2>4, <3>1, AppendKeeps
  <2>6. Known(a) = Known(st)
    BY <1>2, <2>2, AppendRecords
  <2> HIDE DEF a
  <2>7. call \in PersisterCall
    BY DEF PersisterCall
  <2>8. a.objects \in [Uids -> State \cup {Gone}]
    BY <2>5 DEF Store
  <2>9. b \in Store
    BY <2>5, <2>8 DEF Store
  <2> HIDE DEF t, b, call
  <2>10. t \in Store /\ t = [b EXCEPT !.out = t.out]
    BY <2>1, <2>7, <2>9, MirrorIs
  <2> USE DEF b
  <2>11. /\ t.perObject = a.perObject /\ t.seq = a.seq /\ t.bytes = a.bytes
         /\ t.entries = a.entries
         /\ t.objects = [a.objects EXCEPT ![u] = Gone]
    BY <2>5, <2>10 DEF Store
  <2> HIDE DEF b
  <2>12. \A o \in Uids : Revs(t, o) = Revs(a, o)
    BY <2>11 DEF Revs
  <2>13. /\ t.objects[u] = Gone /\ Known(t)[u] = Gone
         /\ \A o \in Uids : o # u => t.objects[o] = a.objects[o] /\ Known(t)[o] = Known(a)[o]
    BY <2>8, <2>11 DEF Known
  <2>14. Kept(t, X)
    <3>1. \A o \in Uids : Life(Revs(t, o), X) /\ (t.objects[o] # Gone => Figures(Revs(t, o), t.objects[o], o, X))
      BY <2>5, <2>12, <2>13 DEF Kept
    <3> QED BY <3>1, <2>5, <2>11 DEF Kept
  <2>15. Bounded(t, X)
    BY <2>5, <2>11, <2>12 DEF Bounded, Fits, Within
  <2>16. ASSUME NEW o \in Uids, Known(t)[o] # Gone PROVE Speaks(Revs(t, o), Known(t)[o])
    <3>1. o # u /\ Known(t)[o] = Known(st)[o]
      BY <2>6, <2>13, <2>16
    <3>2. Speaks(Revs(st, o), Known(st)[o])
      BY <3>1, <2>16 DEF Sound
    <3>3. Distinct(Revs(st, o)) /\ Oldest(Revs(st, o), Revs(t, o))
      BY <3>1, <2>5, <2>12, RevsAre DEF Sound, Kept
    <3> QED BY <3>1, <3>2, <3>3, LifeWithoutOldest
  <2>17. Spread(st, t, u, X)
    BY <2>5, <2>12, <2>14, <2>15, <2>16 DEF Spread, Sound
  <2> QED BY <2>3, <2>5, <2>12, <2>17 DEF t
<1> QED BY <1>1, <1>2

-----------------------------------------------------------------------------
(* A seed.                                                                   *)

\* The k-th of a set of numbers.
Pick(S, k) == CHOOSE u \in S : Cardinality({o \in S : o < u}) = k - 1

\* Those before n, and their number.
Before(S, n) == {o \in S : o < n}
Rank(S, n) == Cardinality(Before(S, n))

\* A member comes before another: fewer come before it.
LEMMA RankGrows ==
  ASSUME NEW S \in SUBSET Nat, IsFiniteSet(S), NEW m \in S, NEW n \in S, m < n
  PROVE  Rank(S, m) < Rank(S, n)
<1>1. Before(S, n) \subseteq S /\ Before(S, m) \subseteq Before(S, n)
  <2>1. \A o \in S : o < m => o < n
    OBVIOUS
  <2> QED BY <2>1 DEF Before
<1>2. m \in Before(S, n) /\ m \notin Before(S, m)
  BY DEF Before
<1>3. IsFiniteSet(Before(S, n)) /\ IsFiniteSet(Before(S, m))
  BY <1>1, FS_Subset
<1>4. Cardinality(Before(S, m)) <= Cardinality(Before(S, n))
      /\ Cardinality(Before(S, m)) # Cardinality(Before(S, n))
  BY <1>1, <1>2, <1>3, FS_Subset
<1>5. Cardinality(Before(S, m)) \in Nat /\ Cardinality(Before(S, n)) \in Nat
  BY <1>3, FS_CardinalityType
<1> QED BY <1>4, <1>5 DEF Rank

\* The number of those up to n, n included, is one more, and picks n out.
LEMMA NthIs ==
  ASSUME NEW S \in SUBSET Nat, IsFiniteSet(S), NEW n \in S
  PROVE  /\ Cardinality({o \in S : o <= n}) \in 1..Cardinality(S)
         /\ Pick(S, Cardinality({o \in S : o <= n})) = n
<1> DEFINE upto == {o \in S : o <= n}
<1>1. upto = Before(S, n) \cup {n} /\ n \notin Before(S, n) /\ upto \subseteq S /\ Before(S, n) \subseteq S
  <2>1. \A o \in S : o <= n <=> (o < n \/ o = n)
    OBVIOUS
  <2>2. ~(n < n)
    <3>1. n \in Nat
      OBVIOUS
    <3> QED BY <3>1
  <2> QED BY <2>1, <2>2 DEF Before
<1>2. IsFiniteSet(Before(S, n)) /\ IsFiniteSet(upto)
  BY <1>1, FS_Subset
<1>3. Cardinality(upto) = Rank(S, n) + 1 /\ Rank(S, n) \in Nat
  BY <1>1, <1>2, FS_AddElement, FS_CardinalityType DEF Rank
<1>4. Cardinality(upto) <= Cardinality(S) /\ Cardinality(S) \in Nat
  BY <1>1, FS_Subset, FS_CardinalityType
<1>5. \A m \in S : Rank(S, m) = Rank(S, n) => m = n
  <2> SUFFICES ASSUME NEW m \in S, m # n PROVE Rank(S, m) # Rank(S, n)
    OBVIOUS
  <2>1. Rank(S, m) \in Nat
    <3>1. IsFiniteSet(Before(S, m))
      BY FS_Subset DEF Before
    <3> QED BY <3>1, FS_CardinalityType DEF Rank
  <2>2. CASE m < n
    <3>1. Rank(S, m) < Rank(S, n)
      BY <2>2, RankGrows
    <3> QED BY <3>1, <2>1, <1>3
  <2>3. CASE n < m
    <3>1. Rank(S, n) < Rank(S, m)
      BY <2>3, RankGrows
    <3> QED BY <3>1, <2>1, <1>3
  <2> QED BY <2>2, <2>3
<1> HIDE DEF upto
<1>6. Pick(S, Cardinality(upto)) = CHOOSE m \in S : Rank(S, m) = Cardinality(upto) - 1
  BY Zenon DEF Pick, Rank, Before
<1>7. Cardinality(upto) - 1 = Rank(S, n)
  BY <1>3
<1>8. Pick(S, Cardinality(upto)) = n
  BY <1>5, <1>6, <1>7
<1> QED BY <1>3, <1>4, <1>8 DEF upto

\* Counting from one to their number meets each of them.
LEMMA EachIsNth ==
  ASSUME NEW S \in SUBSET Nat, IsFiniteSet(S), NEW k \in 1..Cardinality(S)
  PROVE  \E n \in S : k = Cardinality({o \in S : o <= n})
<1> DEFINE c == Cardinality(S)
           upto(n) == Cardinality({o \in S : o <= n})
           f == [n \in S |-> upto(n)]
<1>1. c \in Nat
  BY FS_CardinalityType
<1>2. IsFiniteSet(1..c) /\ Cardinality(1..c) = c
  BY <1>1, FS_Interval
<1>3. \A n \in S : upto(n) \in 1..c /\ Pick(S, upto(n)) = n
  BY NthIs
<1> HIDE DEF c, upto
<1>4. f \in [S -> 1..c]
  BY <1>3
<1>5. \A m, n \in S : f[m] = f[n] => m = n
  BY <1>3
<1>6. f \in Injection(S, 1..c)
  BY <1>4, <1>5 DEF Injection, IsInjective
<1>7. f \in Surjection(S, 1..c)
  BY <1>6, <1>2, FS_Injection DEF c
<1>8. \A j \in 1..c : \E n \in S : f[n] = j
  BY <1>7 DEF Surjection
<1>9. \E n \in S : k = upto(n)
  BY <1>8 DEF c
<1> QED BY <1>9 DEF upto

\* The order objects are taken in meets each of them.
LEMMA OrderIs ==
  ASSUME NEW S \in SUBSET Uids
  PROVE  /\ order(S) \in Seq(S)
         /\ \A u \in S : \E k \in 1..Len(order(S)) : order(S)[k] = u
<1> DEFINE c == Cardinality(S)
           os == [k \in 1..c |-> Pick(S, k)]
<1>1. S \in SUBSET Nat /\ IsFiniteSet(S)
  BY TimelineAssumption, FS_Subset
<1>2. c \in Nat
  BY <1>1, FS_CardinalityType
<1>3. order(S) = os
  BY DEF order, Pick
<1>4. \A u \in S : \E k \in 1..c : Pick(S, k) = u
  BY <1>1, NthIs
<1>5. \A k \in 1..c : Pick(S, k) \in S
  <2> SUFFICES ASSUME NEW k \in 1..c PROVE Pick(S, k) \in S
    OBVIOUS
  <2>1. PICK u \in S : k = Cardinality({o \in S : o <= u})
    BY <1>1, EachIsNth
  <2>2. Pick(S, Cardinality({o \in S : o <= u})) = u
    BY <1>1, NthIs
  <2> QED BY <2>1, <2>2
<1> HIDE DEF c
<1>6. os \in Seq(S) /\ Len(os) = c
  BY <1>2, <1>5
<1>7. \A k \in 1..c : os[k] = Pick(S, k)
  OBVIOUS
<1> HIDE DEF os
<1> QED BY <1>3, <1>4, <1>6, <1>7

\* What a seed does with an object the listing lacks, and with all of them.
Ended(s, u) == delete(s, u, "deleted-unobserved")
EndAll(st, us) == FoldLeft(LAMBDA s, u : delete(s, u, "deleted-unobserved"), st, us)

LEMMA EndedIsRecorded ==
  ASSUME NEW st \in Store, NEW u \in Uids PROVE Recorded(st, Ended(st, u), u, Gone)
BY DeleteRecords DEF Deletions, Ended

EndRuns(st, us) ==
    {f \in [0..Len(us) -> Store] :
        /\ f[0] = st
        /\ \A k \in 1..Len(us) : f[k] = Ended(f[k - 1], us[k])
        /\ EndAll(st, us) = f[Len(us)]}

LEMMA EndAllRuns ==
  ASSUME NEW st \in Store, NEW us \in Seq(Uids)
  PROVE  EndRuns(st, us) # {}
<1> DEFINE n == Len(us)
           S == 1..n
           Turns(iter) == iter = [s \in SUBSET S |->
               IF s = {} THEN st ELSE Ended(iter[s \ {Max(s)}], us[Max(s)])]
           all == CHOOSE iter : Turns(iter)
           step == [p \in S \X Store |-> Ended(p[2], us[p[1]])]
<1>1. n \in Nat /\ DOMAIN us = S /\ \A k \in S : us[k] \in Uids
  OBVIOUS
<1>2. EndAll(st, us) = all[S]
  BY <1>1, Zenon DEF EndAll, Ended, FoldLeft, MapThenFoldSet
<1>0. \A s \in Store, k \in S : Ended(s, us[k]) \in Store
  BY <1>1, EndedIsRecorded DEF Recorded
<1>3. step \in [S \X Store -> Store]
  <2>1. \A p \in S \X Store : p[1] \in S /\ p[2] \in Store
    OBVIOUS
  <2> HIDE DEF S
  <2>2. \A p \in S \X Store : Ended(p[2], us[p[1]]) \in Store
    BY <2>1, <1>0
  <2> QED BY <2>2
<1>4. PICK g \in [SUBSET S -> Store] : \A s \in SUBSET S :
        g[s] = IF s = {} THEN st ELSE step[<<Max(s), g[s \ {Max(s)}]>>]
  <2> HIDE DEF n, step
  <2>1. LeftFolds(n, Store, st, step) # {}
    BY <1>1, <1>3, FoldOfASequence
  <2> QED BY <2>1 DEF LeftFolds
<1>5. Turns(g)
  <2>1. ASSUME NEW s \in SUBSET S, s # {} PROVE g[s] = Ended(g[s \ {Max(s)}], us[Max(s)])
    <3>1. Max(s) \in S
      <4> HIDE DEF n
      <4> QED BY <1>1, <2>1, Greatest
    <3>2. s \ {Max(s)} \in SUBSET S
      OBVIOUS
    <3> HIDE DEF S
    <3>3. g[s] = step[<<Max(s), g[s \ {Max(s)}]>>] /\ <<Max(s), g[s \ {Max(s)}]>> \in S \X Store
      BY <2>1, <3>1, <3>2, <1>4
    <3> QED BY <3>3
  <2>2. g = [s \in SUBSET S |-> g[s]]
    OBVIOUS
  <2> HIDE DEF S, step
  <2> QED BY <2>1, <2>2, <1>4
<1>6. Turns(all)
  <2> HIDE DEF Turns
  <2> QED BY <1>5
<1> HIDE DEF all
<1>7. \A s \in SUBSET S :
        all[s] = IF s = {} THEN st ELSE Ended(all[s \ {Max(s)}], us[Max(s)])
  <2> HIDE DEF S
  <2> QED BY <1>6
<1> DEFINE f == [k \in 0..n |-> all[1..k]]
<1>8. f[0] = st
  <2>1. 1..0 = {} /\ {} \in SUBSET S
    OBVIOUS
  <2>2. all[{}] = st
    <3> HIDE DEF S
    <3> QED BY <2>1, <1>7
  <2>3. f[0] = all[1..0]
    BY <1>1
  <2> QED BY <2>1, <2>2, <2>3
<1>9. ASSUME NEW k \in 1..n PROVE f[k] = Ended(f[k - 1], us[k])
  <2>1. /\ 1..k \in SUBSET S /\ 1..k # {}
        /\ Max(1..k) = k
        /\ (1..k) \ {k} = 1..(k - 1)
    BY <1>1, PositionsUpTo
  <2>2. k \in 0..n /\ k - 1 \in 0..n
    BY <1>1
  <2> HIDE DEF S, n
  <2> QED BY <2>1, <2>2, <1>7
<1>10. f[n] = all[S]
  BY <1>1
<1> DEFINE W == [k \in 0..n |-> Store]
<1>11. ASSUME NEW m \in 0..n PROVE f[m] \in Store
  <2>1. f[0] \in W[0]
    BY <1>8, <1>1
  <2>2. ASSUME NEW k \in 1..m, f[k - 1] \in W[k - 1] PROVE f[k] \in W[k]
    <3>1. k \in 1..n /\ W[k - 1] = Store /\ W[k] = Store
      BY <1>1
    <3> HIDE DEF f, W
    <3> QED BY <2>2, <3>1, <1>9, <1>0
  <2> HIDE DEF f, W
  <2>3. f[m] \in W[m]
    <3>1. m \in Nat
      BY <1>1
    <3> QED BY <2>1, <2>2, <3>1, Reaches
  <2> QED BY <2>3 DEF W
<1>12. f \in [0..n -> Store]
  <2>1. f = [k \in 0..n |-> f[k]]
    OBVIOUS
  <2> HIDE DEF f
  <2> QED BY <1>11, <2>1
<1> HIDE DEF f
<1> QED BY <1>2, <1>8, <1>9, <1>10, <1>12 DEF EndRuns

\* What it does with an object the listing has, and with all of them.
Seen(s, u, listed) == observe(s, u, listed[u], TRUE, FALSE)
SeeAll(st, us, listed) == FoldLeft(LAMBDA s, u : observe(s, u, listed[u], TRUE, FALSE), st, us)

LEMMA SeenIsRecorded ==
  ASSUME NEW st \in Store, NEW u \in Uids, NEW listed, listed[u] \in Content
  PROVE  Recorded(st, Seen(st, u, listed), u, listed[u])
BY ObserveRecords DEF Seen

SeeRuns(st, us, listed) ==
    {f \in [0..Len(us) -> Store] :
        /\ f[0] = st
        /\ \A k \in 1..Len(us) : f[k] = Seen(f[k - 1], us[k], listed)
        /\ SeeAll(st, us, listed) = f[Len(us)]}

LEMMA SeeAllRuns ==
  ASSUME NEW st \in Store, NEW us \in Seq(Uids), NEW listed,
         \A k \in 1..Len(us) : listed[us[k]] \in Content
  PROVE  SeeRuns(st, us, listed) # {}
<1> DEFINE n == Len(us)
           S == 1..n
           Turns(iter) == iter = [s \in SUBSET S |->
               IF s = {} THEN st ELSE Seen(iter[s \ {Max(s)}], us[Max(s)], listed)]
           all == CHOOSE iter : Turns(iter)
           step == [p \in S \X Store |-> Seen(p[2], us[p[1]], listed)]
<1>1. n \in Nat /\ DOMAIN us = S /\ \A k \in S : us[k] \in Uids
  OBVIOUS
<1>2. SeeAll(st, us, listed) = all[S]
  BY <1>1, Zenon DEF SeeAll, Seen, FoldLeft, MapThenFoldSet
<1>0. \A s \in Store, k \in S : Seen(s, us[k], listed) \in Store
  BY <1>1, SeenIsRecorded DEF Recorded
<1>3. step \in [S \X Store -> Store]
  <2>1. \A p \in S \X Store : p[1] \in S /\ p[2] \in Store
    OBVIOUS
  <2> HIDE DEF S
  <2>2. \A p \in S \X Store : Seen(p[2], us[p[1]], listed) \in Store
    BY <2>1, <1>0
  <2> QED BY <2>2
<1>4. PICK g \in [SUBSET S -> Store] : \A s \in SUBSET S :
        g[s] = IF s = {} THEN st ELSE step[<<Max(s), g[s \ {Max(s)}]>>]
  <2> HIDE DEF n, step
  <2>1. LeftFolds(n, Store, st, step) # {}
    BY <1>1, <1>3, FoldOfASequence
  <2> QED BY <2>1 DEF LeftFolds
<1>5. Turns(g)
  <2>1. ASSUME NEW s \in SUBSET S, s # {} PROVE g[s] = Seen(g[s \ {Max(s)}], us[Max(s)], listed)
    <3>1. Max(s) \in S
      <4> HIDE DEF n
      <4> QED BY <1>1, <2>1, Greatest
    <3>2. s \ {Max(s)} \in SUBSET S
      OBVIOUS
    <3> HIDE DEF S
    <3>3. g[s] = step[<<Max(s), g[s \ {Max(s)}]>>] /\ <<Max(s), g[s \ {Max(s)}]>> \in S \X Store
      BY <2>1, <3>1, <3>2, <1>4
    <3> QED BY <3>3
  <2>2. g = [s \in SUBSET S |-> g[s]]
    OBVIOUS
  <2> HIDE DEF S, step
  <2> QED BY <2>1, <2>2, <1>4
<1>6. Turns(all)
  <2> HIDE DEF Turns
  <2> QED BY <1>5
<1> HIDE DEF all
<1>7. \A s \in SUBSET S :
        all[s] = IF s = {} THEN st ELSE Seen(all[s \ {Max(s)}], us[Max(s)], listed)
  <2> HIDE DEF S
  <2> QED BY <1>6
<1> DEFINE f == [k \in 0..n |-> all[1..k]]
<1>8. f[0] = st
  <2>1. 1..0 = {} /\ {} \in SUBSET S
    OBVIOUS
  <2>2. all[{}] = st
    <3> HIDE DEF S
    <3> QED BY <2>1, <1>7
  <2>3. f[0] = all[1..0]
    BY <1>1
  <2> QED BY <2>1, <2>2, <2>3
<1>9. ASSUME NEW k \in 1..n PROVE f[k] = Seen(f[k - 1], us[k], listed)
  <2>1. /\ 1..k \in SUBSET S /\ 1..k # {}
        /\ Max(1..k) = k
        /\ (1..k) \ {k} = 1..(k - 1)
    BY <1>1, PositionsUpTo
  <2>2. k \in 0..n /\ k - 1 \in 0..n
    BY <1>1
  <2> HIDE DEF S, n
  <2> QED BY <2>1, <2>2, <1>7
<1>10. f[n] = all[S]
  BY <1>1
<1> DEFINE W == [k \in 0..n |-> Store]
<1>11. ASSUME NEW m \in 0..n PROVE f[m] \in Store
  <2>1. f[0] \in W[0]
    BY <1>8, <1>1
  <2>2. ASSUME NEW k \in 1..m, f[k - 1] \in W[k - 1] PROVE f[k] \in W[k]
    <3>1. k \in 1..n /\ W[k - 1] = Store /\ W[k] = Store
      BY <1>1
    <3> HIDE DEF f, W
    <3> QED BY <2>2, <3>1, <1>9, <1>0
  <2> HIDE DEF f, W
  <2>3. f[m] \in W[m]
    <3>1. m \in Nat
      BY <1>1
    <3> QED BY <2>1, <2>2, <3>1, Reaches
  <2> QED BY <2>3 DEF W
<1>12. f \in [0..n -> Store]
  <2>1. f = [k \in 0..n |-> f[k]]
    OBVIOUS
  <2> HIDE DEF f
  <2> QED BY <1>11, <2>1
<1> HIDE DEF f
<1> QED BY <1>2, <1>8, <1>9, <1>10, <1>12 DEF SeeRuns

\* t is s after recording that each of S is what was listed of it.
Seeded(s, t, S, listed) ==
    /\ t \in Store
    /\ t.perObject = s.perObject
    /\ Tells(s, t)
    /\ Honest(s) => Honest(t)
    /\ Known(t) = [u \in Uids |-> IF u \in S THEN listed[u] ELSE Known(s)[u]]

LEMMA SeededNothing == ASSUME NEW s \in Store, NEW listed PROVE Seeded(s, s, {}, listed)
<1>1. s.generation \in Nat
  BY DEF Store
<1> QED BY <1>1 DEF Seeded, Tells, Known

LEMMA SeededOneMore ==
  ASSUME NEW s \in Store, NEW t, NEW r, NEW S \in SUBSET Uids, NEW listed, NEW u \in Uids,
         Seeded(s, t, S, listed), Recorded(t, r, u, listed[u])
  PROVE  Seeded(s, r, S \cup {u}, listed)
<1>1. t \in Store /\ r \in Store
  BY DEF Seeded, Recorded
<1>2. Tells(s, r)
  BY <1>1, TellsAgain DEF Seeded, Recorded
<1>3. Known(r) = [o \in Uids |-> IF o \in S \cup {u} THEN listed[o] ELSE Known(s)[o]]
  <2>1. Known(t) = [o \in Uids |-> IF o \in S THEN listed[o] ELSE Known(s)[o]]
    BY DEF Seeded
  <2>2. Known(r) = [Known(t) EXCEPT ![u] = listed[u]]
    BY DEF Recorded
  <2> QED BY <2>1, <2>2
<1> QED BY <1>1, <1>2, <1>3 DEF Seeded, Recorded

\* The objects up to the k-th of a sequence.
UpTo(us, k) == {us[j] : j \in 1..k}

\* A run that records the objects of a sequence one after the other records them all.
LEMMA RunSeeds ==
  ASSUME NEW us \in Seq(Uids), NEW listed, NEW f \in [0..Len(us) -> Store],
         \A k \in 1..Len(us) : Recorded(f[k - 1], f[k], us[k], listed[us[k]])
  PROVE  Seeded(f[0], f[Len(us)], UpTo(us, Len(us)), listed)
<1> DEFINE n == Len(us)
           W == [k \in 0..n |-> {t \in Store : Seeded(f[0], t, UpTo(us, k), listed)}]
<1>0. n \in Nat /\ f[0] \in Store
  OBVIOUS
<1>1. f[0] \in W[0]
  <2>1. UpTo(us, 0) = {}
    BY DEF UpTo
  <2>2. Seeded(f[0], f[0], UpTo(us, 0), listed)
    BY <1>0, <2>1, SeededNothing
  <2> QED BY <1>0, <2>2
<1>2. ASSUME NEW k \in 1..n, f[k - 1] \in W[k - 1] PROVE f[k] \in W[k]
  <2>1. k - 1 \in 0..n /\ k \in 0..n
    BY <1>0
  <2>2. Seeded(f[0], f[k - 1], UpTo(us, k - 1), listed)
    BY <1>2, <2>1
  <2>3. UpTo(us, k) = UpTo(us, k - 1) \cup {us[k]} /\ UpTo(us, k - 1) \in SUBSET Uids /\ us[k] \in Uids
    <3>1. \A j \in 1..k : j \in 1..n
      BY <1>0
    <3>2. \A j : j \in 1..k <=> (j \in 1..(k - 1) \/ j = k)
      BY <1>0
    <3>3. \A j \in 1..n : us[j] \in Uids
      OBVIOUS
    <3> HIDE DEF n
    <3> QED BY <3>1, <3>2, <3>3 DEF UpTo
  <2>4. Recorded(f[k - 1], f[k], us[k], listed[us[k]])
    OBVIOUS
  <2>5. Seeded(f[0], f[k], UpTo(us, k), listed)
    <3> HIDE DEF n, W
    <3>1. Seeded(f[0], f[k], UpTo(us, k - 1) \cup {us[k]}, listed)
      BY <1>0, <2>2, <2>3, <2>4, SeededOneMore
    <3> QED BY <3>1, <2>3
  <2>6. f[k] \in Store
    BY <2>1
  <2> HIDE DEF n
  <2> QED BY <2>1, <2>5, <2>6
<1>3. f[n] \in W[n]
  <2> HIDE DEF W, n
  <2> QED BY <1>0, <1>1, <1>2, Reaches
<1> QED BY <1>0, <1>3

\* The whole seed: what the listing lacks is ended, what it holds is observed.
LEMMA SeedRecords ==
  ASSUME NEW st \in Store, NEW mine \in SUBSET Uids, NEW listed,
         \A u \in mine : listed[u] \in Content \cup {Gone}
  PROVE  Seeded(st, Seed(st, mine, listed), mine, listed)
<1> DEFINE missing == {u \in mine : listed[u] = Gone}
           there == mine \ missing
           emptied == EndAll(st, order(missing))
           t == SeeAll(emptied, order(there), listed)
<1>1. Seed(st, mine, listed) = t
  BY DEF Seed, EndAll, SeeAll
<1>2. missing \in SUBSET Uids /\ there \in SUBSET Uids
  OBVIOUS
<1>3. Seeded(st, emptied, missing, listed)
  <2> DEFINE us == order(missing)
  <2>1. us \in Seq(missing) /\ \A u \in missing : \E k \in 1..Len(us) : us[k] = u
    BY <1>2, OrderIs
  <2> HIDE DEF us
  <2>2. us \in Seq(Uids) /\ \A k \in 1..Len(us) : us[k] \in missing
    BY <2>1, <1>2
  <2>3. PICK f \in [0..Len(us) -> Store] :
            /\ f[0] = st
            /\ \A k \in 1..Len(us) : f[k] = Ended(f[k - 1], us[k])
            /\ EndAll(st, us) = f[Len(us)]
    BY <2>2, EndAllRuns DEF EndRuns
  <2>4. ASSUME NEW k \in 1..Len(us) PROVE Recorded(f[k - 1], f[k], us[k], listed[us[k]])
    <3>1. us[k] \in Uids /\ listed[us[k]] = Gone /\ f[k - 1] \in Store
      <4>1. k - 1 \in 0..Len(us)
        BY <2>2
      <4> QED BY <2>2, <4>1
    <3> QED BY <3>1, <2>3, EndedIsRecorded
  <2>5. Seeded(f[0], f[Len(us)], UpTo(us, Len(us)), listed)
    BY <2>2, <2>4, RunSeeds
  <2>6. UpTo(us, Len(us)) = missing
    <3> HIDE DEF missing
    <3> QED BY <2>1, <2>2 DEF UpTo
  <2> HIDE DEF missing
  <2> QED BY <2>3, <2>5, <2>6 DEF us
<1> HIDE DEF emptied
<1>4. Seeded(emptied, t, there, listed)
  <2> DEFINE us == order(there)
  <2>1. us \in Seq(there) /\ \A u \in there : \E k \in 1..Len(us) : us[k] = u
    BY <1>2, OrderIs
  <2> HIDE DEF us
  <2>2. us \in Seq(Uids) /\ \A k \in 1..Len(us) : us[k] \in there
    BY <2>1, <1>2
  <2>3. emptied \in Store /\ \A k \in 1..Len(us) : listed[us[k]] \in Content
    BY <1>3, <2>2 DEF Seeded
  <2>4. PICK f \in [0..Len(us) -> Store] :
            /\ f[0] = emptied
            /\ \A k \in 1..Len(us) : f[k] = Seen(f[k - 1], us[k], listed)
            /\ SeeAll(emptied, us, listed) = f[Len(us)]
    <3>1. SeeRuns(emptied, us, listed) # {}
      BY <2>2, <2>3, SeeAllRuns
    <3> QED BY <3>1 DEF SeeRuns
  <2>5. ASSUME NEW k \in 1..Len(us) PROVE Recorded(f[k - 1], f[k], us[k], listed[us[k]])
    <3>1. us[k] \in Uids /\ f[k - 1] \in Store
      <4>1. k - 1 \in 0..Len(us)
        BY <2>2
      <4> QED BY <2>2, <4>1
    <3> QED BY <3>1, <2>3, <2>4, SeenIsRecorded
  <2>6. Seeded(f[0], f[Len(us)], UpTo(us, Len(us)), listed)
    BY <2>2, <2>5, RunSeeds
  <2>7. UpTo(us, Len(us)) = there
    <3> HIDE DEF there
    <3> QED BY <2>1, <2>2 DEF UpTo
  <2> HIDE DEF there
  <2> QED BY <2>4, <2>6, <2>7 DEF us
<1> HIDE DEF t
<1>5. emptied \in Store /\ t \in Store /\ Tells(st, t)
  BY <1>3, <1>4, TellsAgain DEF Seeded
<1>6. Known(t) = [u \in Uids |-> IF u \in mine THEN listed[u] ELSE Known(st)[u]]
  <2>1. /\ Known(emptied) = [u \in Uids |-> IF u \in missing THEN listed[u] ELSE Known(st)[u]]
        /\ Known(t) = [u \in Uids |-> IF u \in there THEN listed[u] ELSE Known(emptied)[u]]
    BY <1>3, <1>4 DEF Seeded
  <2>2. mine = missing \cup there
    OBVIOUS
  <2> HIDE DEF missing, there
  <2> QED BY <2>1, <2>2
<1> QED BY <1>1, <1>3, <1>4, <1>5, <1>6 DEF Seeded

-----------------------------------------------------------------------------
(* What the store derives, through a seed.                                   *)

\* t derives what it should; next to s it heard of H, and buried some of G.
Follows(s, t, H, G, X) ==
    /\ t \in Store /\ Sound(t, X)
    /\ Heard(t) \subseteq Heard(s) \cup H
    /\ Buried(t, X) \subseteq Buried(s, X) \cup G

LEMMA FollowsAgain ==
  ASSUME NEW X, NEW s, NEW t, NEW r, NEW H, NEW G, Follows(s, t, H, G, X), Follows(t, r, H, G, X)
  PROVE  Follows(s, r, H, G, X)
BY DEF Follows

\* Of an object that a step does not concern, evictions bury nothing.
LEMMA BuriedElsewhere ==
  ASSUME NEW X, NEW s \in Store, Ascends(s.entries), NEW t, NEW o \in Uids,
         Known(t)[o] = Known(s)[o], Oldest(Revs(s, o), Revs(t, o)), o \in Buried(t, X)
  PROVE  o \in Buried(s, X)
<1>1. Distinct(Revs(s, o))
  BY RevsAre
<1>2. Unseen(Revs(s, o)) => Unseen(Revs(t, o))
  BY <1>1, LifeWithoutOldest
<1> QED BY <1>2 DEF Buried, Oldest

LEMMA ObserveFollows ==
  ASSUME NEW X, NEW st \in Store, Sound(st, X), NEW u \in Uids, u \notin Buried(st, X),
         NEW content \in Content, NEW seed \in BOOLEAN, NEW within \in BOOLEAN
  PROVE  Follows(st, observe(st, u, content, seed, within), {u}, {}, X)
<1> DEFINE t == observe(st, u, content, seed, within)
<1>1. Spread(st, t, u, X)
  BY ObserveIsSound
<1>2. t \in Store /\ Known(t) = [Known(st) EXCEPT ![u] = content]
  BY ObserveRecords DEF Recorded
<1> HIDE DEF t
<1>3. /\ Known(t)[u] # Gone
      /\ \A o \in Uids : o # u => Known(t)[o] = Known(st)[o] /\ Oldest(Revs(st, o), Revs(t, o))
  BY <1>1, <1>2, GoneAssumption DEF Known, Spread
<1>4. Heard(t) \subseteq Heard(st) \cup {u}
  BY <1>3 DEF Heard, Oldest
<1>5. Buried(t, X) \subseteq Buried(st, X) \cup {}
  BY <1>3, BuriedElsewhere DEF Buried, Sound, Kept
<1> QED BY <1>1, <1>2, <1>4, <1>5 DEF Follows, Spread, t

LEMMA DeleteFollows ==
  ASSUME NEW X, NEW st \in Store, Sound(st, X), NEW u \in Uids, NEW change \in Deletions
  PROVE  Follows(st, delete(st, u, change), {},
                 IF change = "deleted-unobserved" THEN {u} \ X ELSE {u}, X)
<1> DEFINE t == delete(st, u, change)
<1>1. /\ Spread(st, t, u, X) /\ (Known(st)[u] = Gone => t = st)
      /\ Known(st)[u] # Gone /\ change = "deleted-unobserved" => Unseen(Revs(t, u))
  BY DeleteIsSound
<1>2. t \in Store /\ Known(t) = [Known(st) EXCEPT ![u] = Gone]
  BY DeleteRecords DEF Recorded
<1> HIDE DEF t
<1>3. /\ Known(t)[u] = Gone
      /\ \A o \in Uids : o # u => Known(t)[o] = Known(st)[o] /\ Oldest(Revs(st, o), Revs(t, o))
  BY <1>1, <1>2 DEF Known, Spread
<1>4. Heard(t) \subseteq Heard(st) \cup {}
  <2>1. CASE Known(st)[u] = Gone
    BY <2>1, <1>1
  <2>2. CASE Known(st)[u] # Gone
    BY <2>2, <1>3 DEF Heard, Oldest
  <2> QED BY <2>1, <2>2
<1>5. Buried(t, X) \subseteq Buried(st, X) \cup (IF change = "deleted-unobserved" THEN {u} \ X ELSE {u})
  <2> SUFFICES ASSUME NEW o \in Buried(t, X), o \notin Buried(st, X)
               PROVE  o \in IF change = "deleted-unobserved" THEN {u} \ X ELSE {u}
    OBVIOUS
  <2>1. o \in Uids
    BY DEF Buried
  <2>2. o = u
    BY <2>1, <1>3, BuriedElsewhere DEF Sound, Kept
  <2>3. ASSUME change = "deleted-unobserved", u \in X PROVE FALSE
    <3>1. Known(st)[u] # Gone
      BY <2>2, <1>1
    <3> QED BY <2>2, <2>3, <3>1, <1>1 DEF Buried
  <2> QED BY <2>2, <2>3
<1> QED BY <1>1, <1>2, <1>4, <1>5 DEF Follows, Spread, t

\* A run of steps, each of which follows the store before it unless that forgot too much.
LEMMA RunFollows ==
  ASSUME NEW X, NEW n \in Nat, NEW f \in [0..n -> Store], Sound(f[0], X), NEW H, NEW G,
         \A k \in 1..n : Sound(f[k - 1], X) /\ Buried(f[k - 1], X) \subseteq Buried(f[0], X) \cup G
                             => Follows(f[k - 1], f[k], H, G, X)
  PROVE  Follows(f[0], f[n], H, G, X)
<1> DEFINE W == [k \in 0..n |-> {t \in Store : Follows(f[0], t, H, G, X)}]
<1>1. f[0] \in W[0]
  <2>1. 0 \in 0..n /\ f[0] \in Store
    OBVIOUS
  <2>2. Follows(f[0], f[0], H, G, X)
    BY <2>1 DEF Follows
  <2> QED BY <2>1, <2>2
<1>2. ASSUME NEW k \in 1..n, f[k - 1] \in W[k - 1] PROVE f[k] \in W[k]
  <2>1. k - 1 \in 0..n /\ k \in 0..n
    OBVIOUS
  <2>2. Follows(f[0], f[k - 1], H, G, X)
    BY <1>2, <2>1
  <2>3. Follows(f[k - 1], f[k], H, G, X)
    BY <2>2 DEF Follows
  <2>4. Follows(f[0], f[k], H, G, X)
    BY <2>2, <2>3, FollowsAgain
  <2> QED BY <2>1, <2>4
<1>3. f[n] \in W[n]
  <2> HIDE DEF W
  <2> QED BY <1>1, <1>2, Reaches
<1> QED BY <1>3

\* A seed, of objects the store knows or never retained, or that are gone.
LEMMA SeedFollows ==
  ASSUME NEW X, NEW st \in Store, Sound(st, X), NEW mine \in SUBSET Uids, NEW listed,
         \A u \in mine : listed[u] \in Content \cup {Gone},
         \A u \in mine : listed[u] # Gone => u \notin Buried(st, X)
  PROVE  Follows(st, Seed(st, mine, listed), {u \in mine : listed[u] # Gone},
                                             {u \in mine : listed[u] = Gone} \ X, X)
<1> DEFINE missing == {u \in mine : listed[u] = Gone}
           there == mine \ missing
           emptied == EndAll(st, order(missing))
           t == SeeAll(emptied, order(there), listed)
<1>1. Seed(st, mine, listed) = t
  BY DEF Seed, EndAll, SeeAll
<1>2. missing \in SUBSET Uids /\ there \in SUBSET Uids
  OBVIOUS
<1>3. Follows(st, emptied, {}, missing \ X, X)
  <2> DEFINE us == order(missing)
  <2>1. us \in Seq(missing)
    BY <1>2, OrderIs
  <2> HIDE DEF us
  <2>2. us \in Seq(Uids) /\ Len(us) \in Nat /\ \A k \in 1..Len(us) : us[k] \in missing
    BY <2>1, <1>2
  <2>3. PICK f \in [0..Len(us) -> Store] :
            /\ f[0] = st
            /\ \A k \in 1..Len(us) : f[k] = Ended(f[k - 1], us[k])
            /\ EndAll(st, us) = f[Len(us)]
    BY <2>2, EndAllRuns DEF EndRuns
  <2>4. ASSUME NEW k \in 1..Len(us), Sound(f[k - 1], X)
        PROVE  Follows(f[k - 1], f[k], {}, missing \ X, X)
    <3>1. us[k] \in Uids /\ us[k] \in missing /\ f[k - 1] \in Store
      <4>1. k - 1 \in 0..Len(us)
        BY <2>2
      <4> QED BY <2>2, <4>1
    <3> HIDE DEF missing
    <3>2. Follows(f[k - 1], Ended(f[k - 1], us[k]), {}, {us[k]} \ X, X)
      BY <2>4, <3>1, DeleteFollows DEF Ended, Deletions
    <3> QED BY <3>1, <3>2, <2>3 DEF Follows
  <2> HIDE DEF missing
  <2>5. Follows(f[0], f[Len(us)], {}, missing \ X, X)
    BY <2>2, <2>3, <2>4, RunFollows
  <2> QED BY <2>3, <2>5 DEF us
<1>4. \A u \in there : u \notin Buried(emptied, X)
  BY <1>3 DEF Follows
<1> HIDE DEF emptied
<1>5. Follows(emptied, t, there, {}, X)
  <2> DEFINE us == order(there)
  <2>1. us \in Seq(there)
    BY <1>2, OrderIs
  <2> HIDE DEF us
  <2>2. us \in Seq(Uids) /\ Len(us) \in Nat /\ \A k \in 1..Len(us) : us[k] \in there
    BY <2>1, <1>2
  <2>3. emptied \in Store /\ Sound(emptied, X) /\ \A k \in 1..Len(us) : listed[us[k]] \in Content
    BY <1>3, <2>2 DEF Follows
  <2>4. PICK f \in [0..Len(us) -> Store] :
            /\ f[0] = emptied
            /\ \A k \in 1..Len(us) : f[k] = Seen(f[k - 1], us[k], listed)
            /\ SeeAll(emptied, us, listed) = f[Len(us)]
    <3>1. SeeRuns(emptied, us, listed) # {}
      BY <2>2, <2>3, SeeAllRuns
    <3> QED BY <3>1 DEF SeeRuns
  <2>5. ASSUME NEW k \in 1..Len(us), Sound(f[k - 1], X),
               Buried(f[k - 1], X) \subseteq Buried(f[0], X) \cup {}
        PROVE  Follows(f[k - 1], f[k], there, {}, X)
    <3>1. us[k] \in Uids /\ us[k] \in there /\ f[k - 1] \in Store
      <4>1. k - 1 \in 0..Len(us)
        BY <2>2
      <4> QED BY <2>2, <4>1
    <3> HIDE DEF there
    <3>2. us[k] \notin Buried(f[k - 1], X)
      BY <3>1, <2>4, <2>5, <1>4
    <3>3. Follows(f[k - 1], Seen(f[k - 1], us[k], listed), {us[k]}, {}, X)
      BY <2>3, <2>5, <3>1, <3>2, ObserveFollows DEF Seen
    <3> QED BY <3>1, <3>3, <2>4 DEF Follows
  <2> HIDE DEF there
  <2>6. Follows(f[0], f[Len(us)], there, {}, X)
    BY <2>2, <2>3, <2>4, <2>5, RunFollows
  <2> QED BY <2>4, <2>6 DEF us
<1> HIDE DEF t
<1>6. there = {u \in mine : listed[u] # Gone}
  OBVIOUS
<1> HIDE DEF there, missing
<1>7. Follows(st, t, there, missing \ X, X)
  BY <1>3, <1>5 DEF Follows
<1> QED BY <1>1, <1>6, <1>7 DEF missing

-----------------------------------------------------------------------------
(* The inductive invariant of capture.                                       *)

Modes == {"down", "listed", "partial", "up", "loose"}

\* The server's revisions succeed one another one object at a time.
OneChanges(before, after) ==
    \E u \in Uids : /\ after[u] # before[u]
                    /\ \A o \in Uids : o # u => after[o] = before[o]

HistInv ==
    /\ hist \in Seq([Uids -> Content \cup {Gone}])
    /\ Len(hist) >= 1
    /\ \A i \in 1..(Len(hist) - 1) : OneChanges(hist[i], hist[i + 1])

\* A scope in contact is at a revision the server was at.
ScopesInv ==
    /\ mode \in [Scopes -> Modes]
    /\ cursor \in [Scopes -> Nat]
    /\ \A sc \in Scopes : /\ cursor[sc] <= Len(hist)
                          /\ mode[sc] # "down" => cursor[sc] >= 1
    /\ missed \in SUBSET Uids /\ leftOut \in SUBSET Uids

\* A scope that has seeded holds each of its objects to be what it was there, but for
\* those whose latest news it let go by.
KnownInv ==
    \A sc \in Scopes : mode[sc] = "up" =>
        \A u \in Mine(sc) \ missed : Known(store)[u] = hist[cursor[sc]][u]

CaptureInv == HistInv /\ ScopesInv /\ store \in Store /\ Honest(store) /\ KnownInv

\* Nothing was listed or recorded.
LEMMA CaptureStarts == CaptureInit => CaptureInv
<1> SUFFICES ASSUME CaptureInit PROVE CaptureInv
  OBVIOUS
<1>1. PICK objects \in [Uids -> {Gone, [spec |-> 0, status |-> 0]}] : hist = <<objects>>
  BY DEF CaptureInit
<1>2. HistInv
  <2>1. objects \in [Uids -> Content \cup {Gone}]
    BY DEF Content
  <2>2. Len(hist) = 1 /\ hist \in Seq([Uids -> Content \cup {Gone}])
    BY <1>1, <2>1
  <2> QED BY <2>2 DEF HistInv
<1>3. /\ mode = [sc \in Scopes |-> "down"] /\ cursor = [sc \in Scopes |-> 0]
      /\ missed = {} /\ leftOut = {}
  BY DEF CaptureInit
<1>4. ScopesInv
  <2>1. Len(hist) \in Nat
    BY <1>2 DEF HistInv
  <2> QED BY <1>3, <2>1 DEF ScopesInv, Modes
<1>5. store \in Store /\ Honest(store)
  <2>1. PICK perObject \in PerObjects : store = NewStore(perObject)
    BY DEF CaptureInit
  <2>2. perObject \in Nat
    BY TimelineAssumption
  <2>3. <<>> \in Seq(Revision) /\ <<>> \in Seq(PersisterCall)
    OBVIOUS
  <2>4. store \in Store
    BY <2>1, <2>2, <2>3 DEF NewStore, Store
  <2>5. store.seq = 0
    BY <2>1 DEF NewStore
  <2> QED BY <2>4, <2>5 DEF Honest
<1>6. KnownInv
  BY <1>3 DEF KnownInv
<1> QED BY <1>2, <1>4, <1>5, <1>6 DEF CaptureInv

\* A write at the server: one object changes, and what was recorded stays the past.
LEMMA ServerWrites ==
  ASSUME HistInv, ScopesInv, NEW u \in Uids, NEW content \in Content \cup {Gone},
         content # Current[u], Write(u, content)
  PROVE  /\ HistInv' /\ ScopesInv'
         /\ UNCHANGED <<mode, cursor, store, missed, leftOut>>
         /\ \A i \in 1..Len(hist) : hist'[i] = hist[i]
<1> DEFINE after == [Current EXCEPT ![u] = content]
           n == Len(hist)
<1>1. hist' = Append(hist, after) /\ UNCHANGED <<mode, cursor, store, missed, leftOut>>
  BY DEF Write
<1>2. /\ hist \in Seq([Uids -> Content \cup {Gone}]) /\ n \in Nat /\ n >= 1
      /\ \A i \in 1..(n - 1) : OneChanges(hist[i], hist[i + 1])
  BY DEF HistInv
<1>3. Current \in [Uids -> Content \cup {Gone}] /\ Current = hist[n]
  BY <1>2 DEF Current
<1>4. after \in [Uids -> Content \cup {Gone}] /\ OneChanges(Current, after)
  <2>1. after[u] # Current[u] /\ \A o \in Uids : o # u => after[o] = Current[o]
    BY <1>3
  <2> QED BY <1>3, <2>1 DEF OneChanges
<1> HIDE DEF after
<1>5. /\ hist' \in Seq([Uids -> Content \cup {Gone}]) /\ Len(hist') = n + 1
      /\ hist'[n + 1] = after
      /\ \A i \in 1..n : hist'[i] = hist[i]
  BY <1>1, <1>2, <1>4, AppendProperties
<1> HIDE DEF n
<1>6. HistInv'
  <2>1. ASSUME NEW i \in 1..n PROVE OneChanges(hist'[i], hist'[i + 1])
    <3>1. CASE i = n
      BY <3>1, <1>2, <1>3, <1>4, <1>5
    <3>2. CASE i # n
      <4>1. i \in 1..(n - 1) /\ i \in 1..n /\ i + 1 \in 1..n
        BY <1>2, <3>2
      <4> QED BY <4>1, <1>2, <1>5
    <3> QED BY <3>1, <3>2
  <2>2. (n + 1) - 1 = n
    BY <1>2
  <2> QED BY <1>2, <1>5, <2>1, <2>2 DEF HistInv
<1>7. ScopesInv'
  BY <1>1, <1>2, <1>5 DEF ScopesInv, n
<1> QED BY <1>1, <1>5, <1>6, <1>7 DEF n

\* Each of the server's actions is a write of something else.
LEMMA ServerIsAWrite ==
  ASSUME HistInv, Server
  PROVE  \E u \in Uids, content \in Content \cup {Gone} : content # Current[u] /\ Write(u, content)
<1>1. PICK u \in Uids : Create(u) \/ ChangeSpec(u) \/ ChangeStatus(u) \/ Delete(u)
  BY DEF Server
<1>2. Current[u] \in Content \cup {Gone} /\ Len(hist) \in DOMAIN hist
  BY DEF HistInv, Current
<1>3. \E content \in Content \cup {Gone} : content # Current[u] /\ Write(u, content)
  <2>1. CASE Create(u)
    <3>1. [spec |-> 0, status |-> 0] \in Content
      BY DEF Content
    <3>2. Current[u] = Gone
      BY <2>1, <1>2 DEF Create, Current
    <3> QED BY <2>1, <3>1, <3>2, GoneAssumption DEF Create
  <2>2. CASE ChangeSpec(u)
    <3> DEFINE was == Current[u]
               now == [was EXCEPT !.spec = 1 - @]
    <3>1. was \in Content
      BY <2>2, <1>2 DEF ChangeSpec
    <3>2. Write(u, now)
      BY <2>2 DEF ChangeSpec
    <3> HIDE DEF was
    <3>3. now \in Content /\ now # was
      <4>1. was.spec \in 0..1 /\ 1 - was.spec \in 0..1 /\ 1 - was.spec # was.spec
        BY <3>1 DEF Content
      <4> QED BY <3>1, <4>1 DEF Content
    <3> QED BY <3>2, <3>3 DEF was
  <2>3. CASE ChangeStatus(u)
    <3> DEFINE was == Current[u]
               now == [was EXCEPT !.status = 1 - @]
    <3>1. was \in Content
      BY <2>3, <1>2 DEF ChangeStatus
    <3>2. Write(u, now)
      BY <2>3 DEF ChangeStatus
    <3> HIDE DEF was
    <3>3. now \in Content /\ now # was
      <4>1. was.status \in 0..1 /\ 1 - was.status \in 0..1 /\ 1 - was.status # was.status
        BY <3>1 DEF Content
      <4> QED BY <3>1, <4>1 DEF Content
    <3> QED BY <3>2, <3>3 DEF was
  <2>4. CASE Delete(u)
    BY <2>4 DEF Delete
  <2> QED BY <1>1, <2>1, <2>2, <2>3, <2>4
<1> QED BY <1>3

\* An event is of the one object the next revision changed.
LEMMA ChangedIs ==
  ASSUME HistInv, ScopesInv, NEW sc \in Scopes, mode[sc] \in {"up", "loose"}, cursor[sc] < Len(hist)
  PROVE  /\ cursor[sc] \in 1..(Len(hist) - 1) /\ cursor[sc] + 1 \in 1..Len(hist)
         /\ Changed(sc) \in Uids
         /\ hist[cursor[sc] + 1][Changed(sc)] # hist[cursor[sc]][Changed(sc)]
         /\ \A o \in Uids : o # Changed(sc) => hist[cursor[sc] + 1][o] = hist[cursor[sc]][o]
<1> DEFINE before == hist[cursor[sc]]
           after == hist[cursor[sc] + 1]
<1>1. cursor[sc] \in 1..(Len(hist) - 1) /\ cursor[sc] + 1 \in 1..Len(hist)
  BY DEF HistInv, ScopesInv
<1>2. OneChanges(before, after)
  BY <1>1 DEF HistInv
<1>3. Changed(sc) = CHOOSE x \in Uids : after[x] # before[x]
  BY DEF Changed
<1> HIDE DEF before, after
<1>4. PICK x \in Uids : after[x] # before[x] /\ \A o \in Uids : o # x => after[o] = before[o]
  BY <1>2 DEF OneChanges
<1>5. Changed(sc) \in Uids /\ after[Changed(sc)] # before[Changed(sc)]
  BY <1>3, <1>4
<1> QED BY <1>1, <1>4, <1>5 DEF before, after

\* What a step does to the server's past and to where the scopes are.
LEMMA ScopesStep ==
  ASSUME HistInv, ScopesInv, [Server \/ Tap]_captureVars
  PROVE  HistInv' /\ ScopesInv'
<1>1. CASE Server
  BY <1>1, ServerIsAWrite, ServerWrites
<1>2. Len(hist) \in Nat /\ Len(hist) >= 1 /\ mode \in [Scopes -> Modes] /\ cursor \in [Scopes -> Nat]
  BY DEF HistInv, ScopesInv
<1>3. ASSUME hist' = hist PROVE HistInv'
  BY <1>3 DEF HistInv
<1>4. ASSUME NEW sc \in Scopes, NEW m \in Modes, NEW c \in 0..Len(hist), hist' = hist,
             mode' = [mode EXCEPT ![sc] = m], cursor' = [cursor EXCEPT ![sc] = c],
             m # "down" => c >= 1, missed' \in SUBSET Uids, leftOut' \in SUBSET Uids
      PROVE  ScopesInv'
  <2>1. mode' \in [Scopes -> Modes] /\ cursor' \in [Scopes -> Nat]
    BY <1>2, <1>4
  <2>2. ASSUME NEW other \in Scopes
        PROVE  cursor'[other] <= Len(hist') /\ (mode'[other] # "down" => cursor'[other] >= 1)
    <3>1. CASE other = sc
      BY <3>1, <1>2, <1>4 DEF ScopesInv
    <3>2. CASE other # sc
      BY <3>2, <1>2, <1>4 DEF ScopesInv
    <3> QED BY <3>1, <3>2
  <2> QED BY <2>1, <2>2, <1>4 DEF ScopesInv
<1>5. ASSUME NEW sc \in Scopes,
             \/ Lists(sc) \/ CommitSeed(sc) \/ CommitPartial(sc) \/ PartialItem(sc)
             \/ PartialDone(sc) \/ Record(sc) \/ DropEvent(sc) \/ Disconnect(sc)
      PROVE  HistInv' /\ ScopesInv'
  <2>1. hist' = hist
    BY <1>5 DEF Lists, CommitSeed, CommitPartial, PartialItem, PartialDone, Record, DropEvent,
                Disconnect
  <2>2. \E m \in Modes, c \in 0..Len(hist) :
            /\ mode' = [mode EXCEPT ![sc] = m] /\ cursor' = [cursor EXCEPT ![sc] = c]
            /\ m # "down" => c >= 1
    <3>0. /\ mode[sc] \in Modes /\ cursor[sc] \in 0..Len(hist) /\ (mode[sc] # "down" => cursor[sc] >= 1)
          /\ mode = [mode EXCEPT ![sc] = mode[sc]] /\ cursor = [cursor EXCEPT ![sc] = cursor[sc]]
      BY <1>2 DEF ScopesInv
    <3>1. CASE Lists(sc)
      <4>1. /\ mode' = [mode EXCEPT ![sc] = "listed"] /\ cursor' = [cursor EXCEPT ![sc] = Len(hist)]
            /\ "listed" \in Modes /\ Len(hist) \in 0..Len(hist)
        BY <3>1, <1>2 DEF Lists, Modes
      <4> QED BY <4>1, <1>2
    <3>2. CASE PartialItem(sc)
      <4>1. mode' = mode /\ cursor' = cursor
        BY <3>2 DEF PartialItem
      <4> QED BY <4>1, <3>0
    <3>3. CASE Record(sc) \/ DropEvent(sc)
      <4>1. mode' = mode /\ cursor' = [cursor EXCEPT ![sc] = cursor[sc] + 1] /\ cursor[sc] < Len(hist)
        BY <3>3 DEF Record, DropEvent
      <4>2. cursor[sc] + 1 \in 0..Len(hist) /\ cursor[sc] + 1 >= 1
        BY <4>1, <3>0, <1>2
      <4> QED BY <4>1, <4>2, <3>0
    <3>4. CASE CommitSeed(sc) \/ CommitPartial(sc) \/ PartialDone(sc) \/ Disconnect(sc)
      <4>1. PICK m \in Modes : mode' = [mode EXCEPT ![sc] = m] /\ cursor' = cursor
                              /\ (m # "down" => mode[sc] # "down")
        BY <3>4 DEF CommitSeed, CommitPartial, PartialDone, Disconnect, Modes
      <4> QED BY <4>1, <3>0
    <3> QED BY <1>5, <3>1, <3>2, <3>3, <3>4
  <2>3. missed' \in SUBSET Uids /\ leftOut' \in SUBSET Uids
    <3>1. missed \in SUBSET Uids /\ leftOut \in SUBSET Uids
      BY DEF ScopesInv
    <3>2. CASE CommitSeed(sc)
      <4>1. PICK out \in SUBSET {u \in Mine(sc) : hist[cursor[sc]][u] # Gone} :
                missed' = (missed \ Mine(sc)) \cup out /\ leftOut' = leftOut \cup out
        BY <3>2 DEF CommitSeed
      <4> QED BY <4>1, <3>1 DEF Mine
    <3>3. CASE DropEvent(sc)
      <4>1. Changed(sc) \in Uids
        BY <3>3, ChangedIs DEF DropEvent
      <4> QED BY <4>1, <3>1, <3>3 DEF DropEvent
    <3>4. CASE Record(sc)
      BY <3>4, <3>1 DEF Record
    <3>5. CASE Lists(sc) \/ CommitPartial(sc) \/ PartialItem(sc) \/ PartialDone(sc) \/ Disconnect(sc)
      BY <3>5, <3>1 DEF Lists, CommitPartial, PartialItem, PartialDone, Disconnect
    <3> QED BY <1>5, <3>2, <3>3, <3>4, <3>5
  <2> QED BY <2>1, <2>2, <2>3, <1>3, <1>4
<1>6. CASE UNCHANGED captureVars
  BY <1>6 DEF captureVars, HistInv, ScopesInv
<1> QED BY <1>1, <1>5, <1>6 DEF Tap

LEMMA ServerStep == ASSUME CaptureInv, Server PROVE CaptureInv' /\ store' = store
<1>1. PICK u \in Uids, content \in Content \cup {Gone} : content # Current[u] /\ Write(u, content)
  BY ServerIsAWrite DEF CaptureInv
<1>2. /\ HistInv' /\ ScopesInv' /\ UNCHANGED <<mode, cursor, store, missed>>
      /\ \A i \in 1..Len(hist) : hist'[i] = hist[i]
  BY <1>1, ServerWrites DEF CaptureInv
<1>3. KnownInv'
  <2> SUFFICES ASSUME NEW sc \in Scopes, mode[sc] = "up", NEW o \in Mine(sc) \ missed
               PROVE  Known(store)[o] = hist'[cursor[sc]][o]
    BY <1>2 DEF KnownInv, Mine
  <2>1. cursor[sc] \in 1..Len(hist)
    BY DEF CaptureInv, HistInv, ScopesInv
  <2> QED BY <2>1, <1>2 DEF CaptureInv, KnownInv
<1> QED BY <1>2, <1>3 DEF CaptureInv

\* A scope lists, gives up on a listing, moves on, or loses contact: the store waits.
LEMMA ScopeMoves ==
  ASSUME CaptureInv, NEW sc \in Scopes,
         Lists(sc) \/ CommitPartial(sc) \/ PartialDone(sc) \/ Disconnect(sc)
  PROVE  CaptureInv' /\ store' = store
<1>1. /\ UNCHANGED <<hist, store, missed>>
      /\ \E m \in Modes \ {"up"} : mode' = [mode EXCEPT ![sc] = m]
      /\ \/ cursor' = [cursor EXCEPT ![sc] = Len(hist)]
         \/ cursor' = cursor /\ (mode[sc] # "down" \/ mode'[sc] = "down")
  BY DEF Lists, CommitPartial, PartialDone, Disconnect, Modes
<1>2. Len(hist) \in Nat /\ Len(hist) >= 1 /\ mode \in [Scopes -> Modes] /\ cursor \in [Scopes -> Nat]
  BY DEF CaptureInv, HistInv, ScopesInv
<1>3. HistInv' /\ ScopesInv'
  <2>1. Tap
    BY DEF Tap
  <2> QED BY <2>1, ScopesStep DEF CaptureInv
<1>4. KnownInv'
  <2> SUFFICES ASSUME NEW other \in Scopes, mode'[other] = "up", NEW u \in Mine(other) \ missed
               PROVE  Known(store)[u] = hist[cursor'[other]][u]
    BY <1>1 DEF KnownInv, Mine
  <2>1. other # sc
    BY <1>1, <1>2
  <2>2. mode[other] = "up" /\ cursor'[other] = cursor[other]
    BY <2>1, <1>1, <1>2
  <2> QED BY <2>2 DEF CaptureInv, KnownInv
<1> QED BY <1>1, <1>3, <1>4 DEF CaptureInv

\* What a complete listing says, leaving some objects out.
Members(sc, out) == [u \in Uids |-> IF u \in out THEN Gone ELSE hist[cursor[sc]][u]]

LEMMA MembersAre ==
  ASSUME HistInv, ScopesInv, NEW sc \in Scopes, mode[sc] = "listed", NEW out
  PROVE  /\ Members(sc, out) \in [Uids -> Content \cup {Gone}] /\ Mine(sc) \in SUBSET Uids
         /\ \A u \in Uids \ out : Members(sc, out)[u] = hist[cursor[sc]][u]
<1>1. cursor[sc] \in 1..Len(hist)
  BY DEF HistInv, ScopesInv
<1>2. hist[cursor[sc]] \in [Uids -> Content \cup {Gone}]
  BY <1>1 DEF HistInv
<1> QED BY <1>2 DEF Members, Mine

\* A seed: what the scope knows is what it listed, and the others' objects are theirs.
LEMMA ScopeSeeds ==
  ASSUME CaptureInv, NEW sc \in Scopes, CommitSeed(sc)
  PROVE  CaptureInv' /\ Tells(store, store')
<1>1. PICK out \in SUBSET {u \in Mine(sc) : hist[cursor[sc]][u] # Gone} :
          /\ mode[sc] = "listed" /\ store' = Seed(store, Mine(sc), Members(sc, out))
          /\ missed' = (missed \ Mine(sc)) \cup out
          /\ mode' = [mode EXCEPT ![sc] = "up"] /\ UNCHANGED <<hist, cursor>>
  BY DEF CommitSeed, Members
<1> DEFINE listed == Members(sc, out)
           t == Seed(store, Mine(sc), listed)
<1>2. store \in Store /\ HistInv /\ ScopesInv /\ KnownInv /\ Honest(store)
  BY DEF CaptureInv
<1>3. /\ listed \in [Uids -> Content \cup {Gone}] /\ Mine(sc) \in SUBSET Uids
      /\ \A u \in Uids \ out : listed[u] = hist[cursor[sc]][u]
  BY <1>1, <1>2, MembersAre
<1>7. store' = t
  BY <1>1
<1> HIDE DEF listed
<1>4. Seeded(store, t, Mine(sc), listed)
  BY <1>2, <1>3, SeedRecords
<1> HIDE DEF t
<1>5. HistInv' /\ ScopesInv'
  <2>1. Tap
    BY DEF Tap
  <2> QED BY <2>1, <1>2, ScopesStep
<1>6. KnownInv'
  <2> SUFFICES ASSUME NEW other \in Scopes, mode'[other] = "up", NEW u \in Mine(other) \ missed'
               PROVE  Known(t)[u] = hist[cursor[other]][u]
    BY <1>1, <1>7 DEF KnownInv, Mine
  <2>1. u \in Uids /\ Known(t)[u] = IF u \in Mine(sc) THEN listed[u] ELSE Known(store)[u]
    BY <1>4 DEF Seeded, Mine
  <2>2. CASE other = sc
    BY <2>1, <2>2, <1>1, <1>3
  <2>3. CASE other # sc
    <3>1. u \notin Mine(sc) /\ mode[other] = "up" /\ u \notin missed
      BY <2>3, <1>1, <1>2 DEF Mine, ScopesInv
    <3> QED BY <2>1, <3>1, <1>2 DEF KnownInv
  <2> QED BY <2>2, <2>3
<1> QED BY <1>2, <1>4, <1>5, <1>6, <1>7 DEF CaptureInv, Seeded

\* An item of a listing that claims nothing.
LEMMA ScopeHandsOver ==
  ASSUME CaptureInv, NEW sc \in Scopes, PartialItem(sc)
  PROVE  CaptureInv' /\ Tells(store, store')
<1>1. /\ mode[sc] = "partial" /\ UNCHANGED <<hist, mode, cursor, missed, leftOut>>
      /\ \E u \in Mine(sc), within \in BOOLEAN :
            /\ hist[cursor[sc]][u] # Gone
            /\ store' = observe(store, u, hist[cursor[sc]][u], FALSE, within)
  BY DEF PartialItem
<1>2. PICK u \in Mine(sc), within \in BOOLEAN :
            /\ hist[cursor[sc]][u] # Gone
            /\ store' = observe(store, u, hist[cursor[sc]][u], FALSE, within)
  BY <1>1
<1>3. store \in Store /\ HistInv /\ ScopesInv /\ KnownInv /\ Honest(store)
  BY DEF CaptureInv
<1> DEFINE content == hist[cursor[sc]][u]
<1>4. content \in Content /\ u \in Uids
  BY <1>1, <1>2, <1>3 DEF HistInv, ScopesInv, Mine
<1>5. store' = observe(store, u, content, FALSE, within)
  BY <1>2
<1> HIDE DEF content
<1>6. Recorded(store, store', u, content)
  BY <1>3, <1>4, <1>5, ObserveRecords
<1>7. KnownInv'
  <2> SUFFICES ASSUME NEW other \in Scopes, mode[other] = "up", NEW o \in Mine(other) \ missed
               PROVE  Known(store')[o] = hist[cursor[other]][o]
    BY <1>1 DEF KnownInv, Mine
  <2>1. o # u
    BY <1>1 DEF Mine
  <2>2. Known(store')[o] = Known(store)[o]
    BY <1>6, <2>1 DEF Recorded, Known, Mine
  <2> QED BY <2>2, <1>3 DEF KnownInv
<1>8. HistInv' /\ ScopesInv'
  BY <1>1, <1>3 DEF HistInv, ScopesInv
<1> QED BY <1>3, <1>6, <1>7, <1>8 DEF CaptureInv, Recorded

\* An event: the one object the next revision changed, if it is the scope's.
LEMMA ScopeRecords ==
  ASSUME CaptureInv, NEW sc \in Scopes, Record(sc)
  PROVE  CaptureInv' /\ Tells(store, store')
<1> DEFINE before == hist[cursor[sc]]
           after == hist[cursor[sc] + 1]
           u == Changed(sc)
<1>1. /\ mode[sc] \in {"up", "loose"} /\ cursor[sc] < Len(hist)
      /\ cursor' = [cursor EXCEPT ![sc] = @ + 1] /\ UNCHANGED <<hist, mode>>
      /\ missed' = IF Home[u] = sc THEN missed \ {u} ELSE missed
      /\ store' \in IF after[u] = Gone
           THEN {IF Home[u] = sc THEN delete(store, u, "deleted") ELSE store}
           ELSE {IF Home[u] = sc THEN observe(store, u, after[u], FALSE, within) ELSE store :
                     within \in BOOLEAN}
  BY DEF Record
<1>2. store \in Store /\ HistInv /\ ScopesInv /\ KnownInv /\ Honest(store)
  BY DEF CaptureInv
<1>3. cursor[sc] \in 1..(Len(hist) - 1) /\ cursor[sc] + 1 \in 1..Len(hist)
  BY <1>1, <1>2, ChangedIs
<1>4. /\ u \in Uids /\ after[u] # before[u]
      /\ \A o \in Uids : o # u => after[o] = before[o]
  BY <1>1, <1>2, ChangedIs
<1>5. after[u] \in Content \cup {Gone}
  <2> HIDE DEF u
  <2> QED BY <1>2, <1>3, <1>4 DEF HistInv
<1> HIDE DEF u, after, before
<1>6. \/ Home[u] = sc /\ Recorded(store, store', u, after[u])
      \/ Home[u] # sc /\ store' = store
  <2>1. CASE Home[u] # sc
    BY <2>1, <1>1
  <2>2. CASE Home[u] = sc /\ after[u] = Gone
    <3>1. store' = delete(store, u, "deleted")
      BY <2>2, <1>1
    <3> QED BY <2>2, <3>1, <1>2, <1>4, DeleteRecords DEF Deletions
  <2>3. CASE Home[u] = sc /\ after[u] # Gone
    <3>1. PICK within \in BOOLEAN : store' = observe(store, u, after[u], FALSE, within)
      BY <2>3, <1>1
    <3>2. after[u] \in Content
      BY <2>3, <1>5
    <3> QED BY <2>3, <3>1, <3>2, <1>2, <1>4, ObserveRecords
  <2> QED BY <2>1, <2>2, <2>3
<1>7. store' \in Store /\ Honest(store') /\ Tells(store, store')
  <2>1. store.generation \in Nat
    BY <1>2 DEF Store
  <2> QED BY <1>2, <1>6, <2>1 DEF Recorded, Tells
<1>8. HistInv' /\ ScopesInv'
  <2>1. Tap
    BY DEF Tap
  <2> QED BY <2>1, <1>2, ScopesStep
<1>9. KnownInv'
  <2> SUFFICES ASSUME NEW other \in Scopes, mode[other] = "up", NEW o \in Mine(other) \ missed'
               PROVE  Known(store')[o] = hist[cursor'[other]][o]
    BY <1>1 DEF KnownInv, Mine
  <2>0. o \in Uids /\ Home[o] = other /\ (o \in missed => o = u /\ Home[u] = sc)
    BY <1>1 DEF Mine
  <2>1. o # u \/ Home[u] # sc => Known(store)[o] = hist[cursor[other]][o]
    BY <2>0, <1>2 DEF Mine, KnownInv
  <2>2. ASSUME o # u \/ Home[u] # sc PROVE Known(store')[o] = Known(store)[o]
    BY <2>2, <2>0, <1>6 DEF Recorded, Known
  <2>3. CASE other # sc
    <3>1. cursor'[other] = cursor[other]
      BY <2>3, <1>1, <1>2 DEF ScopesInv
    <3>2. o # u \/ Home[u] # sc
      BY <2>0, <2>3
    <3> QED BY <2>1, <2>2, <3>1, <3>2
  <2>4. CASE other = sc /\ o # u
    <3>1. cursor'[other] = cursor[sc] + 1
      BY <2>4, <1>1, <1>2 DEF ScopesInv
    <3>2. hist[cursor'[other]][o] = before[o]
      BY <3>1, <2>0, <2>4, <1>4 DEF after
    <3> QED BY <2>1, <2>2, <2>4, <3>2 DEF before
  <2>5. CASE other = sc /\ o = u
    <3>1. cursor'[other] = cursor[sc] + 1
      BY <2>5, <1>1, <1>2 DEF ScopesInv
    <3>2. Known(store')[u] = after[u]
      BY <2>0, <2>5, <1>6 DEF Recorded, Known
    <3> QED BY <2>5, <3>1, <3>2 DEF after
  <2> QED BY <2>3, <2>4, <2>5
<1> QED BY <1>7, <1>8, <1>9 DEF CaptureInv

\* An event let go by: nothing is claimed of its object.
LEMMA ScopeDrops ==
  ASSUME CaptureInv, NEW sc \in Scopes, DropEvent(sc) PROVE CaptureInv' /\ store' = store
<1> DEFINE u == Changed(sc)
<1>1. /\ mode[sc] \in {"up", "loose"} /\ cursor[sc] < Len(hist) /\ missed' = missed \cup {u}
      /\ cursor' = [cursor EXCEPT ![sc] = @ + 1] /\ UNCHANGED <<hist, mode, store>>
  BY DEF DropEvent
<1>2. HistInv /\ ScopesInv /\ KnownInv
  BY DEF CaptureInv
<1>3. \A o \in Uids : o # u => hist[cursor[sc] + 1][o] = hist[cursor[sc]][o]
  BY <1>1, <1>2, ChangedIs
<1> HIDE DEF u
<1>4. HistInv' /\ ScopesInv'
  <2>1. Tap
    BY DEF Tap
  <2> QED BY <2>1, <1>2, ScopesStep
<1>5. KnownInv'
  <2> SUFFICES ASSUME NEW other \in Scopes, mode[other] = "up", NEW o \in Mine(other) \ missed'
               PROVE  Known(store)[o] = hist[cursor'[other]][o]
    BY <1>1 DEF KnownInv, Mine
  <2>1. o \in Uids /\ o # u /\ Known(store)[o] = hist[cursor[other]][o]
    BY <1>1, <1>2 DEF Mine, KnownInv
  <2>2. cursor'[other] = IF other = sc THEN cursor[sc] + 1 ELSE cursor[other]
    BY <1>1, <1>2 DEF ScopesInv
  <2> QED BY <2>1, <2>2, <1>3
<1> QED BY <1>1, <1>4, <1>5 DEF CaptureInv

\* Every step of the server and of the taps.
LEMMA CaptureSteps ==
  ASSUME CaptureInv, [Server \/ Tap]_captureVars
  PROVE  CaptureInv' /\ Tells(store, store')
<1>1. Tells(store, store)
  <2>1. store.generation \in Nat
    BY DEF CaptureInv, Store
  <2> QED BY <2>1 DEF Tells
<1>2. CASE Server
  <2>1. CaptureInv' /\ store' = store
    BY <1>2, ServerStep
  <2> QED BY <2>1, <1>1
<1>3. ASSUME NEW sc \in Scopes,
             Lists(sc) \/ CommitPartial(sc) \/ PartialDone(sc) \/ DropEvent(sc) \/ Disconnect(sc)
      PROVE  CaptureInv' /\ Tells(store, store')
  <2>1. CaptureInv' /\ store' = store
    BY <1>3, ScopeMoves, ScopeDrops
  <2> QED BY <2>1, <1>1
<1>4. CASE UNCHANGED captureVars
  <2>1. UNCHANGED <<hist, mode, cursor, store, missed, leftOut>>
    BY <1>4 DEF captureVars
  <2>2. HistInv' /\ ScopesInv' /\ KnownInv'
    BY <2>1 DEF CaptureInv, HistInv, ScopesInv, KnownInv, Mine
  <2> QED BY <2>1, <2>2, <1>1 DEF CaptureInv
<1> QED BY <1>2, <1>3, <1>4, ScopeSeeds, ScopeHandsOver, ScopeRecords DEF Tap

\* The inductive invariant of capture.
LEMMA CaptureHolds == CaptureSpec => []CaptureInv
<1>1. CaptureInv /\ [Server \/ Tap]_captureVars => CaptureInv'
  BY CaptureSteps
<1> QED BY <1>1, CaptureStarts, PTL DEF CaptureSpec

\* For any objects, scopes and limits, and whatever was evicted or folded: a scope that
\* has seeded since it lost contact classifies against exactly what the server held at
\* the revision it has recorded up to, but for the objects a listing claimed complete
\* left out, or whose last event was dropped (Store.Seed, Store.Observe).
THEOREM KnowsHolds == CaptureSpec => []KnowsTheServer
<1>1. CaptureInv => KnowsTheServer
  <2> SUFFICES ASSUME CaptureInv, NEW sc \in Scopes, mode[sc] = "up", NEW u \in Mine(sc) \ missed
               PROVE  IF store.objects[u] = Gone THEN hist[cursor[sc]][u] = Gone
                      ELSE hist[cursor[sc]][u] = record(store.objects[u])
    BY DEF KnowsTheServer
  <2>1. u \in Uids /\ Known(store)[u] = hist[cursor[sc]][u]
    BY DEF CaptureInv, KnownInv, Mine
  <2> QED BY <2>1 DEF Known
<1> QED BY <1>1, CaptureHolds, PTL

\* For any limits: a timeline without the Evicted mark is every revision ever recorded,
\* so its beginning is the beginning of events (Store.evict).
THEOREM HonestHolds == CaptureSpec => []EvictedIsHonest
<1>1. CaptureInv => EvictedIsHonest
  BY DEF CaptureInv, Honest, EvictedIsHonest
<1> QED BY <1>1, CaptureHolds, PTL

\* For any limits: whatever a mutation adds, rewrites or evicts, the generation tells a
\* reader that saw the one before it (Store.Generation).
THEOREM GenerationHolds == CaptureSpec => GenerationTells
<1>1. CaptureInv /\ [Server \/ Tap]_captureVars
        => [store'.entries # store.entries => store'.generation > store.generation]_store
  BY CaptureSteps DEF Tells
<1> QED BY <1>1, CaptureHolds, PTL DEF CaptureSpec, GenerationTells

-----------------------------------------------------------------------------
(* The timeline, by the server's past: what it speaks of, and what is gone.  *)

\* What was there and went does not come back.
NeverReused ==
    \A u \in Uids : \A i, j, k \in 1..Len(hist) :
        i < j /\ j < k /\ hist[i][u] # Gone /\ hist[j][u] = Gone => hist[k][u] = Gone

\* What the store has heard of was there, at a revision its scope has passed.
HeardInv == \A u \in Heard(store) : \E i \in 1..cursor[Home[u]] : hist[i][u] # Gone

\* What it knows no more is gone, from where its scope is.
GhostsInv ==
    \A u \in Buried(store, leftOut) : \A i \in 1..Len(hist) : cursor[Home[u]] <= i => hist[i][u] = Gone

TimelineInv == CaptureInv /\ Sound(store, leftOut) /\ NeverReused /\ HeardInv /\ GhostsInv

\* A store of nothing derives nothing.
LEMMA TimelineStarts == CaptureInit => TimelineInv
<1> SUFFICES ASSUME CaptureInit PROVE TimelineInv
  OBVIOUS
<1>1. CaptureInv
  BY CaptureStarts
<1>2. PICK perObject \in PerObjects : store = NewStore(perObject)
  BY DEF CaptureInit
<1>3. /\ store.entries = <<>> /\ store.bytes = 0 /\ perObject \in Nat
      /\ store.perObject = perObject /\ store.objects = [u \in Uids |-> Gone]
  BY <1>2, TimelineAssumption DEF NewStore
<1>4. Elems(store.entries) = {} /\ \A u \in Uids : Revs(store, u) = {} /\ Known(store)[u] = Gone
  BY <1>3 DEF Elems, Revs, Known
<1>5. Kept(store, leftOut)
  <2>1. Ascends(store.entries)
    BY <1>3 DEF Ascends
  <2>2. Sums(store.entries, store.bytes)
    <3> DEFINE p == [k \in 0..0 |-> 0]
    <3>1. p \in [0..0 -> Int] /\ p[0] = 0 /\ Len(store.entries) = 0
      BY <1>3
    <3> HIDE DEF p
    <3> QED BY <3>1, <1>3 DEF Sums
  <2> QED BY <2>1, <2>2, <1>3, <1>4 DEF Kept, Life
<1>6. Bounded(store, leftOut)
  <2>1. Fits(store)
    BY <1>3, TimelineAssumption DEF Fits
  <2>2. ASSUME NEW u \in Uids PROVE Within(store, u)
    <3>1. Cardinality(Revs(store, u)) = 0
      BY <1>4, FS_EmptySet
    <3> QED BY <3>1, <1>3 DEF Within
  <2> QED BY <2>1, <2>2 DEF Bounded
<1>7. Sound(store, leftOut)
  BY <1>4, <1>5, <1>6 DEF Sound
<1>8. HeardInv /\ GhostsInv
  BY <1>4 DEF HeardInv, GhostsInv, Heard, Buried
<1>9. NeverReused
  <2>1. Len(hist) = 1
    BY DEF CaptureInit
  <2> QED BY <2>1 DEF NeverReused
<1> QED BY <1>1, <1>7, <1>8, <1>9 DEF TimelineInv

\* A write creates what never was, or changes what is.
LEMMA ServerKeeps == ASSUME TimelineInv, Server PROVE TimelineInv'
<1>1. CaptureInv' /\ store' = store
  BY ServerStep DEF TimelineInv
<1>0. PICK u \in Uids : Create(u) \/ ChangeSpec(u) \/ ChangeStatus(u) \/ Delete(u)
  BY DEF Server
<1>2. PICK content : /\ (\A i \in DOMAIN hist : hist[i][u] = Gone) \/ Current[u] # Gone
                     /\ Write(u, content)
  BY <1>0 DEF Create, ChangeSpec, ChangeStatus, Delete
<1> DEFINE n == Len(hist)
           after == [Current EXCEPT ![u] = content]
<1>3. hist' = Append(hist, after) /\ UNCHANGED <<mode, cursor, store, leftOut>>
  BY <1>2 DEF Write
<1>4. /\ hist \in Seq([Uids -> Content \cup {Gone}]) /\ n \in Nat /\ n >= 1
      /\ Current = hist[n] /\ Current \in [Uids -> Content \cup {Gone}]
      /\ DOMAIN hist = 1..n
  BY DEF TimelineInv, CaptureInv, HistInv, Current
<1>5. \A o \in Uids : o # u => after[o] = hist[n][o]
  BY <1>4
<1>6. hist'[n + 1] = after /\ Len(hist') = n + 1 /\ \A i \in 1..n : hist'[i] = hist[i]
  <2> HIDE DEF after
  <2> QED BY <1>3, <1>4, AppendProperties
<1> HIDE DEF after, n
<1>7. NeverReused'
  <2> SUFFICES ASSUME NEW o \in Uids, NEW i \in 1..(n + 1), NEW j \in 1..(n + 1), NEW k \in 1..(n + 1),
                      i < j, j < k, hist'[i][o] # Gone, hist'[j][o] = Gone
               PROVE  hist'[k][o] = Gone
    BY <1>6 DEF NeverReused
  <2>1. i \in 1..n /\ j \in 1..n /\ hist[i][o] # Gone /\ hist[j][o] = Gone
    BY <1>4, <1>6
  <2>2. \A m \in 1..n : j < m => hist[m][o] = Gone
    BY <2>1 DEF TimelineInv, NeverReused, n
  <2>3. hist[n][o] = Gone
    <3>1. n \in 1..n
      BY <1>4
    <3>2. j = n \/ j < n
      BY <2>1, <1>4
    <3> QED BY <2>1, <2>2, <3>1, <3>2
  <2>4. CASE k = n + 1
    <3>1. o # u
      BY <2>1, <2>3, <1>2, <1>4
    <3> QED BY <2>3, <2>4, <3>1, <1>5, <1>6
  <2>5. CASE k # n + 1
    <3>1. k \in 1..n
      BY <2>5, <1>4
    <3> QED BY <2>2, <3>1, <1>6
  <2> QED BY <2>4, <2>5
<1>8. ASSUME NEW o \in Heard(store)
      PROVE  /\ cursor[Home[o]] \in 1..n /\ o \in Uids
             /\ \E i \in 1..cursor[Home[o]] : hist[i][o] # Gone
  <2>1. PICK i \in 1..cursor[Home[o]] : hist[i][o] # Gone
    BY DEF TimelineInv, HeardInv
  <2>2. o \in Uids /\ Home[o] \in Scopes
    BY CaptureAssumption DEF Heard
  <2>3. cursor[Home[o]] \in Nat /\ cursor[Home[o]] <= n
    BY <2>2 DEF TimelineInv, CaptureInv, ScopesInv, n
  <2> QED BY <2>1, <2>2, <2>3
<1>9. HeardInv'
  <2>1. ASSUME NEW o \in Heard(store) PROVE \E i \in 1..cursor[Home[o]] : hist'[i][o] # Gone
    <3>1. PICK i \in 1..cursor[Home[o]] : hist[i][o] # Gone
      BY <1>8
    <3>2. i \in 1..n
      BY <1>8, <1>4
    <3> QED BY <3>1, <3>2, <1>6
  <2> QED BY <2>1, <1>3 DEF HeardInv
<1>10. GhostsInv'
  <2> SUFFICES ASSUME NEW o \in Buried(store, leftOut), NEW i \in 1..(n + 1), cursor[Home[o]] <= i
               PROVE  hist'[i][o] = Gone
    BY <1>3, <1>6 DEF GhostsInv
  <2> DEFINE c == cursor[Home[o]]
  <2>1. o \in Heard(store)
    BY DEF Buried, Heard
  <2>2. c \in 1..n /\ o \in Uids
    BY <2>1, <1>8
  <2>3. PICK m \in 1..c : hist[m][o] # Gone
    BY <2>1, <1>8
  <2>4. \A j \in 1..n : c <= j => hist[j][o] = Gone
    BY DEF TimelineInv, GhostsInv, n
  <2> HIDE DEF c
  <2>5. CASE i = n + 1
    <3>1. hist[c][o] = Gone
      BY <2>2, <2>4
    <3>2. m < c /\ m \in 1..n /\ c < i
      <4>1. m # c
        BY <2>3, <3>1
      <4> QED BY <4>1, <2>2, <2>3, <2>5, <1>4
    <3>3. hist'[m][o] # Gone /\ hist'[c][o] = Gone
      BY <2>2, <2>3, <3>1, <3>2, <1>6
    <3>4. m \in 1..(n + 1) /\ c \in 1..(n + 1)
      BY <2>2, <3>2, <1>4
    <3> QED BY <2>2, <3>2, <3>3, <3>4, <1>6, <1>7 DEF NeverReused
  <2>6. CASE i # n + 1
    <3>1. i \in 1..n
      BY <2>6, <1>4
    <3> QED BY <3>1, <2>4, <1>6 DEF c
  <2> QED BY <2>5, <2>6
<1> QED BY <1>1, <1>3, <1>7, <1>9, <1>10 DEF TimelineInv

\* The more objects may come back, the less is asked.
LEMMA SoundForMore ==
  ASSUME NEW st, NEW X, NEW Y, X \subseteq Y, Sound(st, X)
  PROVE  Sound(st, Y) /\ Buried(st, Y) \subseteq Buried(st, X)
<1>1. ASSUME NEW S, Life(S, X) PROVE Life(S, Y)
  BY <1>1 DEF Life, Coherent
<1>2. ASSUME NEW S, NEW state, NEW u, Figures(S, state, u, X) PROVE Figures(S, state, u, Y)
  BY <1>2 DEF Figures
<1>3. Kept(st, Y)
  BY <1>1, <1>2 DEF Sound, Kept
<1> QED BY <1>3 DEF Sound, Bounded, Buried

\* A step of the scopes: what they newly speak of is there, and what they forget is not.
LEMMA ScopesKeep ==
  ASSUME TimelineInv, CaptureInv', hist' = hist, leftOut \subseteq leftOut',
         NEW H, NEW G, Follows(store, store', H, G, leftOut'),
         \A sc \in Scopes : cursor[sc] <= cursor'[sc],
         \A u \in H : cursor'[Home[u]] >= 1 /\ hist[cursor'[Home[u]]][u] # Gone,
         \A u \in G : hist[cursor'[Home[u]]][u] = Gone
  PROVE  TimelineInv'
<1> DEFINE n == Len(hist)
<1>1. ASSUME NEW u \in Uids
      PROVE  /\ cursor[Home[u]] \in Nat /\ cursor'[Home[u]] \in Nat /\ n \in Nat
             /\ cursor[Home[u]] <= cursor'[Home[u]] /\ cursor'[Home[u]] <= n
  <2>1. Home[u] \in Scopes
    BY CaptureAssumption
  <2> QED BY <2>1 DEF TimelineInv, CaptureInv, HistInv, ScopesInv
<1>2. Sound(store', leftOut')
  BY DEF Follows
<1>3. NeverReused'
  BY DEF TimelineInv, NeverReused
<1>4. ASSUME NEW u \in Heard(store') PROVE \E i \in 1..cursor'[Home[u]] : hist[i][u] # Gone
  <2>1. u \in Uids
    BY DEF Heard
  <2>2. CASE u \in H
    <3>1. cursor'[Home[u]] \in 1..cursor'[Home[u]]
      BY <2>1, <2>2, <1>1
    <3> QED BY <2>2, <3>1
  <2>3. CASE u \in Heard(store)
    <3>1. PICK i \in 1..cursor[Home[u]] : hist[i][u] # Gone
      BY <2>3 DEF TimelineInv, HeardInv
    <3>2. i \in 1..cursor'[Home[u]]
      BY <2>1, <1>1
    <3> QED BY <3>1, <3>2
  <2> QED BY <2>2, <2>3 DEF Follows
<1>5. ASSUME NEW u \in Buried(store', leftOut'), NEW i \in 1..n, cursor'[Home[u]] <= i
      PROVE  hist[i][u] = Gone
  <2>0. u \in Uids /\ u \in Heard(store')
    BY DEF Buried, Heard
  <2>1. CASE u \in Buried(store, leftOut')
    <3>0. u \in Buried(store, leftOut)
      BY <2>1, SoundForMore DEF TimelineInv
    <3>1. cursor[Home[u]] <= i
      BY <2>0, <1>1, <1>5
    <3> QED BY <3>0, <3>1 DEF TimelineInv, GhostsInv
  <2>2. CASE u \in G
    <3> DEFINE c == cursor'[Home[u]]
    <3>1. hist[c][u] = Gone
      BY <2>2
    <3>2. u \notin H
      BY <2>2
    <3>3. u \in Heard(store)
      BY <3>2, <2>0 DEF Follows
    <3>4. PICK m \in 1..cursor[Home[u]] : hist[m][u] # Gone
      BY <3>3 DEF TimelineInv, HeardInv
    <3>5. m \in 1..n /\ c \in 1..n /\ m <= c /\ c <= i
      BY <2>0, <1>1, <1>5
    <3> HIDE DEF c
    <3>6. m # c
      BY <3>1, <3>4
    <3>7. m < c
      BY <3>5, <3>6
    <3>8. CASE c = i
      BY <3>1, <3>8
    <3>9. CASE c < i
      BY <2>0, <3>1, <3>4, <3>5, <3>7, <3>9 DEF TimelineInv, NeverReused
    <3> QED BY <3>5, <3>8, <3>9
  <2> QED BY <2>1, <2>2 DEF Follows
<1>6. HeardInv'
  BY <1>4 DEF HeardInv
<1>7. GhostsInv'
  BY <1>5 DEF GhostsInv
<1> QED BY <1>2, <1>3, <1>6, <1>7 DEF TimelineInv

LEMMA FollowsSelf == ASSUME NEW st \in Store, Sound(st, leftOut) PROVE Follows(st, st, {}, {}, leftOut)
BY DEF Follows

LEMMA MoveKeeps ==
  ASSUME TimelineInv, NEW sc \in Scopes,
         Lists(sc) \/ CommitPartial(sc) \/ PartialDone(sc) \/ DropEvent(sc) \/ Disconnect(sc)
  PROVE  TimelineInv'
<1>1. CaptureInv' /\ store' = store
  BY ScopeMoves, ScopeDrops DEF TimelineInv
<1>2. /\ hist' = hist /\ leftOut' = leftOut
      /\ \/ cursor' = cursor \/ cursor' = [cursor EXCEPT ![sc] = Len(hist)]
         \/ cursor' = [cursor EXCEPT ![sc] = cursor[sc] + 1] /\ cursor[sc] \in Nat
  <2>1. cursor[sc] \in Nat
    BY DEF TimelineInv, CaptureInv, ScopesInv
  <2> QED BY <2>1 DEF Lists, CommitPartial, PartialDone, DropEvent, Disconnect
<1>3. \A other \in Scopes : cursor[other] <= cursor'[other]
  <2>1. cursor \in [Scopes -> Nat] /\ \A other \in Scopes : cursor[other] <= Len(hist)
    BY DEF TimelineInv, CaptureInv, ScopesInv
  <2> QED BY <2>1, <1>2
<1>4. Follows(store, store', {}, {}, leftOut')
  BY <1>1, <1>2, FollowsSelf DEF TimelineInv, CaptureInv
<1> QED BY <1>1, <1>2, <1>3, <1>4, ScopesKeep

LEMMA SeedKeeps == ASSUME TimelineInv, NEW sc \in Scopes, CommitSeed(sc) PROVE TimelineInv'
<1>1. PICK out \in SUBSET {u \in Mine(sc) : hist[cursor[sc]][u] # Gone} :
          /\ mode[sc] = "listed" /\ store' = Seed(store, Mine(sc), Members(sc, out))
          /\ leftOut' = leftOut \cup out /\ UNCHANGED <<hist, cursor>>
  BY DEF CommitSeed, Members
<1> DEFINE listed == Members(sc, out)
           H == {u \in Mine(sc) : listed[u] # Gone}
           G == {u \in Mine(sc) : listed[u] = Gone} \ leftOut'
<1>2. CaptureInv'
  BY ScopeSeeds DEF TimelineInv
<1>3. cursor[sc] \in 1..Len(hist) /\ cursor \in [Scopes -> Nat]
  BY <1>1 DEF TimelineInv, CaptureInv, HistInv, ScopesInv
<1>4. /\ listed \in [Uids -> Content \cup {Gone}] /\ Mine(sc) \in SUBSET Uids
      /\ \A u \in Uids \ out : listed[u] = hist[cursor[sc]][u]
      /\ \A u \in Uids \cap out : listed[u] = Gone
  <2>1. \A u \in Uids \cap out : listed[u] = Gone
    BY DEF Members
  <2> QED BY <2>1, <1>1, MembersAre DEF TimelineInv, CaptureInv
<1> HIDE DEF listed
<1>5. \A u \in Mine(sc) : Home[u] = sc
  BY DEF Mine
<1>6. /\ leftOut \subseteq leftOut' /\ Sound(store, leftOut')
      /\ \A u \in Mine(sc) : listed[u] # Gone => u \notin Buried(store, leftOut')
  <2>1. leftOut \subseteq leftOut'
    BY <1>1
  <2>2. Sound(store, leftOut') /\ Buried(store, leftOut') \subseteq Buried(store, leftOut)
    BY <2>1, SoundForMore DEF TimelineInv
  <2>3. ASSUME NEW u \in Mine(sc), listed[u] # Gone PROVE u \notin Buried(store, leftOut)
    <3>1. u \in Uids /\ hist[cursor[sc]][u] # Gone
      BY <2>3, <1>4
    <3> QED BY <3>1, <1>3, <1>5 DEF TimelineInv, GhostsInv
  <2> QED BY <2>1, <2>2, <2>3
<1>7. Follows(store, store', H, G, leftOut')
  <2>1. store \in Store /\ \A u \in Mine(sc) : listed[u] \in Content \cup {Gone}
    BY <1>4 DEF TimelineInv, CaptureInv
  <2>2. store' = Seed(store, Mine(sc), listed)
    BY <1>1 DEF listed
  <2> QED BY <2>1, <2>2, <1>4, <1>6, SeedFollows
<1>8. /\ \A u \in H : cursor'[Home[u]] >= 1 /\ hist[cursor'[Home[u]]][u] # Gone
      /\ \A u \in G : hist[cursor'[Home[u]]][u] = Gone
      /\ \A other \in Scopes : cursor[other] <= cursor'[other]
  <2>1. ASSUME NEW u \in H PROVE cursor'[Home[u]] >= 1 /\ hist[cursor'[Home[u]]][u] # Gone
    BY <1>1, <1>3, <1>4, <1>5
  <2>2. ASSUME NEW u \in G PROVE hist[cursor'[Home[u]]][u] = Gone
    <3>1. u \in Uids \ out
      BY <1>1, <1>4
    <3> QED BY <3>1, <1>1, <1>4, <1>5
  <2>3. \A other \in Scopes : cursor[other] <= cursor'[other]
    BY <1>1, <1>3
  <2> QED BY <2>1, <2>2, <2>3
<1> HIDE DEF H, G
<1> QED BY <1>1, <1>2, <1>6, <1>7, <1>8, ScopesKeep

LEMMA ItemKeeps == ASSUME TimelineInv, NEW sc \in Scopes, PartialItem(sc) PROVE TimelineInv'
<1>1. mode[sc] = "partial" /\ UNCHANGED <<hist, mode, cursor, leftOut>>
  BY DEF PartialItem
<1>2. PICK u \in Mine(sc), within \in BOOLEAN :
            /\ hist[cursor[sc]][u] # Gone
            /\ store' = observe(store, u, hist[cursor[sc]][u], FALSE, within)
  BY DEF PartialItem
<1>3. CaptureInv'
  BY ScopeHandsOver DEF TimelineInv
<1>4. cursor[sc] \in 1..Len(hist) /\ cursor \in [Scopes -> Nat]
  BY <1>1 DEF TimelineInv, CaptureInv, HistInv, ScopesInv
<1> DEFINE content == hist[cursor[sc]][u]
<1>5. u \in Uids /\ Home[u] = sc /\ content \in Content
  BY <1>2, <1>4 DEF TimelineInv, CaptureInv, HistInv, Mine
<1>6. u \notin Buried(store, leftOut)
  BY <1>2, <1>4, <1>5 DEF TimelineInv, GhostsInv
<1>7. Follows(store, store', {u}, {}, leftOut')
  <2>1. store' = observe(store, u, content, FALSE, within)
    BY <1>2
  <2> HIDE DEF content
  <2> QED BY <2>1, <1>1, <1>5, <1>6, ObserveFollows DEF TimelineInv, CaptureInv
<1>8. \A other \in Scopes : cursor[other] <= cursor'[other]
  BY <1>1, <1>4
<1>9. cursor'[Home[u]] >= 1 /\ hist[cursor'[Home[u]]][u] # Gone
  BY <1>1, <1>2, <1>4, <1>5
<1> QED BY <1>1, <1>3, <1>7, <1>8, <1>9, ScopesKeep

LEMMA RecordKeeps == ASSUME TimelineInv, NEW sc \in Scopes, Record(sc) PROVE TimelineInv'
<1> DEFINE after == hist[cursor[sc] + 1]
           u == Changed(sc)
<1>1. /\ mode[sc] \in {"up", "loose"} /\ cursor[sc] < Len(hist)
      /\ cursor' = [cursor EXCEPT ![sc] = @ + 1] /\ UNCHANGED <<hist, mode, leftOut>>
      /\ store' \in IF after[u] = Gone
           THEN {IF Home[u] = sc THEN delete(store, u, "deleted") ELSE store}
           ELSE {IF Home[u] = sc THEN observe(store, u, after[u], FALSE, within) ELSE store :
                     within \in BOOLEAN}
  BY DEF Record
<1>2. CaptureInv'
  BY ScopeRecords DEF TimelineInv
<1>3. store \in Store /\ HistInv /\ ScopesInv /\ Sound(store, leftOut)
  BY DEF TimelineInv, CaptureInv
<1>4. cursor[sc] \in 1..(Len(hist) - 1) /\ cursor[sc] + 1 \in 1..Len(hist) /\ cursor \in [Scopes -> Nat]
  BY <1>1, <1>3, ChangedIs DEF ScopesInv
<1>5. u \in Uids
  BY <1>1, <1>3, ChangedIs
<1>6. after[u] \in Content \cup {Gone}
  <2> HIDE DEF u
  <2> QED BY <1>3, <1>4, <1>5 DEF HistInv
<1> HIDE DEF u
<1>7. \A other \in Scopes : cursor[other] <= cursor'[other]
  <2>1. \A other \in Scopes : cursor'[other] = IF other = sc THEN cursor[sc] + 1 ELSE cursor[other]
    BY <1>1, <1>4
  <2> QED BY <2>1, <1>4
<1>8. cursor'[sc] = cursor[sc] + 1 /\ hist[cursor'[sc]] = after
  BY <1>1, <1>4
<1>9. CASE Home[u] # sc
  <2>1. store' = store
    <3> HIDE DEF after
    <3> QED BY <1>1, <1>9
  <2>2. Follows(store, store', {}, {}, leftOut')
    BY <2>1, <1>1, <1>3, FollowsSelf
  <2> QED BY <2>2, <1>1, <1>2, <1>7, ScopesKeep
<1>10. CASE Home[u] = sc /\ after[u] = Gone
  <2>1. store' = delete(store, u, "deleted")
    <3> HIDE DEF after
    <3> QED BY <1>1, <1>10
  <2>2. Follows(store, store', {}, {u}, leftOut')
    <3>1. "deleted" \in Deletions /\ "deleted" # "deleted-unobserved"
      BY DEF Deletions
    <3> QED BY <2>1, <3>1, <1>1, <1>3, <1>5, DeleteFollows
  <2>3. hist[cursor'[Home[u]]][u] = Gone
    BY <1>8, <1>10
  <2> QED BY <2>2, <2>3, <1>1, <1>2, <1>7, ScopesKeep
<1>11. CASE Home[u] = sc /\ after[u] # Gone
  <2>1. PICK within \in BOOLEAN : store' = observe(store, u, after[u], FALSE, within)
    <3> HIDE DEF after
    <3> QED BY <1>1, <1>11
  <2>2. u \notin Buried(store, leftOut)
    <3>1. cursor[Home[u]] <= cursor[sc] + 1
      BY <1>4, <1>11
    <3> QED BY <3>1, <1>4, <1>11 DEF TimelineInv, GhostsInv
  <2>3. Follows(store, store', {u}, {}, leftOut')
    <3> HIDE DEF after
    <3>1. after[u] \in Content
      BY <1>6, <1>11
    <3> QED BY <2>1, <2>2, <3>1, <1>1, <1>3, <1>5, ObserveFollows
  <2>4. cursor'[Home[u]] >= 1 /\ hist[cursor'[Home[u]]][u] # Gone
    BY <1>4, <1>8, <1>11
  <2> QED BY <2>3, <2>4, <1>1, <1>2, <1>7, ScopesKeep
<1> QED BY <1>9, <1>10, <1>11

\* Every step of the server and of the taps.
LEMMA TimelineSteps == ASSUME TimelineInv, [Server \/ Tap]_captureVars PROVE TimelineInv'
<1>1. CASE UNCHANGED captureVars
  <2>1. UNCHANGED <<hist, cursor, store, leftOut>>
    BY <1>1 DEF captureVars
  <2>2. CaptureInv'
    BY CaptureSteps DEF TimelineInv
  <2>3. Follows(store, store', {}, {}, leftOut')
    BY <2>1, FollowsSelf DEF TimelineInv, CaptureInv
  <2>4. \A sc \in Scopes : cursor[sc] <= cursor'[sc]
    BY <2>1 DEF TimelineInv, CaptureInv, ScopesInv
  <2> QED BY <2>1, <2>2, <2>3, <2>4, ScopesKeep
<1> QED BY <1>1, ServerKeeps, MoveKeeps, SeedKeeps, ItemKeeps, RecordKeeps DEF Tap

\* The inductive invariant of the timeline.
LEMMA TimelineHolds == CaptureSpec => []TimelineInv
<1>1. TimelineInv /\ [Server \/ Tap]_captureVars => TimelineInv'
  BY TimelineSteps
<1> QED BY <1>1, TimelineStarts, PTL DEF CaptureSpec
-----------------------------------------------------------------------------
(* What the invariant says of the figures, the bounds and the lives.         *)

Total(e) == FoldLeft(LAMBDA n, rev : n + revisionSize(rev), 0, e)

\* The sum of the costs is one number, however it is taken.
LEMMA TotalIs == ASSUME NEW e \in Seq(Revision), NEW total, Sums(e, total) PROVE Total(e) = total
<1> DEFINE n == Len(e)
           S == 1..n
           Turns(iter) == iter = [s \in SUBSET S |->
               IF s = {} THEN 0 ELSE iter[s \ {Max(s)}] + revisionSize(e[Max(s)])]
           all == CHOOSE iter : Turns(iter)
           step == [p \in S \X Int |-> p[2] + revisionSize(e[p[1]])]
<1>1. n \in Nat /\ DOMAIN e = S /\ \A k \in S : revisionSize(e[k]) \in Int
  BY SizesOf
<1>2. Total(e) = all[S]
  BY <1>1, Zenon DEF Total, FoldLeft, MapThenFoldSet
<1>3. step \in [S \X Int -> Int]
  <2>1. \A p \in S \X Int : p[1] \in S /\ p[2] \in Int
    OBVIOUS
  <2> HIDE DEF S
  <2>2. \A p \in S \X Int : p[2] + revisionSize(e[p[1]]) \in Int
    BY <2>1, <1>1
  <2> QED BY <2>2
<1>4. PICK g \in [SUBSET S -> Int] : \A s \in SUBSET S :
        g[s] = IF s = {} THEN 0 ELSE step[<<Max(s), g[s \ {Max(s)}]>>]
  <2> HIDE DEF n, step
  <2>1. LeftFolds(n, Int, 0, step) # {}
    <3> DEFINE V == Int
    <3>1. 0 \in V /\ step \in [(1..n) \X V -> V]
      BY <1>3
    <3> HIDE DEF V
    <3>2. LeftFolds(n, V, 0, step) # {}
      BY <1>1, <3>1, FoldOfASequence
    <3> QED BY <3>2 DEF V
  <2> QED BY <2>1 DEF LeftFolds
<1>5. Turns(g)
  <2>1. ASSUME NEW s \in SUBSET S, s # {}
        PROVE  g[s] = g[s \ {Max(s)}] + revisionSize(e[Max(s)])
    <3>1. Max(s) \in S
      <4> HIDE DEF n
      <4> QED BY <1>1, <2>1, Greatest
    <3>2. s \ {Max(s)} \in SUBSET S
      OBVIOUS
    <3> HIDE DEF S
    <3>3. g[s] = step[<<Max(s), g[s \ {Max(s)}]>>] /\ <<Max(s), g[s \ {Max(s)}]>> \in S \X Int
      BY <2>1, <3>1, <3>2, <1>4
    <3> QED BY <3>3
  <2>2. g = [s \in SUBSET S |-> g[s]]
    OBVIOUS
  <2> HIDE DEF S, step
  <2> QED BY <2>1, <2>2, <1>4
<1>6. Turns(all)
  <2> HIDE DEF Turns
  <2> QED BY <1>5
<1> HIDE DEF all
<1>7. \A s \in SUBSET S :
        all[s] = IF s = {} THEN 0 ELSE all[s \ {Max(s)}] + revisionSize(e[Max(s)])
  <2> HIDE DEF S
  <2> QED BY <1>6
<1>8. PICK p \in [0..n -> Int] : /\ p[0] = 0
                                 /\ \A k \in 1..n : p[k] = p[k - 1] + revisionSize(e[k])
                                 /\ total = p[n]
  BY DEF Sums
<1> DEFINE f == [k \in 0..n |-> all[1..k]]
           W == [k \in 0..n |-> {p[k]}]
<1>9. f[0] \in W[0]
  <2>1. 1..0 = {} /\ {} \in SUBSET S
    OBVIOUS
  <2>2. all[{}] = 0
    <3> HIDE DEF S
    <3> QED BY <2>1, <1>7
  <2>3. f[0] = all[1..0] /\ W[0] = {p[0]}
    BY <1>1
  <2> QED BY <2>1, <2>2, <2>3, <1>8
<1>10. ASSUME NEW k \in 1..n, f[k - 1] \in W[k - 1] PROVE f[k] \in W[k]
  <2>1. /\ 1..k \in SUBSET S /\ 1..k # {}
        /\ Max(1..k) = k
        /\ (1..k) \ {k} = 1..(k - 1)
    BY <1>1, PositionsUpTo
  <2>2. k \in 0..n /\ k - 1 \in 0..n
    BY <1>1
  <2>3. f[k] = all[1..k] /\ f[k - 1] = all[1..(k - 1)] /\ W[k] = {p[k]} /\ W[k - 1] = {p[k - 1]}
    BY <2>2
  <2>4. all[1..k] = all[1..(k - 1)] + revisionSize(e[k])
    <3> HIDE DEF S
    <3> QED BY <2>1, <1>7
  <2> HIDE DEF f, W
  <2> QED BY <2>3, <2>4, <1>8, <1>10
<1>11. f[n] \in W[n]
  <2> HIDE DEF f, W, n
  <2> QED BY <1>1, <1>9, <1>10, Reaches
<1>12. f[n] = all[S] /\ W[n] = {p[n]}
  BY <1>1
<1> QED BY <1>2, <1>8, <1>11, <1>12

\* Where the timeline speaks of an object, and what it says there.
LEMMA WhereAndWhat ==
  ASSUME TimelineInv, NEW u \in Uids
  PROVE  /\ Cardinality(Of(u)) = Cardinality(Revs(store, u))
         /\ \A i \in Of(u) : i \in 1..Len(store.entries) /\ store.entries[i] \in Revs(store, u)
         /\ \A r \in Revs(store, u) : \E i \in Of(u) : store.entries[i] = r
<1> DEFINE e == store.entries
<1>1. e \in Seq(Revision) /\ DOMAIN e = 1..Len(e) /\ Len(e) \in Nat /\ Ascends(e)
  BY DEF TimelineInv, CaptureInv, Store, Sound, Kept
<1>2. \A i \in Of(u) : i \in 1..Len(e) /\ e[i] \in Revs(store, u)
  BY <1>1 DEF Of, Revs, Elems
<1>3. \A r \in Revs(store, u) : \E i \in Of(u) : e[i] = r
  BY <1>1 DEF Of, Revs, Elems
<1>4. \A i, j \in Of(u) : e[i] = e[j] => i = j
  <2> SUFFICES ASSUME NEW i \in Of(u), NEW j \in Of(u), e[i] = e[j], i # j PROVE FALSE
    OBVIOUS
  <2>1. i \in 1..Len(e) /\ j \in 1..Len(e)
    BY <1>2
  <2>2. e[i].seq \in Nat
    BY <2>1, <1>1, RevisionParts
  <2>3. i < j \/ j < i
    BY <2>1, <1>1
  <2> QED BY <2>1, <2>2, <2>3, <1>1 DEF Ascends
<1> DEFINE entryAt == [i \in Of(u) |-> e[i]]
<1>5. IsFiniteSet(Of(u))
  <2>1. IsFiniteSet(1..Len(e))
    BY <1>1, FS_Interval
  <2> QED BY <2>1, <1>2, FS_Subset
<1>6. entryAt \in Surjection(Of(u), Revs(store, u)) /\ entryAt \in Injection(Of(u), Revs(store, u))
  <2>1. entryAt \in [Of(u) -> Revs(store, u)]
    BY <1>2
  <2>2. \A i \in Of(u) : entryAt[i] = e[i]
    OBVIOUS
  <2> HIDE DEF entryAt
  <2> QED BY <2>1, <2>2, <1>3, <1>4 DEF Surjection, Injection, IsInjective
<1>7. Cardinality(Of(u)) = Cardinality(Revs(store, u))
  <2> HIDE DEF entryAt
  <2> QED BY <1>5, <1>6, FS_Surjection
<1> QED BY <1>2, <1>3, <1>7

\* In the order of the timeline, a later revision has a higher number.
LEMMA LaterIsHigher ==
  ASSUME TimelineInv, NEW i \in 1..Len(store.entries), NEW j \in 1..Len(store.entries)
  PROVE  /\ i < j <=> store.entries[i].seq < store.entries[j].seq
         /\ i \in Nat /\ j \in Nat
<1> DEFINE e == store.entries
<1>1. e \in Seq(Revision) /\ Ascends(e)
  BY DEF TimelineInv, CaptureInv, Store, Sound, Kept
<1>2. e[i].seq \in Nat /\ e[j].seq \in Nat
  <2>1. e[i] \in Revision /\ e[j] \in Revision
    BY <1>1
  <2> QED BY <2>1, RevisionParts
<1>3. i < j \/ j < i \/ i = j
  OBVIOUS
<1> QED BY <1>1, <1>2, <1>3 DEF Ascends

\* For any objects, scopes and limits, and after any mix of evictions, rewrites and
\* deletions: the byte total is what the retained revisions cost, a live object's count
\* is how many of them are its own (no more than that, for an object a listing left out
\* while it was there), and its coalescing target is its newest
\* (Store.append, Store.coalesce, Store.evict).
THEOREM BooksHold == CaptureSpec => []BooksBalance
<1>1. TimelineInv => BooksBalance
  <2> SUFFICES ASSUME TimelineInv PROVE BooksBalance
    OBVIOUS
  <2>1. store.bytes = Total(store.entries)
    <3>1. Sums(store.entries, store.bytes) /\ store.entries \in Seq(Revision)
      BY DEF TimelineInv, CaptureInv, Store, Sound, Kept
    <3> QED BY <3>1, TotalIs
  <2>2. ASSUME NEW u \in Live(store)
        PROVE  /\ store.objects[u].count <= Cardinality(Of(u))
               /\ u \notin leftOut => store.objects[u].count = Cardinality(Of(u))
               /\ store.objects[u].last # 0 =>
                   \E i \in Of(u) : /\ store.entries[i].seq = store.objects[u].last
                                    /\ \A j \in Of(u) : j <= i
    <3>1. u \in Uids /\ store.objects[u] # Gone
      BY DEF Live
    <3>2. Figures(Revs(store, u), store.objects[u], u, leftOut)
      BY <3>1 DEF TimelineInv, Sound, Kept
    <3>3. /\ store.objects[u].count <= Cardinality(Of(u))
          /\ u \notin leftOut => store.objects[u].count = Cardinality(Of(u))
      BY <3>1, <3>2, WhereAndWhat DEF Figures
    <3>4. ASSUME store.objects[u].last # 0
          PROVE  \E i \in Of(u) : /\ store.entries[i].seq = store.objects[u].last
                                  /\ \A j \in Of(u) : j <= i
      <4>1. PICK r \in Revs(store, u) : r.seq = store.objects[u].last /\ Newest(Revs(store, u), r)
        BY <3>2, <3>4 DEF Figures
      <4>2. PICK i \in Of(u) : store.entries[i] = r
        BY <3>1, WhereAndWhat
      <4>3. ASSUME NEW j \in Of(u) PROVE j <= i
        <5>1. /\ i \in 1..Len(store.entries) /\ j \in 1..Len(store.entries)
              /\ store.entries[j] \in Revs(store, u)
          BY <3>1, WhereAndWhat
        <5>2. store.entries[j].seq <= r.seq
          BY <5>1, <4>1 DEF Newest
        <5>3. r.seq \in Nat /\ store.entries[j].seq \in Nat
          <6>1. Distinct(Revs(store, u))
            BY <3>1, RevsAre DEF TimelineInv, CaptureInv, Sound, Kept
          <6> QED BY <6>1, <5>1, SeqsAre
        <5>4. ~(store.entries[i].seq < store.entries[j].seq)
          BY <5>2, <5>3, <4>2
        <5> QED BY <5>1, <5>4, LaterIsHigher
      <4> QED BY <4>1, <4>2, <4>3
    <3> QED BY <3>3, <3>4
  <2> QED BY <2>1, <2>2 DEF BooksBalance, Total
<1> QED BY <1>1, TimelineHolds, PTL

\* For any limits, and whatever is recorded: retention holds on all three axes whenever
\* the lock is free, by object for those no listing left out (Store.enforcePerObject,
\* Store.enforceBounds).
THEOREM BoundsHolds == CaptureSpec => []BoundsHold
<1>1. TimelineInv => BoundsHold
  <2> SUFFICES ASSUME TimelineInv PROVE BoundsHold
    OBVIOUS
  <2>1. Fits(store) /\ \A u \in Uids \ leftOut : Within(store, u)
    BY DEF TimelineInv, Sound, Bounded
  <2>2. \A u \in Uids : Cardinality(Of(u)) = Cardinality(Revs(store, u))
    BY WhereAndWhat
  <2> QED BY <2>1, <2>2 DEF BoundsHold, Fits, Within
<1> QED BY <1>1, TimelineHolds, PTL

\* For any objects and limits, and scopes that list, seed and watch each at its own pace:
\* what the timeline retains of one object is a life, nothing before its birth or after
\* its death, and no change that is none; only an object some listing left out is born
\* again, after a death nobody saw (Store.Observe, Store.Delete, Store.coalesce).
THEOREM LivesHold == CaptureSpec => []LivesAreCoherent
<1>1. TimelineInv => LivesAreCoherent
  <2> SUFFICES ASSUME TimelineInv, NEW u \in Uids, NEW i \in Of(u), NEW j \in Of(u), i < j,
                      ~(\E k \in Of(u) : i < k /\ k < j)
               PROVE  Coherent(store.entries[i], store.entries[j], leftOut)
    BY DEF LivesAreCoherent, Coherent, Of
  <2> DEFINE r == store.entries[i]
             q == store.entries[j]
  <2>1. r \in Revs(store, u) /\ q \in Revs(store, u) /\ i \in 1..Len(store.entries)
        /\ j \in 1..Len(store.entries)
    BY WhereAndWhat
  <2>2. r.seq < q.seq
    BY <2>1, LaterIsHigher
  <2>3. Between(Revs(store, u), r, q) = {}
    <3> SUFFICES ASSUME NEW v \in Revs(store, u), r.seq < v.seq, v.seq < q.seq PROVE FALSE
      BY DEF Between
    <3>1. PICK k \in Of(u) : store.entries[k] = v
      BY WhereAndWhat
    <3>2. k \in 1..Len(store.entries)
      BY WhereAndWhat
    <3>3. i < k /\ k < j
      BY <3>1, <3>2, <2>1, LaterIsHigher
    <3> QED BY <3>1, <3>3
  <2>4. Life(Revs(store, u), leftOut)
    BY DEF TimelineInv, Sound, Kept
  <2> QED BY <2>1, <2>2, <2>3, <2>4 DEF Life
<1> QED BY <1>1, TimelineHolds, PTL

-----------------------------------------------------------------------------
(* The journal.                                                              *)

File == [Keys -> Value \cup {Nil}]

-----------------------------------------------------------------------------
(* Lemmas on the merge of writes.                                           *)

\* The later of two groups of writes wins, however they are grouped.
LEMMA MergeAssociates ==
    ASSUME NEW f, NEW g, NEW h
    PROVE  Merge(f, Merge(g, h)) = Merge(Merge(f, g), h)
PROOF
<1>1. DOMAIN Merge(f, Merge(g, h)) = DOMAIN Merge(Merge(f, g), h)
  BY DEF Merge
<1>2. \A x \in DOMAIN Merge(f, Merge(g, h)) : Merge(f, Merge(g, h))[x] = Merge(Merge(f, g), h)[x]
  BY DEF Merge
<1> QED BY <1>1, <1>2 DEF Merge

\* Writing nothing changes nothing.
LEMMA NothingIsNeutral ==
    ASSUME NEW f \in Writes
    PROVE  /\ Merge(Nothing, f) = f
           /\ Merge(f, Nothing) = f
PROOF BY DEF Merge, Nothing, Writes

\* A group of writes is one; two of them are; and a file stays a file.
LEMMA WritesMerge ==
    /\ Nothing \in Writes
    /\ File \subseteq Writes
    /\ \A f, g \in Writes : Merge(f, g) \in Writes
    /\ \A f \in Writes, d \in File : Merge(f, d) \in File
PROOF
<1>1. Nothing \in Writes
  BY DEF Nothing, Writes
<1>2. File \subseteq Writes
  BY DEF File, Writes
<1>3. ASSUME NEW f \in Writes, NEW g \in Writes PROVE Merge(f, g) \in Writes
  <2>1. PICK K \in SUBSET Keys : f \in [K -> Value \cup {Nil}]
    BY DEF Writes
  <2>2. PICK L \in SUBSET Keys : g \in [L -> Value \cup {Nil}]
    BY DEF Writes
  <2>3. Merge(f, g) \in [K \cup L -> Value \cup {Nil}]
    BY <2>1, <2>2 DEF Merge
  <2>4. K \cup L \in SUBSET Keys
    OBVIOUS
  <2> QED BY <2>3, <2>4 DEF Writes
<1>4. ASSUME NEW f \in Writes, NEW d \in File PROVE Merge(f, d) \in File
  <2>1. PICK K \in SUBSET Keys : f \in [K -> Value \cup {Nil}]
    BY DEF Writes
  <2>2. d \in [Keys -> Value \cup {Nil}]
    BY DEF File
  <2> QED BY <2>1, <2>2 DEF Merge, File
<1> QED BY <1>1, <1>2, <1>3, <1>4

-----------------------------------------------------------------------------
(* The inductive invariant: where in the log the file, and the file with what *)
(* is being written, stand.                                                   *)

Standing ==
    /\ at <= cut
    /\ disk = log[at]
    /\ flushing => Merge(inflight, disk) = log[cut]
    /\ NothingIsLost

IInv == TypeOK /\ Standing

\* Nothing was called, written or saved.
LEMMA InitIInv == Init => IInv
PROOF
<1> SUFFICES ASSUME Init PROVE IInv
  OBVIOUS
<1>1. PICK contents \in File : Opened(contents) /\ log = <<contents>>
  BY DEF Init, File
<1>2. TypeOK
  <2>1. log \in Seq(File) /\ Len(log) = 1
    <3>1. contents \in File /\ log = <<contents>>
      BY <1>1
    <3>2. <<contents>> \in Seq(File) /\ Len(<<contents>>) = 1
      BY <3>1, SMT
    <3> QED BY <3>1, <3>2
  <2>2. faults = 0 /\ cut = 1 /\ at = 1
    BY DEF Init
  <2>3. pend \in Writes /\ inflight \in Writes /\ disk \in File
    BY <1>1, WritesMerge DEF Opened
  <2>4. flushing \in BOOLEAN /\ inflight = Nothing /\ phase \in {"open", "final", "closed"}
    BY <1>1 DEF Opened
  <2>5. faults \in Nat /\ at \in 1..Len(log) /\ cut \in 1..Len(log)
    BY <2>1, <2>2
  <2> QED BY <2>1, <2>3, <2>4, <2>5 DEF TypeOK, File
<1>4. Contents = contents
  <2>1. Merge(Nothing, contents) = contents
    BY <1>1, NothingIsNeutral, WritesMerge
  <2> QED BY <1>1, <2>1 DEF Contents, Opened
<1>5. Standing
  BY <1>1, <1>4 DEF Standing, Opened, Init, NothingIsLost, Latest
<1> QED BY <1>2, <1>5 DEF IInv

\* Every call, flush, failure and crash.
LEMMA NextIInv == IInv /\ [Next]_mirrorVars => IInv'
PROOF
<1> SUFFICES ASSUME IInv, [Next]_mirrorVars PROVE IInv'
  OBVIOUS
<1> USE WritesMerge
<1>t. TypeOK /\ Standing
  BY DEF IInv
<1>1. ASSUME NEW writes \in Writes, Call(writes) PROVE IInv'
  <2>1. /\ pend' = Merge(writes, pend)
        /\ log' = Append(log, Merge(writes, Latest))
        /\ UNCHANGED <<inflight, flushing, disk, phase, faults, cut, at>>
    BY <1>1 DEF Call, Enqueue
  <2>2. log \in Seq(File) /\ Len(log) \in Nat /\ Len(log) >= 1 /\ Latest \in File
    BY <1>t DEF TypeOK, File, Latest
  <2>3. Merge(writes, Latest) \in File
    BY <2>2
  <2>4. /\ log' \in Seq(File)
        /\ Len(log') = Len(log) + 1
        /\ log'[Len(log) + 1] = Merge(writes, Latest)
        /\ \A i \in 1..Len(log) : log'[i] = log[i]
    BY <2>1, <2>2, <2>3
  <2>5. TypeOK'
    <3>1. pend' \in Writes
      BY <1>t, <2>1 DEF TypeOK
    <3> QED BY <1>t, <2>1, <2>2, <2>4, <3>1 DEF TypeOK, File
  <2>7. NothingIsLost'
    <3>1. Contents' = Merge(writes, Contents)
      BY <2>1, MergeAssociates DEF Contents
    <3>2. Latest' = Merge(writes, Latest)
      BY <2>4, <2>2 DEF Latest
    <3> QED BY <1>t, <3>1, <3>2 DEF Standing, NothingIsLost
  <2>8. Standing'
    BY <1>t, <2>1, <2>2, <2>4, <2>7 DEF Standing, TypeOK
  <2> QED BY <2>5, <2>8 DEF IInv
<1>2. ASSUME Swapped, Cut, phase' \in {"open", "final", "closed"} PROVE IInv'
  <2>1. /\ inflight = Nothing
        /\ inflight' = pend
        /\ pend' = Nothing
        /\ flushing' = (pend # Nothing)
        /\ cut' = Len(log)
        /\ UNCHANGED <<disk, faults, log, at>>
    BY <1>t, <1>2 DEF Swapped, Cut, TypeOK
  <2>2. TypeOK'
    <3>1. flushing' \in BOOLEAN
      BY <2>1
    <3>2. flushing' \/ inflight' = Nothing
      BY <2>1
    <3>3. /\ pend' \in Writes /\ inflight' \in Writes
          /\ disk' \in [Keys -> Value \cup {Nil}]
      BY <1>t, <2>1 DEF TypeOK
    <3>4. /\ faults' \in Nat
          /\ log' \in Seq([Keys -> Value \cup {Nil}])
          /\ at' \in 1..Len(log')
          /\ cut' \in 1..Len(log')
      BY <1>t, <2>1 DEF TypeOK
    <3> QED BY <1>2, <3>1, <3>2, <3>3, <3>4 DEF TypeOK
  <2>4. disk \in File /\ pend \in Writes
    BY <1>t DEF TypeOK, File
  <2>5. Contents = Merge(pend, disk)
    BY <2>1, <2>4, NothingIsNeutral DEF Contents
  <2>6. Contents' = Merge(pend, disk)
    <3>1. Merge(pend, disk) \in Writes
      BY <2>4
    <3> QED BY <2>1, <3>1, NothingIsNeutral DEF Contents
  <2>7. Merge(pend, disk) = Latest
    BY <1>t, <2>5 DEF Standing, NothingIsLost
  <2>8. Standing'
    BY <1>t, <2>1, <2>6, <2>7 DEF Standing, NothingIsLost, Latest, TypeOK
  <2> QED BY <2>2, <2>8 DEF IInv
<1>3. CASE Commit
  <2>1. /\ flushing
        /\ disk' = Merge(inflight, disk)
        /\ inflight' = Nothing
        /\ flushing' = FALSE
        /\ at' = cut
        /\ UNCHANGED <<pend, phase, faults, log, cut>>
    BY <1>3 DEF Commit, FlushCommit
  <2>2. disk' \in File
    BY <1>t, <2>1 DEF TypeOK, File
  <2>3. TypeOK'
    BY <1>t, <2>1, <2>2 DEF TypeOK, File
  <2>5. Contents' = Contents
    <3>1. Merge(Nothing, disk') = disk'
      BY <2>2, NothingIsNeutral
    <3> QED BY <2>1, <3>1 DEF Contents
  <2>6. Standing'
    BY <1>t, <2>1, <2>5 DEF Standing, NothingIsLost, Latest, TypeOK
  <2> QED BY <2>3, <2>6 DEF IInv
<1>4. CASE Fail
  <2>1. /\ pend' = Merge(pend, inflight)
        /\ inflight' = Nothing
        /\ flushing' = FALSE
        /\ faults' = faults + 1
        /\ UNCHANGED <<disk, phase, log, cut, at>>
    BY <1>4 DEF Fail, FlushFail
  <2>2. TypeOK'
    <3>1. pend' \in Writes /\ inflight' \in Writes
      BY <1>t, <2>1 DEF TypeOK
    <3>2. faults' \in Nat
      BY <1>t, <2>1 DEF TypeOK
    <3> QED BY <1>t, <2>1, <3>1, <3>2 DEF TypeOK
  <2>4. Contents' = Contents
    <3>1. disk \in File
      BY <1>t DEF TypeOK, File
    <3>2. Merge(Nothing, disk) = disk
      BY <3>1, NothingIsNeutral
    <3>3. Contents' = Merge(Merge(pend, inflight), disk)
      BY <2>1, <3>2 DEF Contents
    <3> QED BY <3>3, MergeAssociates DEF Contents
  <2>5. Standing'
    BY <1>t, <2>1, <2>4 DEF Standing, NothingIsLost, Latest, TypeOK
  <2> QED BY <2>2, <2>5 DEF IInv
<1>5. CASE Exit
  BY <1>t, <1>5 DEF Exit, Close, IInv, TypeOK, Standing, NothingIsLost, Contents, Latest
<1>6. CASE UNCHANGED mirrorVars
  BY <1>t, <1>6 DEF mirrorVars, IInv, TypeOK, Standing, NothingIsLost, Contents, Latest
<1>7. CASE Swap
  <2>1. Swapped /\ Cut /\ phase' = "open"
    BY <1>7 DEF Swap, FlushSwap
  <2> QED BY <2>1, <1>2
<1>8. CASE LastSwap
  <2>1. Swapped /\ Cut /\ phase' = "final"
    BY <1>8 DEF LastSwap, FinalSwap
  <2> QED BY <2>1, <1>2
<1> QED BY <1>1, <1>3, <1>4, <1>5, <1>6, <1>7, <1>8 DEF Next, Flush

\* The inductive invariant.
LEMMA AlwaysIInv == Spec => []IInv
PROOF BY InitIInv, NextIInv, PTL DEF Spec

-----------------------------------------------------------------------------
(* The results.                                                             *)

\* The journal and its history variables keep their types.
THEOREM TypesHold == Spec => []TypeOK
PROOF
<1>1. IInv => TypeOK
  BY DEF IInv
<1> QED BY <1>1, AlwaysIInv, PTL

\* flush's merge: whatever fails, and whichever calls land during a flush, the file,
\* what is being written and what is pending add up to everything called.
THEOREM NothingIsLostHolds == Spec => []NothingIsLost
PROOF
<1>1. IInv => NothingIsLost
  BY DEF IInv, Standing
<1> QED BY <1>1, AlwaysIInv, PTL

\* The write-behind promise: a crash at any point leaves the file at one whole
\* moment of the call sequence, no earlier than any moment it was at before.
THEOREM WriteBehindHolds == Spec => ImplementsWriteBehind
PROOF
<1>1. Init => Behind!BehindInit
  BY DEF Init, Opened, Behind!BehindInit
<1>2. IInv /\ IInv' /\ [Next]_mirrorVars => [Behind!Accept \/ Behind!Persist]_(Behind!behindVars)
  <2> SUFFICES ASSUME IInv, IInv', [Next]_mirrorVars
               PROVE  [Behind!Accept \/ Behind!Persist]_(Behind!behindVars)
    OBVIOUS
  <2>t. /\ TypeOK /\ Standing
        /\ TypeOK' /\ Standing'
    BY DEF IInv
  <2>1. ASSUME NEW writes \in Writes, Call(writes) PROVE Behind!Accept
    <3>1. log' = Append(log, Merge(writes, Latest)) /\ UNCHANGED <<at, disk>>
      BY <2>1 DEF Call, Enqueue
    <3>2. log \in Seq(File)
      BY <2>t DEF TypeOK, File
    <3> QED BY <3>1, <3>2 DEF Behind!Accept
  <2>2. CASE Commit
    <3>1. at' = cut /\ UNCHANGED log
      BY <2>2 DEF Commit
    <3>2. at' \in at..Len(log)
      BY <2>t, <3>1 DEF Standing, TypeOK
    <3>3. disk' = log[at']
      BY <2>t, <3>1 DEF Standing
    <3> QED BY <3>1, <3>2, <3>3 DEF Behind!Persist
  <2>3. CASE UNCHANGED <<log, at, disk>>
    BY <2>3 DEF Behind!behindVars
  <2>4. CASE Swap \/ LastSwap \/ Fail \/ Exit \/ UNCHANGED mirrorVars
    <3>1. UNCHANGED <<log, at, disk>>
      BY <2>4 DEF Swap, LastSwap, Cut, FlushSwap, FinalSwap, Swapped, Fail, FlushFail,
                  Exit, Close, mirrorVars
    <3> QED BY <3>1, <2>3
  <2> QED BY <2>1, <2>2, <2>4 DEF Next, Flush
<1> QED BY <1>1, <1>2, AlwaysIInv, PTL DEF Spec, ImplementsWriteBehind, Behind!BehindSpec

-----------------------------------------------------------------------------
(* The file and what is to be written to it, read key by key.                *)

FileKeys ==
    {RevisionKey(n) : n \in Nat} \cup {ObjectKey(u) : u \in Uids} \cup {SeqKey, EvictedKey}

FileValues == Revision \cup Content \cup Nat \cup {TRUE, Gone}

\* What may stand under each key.
Filed(f) ==
    /\ \A n \in Nat : Read(f, RevisionKey(n)) \in {rev \in Revision : rev.seq = n} \cup {Gone}
    /\ \A u \in Uids : Read(f, ObjectKey(u)) \in Content \cup {Gone}
    /\ Read(f, SeqKey) \in Nat \cup {Gone}
    /\ Read(f, EvictedKey) \in {TRUE, Gone}

Groups == UNION {[K -> FileValues] : K \in SUBSET FileKeys}

\* Groups of writes, and files.
Filings == {f \in Groups : Filed(f)}

\* The keys of the three buckets are apart.
LEMMA KeysDiffer ==
  /\ SeqKey # EvictedKey
  /\ \A m, n : RevisionKey(m) = RevisionKey(n) => m = n
  /\ \A u, v : ObjectKey(u) = ObjectKey(v) => u = v
  /\ \A n, u : RevisionKey(n) # ObjectKey(u)
  /\ \A n : RevisionKey(n) # SeqKey /\ RevisionKey(n) # EvictedKey
  /\ \A u : ObjectKey(u) # SeqKey /\ ObjectKey(u) # EvictedKey
<1> DEFINE r == "revision"
           o == "object"
           m == "meta"
<1>1. r # o /\ r # m /\ o # m
  OBVIOUS
<1>2. /\ \A n : RevisionKey(n) = <<r, n>>
      /\ \A u : ObjectKey(u) = <<o, u>>
      /\ SeqKey = <<m, 0>> /\ EvictedKey = <<m, 1>>
  BY DEF RevisionKey, ObjectKey, SeqKey, EvictedKey
<1> HIDE DEF r, o, m
<1> QED BY <1>1, <1>2

\* What is read after a merge: what was written last.
LEMMA ReadMerged ==
  ASSUME NEW f, NEW g, NEW key
  PROVE  Read(Merge(f, g), key) = IF key \in DOMAIN f THEN f[key] ELSE Read(g, key)
BY DEF Read, Merge

\* Merging keeps the types.
LEMMA FilingsMerge ==
  ASSUME NEW f \in Filings, NEW g \in Filings PROVE Merge(f, g) \in Filings
<1> DEFINE b == Merge(f, g)
<1>1. f \in Groups /\ g \in Groups /\ Filed(f) /\ Filed(g)
  BY DEF Filings
<1>2. b \in Groups
  <2>1. PICK K \in SUBSET FileKeys : f \in [K -> FileValues]
    BY <1>1 DEF Groups
  <2>2. PICK L \in SUBSET FileKeys : g \in [L -> FileValues]
    BY <1>1 DEF Groups
  <2>3. b \in [K \cup L -> FileValues]
    BY <2>1, <2>2 DEF Merge
  <2>4. K \cup L \in SUBSET FileKeys
    OBVIOUS
  <2> HIDE DEF b
  <2> QED BY <2>3, <2>4 DEF Groups
<1>3. \A key : Read(b, key) = Read(f, key) \/ Read(b, key) = Read(g, key)
  BY ReadMerged DEF Read
<1> HIDE DEF b
<1>4. Filed(b)
  <2>1. \A n \in Nat : Read(b, RevisionKey(n)) \in {rev \in Revision : rev.seq = n} \cup {Gone}
    BY <1>1, <1>3, Zenon DEF Filed
  <2>2. \A u \in Uids : Read(b, ObjectKey(u)) \in Content \cup {Gone}
    BY <1>1, <1>3, Zenon DEF Filed
  <2>3. Read(b, SeqKey) \in Nat \cup {Gone} /\ Read(b, EvictedKey) \in {TRUE, Gone}
    BY <1>1, <1>3 DEF Filed
  <2> QED BY <2>1, <2>2, <2>3 DEF Filed
<1> QED BY <1>2, <1>4 DEF Filings, b

\* Nothing is a group of writes, and writing it changes nothing.
LEMMA NothingIsFiled ==
  /\ Nothing \in Filings
  /\ \A f \in Filings : Merge(Nothing, f) = f /\ Merge(f, Nothing) = f
<1>1. \A key : Read(Nothing, key) = Gone
  BY DEF Nothing, Read
<1>2. Nothing \in Groups
  <2>1. Nothing \in [{} -> FileValues] /\ {} \in SUBSET FileKeys
    BY DEF Nothing
  <2> QED BY <2>1 DEF Groups
<1>3. Nothing \in Filings
  BY <1>1, <1>2 DEF Filings, Filed
<1>4. ASSUME NEW f \in Filings PROVE Merge(Nothing, f) = f /\ Merge(f, Nothing) = f
  <2>1. PICK K \in SUBSET FileKeys : f \in [K -> FileValues]
    BY DEF Filings, Groups
  <2> QED BY <2>1 DEF Merge, Nothing
<1> QED BY <1>3, <1>4

\* b is a after v was written under the key.
Put(a, key, v, b) ==
    Read(b, key) = v /\ \A other : other # key => Read(b, other) = Read(a, other)

LEMMA OneWrite == ASSUME NEW key, NEW v, NEW a PROVE Put(a, key, v, Merge(OneKey(key, v), a))
<1>1. DOMAIN OneKey(key, v) = {key} /\ OneKey(key, v)[key] = v
  BY DEF OneKey
<1> QED BY <1>1, ReadMerged DEF Put

\* The writes of each call.
LEMMA WritesAre ==
  /\ \A rev : WritesOf([call |-> "Append", rev |-> rev])
                = Merge(OneKey(RevisionKey(rev.seq), rev), OneKey(SeqKey, rev.seq))
  /\ \A rev : WritesOf([call |-> "Update", rev |-> rev]) = OneKey(RevisionKey(rev.seq), rev)
  /\ \A seq : WritesOf([call |-> "Evict", seq |-> seq]) = OneKey(RevisionKey(seq), Gone)
  /\ \A u, content : WritesOf([call |-> "PutObject", uid |-> u, record |-> content])
                       = OneKey(ObjectKey(u), content)
  /\ \A u : WritesOf([call |-> "DeleteObject", uid |-> u]) = OneKey(ObjectKey(u), Gone)
  /\ WritesOf([call |-> "MarkEvicted"]) = OneKey(EvictedKey, TRUE)
BY DEF WritesOf

\* A call's writes have the types of the file's.
LEMMA OneIsFiled ==
  ASSUME NEW key \in FileKeys, NEW v \in FileValues, NEW f, f = OneKey(key, v),
         \/ \E n \in Nat : key = RevisionKey(n) /\ v \in {rev \in Revision : rev.seq = n} \cup {Gone}
         \/ \E u \in Uids : key = ObjectKey(u) /\ v \in Content \cup {Gone}
         \/ key = SeqKey /\ v \in Nat
         \/ key = EvictedKey /\ v = TRUE
  PROVE  f \in Filings
<1>1. f \in Groups
  <2>1. f \in [{key} -> FileValues] /\ {key} \in SUBSET FileKeys
    BY DEF OneKey
  <2> QED BY <2>1 DEF Groups
<1>2. Read(f, key) = v /\ \A other : other # key => Read(f, other) = Gone
  BY DEF OneKey, Read
<1>3. Filed(f)
  <2>1. CASE \E n \in Nat : key = RevisionKey(n) /\ v \in {rev \in Revision : rev.seq = n} \cup {Gone}
    BY <2>1, <1>2, KeysDiffer DEF Filed
  <2>2. CASE \E u \in Uids : key = ObjectKey(u) /\ v \in Content \cup {Gone}
    BY <2>2, <1>2, KeysDiffer DEF Filed
  <2>3. CASE key = SeqKey /\ v \in Nat
    BY <2>3, <1>2, KeysDiffer DEF Filed
  <2>4. CASE key = EvictedKey /\ v = TRUE
    BY <2>4, <1>2, KeysDiffer DEF Filed
  <2> QED BY <2>1, <2>2, <2>3, <2>4
<1> QED BY <1>1, <1>3 DEF Filings

LEMMA WritesAreFiled == ASSUME NEW c \in PersisterCall PROVE WritesOf(c) \in Filings
<1>1. ASSUME NEW rev \in Revision
      PROVE  OneKey(RevisionKey(rev.seq), rev) \in Filings /\ OneKey(SeqKey, rev.seq) \in Filings
  <2>1. rev.seq \in Nat
    BY RevisionParts
  <2>2. RevisionKey(rev.seq) \in FileKeys /\ SeqKey \in FileKeys /\ rev \in FileValues /\ rev.seq \in FileValues
    BY <2>1 DEF FileKeys, FileValues
  <2>3. \E n \in Nat : /\ RevisionKey(rev.seq) = RevisionKey(n)
                       /\ rev \in {r \in Revision : r.seq = n} \cup {Gone}
    BY <2>1
  <2> QED BY <2>1, <2>2, <2>3, OneIsFiled
<1>2. ASSUME NEW n \in Nat PROVE OneKey(RevisionKey(n), Gone) \in Filings
  <2>1. RevisionKey(n) \in FileKeys /\ Gone \in FileValues
    BY DEF FileKeys, FileValues
  <2>2. \E m \in Nat : RevisionKey(n) = RevisionKey(m) /\ Gone \in {r \in Revision : r.seq = m} \cup {Gone}
    OBVIOUS
  <2> QED BY <2>1, <2>2, OneIsFiled
<1>3. ASSUME NEW u \in Uids, NEW content \in Content \cup {Gone}
      PROVE  OneKey(ObjectKey(u), content) \in Filings
  <2>1. ObjectKey(u) \in FileKeys /\ content \in FileValues
    BY DEF FileKeys, FileValues
  <2>2. \E o \in Uids : ObjectKey(u) = ObjectKey(o) /\ content \in Content \cup {Gone}
    OBVIOUS
  <2> QED BY <2>1, <2>2, OneIsFiled
<1>4. OneKey(EvictedKey, TRUE) \in Filings
  <2>1. EvictedKey \in FileKeys /\ TRUE \in FileValues
    BY DEF FileKeys, FileValues
  <2> QED BY <2>1, OneIsFiled
<1>5. CASE c \in [call : {"Append", "Update"}, rev : Revision]
  <2>1. c.rev \in Revision /\ c.call \in {"Append", "Update"} /\ c = [call |-> c.call, rev |-> c.rev]
    BY <1>5
  <2>2. \/ c = [call |-> "Append", rev |-> c.rev]
        \/ c = [call |-> "Update", rev |-> c.rev]
    BY <2>1
  <2>3. \/ WritesOf(c) = Merge(OneKey(RevisionKey(c.rev.seq), c.rev), OneKey(SeqKey, c.rev.seq))
        \/ WritesOf(c) = OneKey(RevisionKey(c.rev.seq), c.rev)
    BY <2>2, WritesAre
  <2> QED BY <2>1, <2>3, <1>1, FilingsMerge
<1>6. CASE c \in [call : {"Evict"}, seq : Nat]
  <2>1. c.seq \in Nat /\ c = [call |-> "Evict", seq |-> c.seq]
    BY <1>6
  <2> QED BY <2>1, <1>2, WritesAre
<1>7. CASE c \in [call : {"MarkEvicted"}]
  <2>1. c = [call |-> "MarkEvicted"]
    BY <1>7
  <2> QED BY <2>1, <1>4, WritesAre
<1>8. CASE c \in [call : {"PutObject"}, uid : Uids, record : Content]
  <2>1. c.uid \in Uids /\ c.record \in Content
        /\ c = [call |-> "PutObject", uid |-> c.uid, record |-> c.record]
    BY <1>8
  <2> QED BY <2>1, <1>3, WritesAre
<1>9. CASE c \in [call : {"DeleteObject"}, uid : Uids]
  <2>1. c.uid \in Uids /\ c = [call |-> "DeleteObject", uid |-> c.uid]
    BY <1>9
  <2> QED BY <2>1, <1>3, WritesAre
<1> QED BY <1>5, <1>6, <1>7, <1>8, <1>9 DEF PersisterCall

-----------------------------------------------------------------------------
(* A run of calls, and what the file's counter does along it.                *)

\* The counter the file holds, and the revisions it retains.
Meta(d) == IF Read(d, SeqKey) = Gone THEN 0 ELSE Read(d, SeqKey)
Retained(d) == {rev \in Revision : Read(d, RevisionKey(rev.seq)) = rev}

\* No retained revision is above the counter.
Topped(d) == \A rev \in Retained(d) : rev.seq <= Meta(d)

\* A revision, whatever the status folded into it since.
Folded(rev) == [rev EXCEPT !.content.status = 0]

\* What a counted as issued, b gives to no other revision and brings back no more.
IssuesNoneAgain(a, b) ==
    \A n \in 1..Meta(a) : Read(b, RevisionKey(n)) # Gone =>
        /\ Read(a, RevisionKey(n)) # Gone
        /\ Folded(Read(b, RevisionKey(n))) = Folded(Read(a, RevisionKey(n)))

\* b is a file no earlier than a.
Rises(a, b) == b \in Filings /\ Topped(b) /\ Meta(a) <= Meta(b) /\ IssuesNoneAgain(a, b)

\* One call made on a leads to b.
Step(a, c, b) == b = Merge(WritesOf(c), a) /\ Rises(a, b)

\* The calls, made one by one on x, lead to y.
LeadRuns(x, calls, y) ==
    {h \in [0..Len(calls) -> Filings] :
        /\ h[0] = x
        /\ \A k \in 1..Len(calls) : Step(h[k - 1], calls[k], h[k])
        /\ h[Len(calls)] = y}
Leads(x, calls, y) == LeadRuns(x, calls, y) # {}

LEMMA MetaIs == ASSUME NEW d \in Filings PROVE Meta(d) \in Nat
BY DEF Filings, Filed, Meta

\* Of what the file holds under a revision's key.
LEMMA RetainedIs ==
  ASSUME NEW d \in Filings, NEW n \in Nat
  PROVE  /\ Read(d, RevisionKey(n)) # Gone =>
              /\ Read(d, RevisionKey(n)) \in Retained(d)
              /\ Read(d, RevisionKey(n)).seq = n
         /\ \A rev \in Retained(d) : rev.seq = n => Read(d, RevisionKey(n)) = rev
BY DEF Filings, Filed, Retained

LEMMA RisesAgain ==
  ASSUME NEW a \in Filings, NEW b, NEW c, Rises(a, b), Rises(b, c) PROVE Rises(a, c)
<1>1. b \in Filings /\ c \in Filings
  BY DEF Rises
<1>2. Meta(a) \in Nat /\ Meta(b) \in Nat /\ Meta(c) \in Nat
  BY <1>1, MetaIs
<1>3. IssuesNoneAgain(a, c)
  <2> SUFFICES ASSUME NEW n \in 1..Meta(a), Read(c, RevisionKey(n)) # Gone
               PROVE  /\ Read(a, RevisionKey(n)) # Gone
                      /\ Folded(Read(c, RevisionKey(n))) = Folded(Read(a, RevisionKey(n)))
    BY DEF IssuesNoneAgain
  <2>1. n \in 1..Meta(b)
    BY <1>2 DEF Rises
  <2>2. /\ Read(b, RevisionKey(n)) # Gone
        /\ Folded(Read(c, RevisionKey(n))) = Folded(Read(b, RevisionKey(n)))
    BY <2>1 DEF Rises, IssuesNoneAgain
  <2> QED BY <2>2 DEF Rises, IssuesNoneAgain
<1> QED BY <1>2, <1>3 DEF Rises

LEMMA RisesSelf == ASSUME NEW a \in Filings, Topped(a) PROVE Rises(a, a)
<1>1. Meta(a) \in Nat
  BY MetaIs
<1> QED BY <1>1 DEF Rises, IssuesNoneAgain

\* No call leads nowhere.
LEMMA LeadsNowhere == ASSUME NEW x \in Filings PROVE Leads(x, <<>>, x)
<1> DEFINE h == [k \in 0..0 |-> x]
<1>1. h \in [0..Len(<<>>) -> Filings] /\ h[0] = x
  OBVIOUS
<1>2. 1..Len(<<>>) = {}
  OBVIOUS
<1> HIDE DEF h
<1>3. h \in LeadRuns(x, <<>>, x)
  BY <1>1, <1>2 DEF LeadRuns
<1> QED BY <1>3 DEF Leads

LEMMA LeadsIsEmpty == ASSUME NEW x, NEW y, Leads(x, <<>>, y) PROVE y = x /\ x \in Filings
<1>1. PICK h \in [0..Len(<<>>) -> Filings] : h[0] = x /\ h[Len(<<>>)] = y
  BY DEF Leads, LeadRuns
<1> QED BY <1>1

\* One call more.
LEMMA LeadsFurther ==
  ASSUME NEW V, NEW calls \in Seq(V), NEW c \in V, NEW x, NEW y, NEW z, Leads(x, calls, y), Step(y, c, z)
  PROVE  Leads(x, Append(calls, c), z)
<1> DEFINE n == Len(calls)
           more == Append(calls, c)
<1>1. PICK h \in [0..n -> Filings] :
            /\ h[0] = x
            /\ \A k \in 1..n : Step(h[k - 1], calls[k], h[k])
            /\ h[n] = y
  BY DEF Leads, LeadRuns
<1>2. n \in Nat /\ Len(more) = n + 1 /\ more[n + 1] = c /\ \A k \in 1..n : more[k] = calls[k]
  BY AppendProperties
<1> HIDE DEF n, more
<1> DEFINE g == [k \in 0..(n + 1) |-> IF k = n + 1 THEN z ELSE h[k]]
<1>3. z \in Filings
  BY DEF Step, Rises
<1>4. /\ g \in [0..(n + 1) -> Filings]
      /\ g[0] = x /\ g[n + 1] = z /\ \A k \in 0..n : g[k] = h[k]
  BY <1>1, <1>2, <1>3
<1> HIDE DEF g
<1>5. ASSUME NEW k \in 1..(n + 1) PROVE Step(g[k - 1], more[k], g[k])
  <2>1. CASE k = n + 1
    <3>1. k - 1 = n /\ n \in 0..n
      BY <2>1, <1>2
    <3> QED BY <2>1, <3>1, <1>1, <1>2, <1>4
  <2>2. CASE k # n + 1
    <3>1. k \in 1..n /\ k \in 0..n /\ k - 1 \in 0..n
      BY <2>2, <1>2
    <3> QED BY <3>1, <1>1, <1>2, <1>4
  <2> QED BY <2>1, <2>2
<1>6. g \in LeadRuns(x, more, z)
  BY <1>2, <1>4, <1>5 DEF LeadRuns
<1> QED BY <1>6 DEF Leads, more

\* The first of the calls, and the others.
LEMMA LeadsOn ==
  ASSUME NEW V, NEW calls \in Seq(V), calls # <<>>, NEW x, NEW y, Leads(x, calls, y)
  PROVE  \E w : Step(x, Head(calls), w) /\ Leads(w, Tail(calls), y)
<1> DEFINE n == Len(calls)
           rest == Tail(calls)
<1>1. PICK h \in [0..n -> Filings] :
            /\ h[0] = x
            /\ \A k \in 1..n : Step(h[k - 1], calls[k], h[k])
            /\ h[n] = y
  BY DEF Leads, LeadRuns
<1>2. n \in Nat /\ n >= 1 /\ Head(calls) = calls[1]
  OBVIOUS
<1>3. Len(rest) = n - 1 /\ \A k \in 1..(n - 1) : rest[k] = calls[k + 1]
  OBVIOUS
<1> HIDE DEF n, rest
<1> DEFINE g == [k \in 0..(n - 1) |-> h[k + 1]]
<1>4. /\ g \in [0..(n - 1) -> Filings]
      /\ g[0] = h[1] /\ g[n - 1] = y /\ \A k \in 0..(n - 1) : g[k] = h[k + 1]
  <2>1. \A k \in 0..(n - 1) : k + 1 \in 0..n
    BY <1>2
  <2>2. (n - 1) + 1 = n /\ n - 1 \in 0..(n - 1) /\ 0 \in 0..(n - 1) /\ 0 + 1 = 1
    BY <1>2
  <2> QED BY <2>1, <2>2, <1>1
<1> HIDE DEF g
<1>5. ASSUME NEW k \in 1..(n - 1) PROVE Step(g[k - 1], rest[k], g[k])
  <2>1. k \in 0..(n - 1) /\ k - 1 \in 0..(n - 1) /\ k + 1 \in 1..n /\ (k + 1) - 1 = k /\ (k - 1) + 1 = k
    BY <1>2
  <2>2. Step(h[(k + 1) - 1], calls[k + 1], h[k + 1])
    BY <2>1, <1>1
  <2> QED BY <2>1, <2>2, <1>3, <1>4
<1>6. g \in LeadRuns(h[1], rest, y)
  BY <1>3, <1>4, <1>5 DEF LeadRuns
<1>7. Step(x, Head(calls), h[1])
  <2>1. 1 \in 1..n /\ 1 - 1 = 0
    BY <1>2
  <2> QED BY <2>1, <1>1, <1>2
<1> QED BY <1>6, <1>7 DEF Leads, rest

\* What the calls lead to is no earlier.
LEMMA LeadsUp ==
  ASSUME NEW calls, NEW n \in Nat, Len(calls) = n, NEW x \in Filings, Topped(x), NEW y, Leads(x, calls, y)
  PROVE  Rises(x, y)
<1>1. PICK h \in [0..n -> Filings] :
            /\ h[0] = x
            /\ \A k \in 1..n : Step(h[k - 1], calls[k], h[k])
            /\ h[n] = y
  BY DEF Leads, LeadRuns
<1> DEFINE W == [k \in 0..n |-> {d \in Filings : Rises(x, d)}]
<1>2. h[0] \in W[0]
  BY <1>1, RisesSelf
<1>3. ASSUME NEW k \in 1..n, h[k - 1] \in W[k - 1] PROVE h[k] \in W[k]
  <2>1. k - 1 \in 0..n /\ k \in 0..n
    OBVIOUS
  <2>2. h[k - 1] \in Filings /\ Rises(x, h[k - 1]) /\ h[k] \in Filings
    BY <2>1, <1>3, <1>1
  <2>3. Rises(h[k - 1], h[k])
    BY <1>1 DEF Step
  <2>4. Rises(x, h[k])
    BY <2>2, <2>3, RisesAgain
  <2> QED BY <2>1, <2>2, <2>4
<1>4. h[n] \in W[n]
  <2> HIDE DEF W
  <2> QED BY <1>2, <1>3, Reaches
<1>5. W[n] = {d \in Filings : Rises(x, d)}
  OBVIOUS
<1> QED BY <1>1, <1>4, <1>5

-----------------------------------------------------------------------------
(* The writes a run of calls adds up to.                                     *)

CallRuns(calls) ==
    {f \in [0..Len(calls) -> Filings] :
        /\ f[0] = Nothing
        /\ \A k \in 1..Len(calls) : f[k] = Merge(WritesOf(calls[k]), f[k - 1])
        /\ Calls(calls) = f[Len(calls)]}

LEMMA CallsRun == ASSUME NEW calls \in Seq(PersisterCall) PROVE CallRuns(calls) # {}
<1> DEFINE n == Len(calls)
           S == 1..n
           V == Filings
           Added1(w, c) == Merge(WritesOf(c), w)
           Turns(iter) == iter = [s \in SUBSET S |->
               IF s = {} THEN Nothing ELSE Added1(iter[s \ {Max(s)}], calls[Max(s)])]
           all == CHOOSE iter : Turns(iter)
           step == [p \in S \X V |-> Added1(p[2], calls[p[1]])]
<1>1. n \in Nat /\ DOMAIN calls = S /\ \A k \in S : calls[k] \in PersisterCall
  OBVIOUS
<1>2. Calls(calls) = all[S]
  BY <1>1, Zenon DEF Calls, FoldLeft, MapThenFoldSet
<1>0. Nothing \in V
  BY NothingIsFiled
<1>3. step \in [S \X V -> V]
  <2>1. \A p \in S \X V : p[1] \in S /\ p[2] \in V
    OBVIOUS
  <2> HIDE DEF S
  <2>2. \A p \in S \X V : Added1(p[2], calls[p[1]]) \in V
    BY <2>1, <1>1, WritesAreFiled, FilingsMerge
  <2> HIDE DEF V, Added1
  <2> QED BY <2>2
<1> HIDE DEF V
<1>4. PICK g \in [SUBSET S -> V] : \A s \in SUBSET S :
        g[s] = IF s = {} THEN Nothing ELSE step[<<Max(s), g[s \ {Max(s)}]>>]
  <2> HIDE DEF n, step
  <2>1. LeftFolds(n, V, Nothing, step) # {}
    BY <1>0, <1>1, <1>3, FoldOfASequence
  <2> QED BY <2>1 DEF LeftFolds
<1>5. Turns(g)
  <2>1. ASSUME NEW s \in SUBSET S, s # {}
        PROVE  g[s] = Added1(g[s \ {Max(s)}], calls[Max(s)])
    <3>1. Max(s) \in S
      <4> HIDE DEF n
      <4> QED BY <1>1, <2>1, Greatest
    <3>2. s \ {Max(s)} \in SUBSET S
      OBVIOUS
    <3> HIDE DEF S, Added1
    <3>3. g[s] = step[<<Max(s), g[s \ {Max(s)}]>>] /\ <<Max(s), g[s \ {Max(s)}]>> \in S \X V
      BY <2>1, <3>1, <3>2, <1>4
    <3> QED BY <3>3
  <2>2. g = [s \in SUBSET S |-> g[s]]
    OBVIOUS
  <2> HIDE DEF S, step, Added1
  <2> QED BY <2>1, <2>2, <1>4
<1>6. Turns(all)
  <2> HIDE DEF Turns
  <2> QED BY <1>5
<1> HIDE DEF all
<1>7. \A s \in SUBSET S :
        all[s] = IF s = {} THEN Nothing ELSE Added1(all[s \ {Max(s)}], calls[Max(s)])
  <2> HIDE DEF S, Added1
  <2> QED BY <1>6
<1> DEFINE f == [k \in 0..n |-> all[1..k]]
           W == [k \in 0..n |-> V]
<1>8. f[0] = Nothing
  <2>1. 1..0 = {} /\ {} \in SUBSET S
    OBVIOUS
  <2>2. all[{}] = Nothing
    <3> HIDE DEF S
    <3> QED BY <2>1, <1>7
  <2>3. f[0] = all[1..0]
    BY <1>1
  <2> QED BY <2>1, <2>2, <2>3
<1>9. ASSUME NEW k \in 1..n PROVE f[k] = Added1(f[k - 1], calls[k])
  <2>1. /\ 1..k \in SUBSET S /\ 1..k # {}
        /\ Max(1..k) = k
        /\ (1..k) \ {k} = 1..(k - 1)
    BY <1>1, PositionsUpTo
  <2>2. k \in 0..n /\ k - 1 \in 0..n
    BY <1>1
  <2>3. f[k] = all[1..k] /\ f[k - 1] = all[1..(k - 1)]
    BY <2>2
  <2>4. all[1..k] = Added1(all[1..(k - 1)], calls[k])
    <3> HIDE DEF S, Added1
    <3> QED BY <2>1, <1>7
  <2> HIDE DEF f, Added1
  <2> QED BY <2>3, <2>4
<1>10. f[n] = all[S]
  BY <1>1
<1>11. ASSUME NEW m \in 0..n PROVE f[m] \in V
  <2>1. f[0] \in W[0]
    <3>1. W[0] = V
      BY <1>1
    <3> HIDE DEF W, f
    <3> QED BY <3>1, <1>0, <1>8
  <2>2. ASSUME NEW k \in 1..m, f[k - 1] \in W[k - 1] PROVE f[k] \in W[k]
    <3>1. k \in 1..n /\ W[k - 1] = V /\ W[k] = V
      BY <1>1
    <3> HIDE DEF f, W
    <3>2. f[k - 1] \in V /\ calls[k] \in PersisterCall
      BY <3>1, <2>2, <1>1
    <3>3. Added1(f[k - 1], calls[k]) \in V
      BY <3>2, WritesAreFiled, FilingsMerge DEF V
    <3> QED BY <3>1, <3>3, <1>9
  <2> HIDE DEF f, W
  <2>3. f[m] \in W[m]
    <3>1. m \in Nat
      BY <1>1
    <3> QED BY <2>1, <2>2, <3>1, Reaches
  <2> QED BY <2>3 DEF W
<1>12. f \in [0..n -> V]
  <2>1. f = [k \in 0..n |-> f[k]]
    OBVIOUS
  <2> HIDE DEF f
  <2> QED BY <1>11, <2>1
<1> HIDE DEF f
<1>13. f \in CallRuns(calls)
  BY <1>2, <1>8, <1>9, <1>10, <1>12 DEF CallRuns, V
<1> QED BY <1>13

\* The calls' writes have the file's types, and lead where the calls lead.
LEMMA CallsLead ==
  ASSUME NEW calls \in Seq(PersisterCall)
  PROVE  /\ Calls(calls) \in Filings
         /\ \A x, y : Leads(x, calls, y) => y = Merge(Calls(calls), x)
<1> DEFINE n == Len(calls)
<1>0. n \in Nat
  OBVIOUS
<1>1. PICK f \in [0..n -> Filings] :
            /\ f[0] = Nothing
            /\ \A k \in 1..n : f[k] = Merge(WritesOf(calls[k]), f[k - 1])
            /\ Calls(calls) = f[n]
  BY CallsRun DEF CallRuns
<1>2. ASSUME NEW x, NEW y, Leads(x, calls, y) PROVE y = Merge(Calls(calls), x)
  <2>1. PICK h \in [0..n -> Filings] :
            /\ h[0] = x
            /\ \A k \in 1..n : Step(h[k - 1], calls[k], h[k])
            /\ h[n] = y
    BY <1>2 DEF Leads, LeadRuns
  <2> HIDE DEF n
  <2> DEFINE W == [k \in 0..n |-> {Merge(f[k], x)}]
  <2>2. h[0] \in W[0]
    <3>1. x \in Filings
      BY <2>1, <1>0
    <3>2. Merge(f[0], x) = x
      BY <3>1, <1>1, NothingIsFiled
    <3> QED BY <3>2, <2>1, <1>0
  <2>3. ASSUME NEW k \in 1..n, h[k - 1] \in W[k - 1] PROVE h[k] \in W[k]
    <3>1. k - 1 \in 0..n /\ k \in 0..n
      BY <1>0
    <3>2. W[k - 1] = {Merge(f[k - 1], x)} /\ W[k] = {Merge(f[k], x)}
      BY <3>1
    <3> HIDE DEF W
    <3>3. h[k] = Merge(WritesOf(calls[k]), Merge(f[k - 1], x))
      BY <3>2, <2>1, <2>3 DEF Step
    <3>4. h[k] = Merge(Merge(WritesOf(calls[k]), f[k - 1]), x)
      BY <3>3, MergeAssociates
    <3> QED BY <3>2, <3>4, <1>1
  <2>4. h[n] \in W[n]
    <3> HIDE DEF W
    <3> QED BY <1>0, <2>2, <2>3, Reaches
  <2>5. W[n] = {Merge(f[n], x)}
    BY <1>0
  <2> QED BY <2>1, <2>4, <2>5, <1>1
<1>3. Calls(calls) \in Filings
  BY <1>0, <1>1
<1> QED BY <1>2, <1>3

-----------------------------------------------------------------------------
(* What the calls so far leave to be read back.                              *)

\* y reads back as these revisions, these objects of us, this counter and this mark.
Holds(y, E, known, n, marked, us) ==
    /\ Retained(y) = E
    /\ \A u \in us : Read(y, ObjectKey(u)) = known[u]
    /\ Meta(y) = n
    /\ Read(y, EvictedKey) # Gone <=> marked

\* The calls made on x lead to a file that does.
Owes(x, calls, E, known, n, marked, us) ==
    /\ n \in Nat /\ \A rev \in E : rev.seq <= n
    /\ \E y \in Filings : Leads(x, calls, y) /\ Holds(y, E, known, n, marked, us)

LEMMA PutRevision ==
  ASSUME NEW a \in Filings, NEW b \in Filings, NEW n \in Nat,
         NEW v \in {rev \in Revision : rev.seq = n} \cup {Gone}, Put(a, RevisionKey(n), v, b)
  PROVE  /\ Retained(b) = {rev \in Retained(a) : rev.seq # n} \cup {rev \in {v} : v # Gone}
         /\ Meta(b) = Meta(a) /\ Read(b, EvictedKey) = Read(a, EvictedKey)
         /\ \A u : Read(b, ObjectKey(u)) = Read(a, ObjectKey(u))
         /\ Read(b, RevisionKey(n)) = v
         /\ \A k : k # n => Read(b, RevisionKey(k)) = Read(a, RevisionKey(k))
<1>1. /\ Read(b, RevisionKey(n)) = v
      /\ \A k : k # n => Read(b, RevisionKey(k)) = Read(a, RevisionKey(k))
      /\ Read(b, SeqKey) = Read(a, SeqKey) /\ Read(b, EvictedKey) = Read(a, EvictedKey)
      /\ \A u : Read(b, ObjectKey(u)) = Read(a, ObjectKey(u))
  BY KeysDiffer DEF Put
<1>2. Gone \notin Revision
  BY HistoryJournalAssumption
<1>3. ASSUME NEW rev
      PROVE  rev \in Retained(b) <=> \/ rev \in Retained(a) /\ rev.seq # n
                                     \/ rev = v /\ v # Gone
  <2>1. CASE rev.seq = n
    <3>1. rev \in Retained(b) <=> rev \in Revision /\ v = rev
      BY <1>1, <2>1 DEF Retained
    <3> QED BY <3>1, <2>1, <1>2
  <2>2. CASE rev.seq # n
    <3>1. Read(b, RevisionKey(rev.seq)) = Read(a, RevisionKey(rev.seq))
      BY <1>1, <2>2
    <3>2. rev # v \/ v = Gone
      BY <2>2
    <3> QED BY <3>1, <3>2, <2>2 DEF Retained
  <2> QED BY <2>1, <2>2
<1>4. Retained(b) = {rev \in Retained(a) : rev.seq # n} \cup {rev \in {v} : v # Gone}
  <2> DEFINE R == Retained(b)
             A == Retained(a)
  <2>1. \A rev : rev \in R <=> (rev \in A /\ rev.seq # n) \/ (rev = v /\ v # Gone)
    BY <1>3
  <2> HIDE DEF R, A
  <2>2. R = {rev \in A : rev.seq # n} \cup {rev \in {v} : v # Gone}
    BY <2>1
  <2> QED BY <2>2 DEF R, A
<1> QED BY <1>1, <1>4 DEF Meta

LEMMA PutElsewhere ==
  ASSUME NEW a, NEW b, NEW key, NEW v, Put(a, key, v, b), \A n : key # RevisionKey(n)
  PROVE  Retained(b) = Retained(a) /\ IssuesNoneAgain(a, b)
<1>1. \A n : Read(b, RevisionKey(n)) = Read(a, RevisionKey(n))
  BY DEF Put
<1> QED BY <1>1 DEF Retained, IssuesNoneAgain

\* One call more, when the file it leads to is as is claimed of it.
LEMMA OwesFurther ==
  ASSUME NEW calls \in Seq(PersisterCall), NEW c \in PersisterCall, NEW x, NEW y \in Filings,
         Leads(x, calls, y), NEW z \in Filings, z = Merge(WritesOf(c), y),
         NEW E, NEW known, NEW n \in Nat, NEW marked, NEW us, Holds(z, E, known, n, marked, us),
         \A rev \in E : rev.seq <= n, Meta(y) <= n, IssuesNoneAgain(y, z)
  PROVE  Owes(x, Append(calls, c), E, known, n, marked, us)
<1>1. Step(y, c, z)
  BY DEF Step, Rises, Topped, Holds
<1>2. Leads(x, Append(calls, c), z)
  BY <1>1, LeadsFurther
<1> QED BY <1>2 DEF Owes

LEMMA OwesRevision ==
  ASSUME NEW calls \in Seq(PersisterCall), NEW x, NEW E, NEW known, NEW n, NEW marked, NEW us,
         Owes(x, calls, E, known, n, marked, us), NEW c \in PersisterCall, NEW m \in Nat,
         NEW v \in {rev \in Revision : rev.seq = m} \cup {Gone}, m <= n,
         v # Gone => \E rev \in E : rev.seq = m /\ Folded(rev) = Folded(v),
         WritesOf(c) = OneKey(RevisionKey(m), v)
  PROVE  Owes(x, Append(calls, c), {rev \in E : rev.seq # m} \cup {rev \in {v} : v # Gone},
              known, n, marked, us)
<1> DEFINE F == {rev \in E : rev.seq # m} \cup {rev \in {v} : v # Gone}
<1>1. PICK y \in Filings : Leads(x, calls, y) /\ Holds(y, E, known, n, marked, us)
  BY DEF Owes
<1>2. n \in Nat /\ \A rev \in E : rev.seq <= n
  BY DEF Owes
<1> DEFINE z == Merge(WritesOf(c), y)
<1>3. z \in Filings
  BY WritesAreFiled, FilingsMerge
<1>4. Put(y, RevisionKey(m), v, z)
  BY OneWrite
<1> HIDE DEF z
<1>5. Retained(z) = {rev \in Retained(y) : rev.seq # m} \cup {rev \in {v} : v # Gone}
      /\ Meta(z) = Meta(y) /\ Read(z, EvictedKey) = Read(y, EvictedKey)
      /\ \A u : Read(z, ObjectKey(u)) = Read(y, ObjectKey(u))
      /\ Read(z, RevisionKey(m)) = v
      /\ \A k : k # m => Read(z, RevisionKey(k)) = Read(y, RevisionKey(k))
  BY <1>3, <1>4, PutRevision
<1>10. IssuesNoneAgain(y, z)
  <2> SUFFICES ASSUME v # Gone
               PROVE  /\ Read(y, RevisionKey(m)) # Gone
                      /\ Folded(v) = Folded(Read(y, RevisionKey(m)))
    BY <1>5 DEF IssuesNoneAgain
  <2>1. PICK rev \in E : rev.seq = m /\ Folded(rev) = Folded(v)
    OBVIOUS
  <2>2. rev \in Retained(y) /\ Read(y, RevisionKey(m)) = rev
    BY <1>1, <2>1 DEF Holds, Retained
  <2>3. rev # Gone
    BY <2>2, HistoryJournalAssumption DEF Retained
  <2> QED BY <2>1, <2>2, <2>3
<1>6. Holds(z, F, known, n, marked, us)
  BY <1>1, <1>5 DEF Holds
<1>7. \A rev \in F : rev.seq <= n
  BY <1>2
<1>8. Meta(y) <= n
  BY <1>1, <1>2 DEF Holds
<1> HIDE DEF F
<1>9. Owes(x, Append(calls, c), F, known, n, marked, us)
  BY <1>1, <1>2, <1>3, <1>6, <1>7, <1>8, <1>10, OwesFurther DEF z
<1> QED BY <1>9 DEF F

LEMMA OwesEviction ==
  ASSUME NEW calls \in Seq(PersisterCall), NEW x, NEW E, NEW known, NEW n, NEW marked, NEW us,
         Owes(x, calls, E, known, n, marked, us), NEW m \in Nat, m <= n
  PROVE  Owes(x, Append(calls, [call |-> "Evict", seq |-> m]), {rev \in E : rev.seq # m},
              known, n, marked, us)
<1> DEFINE c == [call |-> "Evict", seq |-> m]
<1>1. c \in PersisterCall
  BY DEF PersisterCall
<1>2. WritesOf(c) = OneKey(RevisionKey(m), Gone)
  BY WritesAre
<1> DEFINE v == Gone
<1>3. v \in {rev \in Revision : rev.seq = m} \cup {Gone} /\ WritesOf(c) = OneKey(RevisionKey(m), v)
      /\ (v # Gone => \E rev \in E : rev.seq = m /\ Folded(rev) = Folded(v))
  BY <1>2
<1>4. {rev \in E : rev.seq # m} \cup {rev \in {v} : v # Gone} = {rev \in E : rev.seq # m}
  OBVIOUS
<1> HIDE DEF c, v
<1>5. Owes(x, Append(calls, c), {rev \in E : rev.seq # m} \cup {rev \in {v} : v # Gone},
           known, n, marked, us)
  BY <1>1, <1>3, OwesRevision
<1> QED BY <1>4, <1>5 DEF c

LEMMA OwesUpdate ==
  ASSUME NEW calls \in Seq(PersisterCall), NEW x, NEW E, NEW known, NEW n, NEW marked, NEW us,
         Owes(x, calls, E, known, n, marked, us), NEW rev \in Revision, rev.seq <= n,
         \E r \in E : r.seq = rev.seq /\ Folded(r) = Folded(rev)
  PROVE  Owes(x, Append(calls, [call |-> "Update", rev |-> rev]),
              {r \in E : r.seq # rev.seq} \cup {rev}, known, n, marked, us)
<1> DEFINE c == [call |-> "Update", rev |-> rev]
           m == rev.seq
<1>1. c \in PersisterCall
  BY DEF PersisterCall
<1>2. WritesOf(c) = OneKey(RevisionKey(m), rev)
  BY WritesAre
<1>3. m \in Nat /\ rev \in {r \in Revision : r.seq = m} \cup {Gone} /\ m <= n
  BY RevisionParts
<1> HIDE DEF c, m
<1>4. Owes(x, Append(calls, c), {r \in E : r.seq # m} \cup {r \in {rev} : rev # Gone},
           known, n, marked, us)
  BY <1>1, <1>2, <1>3, OwesRevision
<1>5. {r \in {rev} : rev # Gone} = {rev}
  BY HistoryJournalAssumption
<1> QED BY <1>4, <1>5 DEF c, m

LEMMA OwesMark ==
  ASSUME NEW calls \in Seq(PersisterCall), NEW x, NEW E, NEW known, NEW n, NEW marked, NEW us,
         Owes(x, calls, E, known, n, marked, us)
  PROVE  Owes(x, Append(calls, [call |-> "MarkEvicted"]), E, known, n, TRUE, us)
<1> DEFINE c == [call |-> "MarkEvicted"]
<1>1. PICK y \in Filings : Leads(x, calls, y) /\ Holds(y, E, known, n, marked, us)
  BY DEF Owes
<1>2. n \in Nat /\ \A rev \in E : rev.seq <= n
  BY DEF Owes
<1>3. c \in PersisterCall
  BY DEF PersisterCall
<1>4. WritesOf(c) = OneKey(EvictedKey, TRUE)
  BY WritesAre
<1> HIDE DEF c
<1> DEFINE z == Merge(WritesOf(c), y)
<1>5. z \in Filings
  BY <1>3, WritesAreFiled, FilingsMerge
<1>6. Put(y, EvictedKey, TRUE, z)
  BY <1>4, OneWrite
<1> HIDE DEF z
<1>7. Retained(z) = Retained(y) /\ IssuesNoneAgain(y, z)
  BY <1>6, PutElsewhere, KeysDiffer
<1>8. TRUE # Gone
  BY HistoryJournalAssumption
<1>9. Meta(z) = Meta(y) /\ \A u : Read(z, ObjectKey(u)) = Read(y, ObjectKey(u))
  BY <1>6, KeysDiffer DEF Put, Meta
<1>10. Read(z, EvictedKey) # Gone
  BY <1>6, <1>8 DEF Put
<1>11. Holds(z, E, known, n, TRUE, us)
  BY <1>1, <1>7, <1>9, <1>10 DEF Holds
<1>12. Meta(y) <= n
  BY <1>1, <1>2 DEF Holds
<1>13. Owes(x, Append(calls, c), E, known, n, TRUE, us)
  BY <1>1, <1>2, <1>3, <1>5, <1>7, <1>11, <1>12, OwesFurther DEF z
<1> QED BY <1>13 DEF c

LEMMA OwesAppend ==
  ASSUME NEW calls \in Seq(PersisterCall), NEW x, NEW E, NEW known, NEW n, NEW marked, NEW us,
         Owes(x, calls, E, known, n, marked, us), NEW rev \in Revision, n < rev.seq
  PROVE  Owes(x, Append(calls, [call |-> "Append", rev |-> rev]), E \cup {rev},
              known, rev.seq, marked, us)
<1> DEFINE c == [call |-> "Append", rev |-> rev]
           m == rev.seq
           one == OneKey(RevisionKey(m), rev)
           top == OneKey(SeqKey, m)
<1>1. PICK y \in Filings : Leads(x, calls, y) /\ Holds(y, E, known, n, marked, us)
  BY DEF Owes
<1>2. n \in Nat /\ \A r \in E : r.seq <= n
  BY DEF Owes
<1>3. c \in PersisterCall
  BY DEF PersisterCall
<1>4. WritesOf(c) = Merge(one, top)
  BY WritesAre
<1>5. m \in Nat /\ rev \in {r \in Revision : r.seq = m} \cup {Gone}
  BY RevisionParts
<1>6. one \in Filings /\ top \in Filings
  <2>1. RevisionKey(m) \in FileKeys /\ SeqKey \in FileKeys /\ rev \in FileValues /\ m \in FileValues
    BY <1>5 DEF FileKeys, FileValues
  <2>2. \E k \in Nat : RevisionKey(m) = RevisionKey(k) /\ rev \in {r \in Revision : r.seq = k} \cup {Gone}
    BY <1>5
  <2> HIDE DEF m
  <2> QED BY <1>5, <2>1, <2>2, OneIsFiled
<1> DEFINE w == Merge(top, y)
           z == Merge(WritesOf(c), y)
<1>7. w \in Filings
  BY <1>6, FilingsMerge
<1>8. z \in Filings
  BY <1>3, WritesAreFiled, FilingsMerge
<1>9. z = Merge(one, w)
  BY <1>4, MergeAssociates
<1>10. Put(y, SeqKey, m, w) /\ Put(w, RevisionKey(m), rev, z)
  BY <1>9, OneWrite
<1> HIDE DEF w, z, c, m
<1>11. Retained(w) = Retained(y) /\ \A k : Read(w, RevisionKey(k)) = Read(y, RevisionKey(k))
  <2>1. Retained(w) = Retained(y)
    BY <1>10, PutElsewhere, KeysDiffer
  <2> QED BY <2>1, <1>10, KeysDiffer DEF Put
<1>12. /\ Meta(w) = m
       /\ Read(w, EvictedKey) = Read(y, EvictedKey)
       /\ \A u : Read(w, ObjectKey(u)) = Read(y, ObjectKey(u))
  BY <1>5, <1>10, KeysDiffer, HistoryJournalAssumption DEF Put, Meta
<1>13. /\ Retained(z) = {r \in Retained(w) : r.seq # m} \cup {r \in {rev} : rev # Gone}
       /\ Meta(z) = Meta(w) /\ Read(z, EvictedKey) = Read(w, EvictedKey)
       /\ \A u : Read(z, ObjectKey(u)) = Read(w, ObjectKey(u))
       /\ \A k : k # m => Read(z, RevisionKey(k)) = Read(w, RevisionKey(k))
  BY <1>5, <1>7, <1>8, <1>10, PutRevision
<1>14. Retained(z) = E \cup {rev}
  <2>1. \A r \in E : r.seq # m
    <3>1. \A r \in E : r \in Revision
      BY <1>1 DEF Holds, Retained
    <3>2. \A r \in E : r.seq \in Nat
      BY <3>1, RevisionParts
    <3> QED BY <3>2, <1>2, <1>5 DEF m
  <2>2. rev # Gone
    BY HistoryJournalAssumption
  <2>3. Retained(w) = E
    BY <1>1, <1>11 DEF Holds
  <2> QED BY <2>1, <2>2, <2>3, <1>13
<1>15. Holds(z, E \cup {rev}, known, m, marked, us)
  BY <1>1, <1>12, <1>13, <1>14 DEF Holds
<1>16. Meta(y) <= m
  BY <1>1, <1>2, <1>5 DEF Holds, m
<1>19. IssuesNoneAgain(y, z)
  <2>1. \A k \in 1..Meta(y) : k # m
    BY <1>1, <1>2, <1>5 DEF Holds, m
  <2> QED BY <2>1, <1>11, <1>13 DEF IssuesNoneAgain
<1>17. \A r \in E \cup {rev} : r.seq <= m
  <2>1. \A r \in E : r.seq \in Nat
    BY <1>1, RevisionParts DEF Holds, Retained
  <2> QED BY <2>1, <1>2, <1>5 DEF m
<1>18. Owes(x, Append(calls, c), E \cup {rev}, known, m, marked, us)
  <2> DEFINE F == E \cup {rev}
  <2> HIDE DEF F
  <2> QED BY <1>1, <1>3, <1>5, <1>8, <1>15, <1>16, <1>17, <1>19, OwesFurther DEF z, F
<1> QED BY <1>18 DEF c, m

LEMMA OwesObject ==
  ASSUME NEW calls \in Seq(PersisterCall), NEW x, NEW E, NEW known, NEW n, NEW marked, NEW us,
         Owes(x, calls, E, known, n, marked, us), NEW c \in PersisterCall,
         NEW u \in Uids, NEW content, WritesOf(c) = OneKey(ObjectKey(u), content),
         NEW next, next[u] = content, \A o \in us : o # u => next[o] = known[o]
  PROVE  Owes(x, Append(calls, c), E, next, n, marked, us \cup {u})
<1>1. PICK y \in Filings : Leads(x, calls, y) /\ Holds(y, E, known, n, marked, us)
  BY DEF Owes
<1>2. n \in Nat /\ \A rev \in E : rev.seq <= n
  BY DEF Owes
<1> DEFINE z == Merge(WritesOf(c), y)
<1>3. z \in Filings
  BY WritesAreFiled, FilingsMerge
<1>4. Put(y, ObjectKey(u), content, z)
  BY OneWrite
<1> HIDE DEF z
<1>5. Retained(z) = Retained(y) /\ IssuesNoneAgain(y, z)
  BY <1>4, PutElsewhere, KeysDiffer
<1>6. /\ Meta(z) = Meta(y) /\ Read(z, EvictedKey) = Read(y, EvictedKey)
      /\ Read(z, ObjectKey(u)) = content
      /\ \A o : o # u => Read(z, ObjectKey(o)) = Read(y, ObjectKey(o))
  BY <1>4, KeysDiffer DEF Put, Meta
<1>7. \A o \in us \cup {u} : Read(z, ObjectKey(o)) = next[o]
  BY <1>1, <1>6 DEF Holds
<1>8. Holds(z, E, next, n, marked, us \cup {u})
  BY <1>1, <1>5, <1>6, <1>7 DEF Holds
<1>9. Meta(y) <= n
  BY <1>1, <1>2 DEF Holds
<1> DEFINE os == us \cup {u}
<1> HIDE DEF os
<1>10. Owes(x, Append(calls, c), E, next, n, marked, os)
  BY <1>1, <1>2, <1>3, <1>5, <1>8, <1>9, OwesFurther DEF z, os
<1> QED BY <1>10 DEF os

\* What is not asked of the file does not matter.
LEMMA OwesLess ==
  ASSUME NEW x, NEW calls, NEW E, NEW known, NEW n, NEW marked, NEW us,
         Owes(x, calls, E, known, n, marked, us),
         NEW os \in SUBSET us, NEW next, \A o \in os : next[o] = known[o]
  PROVE  Owes(x, calls, E, next, n, marked, os)
BY DEF Owes, Holds

-----------------------------------------------------------------------------
(* Each mutation's calls lead to a file that reads back as the store.        *)

\* What the calls in progress lead to from x reads back as s, and the objects of us as
\* it knows them.
Carries(s, x, us) ==
    /\ s \in Store /\ Ascends(s.entries)
    /\ Owes(x, s.out, Elems(s.entries), Known(s), s.seq, s.evicted, us)

LEMMA CallsMore ==
  ASSUME NEW calls \in Seq(PersisterCall), NEW c \in PersisterCall
  PROVE  Append(calls, c) \in Seq(PersisterCall)
BY AppendProperties

LEMMA EvictCarries ==
  ASSUME Persisted, NEW s, NEW x, NEW us, Carries(s, x, us), NEW i \in 1..Len(s.entries)
  PROVE  Carries(evict(s, i), x, us)
<1> DEFINE e == s.entries
           rev == e[i]
           n == rev.seq
           t == evict(s, i)
           c == [call |-> "Evict", seq |-> n]
           d == [call |-> "MarkEvicted"]
           out == s.out
           more == Append(out, c)
           E == Elems(e)
           F == {r \in E : r.seq # n}
           known == Known(s)
<1>1. /\ s \in Store /\ Ascends(e) /\ e \in Seq(Revision) /\ out \in Seq(PersisterCall)
      /\ s.evicted \in BOOLEAN /\ s.seq \in Nat /\ i \in 1..Len(e)
  BY DEF Carries, Store
<1>2. rev \in Revision /\ rev \in E
  BY <1>1 DEF Elems
<1>3. n \in Nat
  BY <1>2, RevisionParts
<1>4. Owes(x, out, E, known, s.seq, s.evicted, us)
  BY DEF Carries
<1>5. n <= s.seq
  BY <1>2, <1>4 DEF Owes
<1>6. /\ t \in Store /\ t.seq = s.seq /\ t.entries = RemoveAt(e, i) /\ t.evicted
      /\ t.out = EvictionCalled(out, s.evicted, n)
  BY <1>1, EvictIs
<1>7. Known(t) = known
  BY <1>1, EvictTrims DEF Trimmed
<1>8. Ascends(t.entries) /\ Elems(t.entries) = E \ {rev}
  BY <1>1, <1>6, WithoutOne
<1>9. E \ {rev} = F
  <2>1. \A r \in E : r.seq = n => r = rev
    <3> HIDE DEF rev, e, E
    <3> QED BY <1>1, <1>2, OneEach DEF E
  <2> QED BY <2>1
<1>10. c \in PersisterCall /\ d \in PersisterCall /\ more \in Seq(PersisterCall)
  <2>1. c \in PersisterCall /\ d \in PersisterCall
    BY <1>3 DEF PersisterCall
  <2> HIDE DEF c, d
  <2> QED BY <2>1, <1>1, CallsMore
<1>11. Owes(x, more, F, known, s.seq, s.evicted, us)
  <2> HIDE DEF n, out, E, known, rev
  <2> QED BY <1>1, <1>3, <1>4, <1>5, OwesEviction
<1>12. t.out = IF s.evicted THEN more ELSE Append(more, d)
  BY <1>6 DEF EvictionCalled, Called
<1>13. t.evicted = TRUE
  BY <1>6 DEF Store
<1> HIDE DEF t, c, d, F, more, known, n
<1>14. Owes(x, t.out, F, known, t.seq, TRUE, us)
  <2>1. CASE s.evicted
    <3>1. s.evicted = TRUE
      BY <2>1, <1>1
    <3> QED BY <2>1, <3>1, <1>6, <1>11, <1>12
  <2>2. CASE ~s.evicted
    <3>1. Owes(x, Append(more, d), F, known, s.seq, TRUE, us)
      BY <1>10, <1>11, OwesMark DEF d
    <3> QED BY <2>2, <3>1, <1>6, <1>12
  <2> QED BY <2>1, <2>2
<1> QED BY <1>6, <1>7, <1>8, <1>9, <1>13, <1>14 DEF Carries, t

LEMMA EnforcePerObjectCarries ==
  ASSUME Persisted, NEW s, NEW x, NEW us, Carries(s, x, us), NEW u \in Uids
  PROVE  Carries(enforcePerObject(s, u), x, us)
<1>1. s \in Store
  BY DEF Carries
<1>2. enforcePerObject(s, u) = s \/ \E i \in 1..Len(s.entries) : enforcePerObject(s, u) = evict(s, i)
  BY <1>1, EnforcePerObjectIs
<1> QED BY <1>2, EvictCarries

LEMMA TurnCarries ==
  ASSUME Persisted, NEW s, NEW x, NEW us, Carries(s, x, us) PROVE Carries(Turn(s), x, us)
<1>1. OverBounds(s) => 1 \in 1..Len(s.entries)
  BY DEF OverBounds, Carries, Store
<1> QED BY <1>1, EvictCarries DEF Turn

LEMMA EnforceBoundsCarries ==
  ASSUME Persisted, NEW s, NEW x, NEW us, Carries(s, x, us) PROVE Carries(enforceBounds(s), x, us)
<1> DEFINE n == Len(s.entries)
           C == {t \in Store : Carries(t, x, us)}
           W == [k \in 0..n |-> C]
<1>0. s \in Store /\ n \in Nat
  BY DEF Carries, Store
<1>1. PICK f \in [0..n -> Store] :
            /\ f[0] = s
            /\ \A k \in 1..n : f[k] = Turn(f[k - 1])
            /\ enforceBounds(s) = f[n]
  BY <1>0, EnforceBoundsRuns
<1>2. f[0] \in W[0]
  BY <1>0, <1>1
<1>3. ASSUME NEW k \in 1..n, f[k - 1] \in W[k - 1] PROVE f[k] \in W[k]
  <2>1. k - 1 \in 0..n /\ k \in 0..n
    BY <1>0
  <2>2. Carries(f[k - 1], x, us)
    BY <2>1, <1>3
  <2>3. Carries(f[k], x, us)
    BY <2>2, <1>1, TurnCarries
  <2> QED BY <2>1, <2>3, <1>1
<1>4. f[n] \in W[n]
  <2> HIDE DEF W, n
  <2> QED BY <1>0, <1>2, <1>3, Reaches
<1> QED BY <1>0, <1>1, <1>4

LEMMA AppendCarries ==
  ASSUME Persisted, NEW s, NEW x, NEW us, Carries(s, x, us), NEW u \in Uids, s.objects[u] # Gone,
         NEW change \in Changes, NEW gap \in BOOLEAN, NEW content \in Content
  PROVE  Carries(append(s, u, change, gap, content), x, us)
<1> DEFINE rev == NewRevision(s, u, change, gap, content)
           t == append(s, u, change, gap, content)
           e == s.entries
           E == Elems(e)
           out == s.out
           c == [call |-> "Append", rev |-> rev]
           n == s.seq
           known == Known(s)
           marked == s.evicted
<1>0. s \in Store /\ Ascends(e) /\ e \in Seq(Revision) /\ out \in Seq(PersisterCall) /\ n \in Nat
  BY DEF Carries, Store
<1>1. rev \in Revision /\ \E m : Added(s, rev, m) /\ t = enforceBounds(enforcePerObject(m, u))
  BY <1>0, AppendIs
<1>2. rev.uid = u /\ rev.seq = n + 1
  BY DEF NewRevision
<1> HIDE DEF rev, t
<1>3. PICK m : Added(s, rev, m) /\ t = enforceBounds(enforcePerObject(m, u))
  BY <1>1
<1>4. /\ m \in Store /\ m.seq = rev.seq /\ m.entries = Append(e, rev) /\ m.evicted = marked
      /\ m.out = Append(out, c)
  BY <1>2, <1>3 DEF Added, Called
<1>5. Known(m) = known
  BY <1>0, <1>1, <1>2, <1>3, AddedIsKnown
<1>6. Owes(x, out, E, known, n, marked, us)
  BY DEF Carries
<1>7. \A r \in E : r.seq < rev.seq
  <2>1. \A r \in E : r.seq <= n /\ r \in Revision
    BY <1>0, <1>6, ElemsAre DEF Owes
  <2>2. \A r \in E : r.seq \in Nat
    BY <2>1, RevisionParts
  <2> QED BY <2>1, <2>2, <1>0, <1>2
<1>8. Ascends(m.entries) /\ Elems(m.entries) = E \cup {rev}
  BY <1>0, <1>1, <1>4, <1>7, WithOneMore
<1> HIDE DEF E, out, known, n, marked
<1>9. Owes(x, Append(out, c), E \cup {rev}, known, rev.seq, marked, us)
  <2>1. n < rev.seq
    BY <1>0, <1>2
  <2>2. rev \in Revision
    BY <1>1
  <2> QED BY <2>1, <2>2, <1>0, <1>6, OwesAppend
<1>10. Carries(m, x, us)
  BY <1>4, <1>5, <1>8, <1>9 DEF Carries
<1>11. Carries(t, x, us)
  BY <1>3, <1>10, EnforcePerObjectCarries, EnforceBoundsCarries
<1> QED BY <1>11 DEF t

LEMMA CommitCarries ==
  ASSUME Persisted, NEW s, NEW x, NEW us, Carries(s, x, us), NEW u \in Uids, s.objects[u] # Gone,
         NEW content \in Content
  PROVE  Carries(commit(s, u, content), x, us \cup {u})
<1> DEFINE t == commit(s, u, content)
           c == [call |-> "PutObject", uid |-> u, record |-> content]
           out == s.out
           known == Known(s)
           next == [known EXCEPT ![u] = content]
           E == Elems(s.entries)
           n == s.seq
           marked == s.evicted
<1>0. s \in Store /\ out \in Seq(PersisterCall)
  BY DEF Carries, Store
<1>1. Committed(s, t, u, content)
  BY <1>0, CommitIs
<1> HIDE DEF t
<1>2. /\ t \in Store /\ t.entries = s.entries /\ t.seq = n /\ t.evicted = marked
      /\ Known(t) = next /\ t.out = Append(out, c)
  BY <1>1 DEF Committed, Called
<1>3. Owes(x, out, E, known, n, marked, us) /\ Ascends(s.entries)
  BY DEF Carries
<1>4. c \in PersisterCall /\ WritesOf(c) = OneKey(ObjectKey(u), content)
  BY WritesAre DEF PersisterCall
<1>5. next[u] = content /\ \A o \in us : o # u => next[o] = known[o]
  BY DEF Known
<1> HIDE DEF c, out, known, next, E, n, marked
<1>6. Owes(x, Append(out, c), E, next, n, marked, us \cup {u})
  BY <1>0, <1>3, <1>4, <1>5, OwesObject
<1>7. Carries(t, x, us \cup {u})
  BY <1>2, <1>3, <1>6 DEF Carries, E
<1> QED BY <1>7 DEF t

LEMMA CoalesceCarries ==
  ASSUME Persisted, NEW s, NEW x, NEW us, Carries(s, x, us), NEW u \in Uids, s.objects[u] # Gone,
         target(s, u) # 0, NEW content \in Content
  PROVE  Carries(coalesce(s, u, content), x, us \cup {u})
<1> DEFINE i == target(s, u)
           e == s.entries
           rev == Rewritten(e[i], content)
           t == coalesce(s, u, content)
           c == [call |-> "Update", rev |-> rev]
           d == [call |-> "PutObject", uid |-> u, record |-> content]
           out == s.out
           more == Append(out, c)
           known == Known(s)
           next == [known EXCEPT ![u] = content]
           E == Elems(e)
           F == {r \in E : r.seq # rev.seq} \cup {rev}
           n == s.seq
           marked == s.evicted
<1>0. s \in Store /\ out \in Seq(PersisterCall) /\ e \in Seq(Revision) /\ Ascends(e)
  BY DEF Carries, Store
<1>1. PICK p : Coalesced(s, p, i, u, content) /\ t = enforceBounds(p)
  BY <1>0, CoalesceIs
<1>2. i \in 1..Len(e)
  BY <1>0, TargetIs
<1> HIDE DEF t, i
<1>3. e[i] \in Revision /\ e[i] \in E
  BY <1>0, <1>2 DEF Elems
<1>4. rev \in Revision /\ rev.seq = e[i].seq /\ Folded(rev) = Folded(e[i])
  <2> DEFINE old == e[i]
  <2>1. old \in Revision
    BY <1>3
  <2> HIDE DEF old
  <2>2. old.content \in Content /\ content.status \in 0..1
    BY <2>1 DEF Revision, Content
  <2>3. [old.content EXCEPT !.status = content.status] \in Content
    BY <2>2 DEF Content
  <2>4. Rewritten(old, content) \in Revision /\ Rewritten(old, content).seq = old.seq
    BY <2>1, <2>3 DEF Rewritten, Revision
  <2>5. Folded(Rewritten(old, content)) = Folded(old)
    BY <2>1, <2>2 DEF Rewritten, Folded, Revision, Content
  <2> QED BY <2>4, <2>5 DEF old
<1>5. /\ p \in Store /\ p.seq = n /\ p.entries = [e EXCEPT ![i] = rev] /\ p.evicted = marked
      /\ Known(p) = next /\ p.out = Append(more, d)
  BY <1>1 DEF Coalesced, Called
<1> HIDE DEF rev
<1>6. Ascends(p.entries) /\ Elems(p.entries) = (E \ {e[i]}) \cup {rev}
  <2>1. e \in Seq(Revision) /\ Ascends(e) /\ i \in 1..Len(e) /\ rev \in Revision /\ rev.seq = e[i].seq
    BY <1>0, <1>2, <1>4
  <2>2. p.entries = [e EXCEPT ![i] = rev]
    BY <1>5
  <2> HIDE DEF e
  <2>3. /\ Ascends([e EXCEPT ![i] = rev])
        /\ Elems([e EXCEPT ![i] = rev]) = (Elems(e) \ {e[i]}) \cup {rev}
    BY <2>1, WithOneRewritten
  <2> QED BY <2>2, <2>3
<1>7. E \ {e[i]} = {r \in E : r.seq # rev.seq}
  <2> DEFINE old == e[i]
  <2>1. \A r \in E : r.seq = old.seq => r = old
    <3> HIDE DEF old, e, E
    <3> QED BY <1>0, <1>3, OneEach DEF E, old
  <2> QED BY <2>1, <1>4
<1>8. Owes(x, out, E, known, n, marked, us)
  BY DEF Carries
<1>9. rev.seq <= n
  BY <1>3, <1>4, <1>8 DEF Owes
<1>10. more \in Seq(PersisterCall)
  <2>1. c \in PersisterCall
    BY <1>4 DEF PersisterCall
  <2> HIDE DEF c
  <2> QED BY <1>0, <2>1, CallsMore
<1>11. d \in PersisterCall /\ WritesOf(d) = OneKey(ObjectKey(u), content)
  BY WritesAre DEF PersisterCall
<1>12. next[u] = content /\ \A o \in us : o # u => next[o] = known[o]
  BY DEF Known
<1>18. \E r \in E : r.seq = rev.seq /\ Folded(r) = Folded(rev)
  BY <1>3, <1>4
<1> HIDE DEF out, known, next, E, n, marked, d
<1>13. Owes(x, more, F, known, n, marked, us)
  BY <1>0, <1>4, <1>8, <1>9, <1>18, OwesUpdate
<1> HIDE DEF more, F
<1>14. Owes(x, Append(more, d), F, next, n, marked, us \cup {u})
  BY <1>10, <1>11, <1>12, <1>13, OwesObject
<1>15. Elems(p.entries) = F
  BY <1>6, <1>7 DEF F
<1>16. Carries(p, x, us \cup {u})
  BY <1>5, <1>6, <1>14, <1>15 DEF Carries
<1>17. Carries(t, x, us \cup {u})
  BY <1>1, <1>16, EnforceBoundsCarries
<1> QED BY <1>17 DEF t

\* A run of mutations, one after the other.
LEMMA RunCarries ==
  ASSUME NEW n \in Nat, NEW f \in [0..n -> Store], NEW x, NEW us, Carries(f[0], x, us),
         \A k \in 1..n : Carries(f[k - 1], x, us) => Carries(f[k], x, us)
  PROVE  Carries(f[n], x, us)
<1> DEFINE C == {t \in Store : Carries(t, x, us)}
           W == [k \in 0..n |-> C]
<1>1. f[0] \in W[0]
  OBVIOUS
<1>2. ASSUME NEW k \in 1..n, f[k - 1] \in W[k - 1] PROVE f[k] \in W[k]
  <2>1. k - 1 \in 0..n /\ k \in 0..n
    OBVIOUS
  <2>2. Carries(f[k - 1], x, us)
    BY <2>1, <1>2
  <2> QED BY <2>1, <2>2
<1>3. f[n] \in W[n]
  <2> HIDE DEF W
  <2> QED BY <1>1, <1>2, Reaches
<1> QED BY <1>3

LEMMA ObserveCarries ==
  ASSUME Persisted, NEW s, NEW x, Carries(s, x, Uids), NEW u \in Uids, NEW content \in Content,
         NEW seed \in BOOLEAN, NEW within \in BOOLEAN
  PROVE  Carries(observe(s, u, content, seed, within), x, Uids)
<1> DEFINE state == s.objects[u]
           fresh == [spec |-> content.spec, status |-> content.status, count |-> 0, last |-> 0]
           base == [s EXCEPT !.objects[u] = fresh]
           birth == IF seed THEN "first-observed" ELSE "created"
           change == IF content.spec # state.spec THEN "spec" ELSE "status"
           t == observe(s, u, content, seed, within)
           E == Elems(s.entries)
           known == Known(s)
           n == s.seq
           marked == s.evicted
           out == s.out
<1>0. s \in Store /\ s.objects \in [Uids -> State \cup {Gone}] /\ out \in Seq(PersisterCall)
  BY DEF Carries, Store
<1>1. Owes(x, out, E, known, n, marked, Uids) /\ Ascends(s.entries)
  BY DEF Carries
<1>2. Uids \cup {u} = Uids
  OBVIOUS
<1>3. CASE state = Gone
  <2> DEFINE others == Uids \ {u}
  <2>1. t = commit(append(base, u, birth, FALSE, content), u, content)
    BY <1>3 DEF observe
  <2>2. birth \in Changes
    BY DEF Changes
  <2>3. fresh \in State /\ fresh # Gone
    <3>1. fresh \in State
      BY DEF State, Content
    <3> QED BY <3>1, GoneAssumption
  <2> HIDE DEF fresh, birth, t
  <2>4. base \in Store /\ base.objects[u] # Gone
    BY <1>0, <2>3 DEF Store
  <2>5. /\ base.seq = n /\ base.entries = s.entries /\ base.evicted = marked /\ base.out = out
        /\ \A o \in Uids : o # u => base.objects[o] = s.objects[o]
    BY <1>0 DEF Store
  <2> HIDE DEF base
  <2>6. \A o \in others : Known(base)[o] = known[o]
    BY <2>5 DEF Known
  <2> DEFINE next == Known(base)
  <2>7. Owes(x, out, E, next, n, marked, others)
    <3>1. others \in SUBSET Uids /\ \A o \in others : next[o] = known[o]
      BY <2>6
    <3> HIDE DEF next, known, others, E, n, marked, out
    <3> QED BY <1>1, <3>1, OwesLess
  <2>8. Carries(base, x, others)
    BY <1>1, <2>4, <2>5, <2>7 DEF Carries
  <2> DEFINE a == append(base, u, birth, FALSE, content)
  <2>9. Carries(a, x, others)
    BY <2>2, <2>4, <2>8, AppendCarries
  <2>10. a.objects[u] # Gone
    <3>1. Known(a) = Known(base)
      BY <2>2, <2>4, AppendRecords
    <3>2. Known(base)[u] # Gone
      <4>1. base.objects[u] \in State
        BY <2>4 DEF Store
      <4> QED BY <4>1, <2>4, StateParts DEF Known
    <3> HIDE DEF a
    <3> QED BY <3>1, <3>2 DEF Known
  <2> HIDE DEF a
  <2>11. Carries(commit(a, u, content), x, others \cup {u})
    BY <2>9, <2>10, CommitCarries
  <2>12. others \cup {u} = Uids
    OBVIOUS
  <2>13. Carries(t, x, Uids)
    BY <2>1, <2>11, <2>12 DEF a
  <2> QED BY <2>13 DEF t
<1>4. CASE state # Gone /\ record(state) = content
  <2> DEFINE c == [call |-> "PutObject", uid |-> u, record |-> content]
  <2>1. t = Mirror(s, c)
    BY <1>4 DEF observe
  <2>2. c \in PersisterCall /\ WritesOf(c) = OneKey(ObjectKey(u), content)
    BY WritesAre DEF PersisterCall
  <2> HIDE DEF c, t
  <2>3. t \in Store /\ t = [s EXCEPT !.out = t.out] /\ t.out = Append(out, c)
    BY <1>0, <2>1, <2>2, MirrorIs DEF Called
  <2>4. /\ t.seq = n /\ t.entries = s.entries /\ t.evicted = marked /\ t.objects = s.objects
    BY <1>0, <2>3 DEF Store
  <2>5. Known(t) = known /\ known[u] = content
    BY <1>4, <2>4 DEF Known
  <2> HIDE DEF known, E, n, marked, out
  <2>6. Owes(x, Append(out, c), E, known, n, marked, Uids \cup {u})
    BY <1>0, <1>1, <2>2, <2>5, OwesObject
  <2>7. Carries(t, x, Uids)
    BY <1>1, <1>2, <2>3, <2>4, <2>5, <2>6 DEF Carries, E
  <2> QED BY <2>7 DEF t
<1>5. CASE /\ state # Gone /\ record(state) # content /\ change = "status"
           /\ ~seed /\ within /\ target(s, u) # 0
  <2>1. t = coalesce(s, u, content)
    BY <1>5 DEF observe
  <2> HIDE DEF t
  <2>2. Carries(t, x, Uids \cup {u})
    BY <1>5, <2>1, CoalesceCarries
  <2> QED BY <2>2, <1>2 DEF t
<1>6. CASE /\ state # Gone /\ record(state) # content
           /\ ~(change = "status" /\ ~seed /\ within /\ target(s, u) # 0)
  <2> DEFINE a == append(s, u, change, seed, content)
  <2>1. t = commit(a, u, content)
    BY <1>6 DEF observe
  <2>2. change \in Changes
    BY DEF Changes
  <2> HIDE DEF t, change
  <2>3. Carries(a, x, Uids)
    BY <1>6, <2>2, AppendCarries
  <2>4. a.objects[u] # Gone
    <3>1. Known(a) = Known(s)
      BY <1>0, <1>6, <2>2, AppendRecords
    <3>2. Known(s)[u] # Gone
      <4>1. state \in State
        BY <1>0, <1>6
      <4> QED BY <4>1, <1>6, StateParts DEF Known
    <3> HIDE DEF a
    <3> QED BY <3>1, <3>2 DEF Known
  <2> HIDE DEF a
  <2>5. Carries(t, x, Uids \cup {u})
    BY <2>1, <2>3, <2>4, CommitCarries
  <2> QED BY <2>5, <1>2 DEF t
<1> QED BY <1>3, <1>4, <1>5, <1>6

LEMMA DeleteCarries ==
  ASSUME Persisted, NEW s, NEW x, Carries(s, x, Uids), NEW u \in Uids, NEW change \in Deletions
  PROVE  Carries(delete(s, u, change), x, Uids)
<1> DEFINE state == s.objects[u]
           t == delete(s, u, change)
           gap == change = "deleted-unobserved"
           a == append(s, u, change, gap, record(state))
           b == [a EXCEPT !.objects[u] = Gone]
           c == [call |-> "DeleteObject", uid |-> u]
<1>0. s \in Store
  BY DEF Carries
<1>1. CASE state = Gone
  BY <1>1 DEF delete
<1>2. CASE state # Gone
  <2>1. t = Mirror(b, c)
    BY <1>2 DEF delete, forget
  <2>2. record(state) \in Content /\ change \in Changes /\ gap \in BOOLEAN
    <3>1. state \in State
      BY <1>0, <1>2 DEF Store
    <3> QED BY <3>1, StateParts DEF Changes, Deletions
  <2> HIDE DEF gap
  <2>3. Carries(a, x, Uids)
    BY <1>2, <2>2, AppendCarries
  <2> HIDE DEF a
  <2>4. /\ a \in Store /\ a.objects \in [Uids -> State \cup {Gone}] /\ a.out \in Seq(PersisterCall)
        /\ Ascends(a.entries)
        /\ Owes(x, a.out, Elems(a.entries), Known(a), a.seq, a.evicted, Uids)
    BY <2>3 DEF Carries, Store
  <2>5. c \in PersisterCall /\ WritesOf(c) = OneKey(ObjectKey(u), Gone)
    BY WritesAre DEF PersisterCall
  <2>6. b \in Store
    BY <2>4 DEF Store
  <2> HIDE DEF t, b, c
  <2>7. t \in Store /\ t = [b EXCEPT !.out = t.out] /\ t.out = Called(b.out, c)
    BY <2>1, <2>5, <2>6, MirrorIs
  <2> USE DEF b
  <2>8. /\ t.seq = a.seq /\ t.entries = a.entries /\ t.evicted = a.evicted
        /\ t.objects = [a.objects EXCEPT ![u] = Gone]
        /\ t.out = Append(a.out, c)
    BY <2>4, <2>7 DEF Store, Called
  <2> HIDE DEF b
  <2>9. Known(t)[u] = Gone /\ \A o \in Uids : o # u => Known(t)[o] = Known(a)[o]
    BY <2>4, <2>8 DEF Known
  <2> DEFINE out == a.out
             E == Elems(a.entries)
             known == Known(a)
             next == Known(t)
             n == a.seq
             marked == a.evicted
  <2> HIDE DEF out, E, known, next, n, marked
  <2>10. Owes(x, Append(out, c), E, next, n, marked, Uids \cup {u})
    <3>1. Owes(x, out, E, known, n, marked, Uids) /\ out \in Seq(PersisterCall)
      BY <2>4 DEF out, E, known, n, marked
    <3>2. next[u] = Gone /\ \A o \in Uids : o # u => next[o] = known[o]
      BY <2>9 DEF next, known
    <3> QED BY <2>5, <3>1, <3>2, OwesObject
  <2>11. Uids \cup {u} = Uids
    OBVIOUS
  <2>12. Carries(t, x, Uids)
    BY <2>4, <2>7, <2>8, <2>10, <2>11 DEF Carries, out, E, next, n, marked
  <2> QED BY <2>12 DEF t
<1> QED BY <1>1, <1>2

LEMMA SeedCarries ==
  ASSUME Persisted, NEW s, NEW x, Carries(s, x, Uids), NEW mine \in SUBSET Uids, NEW listed,
         \A u \in mine : listed[u] \in Content \cup {Gone}
  PROVE  Carries(Seed(s, mine, listed), x, Uids)
<1> DEFINE missing == {u \in mine : listed[u] = Gone}
           there == mine \ missing
           emptied == EndAll(s, order(missing))
           t == SeeAll(emptied, order(there), listed)
<1>0. s \in Store
  BY DEF Carries
<1>1. Seed(s, mine, listed) = t
  BY DEF Seed, EndAll, SeeAll
<1>2. missing \in SUBSET Uids /\ there \in SUBSET Uids
  OBVIOUS
<1>3. Carries(emptied, x, Uids)
  <2> DEFINE us == order(missing)
  <2>1. us \in Seq(missing)
    BY <1>2, OrderIs
  <2> HIDE DEF us
  <2>2. us \in Seq(Uids) /\ Len(us) \in Nat /\ \A k \in 1..Len(us) : us[k] \in Uids
    BY <2>1, <1>2
  <2>3. PICK f \in [0..Len(us) -> Store] :
            /\ f[0] = s
            /\ \A k \in 1..Len(us) : f[k] = Ended(f[k - 1], us[k])
            /\ EndAll(s, us) = f[Len(us)]
    BY <1>0, <2>2, EndAllRuns DEF EndRuns
  <2>4. ASSUME NEW k \in 1..Len(us), Carries(f[k - 1], x, Uids) PROVE Carries(f[k], x, Uids)
    <3>1. us[k] \in Uids
      BY <2>2
    <3>2. Carries(Ended(f[k - 1], us[k]), x, Uids)
      BY <2>4, <3>1, DeleteCarries DEF Ended, Deletions
    <3> QED BY <3>2, <2>3
  <2>5. Carries(f[Len(us)], x, Uids)
    BY <2>2, <2>3, <2>4, RunCarries
  <2> QED BY <2>3, <2>5 DEF us
<1> HIDE DEF emptied
<1>4. Carries(t, x, Uids)
  <2> DEFINE us == order(there)
  <2>1. us \in Seq(there)
    BY <1>2, OrderIs
  <2> HIDE DEF us
  <2>2. us \in Seq(Uids) /\ Len(us) \in Nat /\ \A k \in 1..Len(us) : us[k] \in there
    BY <2>1, <1>2
  <2>3. emptied \in Store /\ \A k \in 1..Len(us) : us[k] \in Uids /\ listed[us[k]] \in Content
    BY <1>3, <2>2 DEF Carries
  <2>4. PICK f \in [0..Len(us) -> Store] :
            /\ f[0] = emptied
            /\ \A k \in 1..Len(us) : f[k] = Seen(f[k - 1], us[k], listed)
            /\ SeeAll(emptied, us, listed) = f[Len(us)]
    <3>1. SeeRuns(emptied, us, listed) # {}
      BY <2>2, <2>3, SeeAllRuns
    <3> QED BY <3>1 DEF SeeRuns
  <2>5. ASSUME NEW k \in 1..Len(us), Carries(f[k - 1], x, Uids) PROVE Carries(f[k], x, Uids)
    <3>1. Carries(Seen(f[k - 1], us[k], listed), x, Uids)
      BY <2>3, <2>5, ObserveCarries DEF Seen
    <3> QED BY <3>1, <2>4
  <2>6. Carries(f[Len(us)], x, Uids)
    BY <1>3, <2>2, <2>4, <2>5, RunCarries
  <2> QED BY <2>4, <2>6 DEF us
<1> QED BY <1>1, <1>4

-----------------------------------------------------------------------------
(* What Load reads back.                                                     *)

\* In a timeline in order, an entry's position counts the entries up to it.
LEMMA PositionCounts ==
  ASSUME NEW e \in Seq(Revision), Ascends(e), NEW k \in 1..Len(e)
  PROVE  /\ Cardinality({r \in Elems(e) : r.seq <= e[k].seq}) = k
         /\ Cardinality(Elems(e)) = Len(e)
<1>0. /\ Len(e) \in Nat /\ DOMAIN e = 1..Len(e)
      /\ \A i \in 1..Len(e) : e[i] \in Revision /\ e[i].seq \in Nat
  BY RevisionParts
<1>1. ASSUME NEW m \in 1..Len(e), NEW U, U = {e[i] : i \in 1..m} PROVE Cardinality(U) = m
  <2> DEFINE f == [i \in 1..m |-> e[i]]
  <2>1. \A i \in 1..m : i \in 1..Len(e)
    BY <1>0
  <2>2. \A i, j \in 1..m : e[i] = e[j] => i = j
    <3> SUFFICES ASSUME NEW i \in 1..m, NEW j \in 1..m, e[i] = e[j], i # j PROVE FALSE
      OBVIOUS
    <3>1. i < j \/ j < i
      OBVIOUS
    <3>2. e[i].seq < e[j].seq \/ e[j].seq < e[i].seq
      BY <3>1, <2>1 DEF Ascends
    <3> QED BY <3>2, <2>1, <1>0
  <2>3. f \in [1..m -> U] /\ \A i \in 1..m : f[i] = e[i]
    BY <1>1
  <2> HIDE DEF f
  <2>4. f \in Surjection(1..m, U) /\ f \in Injection(1..m, U)
    BY <2>2, <2>3, <1>1 DEF Surjection, Injection, IsInjective
  <2>5. IsFiniteSet(1..m) /\ Cardinality(1..m) = m
    BY FS_Interval
  <2> QED BY <2>4, <2>5, FS_Surjection
<1>2. {r \in Elems(e) : r.seq <= e[k].seq} = {e[i] : i \in 1..k}
  <2>1. \A i \in 1..Len(e) : e[i].seq <= e[k].seq <=> i <= k
    <3> SUFFICES ASSUME NEW i \in 1..Len(e) PROVE e[i].seq <= e[k].seq <=> i <= k
      OBVIOUS
    <3>1. e[i].seq \in Nat /\ e[k].seq \in Nat /\ i \in Nat /\ k \in Nat
      BY <1>0
    <3>2. /\ i < k => e[i].seq < e[k].seq
          /\ k < i => e[k].seq < e[i].seq
      BY DEF Ascends
    <3>3. i = k => e[i].seq = e[k].seq
      OBVIOUS
    <3> QED BY <3>1, <3>2, <3>3
  <2>2. \A i : i \in 1..k <=> i \in 1..Len(e) /\ i <= k
    BY <1>0
  <2> QED BY <2>1, <2>2 DEF Elems
<1>3. Cardinality({e[i] : i \in 1..k}) = k
  BY <1>1
<1>4. Cardinality(Elems(e)) = Len(e)
  <2>1. Len(e) \in 1..Len(e)
    BY <1>0
  <2> QED BY <2>1, <1>1 DEF Elems
<1> QED BY <1>2, <1>3, <1>4

\* A timeline is known from what it retains.
LEMMA OneTimeline ==
  ASSUME NEW e \in Seq(Revision), NEW g \in Seq(Revision), Ascends(e), Ascends(g), Elems(e) = Elems(g)
  PROVE  e = g
<1>1. ASSUME NEW a \in Seq(Revision), NEW b \in Seq(Revision), Ascends(a), Ascends(b),
             Elems(a) = Elems(b), NEW k \in 1..Len(a)
      PROVE  k \in 1..Len(b) /\ b[k] = a[k]
  <2>1. a[k] \in Elems(b)
    <3>1. a[k] \in Elems(a)
      BY DEF Elems
    <3> QED BY <3>1, <1>1
  <2>2. PICK j \in 1..Len(b) : b[j] = a[k]
    BY <2>1 DEF Elems
  <2>3. Cardinality({r \in Elems(a) : r.seq <= a[k].seq}) = k
    BY <1>1, PositionCounts
  <2>4. Cardinality({r \in Elems(b) : r.seq <= b[j].seq}) = j
    BY <1>1, PositionCounts
  <2>5. j = k
    BY <2>2, <2>3, <2>4, <1>1
  <2> QED BY <2>2, <2>5
<1>2. \A k \in 1..Len(e) : k \in 1..Len(g) /\ g[k] = e[k]
  BY <1>1
<1>3. \A k \in 1..Len(g) : k \in 1..Len(e)
  BY <1>1
<1>4. Len(e) \in Nat /\ Len(g) \in Nat
  OBVIOUS
<1>5. Len(e) = Len(g)
  <2>1. Len(e) <= Len(g)
    <3>1. CASE Len(e) = 0
      BY <3>1, <1>4
    <3>2. CASE Len(e) # 0
      <4>1. Len(e) \in 1..Len(e)
        BY <3>2, <1>4
      <4>2. Len(e) \in 1..Len(g)
        BY <4>1, <1>2
      <4> QED BY <4>2, <1>4
    <3> QED BY <3>1, <3>2
  <2>2. Len(g) <= Len(e)
    <3>1. CASE Len(g) = 0
      BY <3>1, <1>4
    <3>2. CASE Len(g) # 0
      <4>1. Len(g) \in 1..Len(g)
        BY <3>2, <1>4
      <4>2. Len(g) \in 1..Len(e)
        BY <4>1, <1>3
      <4> QED BY <4>2, <1>4
    <3> QED BY <3>1, <3>2
  <2> QED BY <2>1, <2>2, <1>4
<1>6. e = [k \in 1..Len(e) |-> e[k]] /\ g = [k \in 1..Len(g) |-> g[k]]
  OBVIOUS
<1> QED BY <1>2, <1>5, <1>6

LEMMA SeqsRead ==
  ASSUME NEW d \in Filings
  PROVE  LoadedSeqs(d) = {rev.seq : rev \in Retained(d)}
<1> DEFINE r == "revision"
           o == "object"
           m == "meta"
           K == {k \in DOMAIN d : k[1] = r /\ d[k] # Gone}
<1>1. r # o /\ r # m
  OBVIOUS
<1>2. /\ \A n : RevisionKey(n) = <<r, n>>
      /\ \A u : ObjectKey(u) = <<o, u>>
      /\ SeqKey = <<m, 0>> /\ EvictedKey = <<m, 1>>
  BY DEF RevisionKey, ObjectKey, SeqKey, EvictedKey
<1>3. LoadedSeqs(d) = {key[2] : key \in K}
  BY DEF LoadedSeqs
<1> HIDE DEF r, o, m
<1>4. DOMAIN d \subseteq FileKeys
  BY DEF Filings, Groups
<1>5. \A n : RevisionKey(n)[1] = r /\ RevisionKey(n)[2] = n
  BY <1>2
<1>6. ASSUME NEW k \in K PROVE \E rev \in Retained(d) : k[2] = rev.seq
  <2>1. PICK n \in Nat : k = RevisionKey(n)
    <3>1. \A u : ObjectKey(u)[1] = o
      BY <1>2
    <3>2. SeqKey[1] = m /\ EvictedKey[1] = m
      BY <1>2
    <3> QED BY <3>1, <3>2, <1>1, <1>4 DEF FileKeys
  <2>2. Read(d, RevisionKey(n)) # Gone
    BY <2>1 DEF Read
  <2>3. Read(d, RevisionKey(n)) \in Retained(d) /\ Read(d, RevisionKey(n)).seq = n
    BY <2>2, RetainedIs
  <2> QED BY <2>1, <2>3, <1>5
<1>7. ASSUME NEW rev \in Retained(d) PROVE \E k \in K : k[2] = rev.seq
  <2>1. rev \in Revision /\ Read(d, RevisionKey(rev.seq)) = rev
    BY DEF Retained
  <2>2. rev # Gone
    BY <2>1, HistoryJournalAssumption
  <2>3. RevisionKey(rev.seq) \in DOMAIN d /\ d[RevisionKey(rev.seq)] # Gone
    BY <2>1, <2>2 DEF Read
  <2> QED BY <2>3, <1>5
<1> HIDE DEF K
<1> QED BY <1>3, <1>6, <1>7

LEMMA SeqLoaded ==
  ASSUME NEW d \in Filings, Topped(d)
  PROVE  LoadedSeq(d) = Meta(d) /\ IsFiniteSet(LoadedSeqs(d)) /\ LoadedSeqs(d) \in SUBSET Nat
<1> DEFINE S == LoadedSeqs(d)
           meta == Read(d, SeqKey)
           T == {0} \cup S \cup (IF meta = Gone THEN {} ELSE {meta})
           top == Meta(d)
<1>1. top \in Nat
  BY MetaIs
<1>2. S \in SUBSET Nat /\ \A n \in S : n <= top
  <2>1. \A n \in S : \E rev \in Retained(d) : n = rev.seq
    BY SeqsRead
  <2>2. \A rev \in Retained(d) : rev.seq \in Nat /\ rev.seq <= top
    BY RevisionParts DEF Topped, Retained
  <2> HIDE DEF S, top
  <2> QED BY <2>1, <2>2
<1>3. IsFiniteSet(S)
  BY <1>1, <1>2, FS_BoundedSetOfNaturals
<1>4. top = IF meta = Gone THEN 0 ELSE meta
  BY DEF Meta
<1>5. top \in T /\ \A n \in T : n \in Nat /\ top >= n
  <2> HIDE DEF S, top, meta
  <2> QED BY <1>1, <1>2, <1>4
<1>6. Max(T) = top
  <2> HIDE DEF T, top
  <2>1. \A n \in T : (\A k \in T : n >= k) => n = top
    BY <1>5, <1>1
  <2> QED BY <2>1, <1>5 DEF Max
<1>7. LoadedSeq(d) = Max(T)
  BY DEF LoadedSeq
<1> QED BY <1>2, <1>3, <1>6, <1>7

\* The revisions are read in order, and they are those retained.
LEMMA RevisionsLoaded ==
  ASSUME NEW d \in Filings, Topped(d)
  PROVE  /\ LoadedRevisions(d) \in Seq(Revision)
         /\ Ascends(LoadedRevisions(d))
         /\ Elems(LoadedRevisions(d)) = Retained(d)
<1> DEFINE S == LoadedSeqs(d)
           c == Cardinality(S)
           e == [k \in 1..c |-> d[RevisionKey(Pick(S, k))]]
<1>1. S \in SUBSET Nat /\ IsFiniteSet(S)
  BY SeqLoaded
<1>2. c \in Nat
  BY <1>1, FS_CardinalityType
<1>3. LoadedRevisions(d) = e
  <2>1. order(S) = [k \in 1..c |-> Pick(S, k)]
    BY DEF order, Pick
  <2>2. LoadedRevisions(d) = [i \in DOMAIN order(S) |-> d[RevisionKey(order(S)[i])]]
    BY DEF LoadedRevisions
  <2> DEFINE os == order(S)
  <2>3. DOMAIN os = 1..c /\ \A k \in 1..c : os[k] = Pick(S, k)
    BY <2>1
  <2>4. LoadedRevisions(d) = [i \in DOMAIN os |-> d[RevisionKey(os[i])]]
    BY <2>2
  <2> HIDE DEF os, S, c
  <2> QED BY <2>3, <2>4
<1>4. \A n \in S : /\ d[RevisionKey(n)] \in Retained(d) /\ d[RevisionKey(n)].seq = n
                   /\ d[RevisionKey(n)] \in Revision
  <2> SUFFICES ASSUME NEW n \in S
               PROVE  /\ d[RevisionKey(n)] \in Retained(d) /\ d[RevisionKey(n)].seq = n
                      /\ d[RevisionKey(n)] \in Revision
    OBVIOUS
  <2>1. PICK rev \in Retained(d) : n = rev.seq
    BY SeqsRead
  <2>2. rev \in Revision /\ Read(d, RevisionKey(n)) = rev /\ rev # Gone
    BY <2>1, HistoryJournalAssumption DEF Retained
  <2>3. d[RevisionKey(n)] = rev
    BY <2>2 DEF Read
  <2> QED BY <2>1, <2>2, <2>3
<1>5. \A rev \in Retained(d) : rev.seq \in S /\ d[RevisionKey(rev.seq)] = rev
  <2> SUFFICES ASSUME NEW rev \in Retained(d) PROVE rev.seq \in S /\ d[RevisionKey(rev.seq)] = rev
    OBVIOUS
  <2>1. rev.seq \in S
    BY SeqsRead
  <2>2. rev \in Revision /\ Read(d, RevisionKey(rev.seq)) = rev /\ rev # Gone
    BY HistoryJournalAssumption DEF Retained
  <2> QED BY <2>1, <2>2 DEF Read
<1>6. \A k \in 1..c : Pick(S, k) \in S /\ k = Cardinality({o \in S : o <= Pick(S, k)})
  <2> SUFFICES ASSUME NEW k \in 1..c
               PROVE  Pick(S, k) \in S /\ k = Cardinality({o \in S : o <= Pick(S, k)})
    OBVIOUS
  <2>1. PICK n \in S : k = Cardinality({o \in S : o <= n})
    BY <1>1, EachIsNth
  <2>2. Pick(S, k) = n
    BY <1>1, <2>1, NthIs
  <2> QED BY <2>1, <2>2
<1>7. \A n \in S : \E k \in 1..c : Pick(S, k) = n
  BY <1>1, NthIs
<1>8. \A k \in 1..c : e[k] = d[RevisionKey(Pick(S, k))]
  OBVIOUS
<1>9. e \in Seq(Revision) /\ Len(e) = c
  <2>1. \A k \in 1..c : d[RevisionKey(Pick(S, k))] \in Revision
    BY <1>4, <1>6
  <2> HIDE DEF c, S
  <2> QED BY <2>1, <1>2
<1> HIDE DEF e
<1>10. Ascends(e)
  <2> SUFFICES ASSUME NEW i \in 1..c, NEW j \in 1..c, i < j PROVE e[i].seq < e[j].seq
    BY <1>9 DEF Ascends
  <2> DEFINE p == Pick(S, i)
             q == Pick(S, j)
             P == {o \in S : o <= p}
             Q == {o \in S : o <= q}
  <2>1. p \in S /\ q \in S /\ i = Cardinality(P) /\ j = Cardinality(Q)
    BY <1>6
  <2>2. e[i].seq = p /\ e[j].seq = q
    BY <2>1, <1>4, <1>8
  <2>3. p \in Nat /\ q \in Nat
    BY <2>1, <1>1
  <2>4. ~(q <= p)
    <3> SUFFICES ASSUME q <= p PROVE FALSE
      OBVIOUS
    <3> HIDE DEF p, q
    <3>1. Q \in SUBSET P /\ P \in SUBSET S
      BY <2>3, <1>1
    <3>2. Cardinality(Q) <= Cardinality(P)
      <4> HIDE DEF P, Q
      <4>1. IsFiniteSet(P)
        BY <3>1, <1>1, FS_Subset
      <4> QED BY <3>1, <4>1, FS_Subset
    <3> HIDE DEF P, Q
    <3> QED BY <3>2, <2>1, <1>2
  <2> HIDE DEF p, q
  <2> QED BY <2>2, <2>3, <2>4
<1>11. Elems(e) = Retained(d)
  <2>1. Elems(e) = {e[k] : k \in 1..c}
    BY <1>9 DEF Elems
  <2>2. \A k \in 1..c : e[k] \in Retained(d)
    BY <1>4, <1>6, <1>8
  <2>3. \A rev \in Retained(d) : \E k \in 1..c : e[k] = rev
    BY <1>5, <1>7, <1>8
  <2> QED BY <2>1, <2>2, <2>3
<1> QED BY <1>3, <1>9, <1>10, <1>11

-----------------------------------------------------------------------------
(* A restart: the file is loaded, and the limits are enforced again.         *)

EnforceAll(st, us) == FoldLeft(enforcePerObject, st, us)

EnforceRuns(st, us) ==
    {f \in [0..Len(us) -> Store] :
        /\ f[0] = st
        /\ \A k \in 1..Len(us) : f[k] = enforcePerObject(f[k - 1], us[k])
        /\ EnforceAll(st, us) = f[Len(us)]}

LEMMA EnforceAllRuns ==
  ASSUME NEW st \in Store, NEW us \in Seq(Uids)
  PROVE  EnforceRuns(st, us) # {}
<1> DEFINE n == Len(us)
           S == 1..n
           Turns(iter) == iter = [s \in SUBSET S |->
               IF s = {} THEN st ELSE enforcePerObject(iter[s \ {Max(s)}], us[Max(s)])]
           all == CHOOSE iter : Turns(iter)
           step == [p \in S \X Store |-> enforcePerObject(p[2], us[p[1]])]
<1>1. n \in Nat /\ DOMAIN us = S /\ \A k \in S : us[k] \in Uids
  OBVIOUS
<1>2. EnforceAll(st, us) = all[S]
  BY <1>1, Zenon DEF EnforceAll, FoldLeft, MapThenFoldSet
<1>0. \A s \in Store, k \in S : enforcePerObject(s, us[k]) \in Store
  <2> SUFFICES ASSUME NEW s \in Store, NEW k \in S PROVE enforcePerObject(s, us[k]) \in Store
    OBVIOUS
  <2>1. us[k] \in Uids
    BY <1>1
  <2>2. \A i \in 1..Len(s.entries) : evict(s, i) \in Store
    BY EvictTrims DEF Trimmed
  <2> QED BY <2>1, <2>2, EnforcePerObjectIs
<1>3. step \in [S \X Store -> Store]
  <2>1. \A p \in S \X Store : p[1] \in S /\ p[2] \in Store
    OBVIOUS
  <2> HIDE DEF S
  <2>2. \A p \in S \X Store : enforcePerObject(p[2], us[p[1]]) \in Store
    BY <2>1, <1>0
  <2> QED BY <2>2
<1>4. PICK g \in [SUBSET S -> Store] : \A s \in SUBSET S :
        g[s] = IF s = {} THEN st ELSE step[<<Max(s), g[s \ {Max(s)}]>>]
  <2> HIDE DEF n, step
  <2>1. LeftFolds(n, Store, st, step) # {}
    BY <1>1, <1>3, FoldOfASequence
  <2> QED BY <2>1 DEF LeftFolds
<1>5. Turns(g)
  <2>1. ASSUME NEW s \in SUBSET S, s # {} PROVE g[s] = enforcePerObject(g[s \ {Max(s)}], us[Max(s)])
    <3>1. Max(s) \in S
      <4> HIDE DEF n
      <4> QED BY <1>1, <2>1, Greatest
    <3>2. s \ {Max(s)} \in SUBSET S
      OBVIOUS
    <3> HIDE DEF S
    <3>3. g[s] = step[<<Max(s), g[s \ {Max(s)}]>>] /\ <<Max(s), g[s \ {Max(s)}]>> \in S \X Store
      BY <2>1, <3>1, <3>2, <1>4
    <3> QED BY <3>3
  <2>2. g = [s \in SUBSET S |-> g[s]]
    OBVIOUS
  <2> HIDE DEF S, step
  <2> QED BY <2>1, <2>2, <1>4
<1>6. Turns(all)
  <2> HIDE DEF Turns
  <2> QED BY <1>5
<1> HIDE DEF all
<1>7. \A s \in SUBSET S :
        all[s] = IF s = {} THEN st ELSE enforcePerObject(all[s \ {Max(s)}], us[Max(s)])
  <2> HIDE DEF S
  <2> QED BY <1>6
<1> DEFINE f == [k \in 0..n |-> all[1..k]]
<1>8. f[0] = st
  <2>1. 1..0 = {} /\ {} \in SUBSET S
    OBVIOUS
  <2>2. all[{}] = st
    <3> HIDE DEF S
    <3> QED BY <2>1, <1>7
  <2>3. f[0] = all[1..0]
    BY <1>1
  <2> QED BY <2>1, <2>2, <2>3
<1>9. ASSUME NEW k \in 1..n PROVE f[k] = enforcePerObject(f[k - 1], us[k])
  <2>1. /\ 1..k \in SUBSET S /\ 1..k # {}
        /\ Max(1..k) = k
        /\ (1..k) \ {k} = 1..(k - 1)
    BY <1>1, PositionsUpTo
  <2>2. k \in 0..n /\ k - 1 \in 0..n
    BY <1>1
  <2> HIDE DEF S, n
  <2> QED BY <2>1, <2>2, <1>7
<1>10. f[n] = all[S]
  BY <1>1
<1> DEFINE W == [k \in 0..n |-> Store]
<1>11. ASSUME NEW m \in 0..n PROVE f[m] \in Store
  <2>1. f[0] \in W[0]
    BY <1>8, <1>1
  <2>2. ASSUME NEW k \in 1..m, f[k - 1] \in W[k - 1] PROVE f[k] \in W[k]
    <3>1. k \in 1..n /\ W[k - 1] = Store /\ W[k] = Store
      BY <1>1
    <3> HIDE DEF f, W
    <3> QED BY <2>2, <3>1, <1>9, <1>0
  <2> HIDE DEF f, W
  <2>3. f[m] \in W[m]
    <3>1. m \in Nat
      BY <1>1
    <3> QED BY <2>1, <2>2, <3>1, Reaches
  <2> QED BY <2>3 DEF W
<1>12. f \in [0..n -> Store]
  <2>1. f = [k \in 0..n |-> f[k]]
    OBVIOUS
  <2> HIDE DEF f
  <2> QED BY <1>11, <2>1
<1> HIDE DEF f
<1> QED BY <1>2, <1>8, <1>9, <1>10, <1>12 DEF EnforceRuns


\* Any timeline has a byte total.
LEMMA TotalExists == ASSUME NEW e \in Seq(Revision) PROVE \E total \in Int : Sums(e, total)
<1> DEFINE n == Len(e)
           P(k) == \E p \in [0..k -> Int] : /\ p[0] = 0
                                            /\ \A j \in 1..k : p[j] = p[j - 1] + revisionSize(e[j])
           f == [k \in 0..n |-> TRUE]
           W == [k \in 0..n |-> {b \in {TRUE} : P(k)}]
<1>0. n \in Nat /\ \A k \in 1..n : revisionSize(e[k]) \in Int
  BY SizesOf
<1>1. f[0] \in W[0]
  <2> DEFINE p == [j \in 0..0 |-> 0]
  <2>1. p \in [0..0 -> Int] /\ p[0] = 0 /\ 1..0 = {}
    OBVIOUS
  <2> HIDE DEF p
  <2>2. P(0)
    BY <2>1
  <2> HIDE DEF P
  <2> QED BY <2>2, <1>0
<1>2. ASSUME NEW k \in 1..n, f[k - 1] \in W[k - 1] PROVE f[k] \in W[k]
  <2>1. k - 1 \in 0..n /\ k \in 0..n /\ k \in Nat \ {0}
    BY <1>0
  <2>2. P(k - 1)
    <3> HIDE DEF P
    <3> QED BY <2>1, <1>2
  <2>3. PICK p \in [0..(k - 1) -> Int] :
            p[0] = 0 /\ \A j \in 1..(k - 1) : p[j] = p[j - 1] + revisionSize(e[j])
    BY <2>2
  <2> DEFINE size == revisionSize(e[k])
             q == [j \in 0..k |-> IF j = k THEN p[k - 1] + size ELSE p[j]]
  <2>4. size \in Int
    BY <1>0
  <2> HIDE DEF size
  <2>5. q \in [0..k -> Int] /\ q[k] = p[k - 1] + size /\ \A j \in 0..(k - 1) : q[j] = p[j]
    <3>1. \A j \in 0..k : j # k => j \in 0..(k - 1)
      BY <2>1
    <3>2. k - 1 \in 0..(k - 1) /\ \A j \in 0..(k - 1) : j \in 0..k /\ j # k
      BY <2>1
    <3>3. p[k - 1] \in Int
      BY <3>2
    <3>4. k \in 0..k /\ p[k - 1] + size \in Int
      BY <2>1, <2>4, <3>3
    <3> QED BY <3>1, <3>2, <3>4
  <2> HIDE DEF q
  <2>6. ASSUME NEW j \in 1..k PROVE q[j] = q[j - 1] + revisionSize(e[j])
    <3>1. CASE j = k
      <4>1. j - 1 \in 0..(k - 1)
        BY <2>1
      <4> QED BY <3>1, <4>1, <2>5 DEF size
    <3>2. CASE j # k
      <4>1. j \in 1..(k - 1) /\ j \in 0..(k - 1) /\ j - 1 \in 0..(k - 1)
        BY <3>2, <2>1
      <4> QED BY <4>1, <2>3, <2>5
    <3> QED BY <3>1, <3>2
  <2>7. q[0] = 0
    <3>1. 0 \in 0..(k - 1)
      BY <2>1
    <3> QED BY <3>1, <2>3, <2>5
  <2>8. P(k)
    BY <2>5, <2>6, <2>7
  <2> HIDE DEF P
  <2> QED BY <2>1, <2>8
<1>3. f[n] \in W[n]
  <2> HIDE DEF n, f, W
  <2> QED BY <1>0, <1>1, <1>2, Reaches
<1>4. P(n)
  <2> HIDE DEF P
  <2> QED BY <1>0, <1>3
<1>5. PICK p \in [0..n -> Int] : p[0] = 0 /\ \A k \in 1..n : p[k] = p[k - 1] + revisionSize(e[k])
  BY <1>4
<1>6. Sums(e, p[n]) /\ p[n] \in Int
  <2>1. n \in 0..n
    BY <1>0
  <2> QED BY <2>1, <1>5 DEF Sums
<1> QED BY <1>6

\* The store prime fills in before it enforces anything.
Loaded(perObject, d) ==
    LET e == LoadedRevisions(d)
        of(u) == {i \in DOMAIN e : e[i].uid = u}
        newest(u) == e[CHOOSE i \in of(u) : \A j \in of(u) : j <= i].seq
        objects == LoadedObjects(d)
    IN  [perObject |-> perObject, seq |-> LoadedSeq(d), generation |-> LoadedSeq(d),
         entries |-> e, bytes |-> Total(e),
         objects |-> [u \in Uids |->
             IF objects[u] = Gone THEN Gone
             ELSE [spec |-> objects[u].spec, status |-> objects[u].status,
                   count |-> Cardinality(of(u)),
                   last |-> IF of(u) = {} THEN 0 ELSE newest(u)]],
         evicted |-> LoadedEvicted(d), out |-> <<>>]

LEMMA LoadedIs ==
  ASSUME NEW perObject \in Nat, NEW d \in Filings, Topped(d)
  PROVE  LET s == Loaded(perObject, d)
         IN  /\ s \in Store /\ s.perObject = perObject /\ s.seq = LoadedSeq(d)
             /\ s.entries = LoadedRevisions(d) /\ s.evicted = LoadedEvicted(d) /\ s.out = <<>>
             /\ Known(s) = LoadedObjects(d)
<1> DEFINE e == LoadedRevisions(d)
           of(u) == {i \in DOMAIN e : e[i].uid = u}
           newest(u) == e[CHOOSE i \in of(u) : \A j \in of(u) : j <= i].seq
           objects == LoadedObjects(d)
           last(u) == IF of(u) = {} THEN 0 ELSE newest(u)
           states == [u \in Uids |->
               IF objects[u] = Gone THEN Gone
               ELSE [spec |-> objects[u].spec, status |-> objects[u].status,
                     count |-> Cardinality(of(u)), last |-> last(u)]]
           seq == LoadedSeq(d)
           bytes == Total(e)
           evicted == LoadedEvicted(d)
           s == Loaded(perObject, d)
<1>1. e \in Seq(Revision) /\ seq \in Nat
  BY RevisionsLoaded, SeqLoaded, MetaIs
<1>2. bytes \in Int
  <2> HIDE DEF e
  <2>1. PICK total \in Int : Sums(e, total)
    BY <1>1, TotalExists
  <2> QED BY <2>1, <1>1, TotalIs
<1>3. \A u \in Uids : objects[u] \in Content \cup {Gone}
  BY DEF LoadedObjects, Filings, Filed
<1>4. evicted \in BOOLEAN
  BY DEF LoadedEvicted
<1>5. s = [perObject |-> perObject, seq |-> seq, generation |-> seq, entries |-> e, bytes |-> bytes,
           objects |-> states, evicted |-> evicted, out |-> <<>>]
  BY DEF Loaded
<1> HIDE DEF s, e, objects, seq, bytes, evicted
<1>6. ASSUME NEW u \in Uids PROVE Cardinality(of(u)) \in Int /\ last(u) \in Nat
  <2> DEFINE S == of(u)
             i == CHOOSE k \in S : \A j \in S : j <= k
  <2>1. Len(e) \in Nat /\ DOMAIN e = 1..Len(e) /\ S \in SUBSET (1..Len(e))
    BY <1>1
  <2>2. IsFiniteSet(S) /\ Cardinality(S) \in Nat
    <3> HIDE DEF S
    <3>1. IsFiniteSet(1..Len(e))
      BY <2>1, FS_Interval
    <3>2. IsFiniteSet(S)
      BY <3>1, <2>1, FS_Subset
    <3> QED BY <3>2, FS_CardinalityType
  <2>3. CASE S # {}
    <3>1. \E k \in S : \A j \in S : j <= k
      <4> HIDE DEF S
      <4>1. Max(S) \in S /\ \A j \in S : Max(S) >= j
        BY <2>1, <2>3, Greatest
      <4>2. \A j \in S : j <= Max(S)
        BY <4>1, <2>1
      <4> QED BY <4>1, <4>2
    <3>2. i \in S
      <4> HIDE DEF S
      <4> QED BY <3>1
    <3>3. newest(u) = e[i].seq
      OBVIOUS
    <3>4. e[i] \in Revision
      <4> HIDE DEF S, i
      <4> QED BY <3>2, <2>1, <1>1
    <3>5. e[i].seq \in Nat
      BY <3>4, RevisionParts
    <3>6. last(u) = newest(u)
      BY <2>3
    <3> HIDE DEF last, newest, i, S
    <3> QED BY <2>2, <3>3, <3>5, <3>6 DEF S
  <2>4. CASE S = {}
    BY <2>2, <2>4
  <2> QED BY <2>3, <2>4
<1> HIDE DEF of, last
<1>7. ASSUME NEW u \in Uids
      PROVE  /\ states[u] \in State \cup {Gone}
             /\ (IF states[u] = Gone THEN Gone ELSE record(states[u])) = objects[u]
  <2>1. CASE objects[u] = Gone
    BY <2>1
  <2>2. CASE objects[u] # Gone
    <3> DEFINE state == [spec |-> objects[u].spec, status |-> objects[u].status,
                         count |-> Cardinality(of(u)), last |-> last(u)]
               content == objects[u]
    <3>1. states[u] = state
      BY <2>2
    <3>2. content \in Content
      BY <2>2, <1>3
    <3>3. content.spec \in 0..1 /\ content.status \in 0..1
          /\ content = [spec |-> content.spec, status |-> content.status]
      <4> HIDE DEF content
      <4> QED BY <3>2 DEF Content
    <3>4. state \in State
      <4> HIDE DEF content
      <4>1. state = [spec |-> content.spec, status |-> content.status,
                     count |-> Cardinality(of(u)), last |-> last(u)]
        BY DEF content
      <4> QED BY <4>1, <3>3, <1>6 DEF State
    <3>5. record(state) = content
      BY <3>3 DEF record
    <3>6. state # Gone
      <4> HIDE DEF state
      <4> QED BY <3>4, GoneAssumption
    <3> HIDE DEF state, states
    <3> QED BY <3>1, <3>4, <3>5, <3>6
  <2> QED BY <2>1, <2>2
<1> HIDE DEF states
<1>8. states \in [Uids -> State \cup {Gone}]
  <2>1. states = [u \in Uids |-> states[u]]
    BY DEF states
  <2> QED BY <2>1, <1>7
<1>9. <<>> \in Seq(PersisterCall)
  OBVIOUS
<1>10. s \in Store
  BY <1>1, <1>2, <1>4, <1>5, <1>8, <1>9, StoreOf
<1>11. /\ s.perObject = perObject /\ s.seq = seq /\ s.entries = e /\ s.evicted = evicted
       /\ s.out = <<>> /\ s.objects = states
  BY <1>5
<1>12. Known(s) = objects
  <2>1. objects = [u \in Uids |-> objects[u]]
    BY DEF objects, LoadedObjects
  <2>2. \A u \in Uids : (IF s.objects[u] = Gone THEN Gone ELSE record(s.objects[u])) = objects[u]
    BY <1>7, <1>11
  <2> HIDE DEF Known
  <2>3. Known(s) = [u \in Uids |-> IF s.objects[u] = Gone THEN Gone ELSE record(s.objects[u])]
    BY DEF Known
  <2> QED BY <2>1, <2>2, <2>3
<1> QED BY <1>10, <1>11, <1>12 DEF s, e, seq, evicted, objects

\* What is loaded is what the file holds.
LEMMA LoadedCarries ==
  ASSUME NEW perObject \in Nat, NEW d \in Filings, Topped(d)
  PROVE  Carries(Loaded(perObject, d), d, Uids)
<1> DEFINE s == Loaded(perObject, d)
           n == s.seq
           marked == s.evicted
           known == Known(s)
           E == Elems(s.entries)
<1>1. /\ s \in Store /\ s.seq = LoadedSeq(d) /\ s.entries = LoadedRevisions(d)
      /\ s.evicted = LoadedEvicted(d) /\ s.out = <<>> /\ Known(s) = LoadedObjects(d)
  BY LoadedIs
<1> HIDE DEF s
<1>2. n = Meta(d) /\ n \in Nat /\ E = Retained(d) /\ Ascends(s.entries)
  BY <1>1, SeqLoaded, MetaIs, RevisionsLoaded
<1>3. \A u \in Uids : Read(d, ObjectKey(u)) = known[u]
  BY <1>1 DEF LoadedObjects
<1>4. Read(d, EvictedKey) # Gone <=> marked
  BY <1>1 DEF LoadedEvicted
<1>5. \A rev \in E : rev.seq <= n
  BY <1>2 DEF Topped
<1> HIDE DEF n, marked, known, E
<1>6. Holds(d, E, known, n, marked, Uids)
  BY <1>2, <1>3, <1>4 DEF Holds
<1>7. Owes(d, <<>>, E, known, n, marked, Uids)
  BY <1>2, <1>5, <1>6, LeadsNowhere DEF Owes
<1> QED BY <1>1, <1>2, <1>7 DEF Carries, s, n, marked, known, E

\* What prime enforces is mirrored like any other eviction.
LEMMA PrimeCarries ==
  ASSUME Persisted, NEW perObject \in Nat, NEW d \in Filings, Topped(d)
  PROVE  Carries(prime(perObject, LoadedRevisions(d), LoadedObjects(d), LoadedSeq(d),
                       LoadedEvicted(d)), d, Uids)
<1> DEFINE s == Loaded(perObject, d)
           us == order(Live(s))
           t == EnforceAll(s, us)
           p == prime(perObject, LoadedRevisions(d), LoadedObjects(d), LoadedSeq(d), LoadedEvicted(d))
<1>1. p = enforceBounds(t)
  BY Zenon DEF prime, Loaded, EnforceAll, Total
<1>2. Carries(s, d, Uids) /\ s \in Store
  BY LoadedCarries DEF Carries
<1> HIDE DEF s, p
<1>3. us \in Seq(Uids) /\ Len(us) \in Nat
  <2>1. Live(s) \in SUBSET Uids
    BY DEF Live
  <2>2. order(Live(s)) \in Seq(Live(s))
    BY <2>1, OrderIs
  <2> QED BY <2>1, <2>2
<1> HIDE DEF us
<1>4. PICK f \in [0..Len(us) -> Store] :
            /\ f[0] = s
            /\ \A k \in 1..Len(us) : f[k] = enforcePerObject(f[k - 1], us[k])
            /\ EnforceAll(s, us) = f[Len(us)]
  BY <1>2, <1>3, EnforceAllRuns DEF EnforceRuns
<1>5. \A k \in 1..Len(us) : us[k] \in Uids
  BY <1>3
<1>6. ASSUME NEW k \in 1..Len(us), Carries(f[k - 1], d, Uids) PROVE Carries(f[k], d, Uids)
  <2>1. Carries(enforcePerObject(f[k - 1], us[k]), d, Uids)
    BY <1>5, <1>6, EnforcePerObjectCarries
  <2> QED BY <2>1, <1>4
<1>7. Carries(f[Len(us)], d, Uids)
  BY <1>2, <1>3, <1>4, <1>6, RunCarries
<1>8. Carries(p, d, Uids)
  BY <1>1, <1>4, <1>7, EnforceBoundsCarries
<1> QED BY <1>8 DEF p

-----------------------------------------------------------------------------
(* The inductive invariant of the store and its journal.                     *)

\* What the file will hold when the transaction in progress has committed.
Written == Merge(inflight, disk)

\* The parts add up to the store, and the counter never falls from one to the next.
JournalInv ==
    /\ HistInv /\ ScopesInv
    /\ pend \in Filings /\ inflight \in Filings /\ disk \in Filings
    /\ flushing \/ inflight = Nothing
    /\ Topped(disk) /\ Rises(disk, Written) /\ Rises(Written, Contents)
    /\ Carries(store, Contents, Uids)

LEMMA JournalStarts == HistoryInit => JournalInv
<1> SUFFICES ASSUME HistoryInit PROVE JournalInv
  OBVIOUS
<1>1. CaptureInit /\ pend = Nothing /\ inflight = Nothing /\ flushing = FALSE /\ disk = Nothing
  BY DEF HistoryInit, Opened
<1>2. HistInv /\ ScopesInv /\ store \in Store
  BY <1>1, CaptureStarts DEF CaptureInv
<1>3. Nothing \in Filings /\ Written = Nothing /\ Contents = Nothing
  <2>1. Nothing \in Filings /\ Merge(Nothing, Nothing) = Nothing
    BY NothingIsFiled
  <2> QED BY <2>1, <1>1 DEF Written, Contents
<1>4. \A key : Read(Nothing, key) = Gone
  BY DEF Nothing, Read
<1>5. Retained(Nothing) = {} /\ Meta(Nothing) = 0
  <2>1. Gone \notin Revision
    BY HistoryJournalAssumption
  <2> QED BY <2>1, <1>4 DEF Retained, Meta
<1>6. Topped(Nothing) /\ Rises(Nothing, Nothing)
  <2>1. Topped(Nothing)
    BY <1>5 DEF Topped
  <2> QED BY <2>1, <1>3, RisesSelf
<1>7. PICK perObject \in PerObjects : store = NewStore(perObject)
  BY <1>1 DEF CaptureInit
<1>8. /\ store.entries = <<>> /\ store.out = <<>> /\ store.seq = 0 /\ store.evicted = FALSE
      /\ store.objects = [u \in Uids |-> Gone]
  BY <1>7 DEF NewStore
<1>9. Ascends(store.entries) /\ Elems(store.entries) = {}
  <2>1. Len(<<>>) = 0 /\ 1..0 = {}
    OBVIOUS
  <2> QED BY <2>1, <1>8 DEF Ascends, Elems
<1>10. Carries(store, Nothing, Uids)
  <2>1. Holds(Nothing, {}, Known(store), 0, FALSE, Uids)
    BY <1>4, <1>5, <1>8 DEF Holds, Known
  <2>2. Leads(Nothing, <<>>, Nothing)
    BY <1>3, LeadsNowhere
  <2>3. Owes(Nothing, <<>>, {}, Known(store), 0, FALSE, Uids)
    BY <2>1, <2>2, <1>3 DEF Owes
  <2> QED BY <2>3, <1>2, <1>8, <1>9 DEF Carries
<1> QED BY <1>1, <1>2, <1>3, <1>6, <1>10 DEF JournalInv

\* A tap's mutation: the file to be is not touched, and the calls to come lead to the store.
LEMMA TapCarries ==
  ASSUME Persisted, HistInv, ScopesInv, NEW x, Carries(store, x, Uids), Tap
  PROVE  Carries(store', x, Uids)
<1>1. PICK sc \in Scopes :
        \/ Lists(sc) \/ CommitSeed(sc) \/ CommitPartial(sc) \/ PartialItem(sc) \/ PartialDone(sc)
        \/ Record(sc) \/ DropEvent(sc) \/ Disconnect(sc)
  BY DEF Tap
<1>2. CASE Lists(sc) \/ CommitPartial(sc) \/ PartialDone(sc) \/ DropEvent(sc) \/ Disconnect(sc)
  BY <1>2 DEF Lists, CommitPartial, PartialDone, DropEvent, Disconnect
<1>3. CASE CommitSeed(sc)
  <2>1. PICK out \in SUBSET {u \in Mine(sc) : hist[cursor[sc]][u] # Gone} :
            mode[sc] = "listed" /\ store' = Seed(store, Mine(sc), Members(sc, out))
    BY <1>3 DEF CommitSeed, Members
  <2> DEFINE listed == Members(sc, out)
  <2>2. listed \in [Uids -> Content \cup {Gone}] /\ Mine(sc) \in SUBSET Uids
    BY <2>1, MembersAre
  <2>3. store' = Seed(store, Mine(sc), listed)
    BY <2>1
  <2> HIDE DEF listed
  <2>4. \A u \in Mine(sc) : listed[u] \in Content \cup {Gone}
    BY <2>2
  <2> QED BY <2>2, <2>3, <2>4, SeedCarries
<1>4. CASE PartialItem(sc)
  <2>1. PICK u \in Mine(sc), within \in BOOLEAN :
            /\ hist[cursor[sc]][u] # Gone
            /\ store' = observe(store, u, hist[cursor[sc]][u], FALSE, within)
    BY <1>4 DEF PartialItem
  <2> DEFINE content == hist[cursor[sc]][u]
  <2>2. content \in Content /\ u \in Uids
    BY <1>4, <2>1 DEF HistInv, ScopesInv, Mine, PartialItem
  <2>3. store' = observe(store, u, content, FALSE, within)
    BY <2>1
  <2> HIDE DEF content
  <2> QED BY <2>2, <2>3, ObserveCarries
<1>5. CASE Record(sc)
  <2> DEFINE after == hist[cursor[sc] + 1]
             u == Changed(sc)
  <2>1. /\ mode[sc] \in {"up", "loose"} /\ cursor[sc] < Len(hist)
        /\ store' \in IF after[u] = Gone
             THEN {IF Home[u] = sc THEN delete(store, u, "deleted") ELSE store}
             ELSE {IF Home[u] = sc THEN observe(store, u, after[u], FALSE, within) ELSE store :
                       within \in BOOLEAN}
    BY <1>5 DEF Record
  <2>2. cursor[sc] \in 1..(Len(hist) - 1) /\ cursor[sc] + 1 \in 1..Len(hist)
    BY <2>1, ChangedIs
  <2>3. u \in Uids
    BY <2>1, ChangedIs
  <2>4. after[u] \in Content \cup {Gone}
    <3> HIDE DEF u
    <3> QED BY <2>2, <2>3 DEF HistInv
  <2> HIDE DEF u, after
  <2>5. CASE Home[u] # sc
    BY <2>5, <2>1
  <2>6. CASE Home[u] = sc /\ after[u] = Gone
    <3>1. store' = delete(store, u, "deleted")
      BY <2>6, <2>1
    <3> QED BY <3>1, <2>3, DeleteCarries DEF Deletions
  <2>7. CASE Home[u] = sc /\ after[u] # Gone
    <3>1. PICK within \in BOOLEAN : store' = observe(store, u, after[u], FALSE, within)
      BY <2>7, <2>1
    <3>2. after[u] \in Content
      BY <2>7, <2>4
    <3> QED BY <3>1, <3>2, <2>3, ObserveCarries
  <2> QED BY <2>5, <2>6, <2>7
<1> QED BY <1>1, <1>2, <1>3, <1>4, <1>5

\* The next call of the mutation in progress reaches the journal.
LEMMA CallKeeps == ASSUME JournalInv, MirrorCall PROVE JournalInv'
<1> DEFINE c == Head(store.out)
           rest == Tail(store.out)
           out == store.out
           E == Elems(store.entries)
           known == Known(store)
           n == store.seq
           marked == store.evicted
<1>1. /\ out # <<>> /\ pend' = Merge(WritesOf(c), pend) /\ store' = [store EXCEPT !.out = rest]
      /\ UNCHANGED <<inflight, flushing, disk, hist, mode, cursor, missed, leftOut>>
  BY DEF MirrorCall, Unlocked, Enqueue
<1>2. store \in Store /\ out \in Seq(PersisterCall) /\ Ascends(store.entries)
  BY DEF JournalInv, Carries, Store
<1>3. c \in PersisterCall /\ rest \in Seq(PersisterCall)
  BY <1>1, <1>2
<1>4. /\ n \in Nat /\ (\A rev \in E : rev.seq <= n)
      /\ \E y \in Filings : Leads(Contents, out, y) /\ Holds(y, E, known, n, marked, Uids)
  BY DEF JournalInv, Carries, Owes
<1>5. PICK y \in Filings : Leads(Contents, out, y) /\ Holds(y, E, known, n, marked, Uids)
  BY <1>4
<1>6. PICK w : Step(Contents, c, w) /\ Leads(w, rest, y)
  BY <1>1, <1>2, <1>5, LeadsOn
<1>7. Contents' = w
  <2>1. Contents' = Merge(Merge(WritesOf(c), pend), Merge(inflight, disk))
    BY <1>1 DEF Contents
  <2>2. w = Merge(WritesOf(c), Merge(pend, Merge(inflight, disk)))
    BY <1>6 DEF Step, Contents
  <2> QED BY <2>1, <2>2, MergeAssociates
<1>8. Written' = Written
  BY <1>1 DEF Written
<1>9. Rises(Written, w)
  <2>1. Rises(Written, Contents) /\ Rises(disk, Written) /\ Rises(Contents, w)
    BY <1>6 DEF JournalInv, Step
  <2>2. Written \in Filings
    BY <2>1 DEF Rises
  <2> QED BY <2>1, <2>2, RisesAgain
<1>10. pend' \in Filings
  BY <1>1, <1>3, WritesAreFiled, FilingsMerge DEF JournalInv
<1>11. /\ store' \in Store /\ store'.entries = store.entries /\ store'.seq = n
       /\ store'.evicted = marked /\ store'.out = rest /\ Known(store') = known
  BY <1>1, <1>2, <1>3 DEF Store, Known
<1> HIDE DEF c, rest, out, E, known, n, marked
<1>12. Owes(w, rest, E, known, n, marked, Uids)
  BY <1>4, <1>5, <1>6 DEF Owes
<1>13. Carries(store', w, Uids)
  BY <1>2, <1>11, <1>12 DEF Carries, E
<1>14. HistInv' /\ ScopesInv'
  BY <1>1 DEF JournalInv, HistInv, ScopesInv
<1>15. /\ inflight' \in Filings /\ disk' \in Filings /\ (flushing' \/ inflight' = Nothing)
       /\ Topped(disk') /\ Rises(disk', Written')
  BY <1>1, <1>8 DEF JournalInv
<1>16. Rises(Written', Contents') /\ Carries(store', Contents', Uids)
  BY <1>7, <1>8, <1>9, <1>13
<1> QED BY <1>10, <1>14, <1>15, <1>16 DEF JournalInv

\* A swap.
LEMMA SwapKeeps == ASSUME JournalInv, Swapped, UNCHANGED captureVars PROVE JournalInv'
<1>1. /\ inflight = Nothing /\ inflight' = pend /\ pend' = Nothing
      /\ flushing' = (pend # Nothing) /\ disk' = disk /\ UNCHANGED <<hist, mode, cursor, store, missed, leftOut>>
  BY DEF JournalInv, Swapped, captureVars
<1>2. pend \in Filings /\ disk \in Filings
  BY DEF JournalInv
<1>3. Written = disk /\ Contents = Merge(pend, disk)
  BY <1>1, <1>2, NothingIsFiled DEF Written, Contents
<1>4. Written' = Contents /\ Contents' = Contents
  <2>1. Written' = Merge(pend, disk) /\ Contents' = Merge(Nothing, Merge(pend, disk))
    BY <1>1 DEF Written, Contents
  <2>2. Merge(pend, disk) \in Filings
    BY <1>2, FilingsMerge
  <2> QED BY <2>1, <2>2, <1>3, NothingIsFiled
<1>5. Rises(disk, Contents)
  BY <1>3 DEF JournalInv
<1>6. Rises(Contents, Contents)
  BY <1>5, RisesSelf DEF Rises
<1>7. HistInv' /\ ScopesInv'
  BY <1>1 DEF JournalInv, HistInv, ScopesInv
<1>8. Topped(disk') /\ Rises(disk', Written') /\ Rises(Written', Contents')
  BY <1>1, <1>4, <1>5, <1>6 DEF JournalInv
<1>9. Carries(store', Contents', Uids)
  BY <1>1, <1>4 DEF JournalInv
<1>10. pend' \in Filings /\ inflight' \in Filings /\ disk' \in Filings
       /\ (flushing' \/ inflight' = Nothing)
  BY <1>1, <1>2, NothingIsFiled
<1> QED BY <1>7, <1>8, <1>9, <1>10 DEF JournalInv

\* A transaction that commits.
LEMMA CommitKeeps == ASSUME JournalInv, LoopCommits PROVE JournalInv' /\ Rises(disk, disk')
<1>1. /\ disk' = Written /\ inflight' = Nothing /\ pend' = pend
      /\ UNCHANGED <<hist, mode, cursor, store, missed, leftOut>>
  BY DEF LoopCommits, FlushCommit, Written, captureVars
<1>2. Rises(disk, Written) /\ Rises(Written, Contents) /\ pend \in Filings
  BY DEF JournalInv
<1>3. Written \in Filings /\ Topped(Written)
  BY <1>2 DEF Rises
<1>4. Written' = Written /\ Contents' = Contents
  <2>1. Written' = Merge(Nothing, Written)
    BY <1>1 DEF Written
  <2>2. Written' = Written
    BY <2>1, <1>3, NothingIsFiled
  <2> QED BY <2>2, <1>1 DEF Contents, Written
<1>5. HistInv' /\ ScopesInv'
  BY <1>1 DEF JournalInv, HistInv, ScopesInv
<1>6. Topped(disk') /\ Rises(disk', Written') /\ Rises(Written', Contents')
  BY <1>1, <1>2, <1>3, <1>4, RisesSelf
<1>7. Carries(store', Contents', Uids)
  BY <1>1, <1>4 DEF JournalInv
<1>8. pend' \in Filings /\ inflight' \in Filings /\ disk' \in Filings /\ inflight' = Nothing
  BY <1>1, <1>2, <1>3, NothingIsFiled
<1>9. JournalInv'
  BY <1>5, <1>6, <1>7, <1>8 DEF JournalInv
<1> QED BY <1>1, <1>2, <1>9

\* A transaction that fails.
LEMMA FailKeeps == ASSUME JournalInv, LoopFails PROVE JournalInv'
<1>1. /\ pend' = Merge(pend, inflight) /\ inflight' = Nothing /\ disk' = disk
      /\ UNCHANGED <<hist, mode, cursor, store, missed, leftOut>>
  BY DEF LoopFails, FlushFail, captureVars
<1>2. pend \in Filings /\ inflight \in Filings /\ disk \in Filings
  BY DEF JournalInv
<1>3. Rises(disk, Written) /\ Rises(Written, Contents) /\ Topped(disk)
  BY DEF JournalInv
<1>4. Written' = disk
  BY <1>1, <1>2, NothingIsFiled DEF Written
<1>5. Contents' = Contents
  <2>1. Contents' = Merge(Merge(pend, inflight), disk)
    BY <1>1, <1>4 DEF Contents, Written
  <2> QED BY <2>1, MergeAssociates DEF Contents
<1>6. Rises(disk', Written') /\ Rises(Written', Contents')
  <2>1. Written \in Filings
    BY <1>3 DEF Rises
  <2>2. Rises(disk, Contents)
    BY <2>1, <1>2, <1>3, RisesAgain
  <2> QED BY <2>2, <1>1, <1>2, <1>3, <1>4, <1>5, RisesSelf
<1>7. HistInv' /\ ScopesInv'
  BY <1>1 DEF JournalInv, HistInv, ScopesInv
<1>8. Carries(store', Contents', Uids)
  BY <1>1, <1>5 DEF JournalInv
<1>9. pend' \in Filings /\ inflight' \in Filings /\ disk' \in Filings /\ inflight' = Nothing
  BY <1>1, <1>2, FilingsMerge, NothingIsFiled
<1>10. Topped(disk')
  BY <1>1, <1>3
<1> QED BY <1>6, <1>7, <1>8, <1>9, <1>10 DEF JournalInv

\* A restart: what is enforced again is mirrored before anything else.
LEMMA RestartKeeps == ASSUME Persisted, JournalInv, Restart PROVE JournalInv'
<1>1. PICK perObject \in PerObjects :
        LET primed == prime(perObject, LoadedRevisions(disk), LoadedObjects(disk),
                            LoadedSeq(disk), LoadedEvicted(disk))
        IN  store' = [primed EXCEPT !.out = <<>>] /\ pend' = Calls(primed.out)
  BY DEF Restart
<1> DEFINE primed == prime(perObject, LoadedRevisions(disk), LoadedObjects(disk),
                           LoadedSeq(disk), LoadedEvicted(disk))
           out == primed.out
           E == Elems(primed.entries)
           known == Known(primed)
           n == primed.seq
           marked == primed.evicted
<1>2. store' = [primed EXCEPT !.out = <<>>] /\ pend' = Calls(out)
  BY <1>1
<1>3. /\ inflight' = Nothing /\ disk' = disk /\ UNCHANGED <<hist, missed, leftOut>>
      /\ mode' = [sc \in Scopes |-> "down"] /\ cursor' = [sc \in Scopes |-> 0]
  BY DEF Restart
<1>4. disk \in Filings /\ Topped(disk) /\ HistInv /\ ScopesInv
  BY DEF JournalInv
<1>5. perObject \in Nat
  BY TimelineAssumption
<1>6. Carries(primed, disk, Uids)
  BY <1>4, <1>5, PrimeCarries
<1> HIDE DEF primed
<1>7. primed \in Store /\ Ascends(primed.entries) /\ out \in Seq(PersisterCall)
  BY <1>6 DEF Carries, Store
<1>8. /\ n \in Nat /\ (\A rev \in E : rev.seq <= n)
      /\ \E y \in Filings : Leads(disk, out, y) /\ Holds(y, E, known, n, marked, Uids)
  BY <1>6 DEF Carries, Owes
<1>9. PICK y \in Filings : Leads(disk, out, y) /\ Holds(y, E, known, n, marked, Uids)
  BY <1>8
<1>10. y = Merge(Calls(out), disk) /\ Calls(out) \in Filings
  BY <1>7, <1>9, CallsLead
<1>11. Rises(disk, y)
  <2>1. Len(out) \in Nat
    BY <1>7
  <2> QED BY <2>1, <1>4, <1>9, LeadsUp
<1>12. Written' = disk /\ Contents' = y
  <2>1. Written' = disk
    BY <1>3, <1>4, NothingIsFiled DEF Written
  <2> QED BY <2>1, <1>2, <1>10 DEF Contents, Written
<1>13. /\ store' \in Store /\ store'.entries = primed.entries /\ store'.seq = n
       /\ store'.evicted = marked /\ store'.out = <<>> /\ Known(store') = known
  <2>1. <<>> \in Seq(PersisterCall)
    OBVIOUS
  <2> QED BY <2>1, <1>2, <1>7 DEF Store, Known
<1> HIDE DEF out, E, known, n, marked
<1>14. Owes(y, <<>>, E, known, n, marked, Uids)
  BY <1>8, <1>9, LeadsNowhere DEF Owes
<1>15. Carries(store', y, Uids)
  BY <1>7, <1>13, <1>14 DEF Carries, E
<1>16. HistInv' /\ ScopesInv'
  <2>1. Len(hist) \in Nat
    BY <1>4 DEF HistInv
  <2> QED BY <2>1, <1>3, <1>4 DEF HistInv, ScopesInv, Modes
<1>17. Rises(disk', Written') /\ Rises(Written', Contents') /\ Topped(disk')
  BY <1>3, <1>4, <1>11, <1>12, RisesSelf
<1>18. pend' \in Filings /\ inflight' \in Filings /\ disk' \in Filings /\ inflight' = Nothing
  BY <1>2, <1>3, <1>4, <1>10, NothingIsFiled
<1> QED BY <1>12, <1>15, <1>16, <1>17, <1>18 DEF JournalInv

\* The server and the taps, beside a journal at rest.
LEMMA CapturingKeeps ==
  ASSUME Persisted, JournalInv, [Server \/ Tap]_captureVars, UNCHANGED journal
  PROVE  JournalInv'
<1>1. UNCHANGED <<pend, inflight, flushing, disk, phase>>
  BY DEF journal
<1>2. Written' = Written /\ Contents' = Contents
  BY <1>1 DEF Written, Contents
<1>3. HistInv' /\ ScopesInv'
  BY ScopesStep DEF JournalInv
<1>4. Carries(store', Contents, Uids)
  <2>1. Carries(store, Contents, Uids) /\ HistInv /\ ScopesInv
    BY DEF JournalInv
  <2>2. CASE Server \/ UNCHANGED captureVars
    <3>1. store' = store
      BY <2>2 DEF Server, Create, ChangeSpec, ChangeStatus, Delete, Write, captureVars
    <3> QED BY <2>1, <3>1
  <2>3. CASE Tap
    <3> DEFINE x == Contents
    <3> HIDE DEF x
    <3>1. Carries(store, x, Uids)
      BY <2>1 DEF x
    <3>2. Carries(store', x, Uids)
      BY <2>1, <2>3, <3>1, TapCarries
    <3> QED BY <3>2 DEF x
  <2> QED BY <2>2, <2>3
<1> QED BY <1>1, <1>2, <1>3, <1>4 DEF JournalInv

LEMMA JournalSteps ==
  ASSUME Persisted, JournalInv, [HistoryNext]_historyVars
  PROVE  JournalInv' /\ Rises(disk, disk')
<1>1. Rises(disk, disk)
  BY RisesSelf DEF JournalInv
<1>2. CASE Serve \/ Capturing \/ UNCHANGED historyVars
  <2>1. [Server \/ Tap]_captureVars /\ UNCHANGED journal
    BY <1>2 DEF Serve, Capturing, historyVars
  <2>2. disk' = disk
    BY <2>1 DEF journal
  <2> QED BY <2>1, <2>2, <1>1, CapturingKeeps
<1>3. CASE MirrorCall
  <2>1. disk' = disk
    BY <1>3 DEF MirrorCall, Enqueue
  <2> QED BY <2>1, <1>1, <1>3, CallKeeps
<1>4. CASE LoopSwaps \/ LoopEnds
  <2>1. Swapped /\ UNCHANGED captureVars
    BY <1>4 DEF LoopSwaps, LoopEnds, FlushSwap, FinalSwap
  <2>2. disk' = disk
    BY <2>1 DEF Swapped
  <2> QED BY <2>1, <2>2, <1>1, SwapKeeps
<1>5. CASE LoopCommits
  BY <1>5, CommitKeeps
<1>6. CASE LoopFails
  <2>1. disk' = disk
    BY <1>6 DEF LoopFails, FlushFail
  <2> QED BY <2>1, <1>1, <1>6, FailKeeps
<1>7. CASE FileCloses
  <2>1. UNCHANGED <<pend, inflight, flushing, disk, hist, mode, cursor, store, missed, leftOut>>
    BY <1>7 DEF FileCloses, Close, captureVars
  <2>2. Written' = Written /\ Contents' = Contents
    BY <2>1 DEF Written, Contents
  <2>3. HistInv' /\ ScopesInv'
    BY <2>1 DEF JournalInv, HistInv, ScopesInv
  <2>4. JournalInv'
    BY <2>1, <2>2, <2>3 DEF JournalInv
  <2> QED BY <2>1, <2>4, <1>1
<1>8. CASE Restart
  <2>1. disk' = disk
    BY <1>8 DEF Restart
  <2> QED BY <2>1, <1>1, <1>8, RestartKeeps
<1> QED BY <1>2, <1>3, <1>4, <1>5, <1>6, <1>7, <1>8 DEF HistoryNext

LEMMA JournalHolds == ASSUME Persisted PROVE HistorySpec => []JournalInv
<1>1. JournalInv /\ [HistoryNext]_historyVars => JournalInv'
  BY JournalSteps
<1> QED BY <1>1, JournalStarts, PTL DEF HistorySpec

\* What is read back from everything called, and still to be called, is the store.
LEMMA InvIsExact == JournalInv => MirrorIsExact
<1> SUFFICES ASSUME JournalInv PROVE MirrorIsExact
  OBVIOUS
<1> DEFINE out == store.out
           e == store.entries
           n == store.seq
           all == Merge(Calls(out), Contents)
<1>1. /\ store \in Store /\ e \in Seq(Revision) /\ Ascends(e) /\ out \in Seq(PersisterCall)
      /\ store.evicted \in BOOLEAN
  BY DEF JournalInv, Carries, Store
<1>2. /\ \A rev \in Elems(e) : rev.seq <= n
      /\ \E y \in Filings : /\ Leads(Contents, out, y)
                            /\ Holds(y, Elems(e), Known(store), n, store.evicted, Uids)
  BY DEF JournalInv, Carries, Owes
<1>3. PICK y \in Filings : /\ Leads(Contents, out, y)
                           /\ Holds(y, Elems(e), Known(store), n, store.evicted, Uids)
  BY <1>2
<1>4. y = all
  BY <1>1, <1>3, CallsLead
<1>5. /\ Retained(y) = Elems(e) /\ (\A u \in Uids : Read(y, ObjectKey(u)) = Known(store)[u])
      /\ Meta(y) = n /\ (Read(y, EvictedKey) # Gone <=> store.evicted)
  BY <1>3 DEF Holds
<1>6. Topped(y)
  BY <1>2, <1>5 DEF Topped
<1>7. LoadedRevisions(y) = e
  BY <1>1, <1>5, <1>6, RevisionsLoaded, OneTimeline
<1>8. LoadedObjects(y) = [u \in Uids |-> IF store.objects[u] = Gone THEN Gone ELSE record(store.objects[u])]
  BY <1>5 DEF LoadedObjects, Known
<1>9. LoadedSeq(y) = n /\ LoadedEvicted(y) = store.evicted
  BY <1>1, <1>5, <1>6, SeqLoaded DEF LoadedEvicted
<1> QED BY <1>4, <1>7, <1>8, <1>9 DEF MirrorIsExact

\* For any objects, scopes, limits and restarts, with a journal attached: whatever is
\* evicted or rewritten, whichever transactions fail and wherever the process ends, the
\* file, what is being written, what is pending and the calls to come read back as the
\* store (Store.append, evict, commit and forget; Journal.flush and Load; Store.prime).
THEOREM MirrorHolds == ASSUME Persisted PROVE HistorySpec => []MirrorIsExact
<1> QED BY JournalHolds, InvIsExact, PTL

\* And what the file has counted as issued it gives to no other revision, and brings
\* back no more, even when every revision that carried it is gone (Journal.Load,
\* Store.prime, Store.append, Store.coalesce).
THEOREM SequencesHold == ASSUME Persisted PROVE HistorySpec => SequencesNeverReturn
<1> DEFINE NeverGivenAgain ==
        /\ Counted(disk') >= Counted(disk)
        /\ \A seq \in 1..Counted(disk) :
               LET was == Read(disk, RevisionKey(seq))  is == Read(disk', RevisionKey(seq)) IN
               is # Gone =>
                   /\ was # Gone
                   /\ [is EXCEPT !.content.status = 0] = [was EXCEPT !.content.status = 0]
<1>1. JournalInv /\ [HistoryNext]_historyVars => [NeverGivenAgain]_historyVars
  <2> SUFFICES ASSUME JournalInv, [HistoryNext]_historyVars PROVE NeverGivenAgain
    OBVIOUS
  <2> DEFINE a == disk
             b == disk'
  <2>1. Rises(a, b) /\ a \in Filings
    <3>1. Rises(disk, disk')
      BY JournalSteps
    <3> QED BY <3>1 DEF JournalInv
  <2>2. Counted(a) = Meta(a) /\ Counted(b) = Meta(b)
    BY DEF Counted, Meta
  <2> HIDE DEF a, b
  <2>3. b \in Filings /\ Meta(a) <= Meta(b) /\ IssuesNoneAgain(a, b)
    BY <2>1 DEF Rises
  <2>4. Meta(a) \in Nat /\ Meta(b) \in Nat
    BY <2>1, <2>3, MetaIs
  <2>5. Counted(b) >= Counted(a)
    BY <2>2, <2>3, <2>4
  <2>6. \A n \in 1..Counted(a) : Read(b, RevisionKey(n)) # Gone =>
            /\ Read(a, RevisionKey(n)) # Gone
            /\ [Read(b, RevisionKey(n)) EXCEPT !.content.status = 0]
                   = [Read(a, RevisionKey(n)) EXCEPT !.content.status = 0]
    BY <2>2, <2>3 DEF IssuesNoneAgain, Folded
  <2> QED BY <2>5, <2>6 DEF a, b
<1> QED BY <1>1, JournalHolds, PTL DEF HistorySpec, SequencesNeverReturn

\* The types of the store, of the server's past and of the scopes follow.
LEMMA InvIsTyped == ASSUME HistInv, ScopesInv, store \in Store PROVE CaptureTypeOK
<1>1. \A i \in DOMAIN hist : hist[i] \in [Uids -> Content \cup {Gone}]
  BY DEF HistInv
<1>2. mode \in [Scopes -> {"down", "listed", "partial", "up", "loose"}]
  BY DEF ScopesInv, Modes
<1>3. \A sc \in Scopes : cursor[sc] \in 0..Len(hist)
  BY DEF HistInv, ScopesInv
<1>4. /\ \A i \in DOMAIN store.entries : store.entries[i] \in Revision
      /\ store.objects \in [Uids -> State \cup {Gone}]
      /\ store.bytes \in Int
  BY DEF Store
<1>5. missed \subseteq Uids /\ leftOut \subseteq Uids
  BY DEF ScopesInv
<1> QED BY <1>1, <1>2, <1>3, <1>4, <1>5 DEF CaptureTypeOK

\* The store, the server's past and the scopes keep their types (Store's fields).
THEOREM CaptureTypesHold == CaptureSpec => []CaptureTypeOK
<1>1. CaptureInv => CaptureTypeOK
  BY InvIsTyped DEF CaptureInv
<1> QED BY <1>1, CaptureHolds, PTL

\* So they do through restarts, and the journal and its file with them: nothing stands
\* under a key of no bucket (Journal's fields and buckets).
THEOREM HistoryTypesHold == ASSUME Persisted PROVE HistorySpec => []HistoryTypeOK
<1> DEFINE Phases == phase \in {"open", "final", "closed"} /\ flushing \in BOOLEAN
<1>1. HistoryInit => Phases
  BY DEF HistoryInit, Opened
<1>2. Phases /\ [HistoryNext]_historyVars => Phases'
  <2> SUFFICES ASSUME Phases, [HistoryNext]_historyVars PROVE Phases'
    OBVIOUS
  <2>1. CASE Serve \/ Capturing \/ MirrorCall \/ UNCHANGED historyVars
    BY <2>1 DEF Serve, Capturing, MirrorCall, Enqueue, journal, historyVars
  <2>2. CASE LoopSwaps \/ LoopEnds
    BY <2>2 DEF LoopSwaps, LoopEnds, FlushSwap, FinalSwap, Swapped
  <2>3. CASE LoopCommits \/ LoopFails \/ FileCloses \/ Restart
    BY <2>3 DEF LoopCommits, LoopFails, FileCloses, FlushCommit, FlushFail, Close, Restart
  <2> QED BY <2>1, <2>2, <2>3 DEF HistoryNext
<1>3. HistorySpec => []Phases
  BY <1>1, <1>2, PTL DEF HistorySpec
<1>4. JournalInv /\ Phases => HistoryTypeOK
  <2> SUFFICES ASSUME JournalInv, Phases PROVE HistoryTypeOK
    OBVIOUS
  <2>1. CaptureTypeOK
    BY InvIsTyped DEF JournalInv, Carries
  <2>2. \A key \in FileKeys : key[1] \in {"revision", "object", "meta"}
    BY DEF FileKeys, RevisionKey, ObjectKey, SeqKey, EvictedKey
  <2>3. DOMAIN pend \subseteq FileKeys /\ DOMAIN inflight \subseteq FileKeys
        /\ DOMAIN disk \subseteq FileKeys
    BY DEF JournalInv, Filings, Groups
  <2> QED BY <2>1, <2>2, <2>3 DEF HistoryTypeOK
<1> HIDE DEF Phases
<1> QED BY <1>3, <1>4, JournalHolds, PTL

=============================================================================
