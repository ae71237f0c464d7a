--------------------------- MODULE LogFollowProofs ---------------------------
(***************************************************************************)
(* Proofs about LogFollow, for any number of containers, followers, lines   *)
(* and breaks: a runner that returned left nothing unread and no follower   *)
(* behind; and a container whose stream is not open is admitted to be       *)
(* unread, but for the last word of a dismissed follower.                   *)
(***************************************************************************)
EXTENDS LogFollow, FiniteSetTheorems, WellFoundedInduction, TLAPS

Pcs == {"start", "open", "read", "ended", "wait", "leave", "gone"}
Phases == {"start", "run", "stopping", "done"}

\* Those before n, and their number.
Before(S, n) == {o \in S : o < n}
Rank(S, n) == Cardinality(Before(S, n))

\* A member comes before another: fewer come before it.
LEMMA RankGrows ==
  ASSUME NEW S \in SUBSET Nat, IsFiniteSet(S), NEW m \in S, NEW n \in S, m < n
  PROVE  Rank(S, m) < Rank(S, n)
<1>1. Before(S, n) \subseteq S /\ Before(S, m) \subseteq Before(S, n)
  <2>1. \A o \in S : o < m => o < n
    OBVIOUS
  <2> QED BY <2>1 DEF Before
<1>2. m \in Before(S, n) /\ m \notin Before(S, m)
  BY DEF Before
<1>3. IsFiniteSet(Before(S, n)) /\ IsFiniteSet(Before(S, m))
  BY <1>1, FS_Subset
<1>4. Cardinality(Before(S, m)) <= Cardinality(Before(S, n))
      /\ Cardinality(Before(S, m)) # Cardinality(Before(S, n))
  BY <1>1, <1>2, <1>3, FS_Subset
<1>5. Cardinality(Before(S, m)) \in Nat /\ Cardinality(Before(S, n)) \in Nat
  BY <1>3, FS_CardinalityType
<1> QED BY <1>4, <1>5 DEF Rank

\* The number of those up to n, n included, is one more, and picks n out.
LEMMA NthIs ==
  ASSUME NEW S \in SUBSET Nat, IsFiniteSet(S), NEW n \in S
  PROVE  /\ Cardinality({o \in S : o <= n}) \in 1..Cardinality(S)
         /\ Nth(S, Cardinality({o \in S : o <= n})) = n
<1> DEFINE upto == {o \in S : o <= n}
<1>1. upto = Before(S, n) \cup {n} /\ n \notin Before(S, n) /\ upto \subseteq S /\ Before(S, n) \subseteq S
  <2>1. \A o \in S : o <= n <=> (o < n \/ o = n)
    OBVIOUS
  <2>2. ~(n < n)
    <3>1. n \in Nat
      OBVIOUS
    <3> QED BY <3>1
  <2> QED BY <2>1, <2>2 DEF Before
<1>2. IsFiniteSet(Before(S, n)) /\ IsFiniteSet(upto)
  BY <1>1, FS_Subset
<1>3. Cardinality(upto) = Rank(S, n) + 1 /\ Rank(S, n) \in Nat
  BY <1>1, <1>2, FS_AddElement, FS_CardinalityType DEF Rank
<1>4. Cardinality(upto) <= Cardinality(S) /\ Cardinality(S) \in Nat
  BY <1>1, FS_Subset, FS_CardinalityType
<1>5. \A m \in S : Rank(S, m) = Rank(S, n) => m = n
  <2> SUFFICES ASSUME NEW m \in S, m # n PROVE Rank(S, m) # Rank(S, n)
    OBVIOUS
  <2>1. Rank(S, m) \in Nat
    <3>1. IsFiniteSet(Before(S, m))
      BY FS_Subset DEF Before
    <3> QED BY <3>1, FS_CardinalityType DEF Rank
  <2>2. CASE m < n
    <3>1. Rank(S, m) < Rank(S, n)
      BY <2>2, RankGrows
    <3> QED BY <3>1, <2>1, <1>3
  <2>3. CASE n < m
    <3>1. Rank(S, n) < Rank(S, m)
      BY <2>3, RankGrows
    <3> QED BY <3>1, <2>1, <1>3
  <2> QED BY <2>2, <2>3
<1> HIDE DEF upto
<1>6. Nth(S, Cardinality(upto)) = CHOOSE m \in S : Rank(S, m) = Cardinality(upto) - 1
  BY Zenon DEF Nth, Rank, Before
<1>7. Cardinality(upto) - 1 = Rank(S, n)
  BY <1>3
<1>8. Nth(S, Cardinality(upto)) = n
  BY <1>5, <1>6, <1>7
<1> QED BY <1>3, <1>4, <1>8 DEF upto
\* Counting from one to their number meets each of them.
LEMMA EachIsNth ==
  ASSUME NEW S \in SUBSET Nat, IsFiniteSet(S), NEW k \in 1..Cardinality(S)
  PROVE  \E n \in S : k = Cardinality({o \in S : o <= n})
<1> DEFINE c == Cardinality(S)
           upto(n) == Cardinality({o \in S : o <= n})
           f == [n \in S |-> upto(n)]
<1>1. c \in Nat
  BY FS_CardinalityType
<1>2. IsFiniteSet(1..c) /\ Cardinality(1..c) = c
  BY <1>1, FS_Interval
<1>3. \A n \in S : upto(n) \in 1..c /\ Nth(S, upto(n)) = n
  BY NthIs
<1> HIDE DEF c, upto
<1>4. f \in [S -> 1..c]
  BY <1>3
<1>5. \A m, n \in S : f[m] = f[n] => m = n
  BY <1>3
<1>6. f \in Injection(S, 1..c)
  BY <1>4, <1>5 DEF Injection, IsInjective
<1>7. f \in Surjection(S, 1..c)
  BY <1>6, <1>2, FS_Injection DEF c
<1>8. \A j \in 1..c : \E n \in S : f[n] = j
  BY <1>7 DEF Surjection
<1>9. \E n \in S : k = upto(n)
  BY <1>8 DEF c
<1> QED BY <1>9 DEF upto

FollowerType == [of : Members, stop : BOOLEAN, pc : Pcs, at : Nat]

LTypes ==
    /\ written \in [Members -> Nat]
    /\ roster \in [known : BOOLEAN, members : SUBSET Members]
    /\ phase \in Phases
    /\ running \in [Members -> Nat]
    /\ followers \in Seq(FollowerType)
    /\ spoke \in [Members -> Nat]

\* A member is called unread by a follower that is still there.
UnreadHasAFollower == \A m \in unread : \E i \in Alive : followers[i].of = m

DoneIsSilent == phase = "done" => Alive = {}

SilentInv == LTypes /\ UnreadHasAFollower /\ DoneIsSilent

\* Whom the runner knows is that member's, and was not told to stop.
RunningIsItsOwn ==
    \A m \in Members : running[m] # NoOne =>
        /\ phase = "run"
        /\ running[m] \in DOMAIN followers
        /\ followers[running[m]].of = m
        /\ ~followers[running[m]].stop

\* No follower of a member is newer than the one the runner knows, and the older were
\* told to stop.
OneEach ==
    \A i \in DOMAIN followers :
        LET known == running[followers[i].of] IN
        /\ phase \in {"start", "run"} => (followers[i].stop \/ known = i)
        /\ known # NoOne => i <= known

\* The matcher last heard of a member from one of its followers.
SpokeIsItsOwn ==
    \A m \in Members : spoke[m] # NoOne =>
        spoke[m] \in DOMAIN followers /\ followers[spoke[m]].of = m

\* A follower speaks first, and says it is not reading before it opens or waits.
Speaking ==
    \A i \in DOMAIN followers :
        LET m == followers[i].of IN
        /\ followers[i].pc # "start" => spoke[m] # NoOne
        /\ (spoke[m] = i /\ followers[i].pc \in {"open", "wait"}) => m \in unread

AdmittedInv == RunningIsItsOwn /\ OneEach /\ SpokeIsItsOwn /\ Speaking

\* What a step of one follower may change: where it is in its loop.
Moves(i, pc) ==
    /\ followers' \in Seq(FollowerType) /\ DOMAIN followers' = DOMAIN followers
    /\ followers'[i].pc = pc
    /\ \A j \in DOMAIN followers :
        /\ followers'[j].of = followers[j].of /\ followers'[j].stop = followers[j].stop
        /\ j # i => followers'[j].pc = followers[j].pc

\* And what it tells the matcher meanwhile.
Steps(i, pc) ==
    /\ followers[i].pc # "gone" /\ Moves(i, pc)
    /\ \/ Tells(i, unread \cup {followers[i].of}) /\ pc # "gone"
       \/ Tells(i, unread \ {followers[i].of}) /\ pc \in {"read", "gone"}
       \/ /\ UNCHANGED <<unread, spoke>> /\ followers[i].pc # "start"
          /\ pc \in {"read", "ended", "leave"} \/ (followers[i].pc = "wait" /\ pc = "open")

\* A follower's record is replaced by one of the same member.
LEMMA PutMoves ==
  ASSUME LTypes, NEW i \in DOMAIN followers, NEW put \in FollowerType,
         put.of = followers[i].of, put.stop = followers[i].stop,
         followers' = [followers EXCEPT ![i] = put]
  PROVE  Moves(i, put.pc)
<1>1. followers \in Seq(FollowerType)
  BY DEF LTypes
<1>2. followers' \in Seq(FollowerType) /\ DOMAIN followers' = DOMAIN followers
  BY <1>1
<1>3. \A j \in DOMAIN followers : followers'[j] = IF j = i THEN put ELSE followers[j]
  BY <1>1
<1> QED BY <1>2, <1>3 DEF Moves

\* It goes where Goes says.
LEMMA GoesMoves ==
  ASSUME LTypes, NEW i \in DOMAIN followers, NEW pc \in Pcs, Goes(i, pc)
  PROVE  Moves(i, pc)
<1> DEFINE put == [followers[i] EXCEPT !.pc = pc]
<1>1. followers[i] \in FollowerType
  BY DEF LTypes
<1>2. put \in FollowerType /\ put.of = followers[i].of /\ put.stop = followers[i].stop /\ put.pc = pc
  BY <1>1 DEF FollowerType
<1>3. followers' = [followers EXCEPT ![i] = put]
  BY DEF Goes
<1> HIDE DEF put
<1>4. Moves(i, put.pc)
  BY <1>2, <1>3, PutMoves
<1> QED BY <1>2, <1>4

\* Each step of a follower is a move, with what it says of its member.
LEMMA FollowMoves ==
  ASSUME LTypes, NEW i \in DOMAIN followers, Follow(i)
  PROVE  /\ UNCHANGED <<written, roster, cancelled, phase, running>>
         /\ \E pc \in Pcs : Steps(i, pc)
<1> USE GoesMoves DEF Steps, Pcs, envVars
<1>1. CASE Begin(i)
  BY <1>1 DEF Begin
<1>2. CASE OpenFails(i)
  BY <1>2 DEF OpenFails
<1>3. CASE Opens(i)
  <2>1. followers' = [followers EXCEPT ![i].pc = "read", ![i].at = written[followers[i].of]]
    BY <1>3 DEF Opens
  <2>2. Moves(i, "read")
    <3> DEFINE put == [followers[i] EXCEPT !.pc = "read", !.at = written[followers[i].of]]
    <3>1. followers[i] \in FollowerType /\ written \in [Members -> Nat]
      BY DEF LTypes
    <3>2. put \in FollowerType /\ put.of = followers[i].of /\ put.stop = followers[i].stop /\ put.pc = "read"
      BY <3>1 DEF FollowerType
    <3>3. followers' = [followers EXCEPT ![i] = put]
      BY <2>1
    <3> HIDE DEF put
    <3> QED BY <3>2, <3>3, PutMoves
  <2> QED BY <1>3, <2>2 DEF Opens
<1>4. CASE Reads(i)
  <2>1. CASE Stopped(i)
    BY <1>4, <2>1 DEF Reads
  <2>2. CASE ~Stopped(i)
    <3>1. followers' = [followers EXCEPT ![i].at = @ + 1] /\ followers[i].pc = "read"
      BY <1>4, <2>2 DEF Reads
    <3>2. Moves(i, "read")
      <4> DEFINE put == [followers[i] EXCEPT !.at = @ + 1]
      <4>1. followers[i] \in FollowerType
        BY DEF LTypes
      <4>2. put \in FollowerType /\ put.of = followers[i].of /\ put.stop = followers[i].stop /\ put.pc = "read"
        BY <3>1, <4>1 DEF FollowerType
      <4>3. followers' = [followers EXCEPT ![i] = put]
        BY <3>1
      <4> HIDE DEF put
      <4> QED BY <4>2, <4>3, PutMoves
    <3> QED BY <1>4, <3>1, <3>2 DEF Reads
  <2> QED BY <2>1, <2>2
<1>5. CASE StreamEnds(i)
  BY <1>5 DEF StreamEnds
<1>6. CASE Reports(i)
  BY <1>6 DEF Reports
<1>7. CASE WaitEnds(i)
  BY <1>7 DEF WaitEnds
<1>8. CASE Leaves(i)
  BY <1>8 DEF Leaves
<1> QED BY <1>1, <1>2, <1>3, <1>4, <1>5, <1>6, <1>7, <1>8 DEF Follow

\* Those there were, some of them told to stop, and one for each missing
\* member, each its own.
Reconciled ==
    /\ \A i \in DOMAIN followers :
        /\ i \in DOMAIN followers'
        /\ followers'[i].of = followers[i].of
        /\ followers'[i].pc = followers[i].pc
        /\ followers'[i].at = followers[i].at
        /\ followers'[i].stop <=>
              (followers[i].stop \/ \E m \in Dismissed : running[m] = i)
    /\ \A m \in Missing :
        /\ running'[m] \in DOMAIN followers' \ DOMAIN followers
        /\ followers'[running'[m]] = Follower(m)
    /\ \A i \in DOMAIN followers' \ DOMAIN followers : \E m \in Missing : running'[m] = i
    /\ \A m \in Members \ Missing :
        running'[m] = IF m \in Dismissed THEN NoOne ELSE running[m]

\* That is what reconcile makes of the followers.
LEMMA ReconcileMakes ==
  ASSUME LTypes, Reconcile
  PROVE  LTypes' /\ Reconciled
<1> DEFINE n == Len(followers)
           c == Cardinality(Missing)
           upto(m) == Cardinality({o \in Missing : o <= m})
           told == [i \in DOMAIN followers |-> [followers[i] EXCEPT !.stop =
                       @ \/ \E m \in Dismissed : running[m] = i]]
           new == [k \in 1..c |-> Follower(Nth(Missing, k))]
<1>1. Missing \in SUBSET Members /\ Missing \in SUBSET Nat /\ IsFiniteSet(Missing) /\ c \in Nat
  <2>1. Missing \subseteq Members
    BY DEF Missing, Wanted, LTypes
  <2> QED BY <2>1, BoundsAssumption, FS_Subset, FS_CardinalityType
<1>2. \A m \in Missing : upto(m) \in 1..c /\ Nth(Missing, upto(m)) = m
  BY <1>1, NthIs
<1>3. \A k \in 1..c : \E m \in Missing : k = upto(m)
  BY <1>1, EachIsNth
<1>4. followers \in Seq(FollowerType) /\ n \in Nat /\ DOMAIN followers = 1..n
  BY DEF LTypes
<1>5. followers' = told \o new /\ phase' = "run" /\ UNCHANGED <<written, roster, spoke>>
      /\ running' = [m \in Members |->
                  IF m \in Missing THEN n + upto(m)
                  ELSE IF m \in Dismissed THEN NoOne ELSE running[m]]
  BY Zenon DEF Reconcile, envVars
<1>6. \A i \in 1..n : /\ told[i] \in FollowerType
                      /\ told[i].of = followers[i].of /\ told[i].pc = followers[i].pc
                      /\ told[i].at = followers[i].at
                      /\ told[i].stop <=> (followers[i].stop \/ \E m \in Dismissed : running[m] = i)
  <2> TAKE i \in 1..n
  <2> DEFINE stop == followers[i].stop \/ \E m \in Dismissed : running[m] = i
  <2>1. followers[i] \in FollowerType
    BY <1>4
  <2>2. told[i] = [followers[i] EXCEPT !.stop = stop]
    BY <1>4
  <2>3. stop \in BOOLEAN
    OBVIOUS
  <2> HIDE DEF stop, told
  <2>4. /\ told[i] \in FollowerType /\ told[i].of = followers[i].of /\ told[i].pc = followers[i].pc
        /\ told[i].at = followers[i].at /\ told[i].stop = stop
    BY <2>1, <2>2, <2>3 DEF FollowerType
  <2> QED BY <2>4 DEF stop
<1>7. \A m \in Members : Follower(m) \in FollowerType
  BY DEF Follower, FollowerType, Pcs
<1>8. \A k \in 1..c : new[k] \in FollowerType
  BY <1>1, <1>2, <1>3, <1>7
<1>9. told \in Seq(FollowerType) /\ Len(told) = n /\ new \in Seq(FollowerType) /\ Len(new) = c
  <2>1. told \in [1..n -> FollowerType]
    BY <1>4, <1>6
  <2>2. new \in [1..c -> FollowerType]
    BY <1>8
  <2> HIDE DEF told, new, n, c
  <2> QED BY <1>1, <1>4, <2>1, <2>2
<1>10. \A m \in Missing : new[upto(m)] = Follower(m)
  BY <1>2
<1> HIDE DEF told, new, c, upto
<1>11. /\ followers' \in Seq(FollowerType) /\ DOMAIN followers' = 1..(n + c)
       /\ \A i \in 1..n : followers'[i] = told[i]
       /\ \A k \in 1..c : followers'[n + k] = new[k]
  BY <1>1, <1>4, <1>5, <1>9
<1> HIDE DEF n
<1>12. \A m \in Missing : /\ running'[m] = n + upto(m)
                          /\ running'[m] \in 1..(n + c) \ 1..n
                          /\ followers'[running'[m]] = Follower(m)
  <2> TAKE m \in Missing
  <2>1. running'[m] = n + upto(m)
    BY <1>1, <1>5
  <2>2. upto(m) \in 1..c
    BY <1>2
  <2>3. n + upto(m) \in 1..(n + c) \ 1..n
    BY <2>2, <1>1, <1>4
  <2>4. followers'[n + upto(m)] = Follower(m)
    BY <2>2, <1>10, <1>11
  <2> QED BY <2>1, <2>3, <2>4
<1>13. \A i \in 1..(n + c) \ 1..n : \E m \in Missing : running'[m] = i
  <2> TAKE i \in 1..(n + c) \ 1..n
  <2>1. i - n \in 1..c /\ i = n + (i - n)
    BY <1>1, <1>4
  <2>2. PICK m \in Missing : i - n = upto(m)
    BY <2>1, <1>3
  <2> QED BY <2>1, <2>2, <1>12
<1>14. LTypes'
  <2>1. running' \in [Members -> Nat]
    BY <1>1, <1>2, <1>4, <1>5 DEF LTypes, NoOne
  <2> QED BY <2>1, <1>5, <1>11 DEF LTypes, Phases
<1>15. \A m \in Members \ Missing : running'[m] = IF m \in Dismissed THEN NoOne ELSE running[m]
  BY <1>5
<1>16. DOMAIN followers = 1..n /\ DOMAIN followers' = 1..(n + c) /\ 1..n \subseteq 1..(n + c)
  BY <1>1, <1>4, <1>11
<1>17. \A i \in 1..n : /\ followers'[i].of = followers[i].of /\ followers'[i].pc = followers[i].pc
                       /\ followers'[i].at = followers[i].at
                       /\ followers'[i].stop <=>
                            (followers[i].stop \/ \E m \in Dismissed : running[m] = i)
  BY <1>6, <1>11
<1> QED BY <1>12, <1>13, <1>14, <1>15, <1>16, <1>17 DEF Reconciled

\* A follower's move keeps the types.
LEMMA MovesKeepTypes ==
  ASSUME LTypes, NEW i \in DOMAIN followers, NEW pc, Steps(i, pc),
         UNCHANGED <<written, roster, phase, running>>
  PROVE  LTypes'
<1>1. i \in Nat
  BY DEF LTypes
<1>2. spoke' \in [Members -> Nat]
  BY <1>1 DEF LTypes, Steps, Tells
<1> QED BY <1>2 DEF LTypes, Moves, Steps

\* The runner's own steps that touch no follower, and the surroundings'.
LEMMA OthersKeepTypes ==
  ASSUME LTypes, Outside \/ StopAll \/ Returns \/ UNCHANGED vars
  PROVE  LTypes' /\ UNCHANGED <<followers, unread, spoke>>
<1>1. ASSUME NEW m \in Members, Write(m) PROVE LTypes' /\ UNCHANGED <<followers, unread, spoke>>
  <2>1. written' \in [Members -> Nat]
    BY <1>1 DEF Write, LTypes
  <2> QED BY <1>1, <2>1 DEF Write, LTypes
<1>2. CASE PublishRoster
  BY <1>2 DEF PublishRoster, LTypes
<1>3. CASE CancelRun
  BY <1>3 DEF CancelRun, LTypes
<1>4. CASE StopAll
  <2>1. running' \in [Members -> Nat]
    BY <1>4 DEF StopAll, NoOne
  <2> QED BY <1>4, <2>1 DEF StopAll, LTypes, Phases, envVars
<1>5. CASE Returns
  BY <1>5 DEF Returns, LTypes, Phases, envVars
<1>6. CASE UNCHANGED vars
  BY <1>6 DEF vars, envVars, LTypes
<1> QED BY <1>1, <1>2, <1>3, <1>4, <1>5, <1>6 DEF Outside

\* No follower, and nothing unread, at the start.
LEMMA SilentInit == Init => SilentInv
<1> SUFFICES ASSUME Init PROVE SilentInv
  OBVIOUS
<1>1. LTypes
  <2>1. written = [m \in Members |-> 0] /\ running = [m \in Members |-> NoOne]
        /\ spoke = [m \in Members |-> NoOne]
        /\ followers = <<>> /\ phase = "start"
    BY Zenon DEF Init
  <2>2. roster \in [known : BOOLEAN, members : SUBSET Members]
    <3>1. \/ roster = [known |-> FALSE, members |-> {}]
          \/ \E present \in SUBSET Members : roster = [known |-> TRUE, members |-> present]
      BY Zenon DEF Init
    <3>2. CASE roster = [known |-> FALSE, members |-> {}]
      BY <3>2
    <3>3. ASSUME NEW present \in SUBSET Members, roster = [known |-> TRUE, members |-> present]
          PROVE  roster \in [known : BOOLEAN, members : SUBSET Members]
      BY <3>3
    <3> QED BY <3>1, <3>2, <3>3
  <2> QED BY <2>1, <2>2 DEF LTypes, Phases, NoOne
<1> QED BY <1>1 DEF Init, SilentInv, UnreadHasAFollower, DoneIsSilent

\* A follower reports for its own member, and only while it is there.
LEMMA SilentFollow ==
  ASSUME SilentInv, NEW i \in DOMAIN followers, Follow(i)
  PROVE  SilentInv'
<1> PICK pc \in Pcs : Steps(i, pc)
  BY FollowMoves DEF SilentInv
<1> USE DEF Steps, Tells
<1> UNCHANGED <<written, roster, phase, running>>
  BY FollowMoves DEF SilentInv
<1>1. LTypes'
  BY MovesKeepTypes DEF SilentInv
<1>2. UnreadHasAFollower'
  <2> SUFFICES ASSUME NEW m \in unread' PROVE \E j \in Alive' : followers'[j].of = m
    BY DEF UnreadHasAFollower
  <2>1. CASE m = followers[i].of
    <3>1. pc # "gone"
      BY <2>1
    <3> QED BY <2>1, <3>1 DEF Moves, Alive
  <2>2. CASE m # followers[i].of
    <3>1. PICK j \in Alive : followers[j].of = m
      BY <2>2 DEF SilentInv, UnreadHasAFollower
    <3> QED BY <2>2, <3>1 DEF Moves, Alive
  <2> QED BY <2>1, <2>2
<1>3. DoneIsSilent'
  BY DEF SilentInv, DoneIsSilent, Moves, Alive
<1> QED BY <1>1, <1>2, <1>3 DEF SilentInv

\* Every step keeps what is unread to a follower that is there.
LEMMA SilentNext == SilentInv /\ [Next]_vars => SilentInv'
<1> SUFFICES ASSUME SilentInv, [Next]_vars PROVE SilentInv'
  OBVIOUS
<1> LTypes
  BY DEF SilentInv
<1>1. ASSUME NEW i \in DOMAIN followers, Follow(i) PROVE SilentInv'
  BY <1>1, SilentFollow
<1>2. CASE Reconcile
  <2>1. LTypes' /\ \A i \in DOMAIN followers :
                  /\ i \in DOMAIN followers'
                  /\ followers'[i].of = followers[i].of
                  /\ followers'[i].pc = followers[i].pc
    BY <1>2, ReconcileMakes DEF Reconciled
  <2>2. phase' = "run" /\ unread' = unread
    BY <1>2 DEF Reconcile
  <2>3. UnreadHasAFollower'
    BY <2>1, <2>2 DEF SilentInv, UnreadHasAFollower, Alive
  <2> QED BY <2>1, <2>2, <2>3 DEF SilentInv, DoneIsSilent
<1>3. CASE Outside \/ StopAll \/ Returns \/ UNCHANGED vars
  <2>1. LTypes' /\ UNCHANGED <<followers, unread, spoke>>
    BY <1>3, OthersKeepTypes
  <2>2. UnreadHasAFollower'
    BY <2>1 DEF SilentInv, UnreadHasAFollower, Alive
  <2>3. phase' = "done" => phase = "done" \/ Alive = {}
    BY <1>3 DEF Outside, Write, PublishRoster, CancelRun, StopAll, Returns, vars
  <2>4. DoneIsSilent'
    BY <2>1, <2>3 DEF SilentInv, DoneIsSilent, Alive
  <2> QED BY <2>1, <2>2, <2>4 DEF SilentInv
<1> QED BY <1>1, <1>2, <1>3 DEF Next, Run

\* When Run has returned no follower can touch a sink any more, and no
\* container is still called unread: for any containers and any number of
\* followers (runner.go, stopAll: "cancels every follower and waits for them
\* to finish").
THEOREM SilentHolds == Spec => []ReturnedMeansSilent
<1>1. SilentInv => ReturnedMeansSilent
  BY DEF SilentInv, DoneIsSilent, UnreadHasAFollower, ReturnedMeansSilent
<1> QED BY <1>1, SilentInit, SilentNext, PTL DEF Spec

\* No follower at the start, and nothing heard.
LEMMA AdmittedInit == Init => AdmittedInv
BY DEF Init, AdmittedInv, RunningIsItsOwn, OneEach, SpokeIsItsOwn, Speaking

\* What a follower says of its member is the last the matcher heard.
LEMMA AdmittedFollow ==
  ASSUME LTypes, AdmittedInv, NEW i \in DOMAIN followers, Follow(i)
  PROVE  AdmittedInv'
<1> PICK pc \in Pcs : Steps(i, pc)
  BY FollowMoves
<1>1. UNCHANGED <<written, roster, phase, running>>
  BY FollowMoves
<1>2. /\ DOMAIN followers' = DOMAIN followers /\ followers'[i].pc = pc
      /\ \A j \in DOMAIN followers :
          /\ followers'[j].of = followers[j].of /\ followers'[j].stop = followers[j].stop
          /\ j # i => followers'[j].pc = followers[j].pc
  BY DEF Steps, Moves
<1>3. /\ i # NoOne /\ spoke \in [Members -> Nat]
      /\ \A j \in DOMAIN followers : followers[j].of \in Members
  <2>1. \A j \in DOMAIN followers : followers[j] \in FollowerType
    BY DEF LTypes
  <2> QED BY <2>1 DEF LTypes, NoOne, FollowerType
<1>4. RunningIsItsOwn'
  BY <1>1, <1>2 DEF AdmittedInv, RunningIsItsOwn
<1>5. OneEach'
  BY <1>1, <1>2 DEF AdmittedInv, OneEach
<1>6. \/ UNCHANGED <<unread, spoke>>
      \/ /\ spoke' = [spoke EXCEPT ![followers[i].of] = i]
         /\ \A m \in Members : m # followers[i].of => (m \in unread' <=> m \in unread)
  BY DEF Steps, Tells
<1>7. SpokeIsItsOwn'
  BY <1>2, <1>3, <1>6 DEF AdmittedInv, SpokeIsItsOwn
<1>8. Speaking'
  <2> SUFFICES ASSUME NEW j \in DOMAIN followers
               PROVE  LET m == followers[j].of IN
                      /\ followers'[j].pc # "start" => spoke'[m] # NoOne
                      /\ (spoke'[m] = j /\ followers'[j].pc \in {"open", "wait"}) => m \in unread'
    BY <1>2 DEF Speaking
  <2>1. CASE j = i
    <3>1. pc \in {"open", "wait"} /\ spoke'[followers[i].of] = i => followers[i].of \in unread'
      BY <1>3 DEF Steps, Tells, AdmittedInv, Speaking
    <3>2. spoke'[followers[i].of] # NoOne
      BY <1>3 DEF Steps, Tells, AdmittedInv, Speaking
    <3> QED BY <2>1, <3>1, <3>2, <1>2
  <2>2. CASE j # i
    <3>1. CASE followers[j].of = followers[i].of /\ ~UNCHANGED <<unread, spoke>>
      <4>1. spoke'[followers[j].of] = i
        BY <3>1, <1>3, <1>6
      <4> QED BY <2>2, <4>1, <1>3
    <3>2. CASE followers[j].of # followers[i].of \/ UNCHANGED <<unread, spoke>>
      <4>1. /\ spoke'[followers[j].of] = spoke[followers[j].of]
            /\ followers[j].of \in unread' <=> followers[j].of \in unread
        BY <3>2, <1>3, <1>6
      <4> QED BY <2>2, <4>1, <1>2 DEF AdmittedInv, Speaking
    <3> QED BY <3>1, <3>2
  <2> QED BY <2>1, <2>2
<1> QED BY <1>4, <1>5, <1>7, <1>8 DEF AdmittedInv

\* A reconcile tells those to stop whose member left, and starts one newer than all
\* there were for each member without.
LEMMA AdmittedReconcile ==
  ASSUME LTypes, AdmittedInv, Reconcile
  PROVE  AdmittedInv'
<1>1. /\ phase \in {"start", "run"} /\ phase' = "run" /\ UNCHANGED <<unread, spoke>>
  BY DEF Reconcile
<1>2. LTypes' /\ Reconciled
  BY ReconcileMakes
<1> USE DEF Reconciled
<1>3. \A m \in Members : Follower(m).of = m /\ ~Follower(m).stop /\ Follower(m).pc = "start"
  BY DEF Follower
<1>4. /\ Missing \subseteq Members /\ Dismissed \subseteq Members
      /\ \A m \in Missing : running[m] = NoOne
      /\ \A m \in Dismissed : running[m] # NoOne
  BY DEF Missing, Dismissed, Wanted, LTypes
<1>5. /\ \A i \in DOMAIN followers' : i \in Nat /\ i # NoOne
      /\ \A i \in DOMAIN followers, j \in DOMAIN followers' \ DOMAIN followers : i <= j
  BY <1>2 DEF LTypes, NoOne
<1>6. \A i \in DOMAIN followers : followers[i].of \in Members
  <2>1. \A i \in DOMAIN followers : followers[i] \in FollowerType
    BY DEF LTypes
  <2> QED BY <2>1 DEF FollowerType
<1>7. RunningIsItsOwn'
  <2> SUFFICES ASSUME NEW m \in Members, running'[m] # NoOne
               PROVE  /\ running'[m] \in DOMAIN followers'
                      /\ followers'[running'[m]].of = m
                      /\ ~followers'[running'[m]].stop
    BY <1>1 DEF RunningIsItsOwn
  <2>1. CASE m \in Missing
    BY <2>1, <1>2, <1>3
  <2>2. CASE m \notin Missing
    <3>1. running'[m] = running[m] /\ m \notin Dismissed /\ running[m] # NoOne
      BY <2>2, <1>2
    <3>2. running[m] \in DOMAIN followers /\ followers[running[m]].of = m /\ ~followers[running[m]].stop
      BY <3>1 DEF AdmittedInv, RunningIsItsOwn
    <3>3. ASSUME NEW d \in Dismissed, running[d] = running[m] PROVE FALSE
      <4>1. followers[running[d]].of = d
        BY <3>3, <1>4 DEF AdmittedInv, RunningIsItsOwn
      <4> QED BY <4>1, <3>1, <3>2, <3>3
    <3> QED BY <3>1, <3>2, <3>3, <1>2
  <2> QED BY <2>1, <2>2
<1>8. OneEach'
  <2> SUFFICES ASSUME NEW i \in DOMAIN followers'
               PROVE  LET known == running'[followers'[i].of] IN
                      /\ followers'[i].stop \/ known = i
                      /\ known # NoOne => i <= known
    BY DEF OneEach
  <2>1. CASE i \in DOMAIN followers
    <3> DEFINE m == followers[i].of
    <3>1. m \in Members /\ followers'[i].of = m
      BY <2>1, <1>2, <1>6
    <3>2. CASE m \in Missing
      <4>1. followers[i].stop
        BY <3>2, <2>1, <1>1, <1>4, <1>5, <1>2 DEF AdmittedInv, OneEach
      <4> QED BY <4>1, <3>1, <3>2, <2>1, <1>2, <1>5
    <3>3. CASE m \in Dismissed
      <4>1. running'[m] = NoOne
        BY <3>1, <3>3, <1>2, <1>4
      <4>2. followers[i].stop \/ running[m] = i
        BY <2>1, <1>1 DEF AdmittedInv, OneEach
      <4> QED BY <4>1, <4>2, <3>1, <3>3, <2>1, <1>2
    <3>4. CASE m \notin Missing /\ m \notin Dismissed
      <4>1. running'[m] = running[m]
        BY <3>1, <3>4, <1>2
      <4> QED BY <4>1, <3>1, <2>1, <1>1, <1>2 DEF AdmittedInv, OneEach
    <3> QED BY <3>2, <3>3, <3>4
  <2>2. CASE i \notin DOMAIN followers
    <3>1. PICK m \in Missing : running'[m] = i
      BY <2>2, <1>2
    <3> QED BY <3>1, <1>2, <1>3, <1>4, <1>5
  <2> QED BY <2>1, <2>2
<1>9. SpokeIsItsOwn'
  BY <1>1, <1>2 DEF AdmittedInv, SpokeIsItsOwn
<1>10. Speaking'
  <2> SUFFICES ASSUME NEW i \in DOMAIN followers'
               PROVE  LET m == followers'[i].of IN
                      /\ followers'[i].pc # "start" => spoke[m] # NoOne
                      /\ (spoke[m] = i /\ followers'[i].pc \in {"open", "wait"}) => m \in unread
    BY <1>1 DEF Speaking
  <2>1. CASE i \in DOMAIN followers
    BY <2>1, <1>2 DEF AdmittedInv, Speaking
  <2>2. CASE i \notin DOMAIN followers
    BY <2>2, <1>2, <1>3, <1>4
  <2> QED BY <2>1, <2>2
<1> QED BY <1>7, <1>8, <1>9, <1>10 DEF AdmittedInv

\* Every step keeps who speaks of a member.
LEMMA AdmittedNext == LTypes /\ AdmittedInv /\ [Next]_vars => AdmittedInv'
<1> SUFFICES ASSUME LTypes, AdmittedInv, [Next]_vars PROVE AdmittedInv'
  OBVIOUS
<1> USE DEF AdmittedInv, RunningIsItsOwn, OneEach, SpokeIsItsOwn, Speaking
<1>1. ASSUME NEW i \in DOMAIN followers, Follow(i) PROVE AdmittedInv'
  BY <1>1, AdmittedFollow
<1>2. CASE Reconcile
  BY <1>2, AdmittedReconcile
<1>3. CASE StopAll
  <2>1. LTypes' /\ UNCHANGED <<followers, unread, spoke>>
    BY <1>3, OthersKeepTypes
  <2>2. phase' = "stopping" /\ \A m \in Members : running'[m] = NoOne
    BY <1>3 DEF StopAll
  <2>3. \A i \in DOMAIN followers : followers[i].of \in Members
    <3>1. \A i \in DOMAIN followers : followers[i] \in FollowerType
      BY DEF LTypes
    <3> QED BY <3>1 DEF FollowerType
  <2> QED BY <2>1, <2>2, <2>3
<1>4. CASE Outside \/ Returns \/ UNCHANGED vars
  <2>1. LTypes' /\ UNCHANGED <<followers, unread, spoke>>
    BY <1>4, OthersKeepTypes
  <2>2. running' = running /\ (phase' = phase \/ (phase = "stopping" /\ phase' = "done"))
    <3>1. Outside => UNCHANGED <<running, phase>>
      BY DEF Outside, Write, PublishRoster, CancelRun
    <3>2. Returns => UNCHANGED running /\ phase = "stopping" /\ phase' = "done"
      BY DEF Returns
    <3>3. UNCHANGED vars => UNCHANGED <<running, phase>>
      BY DEF vars
    <3> QED BY <1>4, <3>1, <3>2, <3>3
  <2> QED BY <2>1, <2>2
<1> QED BY <1>1, <1>2, <1>3, <1>4 DEF Next, Run

\* While the stream of a container's follower is not open, the matcher says
\* the container is unread, through every reconnection and replacement, and
\* who is said to be unread is followed: for any containers.  What can hide it
\* is the last word of a follower the runner dismissed: its deferred Dropped,
\* or an Attached under way, may come after the Detached of the one that
\* replaced it (runner.go, reconcile, which does not wait, and follow).
THEOREM AdmittedHolds == Spec => []UnreadIsAdmitted
<1>1. SilentInv /\ AdmittedInv => UnreadIsAdmitted
  <2> SUFFICES ASSUME SilentInv, AdmittedInv,
                      NEW m \in Members, m \notin unread, running[m] # NoOne,
                      followers[running[m]].pc \in {"open", "wait"}
               PROVE  spoke[m] \in 1..running[m] - 1 /\ followers[spoke[m]].stop
    BY DEF UnreadIsAdmitted, SilentInv, UnreadHasAFollower
  <2>1. /\ phase = "run" /\ running[m] \in DOMAIN followers
        /\ followers[running[m]].of = m
    BY DEF AdmittedInv, RunningIsItsOwn
  <2>2. spoke[m] # NoOne /\ spoke[m] # running[m]
    BY <2>1 DEF AdmittedInv, Speaking
  <2>3. spoke[m] \in DOMAIN followers /\ followers[spoke[m]].of = m
    BY <2>2 DEF AdmittedInv, SpokeIsItsOwn
  <2>4. spoke[m] <= running[m] /\ followers[spoke[m]].stop
    BY <2>1, <2>2, <2>3 DEF AdmittedInv, OneEach
  <2>5. DOMAIN followers = 1..Len(followers) /\ Len(followers) \in Nat
    BY DEF SilentInv, LTypes
  <2> QED BY <2>1, <2>2, <2>3, <2>4, <2>5
<1>2. SilentInv => LTypes
  BY DEF SilentInv
<1> QED BY <1>1, <1>2, AdmittedInit, AdmittedNext, SilentInit, SilentNext, PTL DEF Spec

-----------------------------------------------------------------------------
(* The buffer: what a reader sees side by side.                              *)

EndOf(entries) == entries[Len(entries)]

\* One container's entries, and no two lines of one follower joined across lines missed.
Marked(entries) ==
    \A k \in 1..Len(entries) - 1 :
        LET one == entries[k]  next == entries[k + 1] IN
        (one.by = next.by /\ one.line # 0 /\ next.line # 0) => next.line = one.line + 1

\* A follower that has read a line since it last opened a stream, or will open none
\* before it reports a gap.
Late == {"read", "ended", "leave", "gone"}

\* The last entry is a marker, or the last line its follower took.
EndIsKnown(m) ==
    buffer[m] # <<>> =>
        LET e == EndOf(buffer[m]) IN
        /\ e.by \in DOMAIN followers /\ followers[e.by].of = m
        /\ e.line # 0 => followers[e.by].pc \in Late
        /\ (e.line # 0 /\ followers[e.by].pc = "read") => e.line = followers[e.by].at

JoinInv ==
    /\ LTypes
    /\ DOMAIN buffer = Members
    /\ \A m \in Members :
        /\ buffer[m] \in Seq(Range(buffer[m])) /\ Marked(buffer[m])
        /\ EndIsKnown(m)

\* What entries become when some go from the front: none left, or the same last one.
LEMMA DropKeeps ==
  ASSUME NEW R, NEW s \in Seq(R), NEW n \in 0..Len(s), Marked(s)
  PROVE  LET kept == dropOldest(s, n) IN
         /\ kept \in Seq(Range(kept)) /\ kept \in Seq(R) /\ Marked(kept)
         /\ kept # <<>> => s # <<>> /\ EndOf(kept) = EndOf(s)
<1> DEFINE kept == dropOldest(s, n)
<1>1. Len(s) \in Nat /\ n \in Nat /\ n <= Len(s)
  OBVIOUS
<1>2. kept \in Seq(R) /\ Len(kept) = Len(s) - n /\ \A k \in 1..Len(kept) : kept[k] = s[n + k]
  BY <1>1 DEF dropOldest
<1> HIDE DEF kept
<1>3. DOMAIN kept = 1..Len(kept) /\ Len(kept) \in Nat
  BY <1>2
<1>4. kept \in Seq(Range(kept))
  <2>1. \A k \in 1..Len(kept) : kept[k] \in Range(kept)
    BY <1>3 DEF Range
  <2> QED BY <1>2, <1>3, <2>1
<1>5. Marked(kept)
  <2> SUFFICES ASSUME NEW k \in 1..Len(kept) - 1
               PROVE  (kept[k].by = kept[k + 1].by /\ kept[k].line # 0 /\ kept[k + 1].line # 0)
                         => kept[k + 1].line = kept[k].line + 1
    BY DEF Marked
  <2>1. n + k \in 1..Len(s) - 1 /\ k \in 1..Len(kept) /\ k + 1 \in 1..Len(kept)
    BY <1>1, <1>2, <1>3
  <2>2. kept[k] = s[n + k] /\ kept[k + 1] = s[(n + k) + 1]
    <3>1. n + (k + 1) = (n + k) + 1
      BY <1>1
    <3> QED BY <2>1, <1>2, <3>1
  <2> QED BY <2>1, <2>2 DEF Marked
<1>6. ASSUME kept # <<>> PROVE s # <<>> /\ EndOf(kept) = EndOf(s)
  <2>1. Len(kept) # 0
    BY <1>6, <1>2
  <2>2. Len(kept) \in 1..Len(kept) /\ n + Len(kept) = Len(s) /\ Len(s) # 0
    BY <2>1, <1>1, <1>2, <1>3
  <2> QED BY <2>2, <1>2 DEF EndOf
<1> QED BY <1>2, <1>4, <1>5, <1>6 DEF kept

\* A number within a set of the first ones is one: its least.
LEMMA MinIs ==
  ASSUME NEW S, S \subseteq Nat, S # {}
  PROVE  Min(S) \in S
<1> DEFINE R == OpToRel(<, Nat)
<1>1. IsWellFoundedOn(R, Nat)
  BY NatLessThanWellFounded
<1>2. \E x \in S : \A y \in S : ~(<<y, x>> \in R)
  <2> HIDE DEF R
  <2> QED BY <1>1, WFMin
<1>3. \A x, y \in Nat : y < x => <<y, x>> \in R
  BY DEF OpToRel
<1> HIDE DEF R
<1>4. \A x, y \in S : ~(y < x) => x <= y
  OBVIOUS
<1>5. \E x \in S : \A y \in S : x <= y
  BY <1>2, <1>3, <1>4
<1> QED BY <1>5 DEF Min

\* A container's own bound takes entries from the front, however many.
LEMMA OwnDrops ==
  ASSUME NEW R, NEW s \in Seq(R)
  PROVE  \E n \in 0..Len(s) : OwnTrimmed(s) = dropOldest(s, n)
<1> DEFINE S == {n \in 0..Len(s) : SizeOf(Range(dropOldest(s, n))) <= PerContainer}
<1>1. Len(s) \in S
  <2>1. Len(s) \in 0..Len(s)
    OBVIOUS
  <2>2. dropOldest(s, Len(s)) = <<>>
    BY DEF dropOldest
  <2>3. Range(<<>>) = {}
    BY DEF Range
  <2>4. SizeOf({}) = 0
    <3>1. {e \in {} : e.line # 0} = {}
      OBVIOUS
    <3> QED BY <3>1, FS_EmptySet DEF SizeOf
  <2>5. SizeOf(Range(dropOldest(s, Len(s)))) = 0
    BY <2>2, <2>3, <2>4
  <2>6. 0 <= PerContainer
    BY BoundsAssumption
  <2> HIDE DEF S
  <2> QED BY <2>1, <2>5, <2>6 DEF S
<1>2. S \subseteq Nat
  OBVIOUS
<1>3. OwnTrimmed(s) = dropOldest(s, Min(S))
  BY DEF OwnTrimmed
<1> HIDE DEF S
<1>4. Min(S) \in S
  BY <1>1, <1>2, MinIs
<1> QED BY <1>3, <1>4 DEF S

\* So does the bound on all of them, of each container.
LEMMA AllDrops ==
  ASSUME NEW streams, NEW now, NEW m \in Members, NEW R, streams[m] \in Seq(R)
  PROVE  \E n \in 0..Len(streams[m]) : AllTrimmed(streams, now)[m] = dropOldest(streams[m], n)
<1> DEFINE s == streams[m]
           cut == Min({t \in 0..now : SizeOf({e \in All(streams) : e.at > t}) <= Total})
           old == {k \in DOMAIN s : s[k].at <= cut}
<1>1. AllTrimmed(streams, now)[m] = dropOldest(s, Cardinality(old))
  BY DEF AllTrimmed
<1>2. IsFiniteSet(1..Len(s)) /\ Cardinality(1..Len(s)) = Len(s) /\ Len(s) \in Nat
  BY FS_Interval
<1>3. old \subseteq 1..Len(s)
  OBVIOUS
<1> HIDE DEF s, old, cut
<1>4. Cardinality(old) \in Nat /\ Cardinality(old) <= Len(s)
  BY <1>2, <1>3, FS_Subset, FS_CardinalityType
<1>5. Cardinality(old) \in 0..Len(s)
  BY <1>2, <1>4
<1> QED BY <1>1, <1>5 DEF s

\* An entry is put at the end, and the oldest go: of the container it is put to, what is
\* left ends with it; of another, with what it ended with.
LEMMA RetainKeeps ==
  ASSUME NEW m \in Members, NEW i, NEW n, Retain(m, i, n), DOMAIN buffer = Members,
         \A o \in Members : buffer[o] \in Seq(Range(buffer[o])) /\ Marked(buffer[o]),
         buffer[m] # <<>> => LET e == EndOf(buffer[m]) IN
            (e.by = i /\ e.line # 0 /\ n # 0) => n = e.line + 1
  PROVE  /\ DOMAIN buffer' = Members
         /\ \A o \in Members :
               /\ buffer'[o] \in Seq(Range(buffer'[o])) /\ Marked(buffer'[o])
               /\ buffer'[o] # <<>> =>
                     \/ o = m /\ EndOf(buffer'[o]).by = i /\ EndOf(buffer'[o]).line = n
                     \/ buffer[o] # <<>> /\ o # m /\ EndOf(buffer'[o]) = EndOf(buffer[o])
<1> DEFINE now == Clock + 1
           entry == [at |-> now, by |-> i, line |-> n]
           longer == Append(buffer[m], entry)
           streams == [buffer EXCEPT ![m] = OwnTrimmed(longer)]
<1>1. buffer' = AllTrimmed(streams, now)
  BY DEF Retain
<1>2. DOMAIN buffer' = Members
  BY <1>1 DEF AllTrimmed
<1>3. entry.by = i /\ entry.line = n
  OBVIOUS
<1> HIDE DEF entry, now
<1>4. \A o \in Members : streams[o] = IF o = m THEN OwnTrimmed(longer) ELSE buffer[o]
  OBVIOUS
<1>5. PICK R : buffer[m] \in Seq(R) /\ entry \in R
  <2>1. buffer[m] \in Seq(Range(buffer[m]) \cup {entry})
    <3>1. buffer[m] \in Seq(Range(buffer[m]))
      OBVIOUS
    <3>2. \A k \in 1..Len(buffer[m]) : buffer[m][k] \in Range(buffer[m]) \cup {entry}
      BY <3>1
    <3> QED BY <3>1, <3>2
  <2> QED BY <2>1
<1>6. /\ longer \in Seq(R) /\ longer # <<>> /\ Len(longer) = Len(buffer[m]) + 1
      /\ Len(buffer[m]) \in Nat
      /\ EndOf(longer) = entry
      /\ \A k \in 1..Len(buffer[m]) : longer[k] = buffer[m][k]
  BY <1>5 DEF EndOf
<1> HIDE DEF longer
<1>7. Marked(longer)
  <2> SUFFICES ASSUME NEW k \in 1..Len(longer) - 1
               PROVE  (longer[k].by = longer[k + 1].by /\ longer[k].line # 0 /\ longer[k + 1].line # 0)
                         => longer[k + 1].line = longer[k].line + 1
    BY DEF Marked
  <2>1. k \in 1..Len(buffer[m]) /\ longer[k] = buffer[m][k]
    BY <1>6
  <2>2. CASE k = Len(buffer[m])
    <3>1. longer[k + 1] = entry /\ longer[k] = EndOf(buffer[m]) /\ buffer[m] # <<>>
      BY <2>1, <2>2, <1>6, <1>5 DEF EndOf
    <3> QED BY <3>1, <1>3
  <2>3. CASE k # Len(buffer[m])
    <3>1. k \in 1..Len(buffer[m]) - 1 /\ longer[k + 1] = buffer[m][k + 1]
      BY <2>1, <2>3, <1>6
    <3> QED BY <2>1, <3>1 DEF Marked
  <2> QED BY <2>2, <2>3
<1> HIDE DEF streams
<1>8. ASSUME NEW o \in Members
      PROVE  /\ streams[o] \in Seq(Range(streams[o])) /\ Marked(streams[o])
             /\ streams[o] # <<>> =>
                   \/ o = m /\ EndOf(streams[o]) = entry
                   \/ buffer[o] # <<>> /\ o # m /\ EndOf(streams[o]) = EndOf(buffer[o])
  <2>1. CASE o = m
    <3>1. PICK d \in 0..Len(longer) : OwnTrimmed(longer) = dropOldest(longer, d)
      BY <1>6, OwnDrops
    <3> DEFINE kept == dropOldest(longer, d)
    <3>2. /\ kept \in Seq(Range(kept)) /\ Marked(kept)
          /\ kept # <<>> => EndOf(kept) = EndOf(longer)
      BY <1>6, <1>7, DropKeeps
    <3>3. streams[o] = kept
      BY <2>1, <3>1, <1>4
    <3> HIDE DEF kept
    <3> QED BY <2>1, <3>2, <3>3, <1>6
  <2>2. CASE o # m
    BY <2>2, <1>4
  <2> QED BY <2>1, <2>2
<1>9. ASSUME NEW o \in Members
      PROVE  /\ buffer'[o] \in Seq(Range(buffer'[o])) /\ Marked(buffer'[o])
             /\ buffer'[o] # <<>> => streams[o] # <<>> /\ EndOf(buffer'[o]) = EndOf(streams[o])
  <2>1. streams[o] \in Seq(Range(streams[o])) /\ Marked(streams[o])
    BY <1>8
  <2>2. PICK d \in 0..Len(streams[o]) : AllTrimmed(streams, now)[o] = dropOldest(streams[o], d)
    BY <2>1, AllDrops
  <2> DEFINE kept == dropOldest(streams[o], d)
  <2>3. /\ kept \in Seq(Range(kept)) /\ Marked(kept)
        /\ kept # <<>> => streams[o] # <<>> /\ EndOf(kept) = EndOf(streams[o])
    BY <2>1, DropKeeps
  <2>4. buffer'[o] = kept
    BY <2>2, <1>1
  <2> HIDE DEF kept
  <2> QED BY <2>3, <2>4
<1> QED BY <1>2, <1>3, <1>8, <1>9

\* Where a follower may be next without a word to the buffer.
Quietly(j) ==
    /\ j \in DOMAIN followers' /\ followers'[j].of = followers[j].of
    /\ followers[j].pc \in Late =>
        /\ followers'[j].pc \in Late
        /\ followers'[j].pc = "read" => followers[j].pc = "read" /\ followers'[j].at = followers[j].at

\* A container whose last entry stays, by a follower that has no word for the buffer.
LEMMA QuietEnd ==
  ASSUME NEW m \in Members, EndIsKnown(m),
         buffer'[m] # <<>> =>
            /\ buffer[m] # <<>> /\ EndOf(buffer'[m]) = EndOf(buffer[m])
            /\ Quietly(EndOf(buffer[m]).by)
  PROVE  EndIsKnown(m)'
<1> DEFINE e == EndOf(buffer[m])
<1> SUFFICES ASSUME buffer'[m] # <<>>
             PROVE  /\ e.by \in DOMAIN followers' /\ followers'[e.by].of = m
                    /\ e.line # 0 => followers'[e.by].pc \in Late
                    /\ (e.line # 0 /\ followers'[e.by].pc = "read") => e.line = followers'[e.by].at
  BY DEF EndIsKnown, EndOf
<1>1. /\ e.by \in DOMAIN followers /\ followers[e.by].of = m
      /\ e.line # 0 => followers[e.by].pc \in Late
      /\ (e.line # 0 /\ followers[e.by].pc = "read") => e.line = followers[e.by].at
  BY DEF EndIsKnown
<1>2. Quietly(e.by)
  OBVIOUS
<1> HIDE DEF e
<1> QED BY <1>1, <1>2 DEF Quietly

\* A step that leaves the buffer alone and takes no line.
LEMMA QuietKeeps ==
  ASSUME JoinInv, LTypes', UNCHANGED buffer, \A j \in DOMAIN followers : Quietly(j)
  PROVE  JoinInv'
<1>1. ASSUME NEW m \in Members PROVE EndIsKnown(m)'
  <2>1. EndIsKnown(m)
    BY DEF JoinInv
  <2>2. buffer[m] # <<>> => EndOf(buffer[m]).by \in DOMAIN followers
    BY <2>1 DEF EndIsKnown
  <2> QED BY <2>1, <2>2, QuietEnd
<1>2. ASSUME NEW m \in Members PROVE buffer'[m] \in Seq(Range(buffer'[m])) /\ Marked(buffer'[m])
  BY DEF JoinInv
<1> QED BY <1>1, <1>2 DEF JoinInv

\* A step that puts an entry: the line after the last one taken, or a marker.
LEMMA PutKeeps ==
  ASSUME JoinInv, LTypes', NEW i \in DOMAIN followers, NEW n,
         Retain(followers[i].of, i, n),
         DOMAIN followers' = DOMAIN followers, followers'[i].of = followers[i].of,
         \A j \in DOMAIN followers : j # i => Quietly(j),
         \/ n = 0
         \/ /\ followers[i].pc = "read" /\ n = followers[i].at + 1
            /\ followers'[i].pc = "read" /\ followers'[i].at = n
  PROVE  JoinInv'
<1> DEFINE m == followers[i].of
<1>1. m \in Members
  <2>1. followers[i] \in FollowerType
    BY DEF JoinInv, LTypes
  <2> QED BY <2>1 DEF FollowerType
<1>2. EndIsKnown(m) /\ DOMAIN buffer = Members
      /\ \A o \in Members : buffer[o] \in Seq(Range(buffer[o])) /\ Marked(buffer[o])
  BY <1>1 DEF JoinInv
<1>3. buffer[m] # <<>> => LET e == EndOf(buffer[m]) IN
         (e.by = i /\ e.line # 0 /\ n # 0) => n = e.line + 1
  BY <1>2 DEF EndIsKnown
<1>4. /\ DOMAIN buffer' = Members
      /\ \A o \in Members :
            /\ buffer'[o] \in Seq(Range(buffer'[o])) /\ Marked(buffer'[o])
            /\ buffer'[o] # <<>> =>
                  \/ o = m /\ EndOf(buffer'[o]).by = i /\ EndOf(buffer'[o]).line = n
                  \/ buffer[o] # <<>> /\ o # m /\ EndOf(buffer'[o]) = EndOf(buffer[o])
  BY <1>1, <1>2, <1>3, RetainKeeps
<1>5. EndIsKnown(m)'
  <2> SUFFICES ASSUME buffer'[m] # <<>> PROVE EndIsKnown(m)'
    BY DEF EndIsKnown
  <2>1. EndOf(buffer'[m]).by = i /\ EndOf(buffer'[m]).line = n
    BY <1>1, <1>4
  <2>2. n # 0 => followers'[i].pc = "read" /\ followers'[i].at = n
    OBVIOUS
  <2>3. i \in DOMAIN followers' /\ followers'[i].of = m
    OBVIOUS
  <2> QED BY <2>1, <2>2, <2>3 DEF EndIsKnown, EndOf, Late
<1>6. ASSUME NEW o \in Members, o # m PROVE EndIsKnown(o)'
  <2>1. EndIsKnown(o)
    BY DEF JoinInv
  <2>2. buffer'[o] # <<>> => buffer[o] # <<>> /\ EndOf(buffer'[o]) = EndOf(buffer[o])
    BY <1>4, <1>6
  <2>3. buffer[o] # <<>> => EndOf(buffer[o]).by \in DOMAIN followers /\ EndOf(buffer[o]).by # i
    BY <2>1, <1>6 DEF EndIsKnown
  <2> QED BY <2>1, <2>2, <2>3, QuietEnd
<1> QED BY <1>4, <1>5, <1>6 DEF JoinInv

\* Nothing is retained at the start.
LEMMA JoinInit == Init => JoinInv
<1> SUFFICES ASSUME Init PROVE JoinInv
  OBVIOUS
<1>1. LTypes
  BY SilentInit DEF SilentInv
<1>2. DOMAIN buffer = Members /\ \A m \in Members : buffer[m] = <<>>
  BY DEF Init
<1>3. <<>> \in Seq(Range(<<>>)) /\ Marked(<<>>)
  BY DEF Marked
<1> QED BY <1>1, <1>2, <1>3 DEF JoinInv, EndIsKnown

\* A follower takes the next line, marks a gap, or has no word.
LEMMA JoinFollow ==
  ASSUME JoinInv, NEW i \in DOMAIN followers, Follow(i)
  PROVE  JoinInv'
<1> LTypes /\ followers \in Seq(FollowerType)
  BY DEF JoinInv, LTypes
<1>1. PICK pc \in Pcs : Steps(i, pc)
  BY FollowMoves
<1>2. LTypes'
  BY <1>1, FollowMoves, MovesKeepTypes
<1>3. DOMAIN followers' = DOMAIN followers /\ \A j \in DOMAIN followers : followers'[j].of = followers[j].of
  BY <1>1 DEF Steps, Moves
<1>4. ASSUME NEW to, Goes(i, to)
      PROVE  \A j \in DOMAIN followers :
                /\ followers'[j].at = followers[j].at
                /\ followers'[j].pc = IF j = i THEN to ELSE followers[j].pc
  BY <1>4 DEF Goes, FollowerType
<1>5. ASSUME NEW to, Goes(i, to), UNCHANGED buffer,
             followers[i].pc \in Late => to \in Late /\ to # "read"
      PROVE  JoinInv'
  <2>1. \A j \in DOMAIN followers : Quietly(j)
    BY <1>3, <1>4, <1>5 DEF Quietly
  <2> QED BY <1>2, <1>5, <2>1, QuietKeeps
<1>6. CASE Begin(i)
  BY <1>5, <1>6 DEF Begin, Late
<1>7. CASE OpenFails(i)
  BY <1>5, <1>7 DEF OpenFails, Late
<1>8. CASE Opens(i)
  <2>1. /\ UNCHANGED buffer /\ followers[i].pc = "open"
        /\ followers' = [followers EXCEPT ![i].pc = "read", ![i].at = written[followers[i].of]]
    BY <1>8 DEF Opens
  <2>2. \A j \in DOMAIN followers : j # i => followers'[j] = followers[j]
    BY <2>1
  <2>3. \A j \in DOMAIN followers : Quietly(j)
    BY <1>3, <2>1, <2>2 DEF Quietly, Late
  <2> QED BY <1>2, <2>1, <2>3, QuietKeeps
<1>9. CASE Reads(i)
  <2>1. CASE Stopped(i)
    BY <1>5, <1>9, <2>1 DEF Reads, Late
  <2>2. CASE ~Stopped(i)
    <3>1. /\ followers' = [followers EXCEPT ![i].at = @ + 1] /\ followers[i].pc = "read"
          /\ Retain(followers[i].of, i, followers[i].at + 1)
      BY <1>9, <2>2, Zenon DEF Reads
    <3>2. \A j \in DOMAIN followers : j # i => followers'[j] = followers[j]
      BY <3>1
    <3>3. followers'[i].pc = "read" /\ followers'[i].at = followers[i].at + 1
      <4>1. followers[i] \in FollowerType
        OBVIOUS
      <4>2. followers'[i] = [followers[i] EXCEPT !.at = @ + 1]
        BY <3>1
      <4> QED BY <3>1, <4>1, <4>2 DEF FollowerType
    <3>4. \A j \in DOMAIN followers : j # i => Quietly(j)
      BY <1>3, <3>2 DEF Quietly
    <3> DEFINE n == followers[i].at + 1
    <3>5. Retain(followers[i].of, i, n) /\ followers'[i].at = n /\ n = followers[i].at + 1
      BY <3>1, <3>3
    <3> HIDE DEF n
    <3> QED BY <1>2, <1>3, <3>1, <3>3, <3>4, <3>5, PutKeeps
  <2> QED BY <2>1, <2>2
<1>10. CASE StreamEnds(i)
  BY <1>5, <1>10 DEF StreamEnds, Late
<1>11. CASE Reports(i)
  <2>1. CASE Stopped(i)
    BY <1>5, <1>11, <2>1 DEF Reports, Late
  <2>2. CASE ~Stopped(i)
    <3>1. Retain(followers[i].of, i, 0) /\ Goes(i, "wait")
      BY <1>11, <2>2, Zenon DEF Reports
    <3>2. \A j \in DOMAIN followers : j # i => Quietly(j)
      BY <1>3, <1>4, <3>1 DEF Quietly
    <3> QED BY <1>2, <1>3, <3>1, <3>2, PutKeeps
  <2> QED BY <2>1, <2>2
<1>12. CASE WaitEnds(i)
  BY <1>5, <1>12 DEF WaitEnds, Late
<1>13. CASE Leaves(i)
  BY <1>5, <1>13 DEF Leaves, Late
<1> QED BY <1>6, <1>7, <1>8, <1>9, <1>10, <1>11, <1>12, <1>13 DEF Follow

\* Every step keeps the lines of a follower apart where it missed some.
LEMMA JoinNext == JoinInv /\ [Next]_vars => JoinInv'
<1> SUFFICES ASSUME JoinInv, [Next]_vars PROVE JoinInv'
  OBVIOUS
<1> LTypes
  BY DEF JoinInv
<1>1. ASSUME NEW i \in DOMAIN followers, Follow(i) PROVE JoinInv'
  BY <1>1, JoinFollow
<1>2. CASE Reconcile
  <2>1. LTypes' /\ UNCHANGED buffer
    BY <1>2, ReconcileMakes DEF Reconcile
  <2>2. \A j \in DOMAIN followers :
            /\ j \in DOMAIN followers' /\ followers'[j].of = followers[j].of
            /\ followers'[j].pc = followers[j].pc /\ followers'[j].at = followers[j].at
    BY <1>2, ReconcileMakes DEF Reconciled
  <2>3. \A j \in DOMAIN followers : Quietly(j)
    BY <2>2 DEF Quietly
  <2> QED BY <2>1, <2>3, QuietKeeps
<1>3. CASE Outside \/ StopAll \/ Returns \/ UNCHANGED vars
  <2>1. LTypes' /\ UNCHANGED followers
    BY <1>3, OthersKeepTypes
  <2>2. UNCHANGED buffer
    BY <1>3 DEF Outside, Write, PublishRoster, CancelRun, StopAll, Returns, vars
  <2>3. \A j \in DOMAIN followers : Quietly(j)
    BY <2>1 DEF Quietly
  <2> QED BY <2>1, <2>2, <2>3, QuietKeeps
<1> QED BY <1>1, <1>2, <1>3 DEF Next, Run

\* Two lines of one follower that the buffer holds side by side were side by
\* side in the container, whatever was evicted, however many streams broke
\* between them and whether or not a replaced follower was still reading
\* (buffer.go, Gap: "joining across a gap silently would be the console
\* inventing continuity").
THEOREM JoinsHold == Spec => []JoinsAreMarked
<1>1. JoinInv => JoinsAreMarked
  BY DEF JoinInv, Marked, JoinsAreMarked
<1> QED BY <1>1, JoinInit, JoinNext, PTL DEF Spec
=============================================================================
