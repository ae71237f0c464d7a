---------------------------- MODULE EvidenceProofs ----------------------------
(***************************************************************************)
(* Proofs about Evidence: what readers are shown of the repository is one   *)
(* publication, a report with its own collection, whole or cut and marked,  *)
(* for any items, page sizes, ceilings, scans, refreshes and failures.      *)
(***************************************************************************)
EXTENDS Evidence, FiniteSetTheorems, SequenceTheorems, TLAPS

\* A set listed in some order.
LEMMA SetToSeqType ==
  ASSUME NEW S, IsFiniteSet(S)
  PROVE  SetToSeq(S) \in Seq(S)
<1> DEFINE listings == {f \in [1..Cardinality(S) -> S] : IsInjective(f)}
<1>1. Cardinality(S) \in Nat /\ ExistsBijection(1..Cardinality(S), S)
  BY FS_CardinalityType
<1>2. \E f \in [1..Cardinality(S) -> S] : IsInjective(f)
  BY <1>1 DEF ExistsBijection, Bijection, Injection
<1>3. SetToSeq(S) \in [1..Cardinality(S) -> S]
  BY <1>2 DEF SetToSeq
<1> QED BY <1>1, <1>3

\* A page that follows what was read, and both together.
LEMMA PageFollows ==
  ASSUME NEW S, NEW all \in Seq(S), NEW k \in 0..Len(all), NEW p \in 0..Len(all) - k
  PROVE  LET rest == SubSeq(all, k + 1, Len(all)) IN
         /\ rest \in Seq(S) /\ Len(rest) = Len(all) - k
         /\ SubSeq(all, 1, k) \o SubSeq(rest, 1, p) = SubSeq(all, 1, k + p)
<1> DEFINE rest == SubSeq(all, k + 1, Len(all))
           some == SubSeq(rest, 1, p)
           next == SubSeq(all, k + 1, k + p)
<1>1. Len(all) \in Nat /\ k \in Nat /\ p \in Nat /\ k + p <= Len(all)
  OBVIOUS
<1>2. rest \in Seq(S) /\ Len(rest) = Len(all) - k /\ \A i \in 1..Len(all) - k : rest[i] = all[k + i]
  OBVIOUS
<1> HIDE DEF rest
<1>3. some \in Seq(S) /\ Len(some) = p /\ \A i \in 1..p : some[i] = all[k + i]
  BY <1>1, <1>2
<1>4. next \in Seq(S) /\ Len(next) = p /\ \A i \in 1..p : next[i] = all[k + i]
  <2>1. \A i \in k + 1..k + p : all[i] \in S
    BY <1>1
  <2>2. next \in Seq(S) /\ Len(next) = p
    BY <1>1, <2>1, SubSeqProperties
  <2>3. \A i \in 1..p : next[i] = all[(k + 1) + i - 1]
    BY <1>1
  <2> QED BY <1>1, <2>2, <2>3
<1> HIDE DEF some, next
<1>5. some = next
  BY <1>1, <1>3, <1>4
<1>6. SubSeq(all, 1, k) \o next = SubSeq(all, 1, k + p)
  BY <1>1, ConcatAdjacentSubSeq DEF next
<1> QED BY <1>2, <1>5, <1>6 DEF rest, some

\* The first n of a sequence are a prefix of it, and all of it only if n is
\* its length.
LEMMA FirstIsPrefix ==
  ASSUME NEW S, NEW all \in Seq(S), NEW n \in 0..Len(all)
  PROVE  /\ SubSeq(all, 1, n) \in Seq(S) /\ Len(SubSeq(all, 1, n)) = n
         /\ IsPrefix(SubSeq(all, 1, n), all)
         /\ SubSeq(all, 1, n) = all <=> n = Len(all)
         /\ \A m \in 0..n : SubSeq(SubSeq(all, 1, n), 1, m) = SubSeq(all, 1, m)
<1> DEFINE first == SubSeq(all, 1, n)
<1>1. first \in Seq(S) /\ Len(first) = n /\ \A i \in 1..n : first[i] = all[i]
  OBVIOUS
<1>2. \A m \in 0..n : /\ SubSeq(all, 1, m) \in Seq(S) /\ Len(SubSeq(all, 1, m)) = m
                      /\ \A i \in 1..m : SubSeq(all, 1, m)[i] = all[i]
  OBVIOUS
<1> HIDE DEF first
<1>3. \A m \in 0..n : /\ SubSeq(first, 1, m) \in Seq(S) /\ Len(SubSeq(first, 1, m)) = m
                      /\ \A i \in 1..m : SubSeq(first, 1, m)[i] = all[i]
  BY <1>1
<1>4. \A m \in 0..n : SubSeq(first, 1, m) = SubSeq(all, 1, m)
  BY <1>2, <1>3
<1>5. n = Len(all) => first = all
  BY <1>1
<1>6. IsPrefix(first, all)
  BY <1>1, <1>4 DEF IsPrefix
<1> QED BY <1>1, <1>4, <1>5, <1>6 DEF first

Reports == [life : Nat, revision : Nat, generation : Nat, uid : Nat, sourceStale : BOOLEAN]

\* A publication of a collection that was scanned, or of none.
Counted(publication) ==
    /\ publication \in Reports
    /\ publication.life \in 1..MaxLives
    /\ publication.generation # 0 => Scan(publication) \in DOMAIN scanned

\* A collection taken from a scan: its first items, all of them or marked.
Whole(backups, truncated, scan) ==
    /\ IsPrefix(backups, scan)
    /\ truncated <=> backups # scan

\* Reports are of publications that were.
ETypes ==
    /\ Counted(published)
    /\ Counted(report)
    /\ scanned \in [DOMAIN scanned -> Seq(Items)]

\* What is being assembled follows the report it is assembled for, as long as
\* its generation is one life's.
Assembling ==
    /\ pc = "page" =>
        /\ report.generation # 0
        /\ \/ CountedAgain(report.generation)
           \/ \E k \in 0..Len(Collection(report)) : items = SubSeq(Collection(report), 1, k)
    /\ pc # "page" => items = <<>>

\* The collection kept for reuse is that of its own generation, in some life.
CacheIsWhole ==
    IF cache.generation = 0 THEN cache.backups = <<>> /\ ~cache.truncated
    ELSE \/ CountedAgain(cache.generation)
         \/ \E life \in 1..MaxLives :
                /\ <<life, cache.generation>> \in DOMAIN scanned
                /\ Whole(cache.backups, cache.truncated, scanned[<<life, cache.generation>>])

StoreIsWhole ==
    store.has =>
        /\ Counted(store.report)
        /\ \/ CountedAgain(store.report.generation)
           \/ Whole(store.backups, store.truncated, Collection(store.report))

EInv == ETypes /\ Assembling /\ CacheIsWhole /\ StoreIsWhole

\* Nothing is scanned, assembled or shown at the start.
LEMMA EvidenceInit == Init => EInv
<1> SUFFICES ASSUME Init PROVE EInv
  OBVIOUS
<1> USE DEF Init, NoScan, NoCache, SidecarUID
<1>1. ETypes
  BY BoundsAssumption DEF ETypes, Counted, Reports
<1>2. Assembling /\ StoreIsWhole
  BY DEF Assembling, StoreIsWhole
<1>3. CacheIsWhole
  BY DEF CacheIsWhole
<1> QED BY <1>1, <1>2, <1>3 DEF EInv

\* What was scanned stays what it was, and a generation counted again stays so.
LEMMA ScansStay ==
  ASSUME DOMAIN scanned \subseteq DOMAIN scanned',
         \A s \in DOMAIN scanned : scanned'[s] = scanned[s]
  PROVE  /\ \A g : CountedAgain(g) => CountedAgain(g)'
         /\ \A r : Counted(r) => Counted(r)' /\ Collection(r)' = Collection(r)
<1>1. ASSUME NEW g, CountedAgain(g) PROVE CountedAgain(g)'
  BY <1>1 DEF CountedAgain
<1>2. ASSUME NEW r, Counted(r) PROVE Counted(r)' /\ Collection(r)' = Collection(r)
  BY <1>2 DEF Counted, Collection, Scan
<1> QED BY <1>1, <1>2

\* Two lives that published under one generation counted it again.
LEMMA LivesDiffer ==
  ASSUME NEW r, NEW q, Counted(r), Counted(q), r.generation = q.generation, r.generation # 0,
         r.life # q.life
  PROVE  CountedAgain(r.generation)
BY DEF Counted, CountedAgain, Scan

\* A failure keeps what is shown and kept, and drops what was assembled.
LEMMA FailKeeps ==
  ASSUME EInv, NEW kind, Fail(kind), UNCHANGED sidecarVars
  PROVE  EInv'
<1>1. ETypes'
  BY DEF EInv, ETypes, Counted, Fail, sidecarVars
<1>2. Assembling'
  BY DEF Assembling, Fail
<1>3. CacheIsWhole'
  BY DEF EInv, CacheIsWhole, CountedAgain, Fail, sidecarVars
<1>4. store'.has = store.has /\ store'.report = store.report /\ store'.backups = store.backups
      /\ store'.truncated = store.truncated
  BY DEF Fail
<1>5. StoreIsWhole'
  BY <1>4, ScansStay DEF EInv, StoreIsWhole, sidecarVars
<1> QED BY <1>1, <1>2, <1>3, <1>5 DEF EInv

\* A publication of a collection with the report of its own generation.
LEMMA PublishKeeps ==
  ASSUME EInv, NEW fetched, Counted(fetched), NEW kept,
         \/ CountedAgain(fetched.generation)
         \/ Whole(kept.backups, kept.truncated, Collection(fetched)),
         fetched.generation = 0 => kept.backups = <<>> /\ ~kept.truncated,
         kept.generation = fetched.generation,
         Publish(fetched, kept), cache' = kept, items' = <<>>, report' = fetched,
         UNCHANGED sidecarVars
  PROVE  EInv'
<1>1. ETypes'
  BY DEF EInv, ETypes, Counted, sidecarVars
<1>2. Assembling'
  BY DEF Assembling, Publish
<1>3. CacheIsWhole'
  <2>1. CASE fetched.generation = 0
    BY <2>1 DEF CacheIsWhole
  <2>2. CASE fetched.generation # 0 /\ CountedAgain(fetched.generation)
    BY <2>2, ScansStay DEF CacheIsWhole, sidecarVars
  <2>3. CASE fetched.generation # 0 /\ Whole(kept.backups, kept.truncated, Collection(fetched))
    <3>1. <<fetched.life, fetched.generation>> \in DOMAIN scanned /\ fetched.life \in 1..MaxLives
          /\ Collection(fetched) = scanned[<<fetched.life, fetched.generation>>]
      BY <2>3 DEF Counted, Collection, Scan
    <3> QED BY <2>3, <3>1 DEF CacheIsWhole, sidecarVars
  <2> QED BY <2>1, <2>2, <2>3
<1>4. store'.report = fetched /\ store'.backups = kept.backups /\ store'.truncated = kept.truncated
  BY DEF Publish
<1>5. StoreIsWhole'
  BY <1>4, ScansStay DEF StoreIsWhole, sidecarVars
<1> QED BY <1>1, <1>2, <1>3, <1>5 DEF EInv

\* Of a generation counted again a reader is promised nothing more.
LEMMA ReadAgain ==
  ASSUME EInv, pc = "page", NEW page, ReadPage(page), UNCHANGED sidecarVars,
         CountedAgain(report.generation)
  PROVE  EInv'
<1>1. ASSUME NEW truncated, Assembled(Taken(page), truncated) PROVE EInv'
  <2> DEFINE kept == [assembled |-> TRUE, generation |-> report.generation,
                      backups |-> Taken(page), truncated |-> truncated]
  <2>1. cache' = kept /\ Publish(report, kept) /\ items' = <<>> /\ report' = report
    BY <1>1, Zenon DEF Assembled
  <2>2. kept.generation = report.generation /\ Counted(report) /\ report.generation # 0
    BY DEF EInv, ETypes, Assembling
  <2> HIDE DEF kept
  <2> QED BY <2>1, <2>2, PublishKeeps
<1>2. ASSUME NEW kind, Fail(kind) PROVE EInv'
  BY <1>2, FailKeeps
<1>3. CASE UNCHANGED <<pc, report, cache, store>>
  <2>1. ETypes'
    BY <1>3 DEF EInv, ETypes, Counted, sidecarVars
  <2>2. CacheIsWhole'
    BY <1>3 DEF EInv, CacheIsWhole, CountedAgain, sidecarVars
  <2>3. StoreIsWhole'
    BY <1>3, ScansStay DEF EInv, StoreIsWhole, sidecarVars
  <2>4. CountedAgain(report.generation)' /\ report'.generation = report.generation
    BY <1>3 DEF CountedAgain, sidecarVars
  <2>5. Assembling'
    BY <1>3, <2>4 DEF EInv, Assembling
  <2> QED BY <2>1, <2>2, <2>3, <2>5 DEF EInv
<1> QED BY <1>1, <1>2, <1>3 DEF ReadPage

\* A page of the report's own life: what was assembled follows it, or is
\* published whole or marked, or dropped (client.go, FetchBackups).
LEMMA ReadOwn ==
  ASSUME EInv, pc = "page", NEW size \in Nat, NEW page,
         page.items = PageOf(size).items, page.last => PageOf(size).last,
         Collection(published) = Collection(report),
         ~CountedAgain(report.generation),
         ReadPage(page), UNCHANGED sidecarVars
  PROVE  EInv'
<1> DEFINE all == Collection(report)
           rest == SubSeq(all, Len(items) + 1, Len(all))
           p == IF size < Len(rest) THEN size ELSE Len(rest)
           k == Len(items)
           t == IF k + p > MaxItems THEN MaxItems ELSE k + p
<1>1. all \in Seq(Items) /\ Counted(report) /\ report.generation # 0
  BY DEF EInv, ETypes, Assembling, Counted, Collection
<1>2. k \in 0..Len(all) /\ items = SubSeq(all, 1, k)
  <2>1. PICK j \in 0..Len(all) : items = SubSeq(all, 1, j)
    BY DEF EInv, Assembling
  <2>2. Len(SubSeq(all, 1, j)) = j
    BY <1>1, FirstIsPrefix
  <2> QED BY <2>1, <2>2
<1>3. page.items = SubSeq(rest, 1, p) /\ (page.last => size >= Len(rest))
  BY DEF PageOf
<1>4. rest \in Seq(Items) /\ Len(rest) = Len(all) - k
  BY <1>1, <1>2
<1>5. p \in 0..Len(all) - k /\ (page.last => p = Len(all) - k)
  BY <1>1, <1>2, <1>3, <1>4
<1>6. items \o page.items = SubSeq(all, 1, k + p) /\ Len(page.items) = p
  <2>1. SubSeq(all, 1, k) \o SubSeq(rest, 1, p) = SubSeq(all, 1, k + p)
    BY <1>1, <1>2, <1>5, PageFollows
  <2>2. Len(SubSeq(rest, 1, p)) = p
    BY <1>4, <1>5, FirstIsPrefix
  <2> QED BY <1>2, <1>3, <2>1, <2>2
<1> HIDE DEF all, rest, p, k
<1>7. Ceiling(page) <=> k + p > MaxItems
  BY <1>6 DEF Ceiling, k
<1>8. MaxItems \in Nat /\ k \in Nat /\ p \in Nat /\ k + p \in 0..Len(all) /\ Len(all) \in Nat
  BY <1>1, <1>2, <1>5, BoundsAssumption
<1>9. t \in 0..Len(all) /\ t <= k + p
  BY <1>8
<1>10. Taken(page) = SubSeq(all, 1, t)
  <2>1. Taken(page) = SubSeq(SubSeq(all, 1, k + p), 1, t)
    BY <1>6 DEF Taken, k
  <2>2. t \in 0..k + p
    BY <1>8
  <2> HIDE DEF t
  <2> QED BY <1>1, <1>8, <2>1, <2>2, FirstIsPrefix
<1>11. IsPrefix(Taken(page), all) /\ (Taken(page) = all <=> t = Len(all))
  <2> HIDE DEF t
  <2> QED BY <1>1, <1>9, <1>10, FirstIsPrefix
<1>12. Ceiling(page) => t # Len(all)
  BY <1>7, <1>8
<1>13. ~Ceiling(page) /\ page.last => t = Len(all)
  BY <1>5, <1>7, <1>8
<1> HIDE DEF t
<1>14. ASSUME NEW truncated \in BOOLEAN, Assembled(Taken(page), truncated),
              truncated <=> Taken(page) # all
       PROVE  EInv'
  <2> DEFINE kept == [assembled |-> TRUE, generation |-> report.generation,
                      backups |-> Taken(page), truncated |-> truncated]
  <2>1. cache' = kept /\ Publish(report, kept) /\ items' = <<>> /\ report' = report
    BY <1>14, Zenon DEF Assembled
  <2>2. kept.generation = report.generation /\ kept.backups = Taken(page) /\ kept.truncated = truncated
    OBVIOUS
  <2>3. Whole(kept.backups, kept.truncated, Collection(report))
    BY <1>11, <1>14, <2>2 DEF Whole, all
  <2> HIDE DEF kept
  <2> QED BY <1>1, <2>1, <2>2, <2>3, PublishKeeps
<1>15. ASSUME NEW kind, Fail(kind) PROVE EInv'
  BY <1>15, FailKeeps
<1>16. CASE Ceiling(page) /\ Assembled(Taken(page), TRUE)
  BY <1>16, <1>11, <1>12, <1>14
<1>17. CASE ~Ceiling(page) /\ page.last /\ Assembled(Taken(page), FALSE)
  BY <1>17, <1>11, <1>13, <1>14
<1>18. CASE items' = Taken(page) /\ UNCHANGED <<pc, report, cache, store>>
  <2>1. Assembling'
    <3>1. Collection(report)' = all
      BY <1>1, <1>18, ScansStay DEF all, sidecarVars
    <3> QED BY <1>1, <1>18, <1>9, <1>10, <3>1 DEF Assembling
  <2>2. ETypes' /\ CacheIsWhole'
    BY <1>18 DEF EInv, ETypes, Counted, CacheIsWhole, CountedAgain, sidecarVars
  <2>3. StoreIsWhole'
    BY <1>18, ScansStay DEF EInv, StoreIsWhole, sidecarVars
  <2> QED BY <2>1, <2>2, <2>3 DEF EInv
<1> QED BY <1>15, <1>16, <1>17, <1>18 DEF ReadPage

\* A page read, of the report's own life or of another that counted up to it.
LEMMA ReadKeeps ==
  ASSUME EInv, pc = "page", NEW size \in Nat, NEW page,
         page.items = PageOf(size).items, page.last => PageOf(size).last,
         page.generation = published.generation,
         ReadPage(page), UNCHANGED sidecarVars
  PROVE  EInv'
<1>1. Counted(report) /\ Counted(published) /\ report.generation # 0
  BY DEF EInv, ETypes, Assembling
<1>2. CASE PageRefused(page)
  BY <1>2, FailKeeps DEF ReadPage
<1>3. CASE CountedAgain(report.generation)
  BY <1>3, ReadAgain
<1>4. CASE ~PageRefused(page) /\ ~CountedAgain(report.generation)
  <2>1. published.generation = report.generation
    BY <1>4 DEF PageRefused
  <2>2. published.life = report.life
    BY <1>1, <1>4, <2>1, LivesDiffer
  <2>3. Collection(published) = Collection(report)
    BY <2>1, <2>2 DEF Collection, Scan
  <2> QED BY <1>4, <2>3, ReadOwn
<1> QED BY <1>2, <1>3, <1>4

\* The report is fetched: with the empty collection before the first scan,
\* with the one kept if it is of that generation, or to be assembled for.
LEMMA SnapshotKeeps == ASSUME EInv, FetchSnapshot PROVE EInv'
<1>1. Counted(published)
  BY DEF EInv, ETypes
<1>2. items = <<>>
  BY DEF EInv, Assembling, FetchSnapshot
<1>3. report' = published /\ items' = <<>> /\ UNCHANGED sidecarVars
  BY <1>2 DEF FetchSnapshot
<1>4. CASE /\ published.generation = 0
           /\ cache' = [NoCache EXCEPT !.assembled = TRUE]
           /\ Publish(published, cache')
  <2> DEFINE kept == cache'
  <2>1. kept.generation = 0 /\ kept.backups = <<>> /\ kept.truncated = FALSE
    BY <1>4 DEF NoCache
  <2>2. Whole(kept.backups, kept.truncated, Collection(published))
    BY <1>4, <2>1 DEF Collection, Whole, IsPrefix
  <2>3. Publish(published, kept) /\ cache' = kept
    BY <1>4
  <2> HIDE DEF kept
  <2> QED BY <1>1, <1>3, <1>4, <2>1, <2>2, <2>3, PublishKeeps
<1>5. CASE /\ published.generation # 0 /\ Reusable(published)
           /\ Publish(published, cache) /\ UNCHANGED cache
  <2>1. cache.generation = published.generation /\ cache.generation # 0
    BY <1>5 DEF Reusable
  <2>2. \/ CountedAgain(published.generation)
        \/ Whole(cache.backups, cache.truncated, Collection(published))
    <3> SUFFICES ASSUME ~CountedAgain(published.generation)
                 PROVE  Whole(cache.backups, cache.truncated, Collection(published))
      OBVIOUS
    <3>1. PICK life \in 1..MaxLives :
            /\ <<life, cache.generation>> \in DOMAIN scanned
            /\ Whole(cache.backups, cache.truncated, scanned[<<life, cache.generation>>])
      BY <2>1 DEF EInv, CacheIsWhole
    <3>2. <<published.life, published.generation>> \in DOMAIN scanned
          /\ published.life \in 1..MaxLives
      BY <1>1, <2>1 DEF Counted, Scan
    <3>3. life = published.life
      BY <2>1, <3>1, <3>2 DEF CountedAgain
    <3> QED BY <2>1, <3>1, <3>3 DEF Collection, Scan
  <2> QED BY <1>1, <1>3, <1>5, <2>1, <2>2, PublishKeeps
<1>6. CASE published.generation # 0 /\ pc' = "page" /\ UNCHANGED <<cache, backoff, store>>
  <2>1. ETypes'
    BY <1>1, <1>3, <1>6 DEF EInv, ETypes, Counted, sidecarVars
  <2>2. Assembling'
    <3>1. Collection(published) \in Seq(Items)
      BY <1>1, <1>6 DEF EInv, ETypes, Counted, Collection
    <3>2. 0 \in 0..Len(Collection(published)) /\ SubSeq(Collection(published), 1, 0) = <<>>
      BY <3>1
    <3>3. Collection(report)' = Collection(published)
      BY <1>3 DEF Collection, Scan, sidecarVars
    <3> QED BY <1>3, <1>6, <3>2, <3>3 DEF Assembling
  <2>3. CacheIsWhole'
    BY <1>3, <1>6 DEF EInv, CacheIsWhole, CountedAgain, sidecarVars
  <2>4. StoreIsWhole'
    BY <1>3, <1>6, ScansStay DEF EInv, StoreIsWhole, sidecarVars
  <2> QED BY <2>1, <2>2, <2>3, <2>4 DEF EInv
<1> QED BY <1>4, <1>5, <1>6 DEF FetchSnapshot

\* What is kept and shown stands while the sidecar only adds to what it scanned.
LEMMA AddedKeeps ==
  ASSUME EInv, Counted(published)',
         DOMAIN scanned \subseteq DOMAIN scanned',
         \A s \in DOMAIN scanned : scanned'[s] = scanned[s],
         scanned' \in [DOMAIN scanned' -> Seq(Items)],
         UNCHANGED <<report, items, cache, store, pc>>
  PROVE  EInv'
<1> USE DEF EInv
<1>1. \A g : CountedAgain(g) => CountedAgain(g)'
  BY ScansStay
<1>2. Counted(report)' /\ Collection(report)' = Collection(report)
  BY ScansStay DEF ETypes
<1>3. store.has => Counted(store.report)' /\ Collection(store.report)' = Collection(store.report)
  BY ScansStay DEF StoreIsWhole
<1>4. ETypes'
  BY <1>2 DEF ETypes
<1>5. Assembling'
  BY <1>1, <1>2 DEF Assembling
<1>6. CacheIsWhole'
  <2>1. CountedAgain(cache.generation) => CountedAgain(cache.generation)'
    BY <1>1
  <2> QED BY <2>1 DEF CacheIsWhole
<1>7. StoreIsWhole'
  <2>1. CountedAgain(store.report.generation) => CountedAgain(store.report.generation)'
    BY <1>1
  <2> QED BY <1>3, <2>1 DEF StoreIsWhole
<1> QED BY <1>4, <1>5, <1>6, <1>7

\* The sidecar publishes, or starts again: what was scanned keeps its collection.
LEMMA SidecarKeeps == ASSUME EInv, Sidecar PROVE EInv'
<1>1. Counted(published) /\ scanned \in [DOMAIN scanned -> Seq(Items)]
  BY DEF EInv, ETypes
<1>2. published \in Reports
  BY <1>1 DEF Counted
<1>3. CASE CompleteScan
  <2>1. PICK found \in SUBSET Items :
          scanned' = [s \in DOMAIN scanned \cup {Scan(published')} |->
                          IF s \in DOMAIN scanned THEN scanned[s] ELSE SetToSeq(found)]
    BY <1>3 DEF CompleteScan
  <2>2. SetToSeq(found) \in Seq(Items)
    <3>1. IsFiniteSet(found)
      BY FS_Subset, BoundsAssumption
    <3>2. SetToSeq(found) \in Seq(found)
      BY <3>1, SetToSeqType
    <3> QED BY <3>2
  <2>3. published' = [published EXCEPT !.revision = @ + 1, !.generation = @ + 1, !.sourceStale = FALSE]
        /\ UNCHANGED <<report, items, cache, store, pc>>
    BY <1>3 DEF CompleteScan, pollerVars
  <2>4. published' \in Reports /\ published'.life = published.life
    <3>1. published' = [life |-> published.life, revision |-> published.revision + 1,
                        generation |-> published.generation + 1, uid |-> published.uid,
                        sourceStale |-> FALSE]
      BY <1>2, <2>3 DEF Reports
    <3>2. /\ published.revision + 1 \in Nat /\ published.generation + 1 \in Nat
          /\ published.life \in Nat /\ published.uid \in Nat /\ FALSE \in BOOLEAN
      BY <1>2 DEF Reports
    <3>3. published' \in Reports
      BY <3>1, <3>2, Zenon DEF Reports
    <3> QED BY <3>1, <3>3
  <2>5. DOMAIN scanned' = DOMAIN scanned \cup {Scan(published')}
    BY <2>1
  <2>6. scanned' \in [DOMAIN scanned' -> Seq(Items)] /\ \A s \in DOMAIN scanned : scanned'[s] = scanned[s]
    BY <1>1, <2>1, <2>2, <2>5
  <2>7. Counted(published)'
    BY <1>1, <2>4, <2>5 DEF Counted, Scan
  <2> QED BY <2>3, <2>5, <2>6, <2>7, AddedKeeps
<1>4. CASE FailRefresh
  <2>1. published' = [published EXCEPT !.revision = @ + 1, !.sourceStale = TRUE]
        /\ UNCHANGED <<scanned, report, items, cache, store, pc>>
    BY <1>4 DEF FailRefresh, pollerVars
  <2>2. published' \in Reports
    <3>1. published' = [life |-> published.life, revision |-> published.revision + 1,
                        generation |-> published.generation, uid |-> published.uid,
                        sourceStale |-> TRUE]
      BY <1>2, <2>1 DEF Reports
    <3>2. /\ published.revision + 1 \in Nat /\ published.generation \in Nat
          /\ published.life \in Nat /\ published.uid \in Nat /\ TRUE \in BOOLEAN
      BY <1>2 DEF Reports
    <3> QED BY <3>1, <3>2, Zenon DEF Reports
  <2>3. published'.life = published.life /\ published'.generation = published.generation
    BY <1>2, <2>1 DEF Reports
  <2>4. Counted(published)'
    BY <1>1, <2>1, <2>2, <2>3 DEF Counted, Scan
  <2> QED BY <1>1, <2>1, <2>4, AddedKeeps
<1>5. CASE RestartSidecar
  <2>1. published' = [NoScan EXCEPT !.life = published.life + 1] /\ published.life < MaxLives
        /\ UNCHANGED <<scanned, report, items, cache, store, pc>>
    BY <1>5 DEF RestartSidecar, pollerVars
  <2>2. published' = [life |-> published.life + 1, revision |-> 1, generation |-> 0,
                      uid |-> SidecarUID, sourceStale |-> FALSE]
    BY <2>1 DEF NoScan
  <2>3. published.life + 1 \in Nat /\ published.life + 1 \in 1..MaxLives
    BY <1>1, <2>1, BoundsAssumption DEF Counted
  <2>4. published' \in Reports
    BY <2>2, <2>3 DEF Reports, SidecarUID
  <2>5. Counted(published)'
    BY <2>2, <2>3, <2>4 DEF Counted
  <2> QED BY <1>1, <2>1, <2>5, AddedKeeps
<1> QED BY <1>3, <1>4, <1>5 DEF Sidecar

\* Every step keeps it.
LEMMA EvidenceNext == EInv /\ [Next]_vars => EInv'
<1> SUFFICES ASSUME EInv, [Next]_vars PROVE EInv'
  OBVIOUS
<1>1. CASE Sidecar
  BY <1>1, SidecarKeeps
<1>2. CASE RequestFails
  BY <1>2, FailKeeps DEF RequestFails
<1>3. CASE FetchSnapshot
  BY <1>3, SnapshotKeeps
<1>4. CASE FetchPage
  <2>1. PICK size \in PageSizes : ReadPage(PageOf(size))
    BY <1>4 DEF FetchPage
  <2>2. size \in Nat /\ PageOf(size).generation = published.generation
    BY BoundsAssumption DEF PageOf
  <2> QED BY <1>4, <2>1, <2>2, ReadKeeps DEF FetchPage
<1>5. CASE FetchEmptyPage
  <2> DEFINE page == [PageOf(0) EXCEPT !.last = FALSE]
  <2>1. page.items = PageOf(0).items /\ ~page.last /\ page.generation = published.generation
    BY DEF PageOf
  <2>2. pc = "page" /\ ReadPage(page) /\ UNCHANGED sidecarVars
    BY <1>5 DEF FetchEmptyPage
  <2> HIDE DEF page
  <2> QED BY <2>1, <2>2, ReadKeeps
<1>6. CASE PublicationChanged
  BY <1>6, FailKeeps DEF PublicationChanged, sidecarVars
<1>7. CASE FetchOtherPage
  <2> DEFINE page == [revision |-> published.revision, generation |-> published.generation,
                      items |-> Collection(published), last |-> TRUE]
  <2>1. PageRefused(page)
    BY <1>7 DEF FetchOtherPage, PageRefused
  <2>2. ReadPage(page) /\ UNCHANGED sidecarVars
    BY <1>7 DEF FetchOtherPage
  <2> HIDE DEF page
  <2>3. Fail("invalid")
    BY <2>1, <2>2 DEF ReadPage
  <2> QED BY <2>2, <2>3, FailKeeps
<1>8. CASE PollAgain \/ UNCHANGED vars
  <2>1. UNCHANGED <<published, scanned, report, items, cache, store>> /\ (pc' = "page" <=> pc = "page")
    BY <1>8 DEF PollAgain, vars, sidecarVars, pollerVars
  <2>2. ETypes' /\ Assembling'
    BY <2>1 DEF EInv, ETypes, Counted, Assembling, CountedAgain, Collection, Scan
  <2>3. CacheIsWhole' /\ StoreIsWhole'
    BY <2>1 DEF EInv, Counted, CacheIsWhole, StoreIsWhole, CountedAgain, Collection, Scan
  <2> QED BY <2>2, <2>3 DEF EInv
<1> QED BY <1>1, <1>2, <1>3, <1>4, <1>5, <1>6, <1>7, <1>8 DEF Next, Poll

\* What readers are shown of the repository is one publication: the
\* collection beside a report is that of the report's own generation, whole,
\* or its beginning and marked, however the sidecar publishes between two
\* pages and whatever fails (poller.go: "a report and its collection always
\* land atomically or not at all"), but for a generation that two lives of the
\* sidecar counted up to, which the poller cannot tell apart.
THEOREM OnePublicationHolds == Spec => []OnePublication
<1>1. EInv => OnePublication
  BY DEF EInv, StoreIsWhole, Whole, OnePublication
<1> QED BY <1>1, EvidenceInit, EvidenceNext, PTL DEF Spec

\* What failed is marked: a store out of contact is stale.
FailureIsMarked == store.has /\ store.failure # "none" => store.stale

\* Every step keeps the mark of a failed sweep.
LEMMA FailureNext == FailureIsMarked /\ [Next]_vars => FailureIsMarked'
<1> SUFFICES ASSUME FailureIsMarked, [Next]_vars PROVE FailureIsMarked'
  OBVIOUS
<1>1. ASSUME UNCHANGED store PROVE FailureIsMarked'
  BY <1>1 DEF FailureIsMarked
<1>2. ASSUME NEW kind, Fail(kind) PROVE FailureIsMarked'
  <2>1. store'.has = store.has /\ store'.stale = store.has
    BY <1>2 DEF Fail
  <2> QED BY <2>1 DEF FailureIsMarked
<1>3. ASSUME NEW fetched, NEW kept, Publish(fetched, kept) PROVE FailureIsMarked'
  BY <1>3 DEF Publish, FailureIsMarked
<1>4. ASSUME NEW page, ReadPage(page) PROVE FailureIsMarked'
  BY <1>1, <1>2, <1>3, <1>4 DEF ReadPage, Assembled
<1>5. CASE Sidecar \/ PollAgain \/ UNCHANGED vars
  BY <1>1, <1>5 DEF Sidecar, CompleteScan, FailRefresh, RestartSidecar, PollAgain, vars
<1>6. CASE RequestFails \/ PublicationChanged
  BY <1>2, <1>6 DEF RequestFails, PublicationChanged
<1>7. CASE FetchSnapshot
  BY <1>1, <1>3, <1>7 DEF FetchSnapshot
<1>8. CASE FetchPage \/ FetchEmptyPage \/ FetchOtherPage
  BY <1>4, <1>8 DEF FetchPage, FetchEmptyPage, FetchOtherPage
<1> QED BY <1>5, <1>6, <1>7, <1>8 DEF Next, Poll

\* A conclusion is only drawn from evidence in contact, of the observed
\* cluster, with a catalog in contact.
LEMMA ConcludedInContact ==
  ASSUME NEW catalog, NEW cluster, degradedReason(store, catalog, cluster) = ""
  PROVE  store.has /\ ~store.stale /\ cluster.uid = store.report.uid
<1>1. store.has
  BY DEF degradedReason
<1>2. identity(store.report, cluster) \notin {"mismatch", "unknown"}
  BY DEF degradedReason, identity
<1>3. ~store.stale
  BY DEF degradedReason, identity
<1> QED BY <1>1, <1>2, <1>3 DEF identity

\* A discrepancy or an orphan is concluded from a whole collection of the
\* report's own generation, in contact (crosscheck.go, matchOutcome and
\* buildOrphans), whatever the Backup resources and the Cluster are, but for a
\* generation counted again.
THEOREM AbsenceHolds == Spec => []AbsenceIsConcluded
<1>1. EInv /\ FailureIsMarked => AbsenceIsConcluded
  <2> SUFFICES ASSUME EInv, FailureIsMarked,
                      NEW held \in SUBSET Items, NEW stale \in BOOLEAN, NEW cut \in BOOLEAN,
                      NEW behind \in BOOLEAN, NEW uid \in 0..SidecarUID + 1,
                      NEW claims \in IF cut THEN SUBSET held ELSE {held}
               PROVE  LET catalog == [claims |-> claims, stale |-> stale, truncated |-> cut]
                          cluster == [uid |-> uid, stale |-> behind]
                          present == Range(Collection(store.report))
                          orphans == Orphans(store, catalog, cluster)
                          denied  == {id \in claims : Outcome(id, store, catalog, cluster) = "discrepancy"} IN
                      /\ denied \cap present = {} \/ CountedAgain(store.report.generation)
                      /\ orphans \subseteq present \/ CountedAgain(store.report.generation)
                      /\ orphans \cap held = {}
                      /\ denied \cup orphans # {} => /\ store.failure = "none"
                                                     /\ uid = store.report.uid
    BY Zenon DEF AbsenceIsConcluded
  <2> DEFINE catalog == [claims |-> claims, stale |-> stale, truncated |-> cut]
             cluster == [uid |-> uid, stale |-> behind]
             present == Range(Collection(store.report))
             orphans == Orphans(store, catalog, cluster)
             denied  == {id \in claims : Outcome(id, store, catalog, cluster) = "discrepancy"}
  <2>1. catalog.claims = claims /\ catalog.truncated = cut /\ cluster.uid = uid
    OBVIOUS
  <2>2. ASSUME NEW id \in denied
        PROVE  /\ degradedReason(store, catalog, cluster) = ""
               /\ id \notin Range(store.backups) /\ ~store.truncated
    <3>1. Outcome(id, store, catalog, cluster) = "discrepancy"
      OBVIOUS
    <3> HIDE DEF catalog, cluster
    <3> QED BY <3>1 DEF Outcome
  <2>3. ASSUME NEW id \in orphans
        PROVE  /\ degradedReason(store, catalog, cluster) = ""
               /\ id \in Range(store.backups) \ claims /\ ~store.truncated /\ ~cut
    <3>1. id \in Orphans(store, catalog, cluster)
      OBVIOUS
    <3> HIDE DEF catalog, cluster
    <3> QED BY <2>1, <3>1 DEF Orphans
  <2> HIDE DEF catalog, cluster, orphans, denied
  <2>4. store.has /\ ~store.truncated /\ ~CountedAgain(store.report.generation) =>
            Range(store.backups) = present
    BY DEF EInv, StoreIsWhole, Whole
  <2>5. degradedReason(store, catalog, cluster) = "" => store.has /\ store.failure = "none" /\ uid = store.report.uid
    BY <2>1, ConcludedInContact DEF FailureIsMarked
  <2> HIDE DEF present
  <2>6. denied \cap present = {} \/ CountedAgain(store.report.generation)
    BY <2>2, <2>4, <2>5
  <2>7. /\ orphans \subseteq present \/ CountedAgain(store.report.generation)
        /\ orphans \cap held = {}
    BY <2>3, <2>4, <2>5
  <2>8. denied \cup orphans # {} => store.failure = "none" /\ uid = store.report.uid
    BY <2>2, <2>3, <2>5
  <2> QED BY <2>6, <2>7, <2>8 DEF catalog, cluster, orphans, denied, present
<1>2. Init => FailureIsMarked
  BY DEF Init, FailureIsMarked
<1> QED BY <1>1, <1>2, FailureNext, EvidenceInit, EvidenceNext, PTL DEF Spec
===============================================================================
