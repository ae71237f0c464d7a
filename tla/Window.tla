------------------------------- MODULE Window -------------------------------
(***************************************************************************)
(* internal/metrics: the bounded window over the scraped exporters and its  *)
(* snapshot.  One counter series stands for them all.  A rate is named by   *)
(* the two sweeps it was computed between, a rollup bucket by its start and *)
(* how many rates it holds.                                                 *)
(***************************************************************************)
EXTENDS Integers, Sequences, FiniteSets, Functions, SequencesExt

CONSTANTS
    RawCap,         \* RawWindow / Interval
    RollCap,        \* Retention / RollupEvery
    RollupEvery,    \* sweeps to a bucket
    MaxInstances    \* Limits.MaxInstances

ASSUME LimitsAssumption == {RawCap, RollCap, RollupEvery, MaxInstances} \subseteq Nat \ {0}

\* ring: a fixed buffer, the slot written next, and whether it has wrapped.
newRing(cap) == [buf |-> [i \in 1..cap |-> <<>>], next |-> 1, full |-> FALSE]

push(ring, v) ==
    LET wraps == ring.next = Len(ring.buf) IN
    [buf |-> [ring.buf EXCEPT ![ring.next] = v],
     next |-> IF wraps THEN 1 ELSE ring.next + 1,
     full |-> ring.full \/ wraps]

\* Mutant: the buffer is read as it lies, wrapped or not.
eachAsItLies(ring) == SubSeq(ring.buf, 1, IF ring.full THEN Len(ring.buf) ELSE ring.next - 1)

\* each: the retained entries, oldest first.
each(ring) ==
    (IF ring.full THEN SubSeq(ring.buf, ring.next, Len(ring.buf)) ELSE <<>>)
        \o SubSeq(ring.buf, 1, ring.next - 1)

refill(cap, entries) ==
    LET filled[n \in 0..Len(entries)] ==
            IF n = 0 THEN newRing(cap) ELSE push(filled[n - 1], entries[n]) IN
    filled[Len(entries)]

NoBucket == [start |-> 0, count |-> 0]
Never == 0

newInstance == [raw |-> newRing(RawCap), roll |-> newRing(RollCap), open |-> NoBucket,
                prev |-> 0, prevAt |-> Never, instant |-> Never, lastAt |-> Never]

bucketOf(rate) == rate.at - (rate.at % RollupEvery)

\* instrument.append: one rate, into the raw ring and the open bucket.
append(inst, rate) ==
    LET start  == bucketOf(rate)
        closes == inst.open.count > 0 /\ inst.open.start # start
        open   == IF closes \/ inst.open.count = 0
                  THEN [start |-> start, count |-> 1]
                  ELSE [inst.open EXCEPT !.count = @ + 1] IN
    [inst EXCEPT !.raw  = push(@, rate),
                 !.roll = IF closes THEN push(@, inst.open) ELSE @,
                 !.open = open]

\* evictForLocked: which instance may go for one more, the one least
\* recently observed; several when they were last observed together.
evictable(window) ==
    IF Cardinality(DOMAIN window) < MaxInstances THEN {{}}
    ELSE {{n} : n \in {n \in DOMAIN window :
                          \A o \in DOMAIN window : window[n].lastAt <= window[o].lastAt}}

\* Observe's counter: no rate on first sight, nor after a reset.
noRate(inst, at, value) ==
    \/ inst.prevAt = Never
    \/ at <= inst.prevAt
    \/ value < inst.prev

\* Observe on a tracked instance.
observed(inst, at, value) ==
    LET seen == [inst EXCEPT !.lastAt = at, !.instant = at, !.prev = value, !.prevAt = at] IN
    IF noRate(inst, at, value) THEN seen
    ELSE append(seen, [since |-> inst.prevAt, at |-> at])

\* Observe: the windows one reading may leave.
Observe(window, name, at, value) ==
    IF name \in DOMAIN window
    THEN {[window EXCEPT ![name] = observed(@, at, value)]}
    ELSE {[n \in (DOMAIN window \ gone) \cup {name} |->
               IF n = name THEN observed(newInstance, at, value) ELSE window[n]] :
          gone \in evictable(window)}

-----------------------------------------------------------------------------
(* Range: one series as columns on one time axis.                           *)

Tiers == {"raw", "rollup"}
step(tier) == IF tier = "raw" THEN 1 ELSE RollupEvery

\* When an instance has a value at a tier.
points(inst, tier) ==
    IF tier = "raw" THEN {rate.at : rate \in Range(each(inst.raw))}
    ELSE {b.start : b \in {b \in Range(each(inst.roll)) \cup {inst.open} : b.count > 0}}

\* withGapBreaksLocked: a row where nothing is, inside every span of more
\* than a step and a half.
withGapBreaks(times, every) ==
    FlattenSeq([i \in DOMAIN times |->
        IF i > 1 /\ times[i] - times[i - 1] > (every * 3) \div 2
        THEN <<times[i - 1] + every, times[i]>> ELSE <<times[i]>>])

\* The times, sorted: the k-th has k - 1 before it.
inOrder(times) ==
    [k \in 1..Cardinality(times) |->
        CHOOSE t \in times : Cardinality({u \in times : u < t}) = k - 1]

rows(window, tier) ==
    withGapBreaks(inOrder(UNION {points(window[n], tier) : n \in DOMAIN window}), step(tier))

-----------------------------------------------------------------------------
\* Export: the retained entries.  Counter baselines and instants stay out.
Export(window) ==
    [n \in DOMAIN window |->
        [raw |-> each(window[n].raw), roll |-> each(window[n].roll),
         open |-> window[n].open, lastAt |-> window[n].lastAt]]

\* Mutant: the baseline is taken to be the last sweep of the snapshot.
ImportWithBaselines(state) ==
    [n \in DOMAIN state |->
        [newInstance EXCEPT !.raw = refill(RawCap, state[n].raw),
                            !.roll = refill(RollCap, state[n].roll),
                            !.open = state[n].open,
                            !.prevAt = state[n].lastAt,
                            !.lastAt = state[n].lastAt]]

\* Import into an empty store: baselines start empty.  A snapshot holds no
\* more instances than the cap it was taken under.
Import(state) ==
    [n \in DOMAIN state |->
        [newInstance EXCEPT !.raw = refill(RawCap, state[n].raw),
                            !.roll = refill(RollCap, state[n].roll),
                            !.open = state[n].open,
                            !.lastAt = state[n].lastAt]]
==============================================================================
