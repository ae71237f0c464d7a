------------------------------ MODULE LogFollow ------------------------------
(***************************************************************************)
(* internal/logstream: the runner, which keeps a follower goroutine for     *)
(* every container the pod roster says is running, and its two sinks, the   *)
(* matcher (what matched, and which streams are not being read) and the     *)
(* buffer (recent lines, and a marker wherever lines were missed).          *)
(*                                                                          *)
(* A member is a container.  A line is its number in what the container     *)
(* writes.  The delay before a reconnection is a step; its length is not    *)
(* modelled.                                                                *)
(***************************************************************************)
EXTENDS Integers, Sequences, FiniteSetsExt, Functions

CONSTANTS
    Members,        \* containers, numbered
    PerContainer,   \* the buffer's bound on one container, in bytes
    Total,          \* the buffer's bound on all of them
    MaxFollowers,   \* bound: followers started
    MaxLines,       \* bound: lines each container writes
    MaxBreaks,      \* bound: streams that end or do not open
    MaxRosters      \* bound: rosters published

ASSUME BoundsAssumption ==
    /\ {PerContainer, Total, MaxFollowers, MaxBreaks, MaxRosters} \subseteq Nat
    /\ Members \subseteq Nat /\ IsFiniteSet(Members)
    /\ MaxLines \in [Members -> Nat]

VARIABLES
    written,    \* containers: how many lines each has written
    roster,     \* the pod store: is there a snapshot, and who runs in it
    published,  \* bound: rosters so far
    breaks,     \* bound: breaks so far
    cancelled,  \* the runner's context is done
    phase,      \* the runner goroutine
    running,    \* the runner: the current follower of each member, or NoOne
    followers,  \* every follower started, by its number
    unread,     \* the matcher: members no stream is open for
    spoke,      \* history: the follower the matcher last heard of each member, or NoOne
    buffer      \* the buffer: the entries of each member, oldest first

envVars == <<written, roster, published, breaks, cancelled>>
vars == <<envVars, phase, running, followers, unread, spoke, buffer>>

NoOne == 0
Alive == {i \in DOMAIN followers : followers[i].pc # "gone"}

\* A follower's context is its own, under the runner's.
Stopped(i) == followers[i].stop \/ cancelled

Nth(numbers, k) == CHOOSE n \in numbers : Cardinality({o \in numbers : o < n}) = k - 1

\* The matcher is told of a member by its follower.
Tells(i, marked) == unread' = marked /\ spoke' = [spoke EXCEPT ![followers[i].of] = i]

Goes(i, pc) == followers' = [followers EXCEPT ![i].pc = pc]

Init ==
    /\ written = [m \in Members |-> 0]
    /\ roster \in {[known |-> FALSE, members |-> {}]} \cup
                  {[known |-> TRUE, members |-> present] : present \in SUBSET Members}
    /\ published = 0
    /\ breaks = 0
    /\ cancelled = FALSE
    /\ phase = "start"
    /\ running = [m \in Members |-> NoOne]
    /\ followers = <<>>
    /\ unread = {}
    /\ spoke = [m \in Members |-> NoOne]
    /\ buffer = [m \in Members |-> <<>>]

-----------------------------------------------------------------------------
(* Outside: containers write, the pod collector publishes, the process ends.*)

Write(m) ==
    /\ written[m] < MaxLines[m]
    /\ written' = [written EXCEPT ![m] = @ + 1]
    /\ UNCHANGED <<roster, published, breaks, cancelled, phase, running, followers, unread, spoke, buffer>>

\* followable: the containers a snapshot reports running.
PublishRoster ==
    /\ published < MaxRosters
    /\ published' = published + 1
    /\ \E present \in SUBSET Members :
        /\ roster' = [known |-> TRUE, members |-> present]
        /\ roster' # roster
    /\ UNCHANGED <<written, breaks, cancelled, phase, running, followers, unread, spoke, buffer>>

CancelRun ==
    /\ ~cancelled
    /\ cancelled' = TRUE
    /\ UNCHANGED <<written, roster, published, breaks, phase, running, followers, unread, spoke, buffer>>

-----------------------------------------------------------------------------
(* buffer.go.  An entry is a line, or a marker: line 0.  `at' orders all    *)
(* entries; `by' is the follower, which the code does not keep.             *)

\* A line takes two bytes, a marker one; no two entries have one `at'.
SizeOf(entries) == Cardinality(entries) + Cardinality({e \in entries : e.line # 0})
All(streams) == UNION {Range(streams[m]) : m \in Members}
Clock == Max({0} \cup {e.at : e \in All(buffer)})

\* Buffer.dropOldest, n times over: entries go from the front.
dropOldest(entries, n) == SubSeq(entries, n + 1, Len(entries))

\* A container's oldest entries go until the rest is within its bound.
OwnTrimmed(entries) ==
    dropOldest(entries, Min({n \in 0..Len(entries) :
                                SizeOf(Range(dropOldest(entries, n))) <= PerContainer}))

\* The oldest entries of all go until the rest is within the total.
AllTrimmed(streams, now) ==
    LET held == All(streams)
        cut == Min({t \in 0..now : SizeOf({e \in held : e.at > t}) <= Total})
        old(entries) == {k \in DOMAIN entries : entries[k].at <= cut}
    IN  [m \in Members |-> dropOldest(streams[m], Cardinality(old(streams[m])))]

\* Buffer.append: a noisy container loses its own history before it costs another its.
Retain(m, i, n) ==
    \E now \in {Clock + 1} :
        LET entry == [at |-> now, by |-> i, line |-> n] IN
        \E streams \in {[buffer EXCEPT ![m] = OwnTrimmed(Append(@, entry))]} :
            buffer' = AllTrimmed(streams, now)

-----------------------------------------------------------------------------
(* runner.go: a follower.                                                   *)

Follower(m) == [of |-> m, stop |-> FALSE, pc |-> "start", at |-> 0]

\* The container counts as unread from the moment it is worth following.
Begin(i) ==
    /\ followers[i].pc = "start"
    /\ Tells(i, unread \cup {followers[i].of})
    /\ Goes(i, IF Stopped(i) THEN "leave" ELSE "open")
    /\ UNCHANGED <<envVars, phase, running, buffer>>

Break == breaks < MaxBreaks /\ breaks' = breaks + 1

OpenFails(i) ==
    /\ followers[i].pc = "open"
    /\ \/ Stopped(i) /\ UNCHANGED breaks
       \/ ~Stopped(i) /\ Break
    /\ Goes(i, "ended")
    /\ UNCHANGED <<written, roster, published, cancelled, phase, running, unread, spoke, buffer>>

\* The stream starts from now; Attached is reported whatever the context says.
Opens(i) ==
    /\ followers[i].pc = "open"
    /\ Tells(i, unread \ {followers[i].of})
    /\ followers' = [followers EXCEPT ![i].pc = "read", ![i].at = written[followers[i].of]]
    /\ UNCHANGED <<envVars, phase, running, buffer>>

\* A line arrives, and is offered to the sinks unless the follower was told to stop.
Reads(i) ==
    LET m == followers[i].of IN
    /\ followers[i].pc = "read"
    /\ followers[i].at < written[m]
    /\ IF Stopped(i)
       THEN Goes(i, "ended") /\ UNCHANGED buffer
       ELSE /\ followers' = [followers EXCEPT ![i].at = @ + 1]
            /\ Retain(m, i, followers[i].at + 1)
    /\ UNCHANGED <<envVars, phase, running, unread, spoke>>

\* Mutant: a read is not interrupted.
StreamEndsAlone(i) ==
    /\ followers[i].pc = "read"
    /\ Break
    /\ Goes(i, "ended")
    /\ UNCHANGED <<written, roster, published, cancelled, phase, running, unread, spoke, buffer>>

\* The container restarted, the connection dropped, a line was too long, or the
\* context is done.
StreamEnds(i) ==
    /\ followers[i].pc = "read"
    /\ \/ Stopped(i) /\ UNCHANGED breaks
       \/ ~Stopped(i) /\ Break
    /\ Goes(i, "ended")
    /\ UNCHANGED <<written, roster, published, cancelled, phase, running, unread, spoke, buffer>>

\* Mutant: the reading window is closed when the next stream opens.
ReportsLate(i) ==
    /\ followers[i].pc = "ended"
    /\ IF Stopped(i)
       THEN Goes(i, "leave") /\ UNCHANGED buffer
       ELSE /\ Retain(followers[i].of, i, 0)
            /\ Goes(i, "wait")
    /\ UNCHANGED <<envVars, phase, running, unread, spoke>>

\* Mutant: a reconnection joins the two halves.
ReportsNoGap(i) ==
    /\ followers[i].pc = "ended"
    /\ IF Stopped(i)
       THEN Goes(i, "leave") /\ UNCHANGED <<unread, spoke>>
       ELSE /\ Tells(i, unread \cup {followers[i].of})
            /\ Goes(i, "wait")
    /\ UNCHANGED <<envVars, phase, running, buffer>>

\* Gap and Detached, the moment the stream ends; a stopped follower reports neither.
Reports(i) ==
    /\ followers[i].pc = "ended"
    /\ IF Stopped(i)
       THEN Goes(i, "leave") /\ UNCHANGED <<unread, spoke, buffer>>
       ELSE /\ Retain(followers[i].of, i, 0)
            /\ Tells(i, unread \cup {followers[i].of})
            /\ Goes(i, "wait")
    /\ UNCHANGED <<envVars, phase, running>>

\* Mutant: a stream that ended is given up.
WaitEndsForGood(i) ==
    /\ followers[i].pc = "wait"
    /\ Goes(i, "leave")
    /\ UNCHANGED <<envVars, phase, running, unread, spoke, buffer>>

WaitEnds(i) ==
    /\ followers[i].pc = "wait"
    /\ Goes(i, IF Stopped(i) THEN "leave" ELSE "open")
    /\ UNCHANGED <<envVars, phase, running, unread, spoke, buffer>>

\* The deferred Dropped, then Done.
Leaves(i) ==
    /\ followers[i].pc = "leave"
    /\ Tells(i, unread \ {followers[i].of})
    /\ Goes(i, "gone")
    /\ UNCHANGED <<envVars, phase, running, buffer>>

-----------------------------------------------------------------------------
(* runner.go: Run.                                                          *)

Wanted == IF roster.known THEN roster.members ELSE {}
Dismissed == {m \in Members : running[m] # NoOne} \ Wanted

Missing == Wanted \ {m \in Members : running[m] # NoOne}

Room == Len(followers) + Cardinality(Missing) <= MaxFollowers

\* reconcile, at the start and at every tick; a tick may still win over the cancellation.
Reconcile ==
    /\ phase \in {"start", "run"}
    /\ phase = "start" \/ Dismissed # {} \/ Missing # {}
    /\ phase' = "run"
    /\ Room
    /\ LET told == [i \in DOMAIN followers |-> [followers[i] EXCEPT !.stop =
                       @ \/ \E m \in Dismissed : running[m] = i]]
       IN  /\ followers' = told \o [k \in 1..Cardinality(Missing) |-> Follower(Nth(Missing, k))]
           /\ running' = [m \in Members |->
                  IF m \in Missing THEN Len(followers) + Cardinality({o \in Missing : o <= m})
                  ELSE IF m \in Dismissed THEN NoOne ELSE running[m]]
    /\ UNCHANGED <<envVars, unread, spoke, buffer>>

\* Mutant: Run returns without waiting.
StopAllAtOnce ==
    /\ phase = "run"
    /\ cancelled
    /\ phase' = "done"
    /\ running' = [m \in Members |-> NoOne]
    /\ UNCHANGED <<envVars, followers, unread, spoke, buffer>>

\* stopAll: every follower is cancelled already; forget them.
StopAll ==
    /\ phase = "run"
    /\ cancelled
    /\ phase' = "stopping"
    /\ running' = [m \in Members |-> NoOne]
    /\ UNCHANGED <<envVars, followers, unread, spoke, buffer>>

Returns ==
    /\ phase = "stopping"
    /\ Alive = {}
    /\ phase' = "done"
    /\ UNCHANGED <<envVars, running, followers, unread, spoke, buffer>>

-----------------------------------------------------------------------------
Outside == (\E m \in Members : Write(m)) \/ PublishRoster \/ CancelRun
Follow(i) ==
    \/ Begin(i) \/ OpenFails(i) \/ Opens(i) \/ Reads(i) \/ StreamEnds(i)
    \/ Reports(i) \/ WaitEnds(i) \/ Leaves(i)
Run == Reconcile \/ StopAll \/ Returns

Next == Outside \/ Run \/ \E i \in DOMAIN followers : Follow(i)

Spec == Init /\ [][Next]_vars

\* The goroutines run. A stream that is told to stop ends.
FairSpec ==
    /\ Spec
    /\ WF_vars(Run)
    /\ \A i \in 1..MaxFollowers : WF_vars(i \in DOMAIN followers /\ Follow(i))

-----------------------------------------------------------------------------
Types ==
    /\ phase \in {"start", "run", "stopping", "done"}
    /\ running \in [Members -> 0..Len(followers)]
    /\ unread \subseteq Members
    /\ \A i \in DOMAIN followers :
        /\ followers[i].of \in Members
        /\ followers[i].at \in 0..written[followers[i].of]

\* A follower is stopped or is the one the runner knows for its member; and the runner
\* knows one for each member at most.
OneFollowerEach ==
    phase \in {"start", "run"} =>
        \A i \in Alive : followers[i].stop \/ running[followers[i].of] = i

TypeOK == Types /\ OneFollowerEach

\* While a member's follower has no stream open, the matcher says so, from the first
\* instant and through every reconnection: a check may not clear meanwhile.  Only the
\* last word of a follower that was dismissed, and is still on its way out or in its
\* open, can hide it; and whoever is said to be unread is still followed.
UnreadIsAdmitted ==
    /\ \A m \in unread : \E i \in Alive : followers[i].of = m
    /\ \A m \in Members \ unread :
        LET i == running[m]  by == spoke[m] IN
        (i # NoOne /\ followers[i].pc \in {"open", "wait"}) =>
            by \in 1..i - 1 /\ followers[by].stop

\* Two lines of one follower side by side in the buffer were side by side in the container.
JoinsAreMarked ==
    \A m \in Members :
        \A k \in 1..Len(buffer[m]) - 1 :
            LET one == buffer[m][k]  next == buffer[m][k + 1] IN
            (one.by = next.by /\ one.line # 0 /\ next.line # 0) => next.line = one.line + 1

\* Run returns when no follower can touch a sink any more, and nothing is left unread.
ReturnedMeansSilent == phase = "done" => Alive = {} /\ unread = {}

\* A running follower has the container, or is on its way to it.
Listening(m) == \E i \in Alive : followers[i].of = m /\ followers[i].pc \in {"start", "read", "ended"}

\* A container that stays in the roster is read in the end, or said to be unread.
EveryMemberIsFollowed ==
    \A m \in Members :
        (m \in Wanted) ~> (m \notin Wanted \/ cancelled \/ Listening(m) \/ ~Room)

\* Cancelled, Run returns.
RunReturns == (cancelled /\ phase # "start") ~> (phase = "done")

=============================================================================
