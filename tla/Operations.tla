----------------------------- MODULE Operations -----------------------------
(***************************************************************************)
(* The console's only writes: the day-2 operations (internal/ops, web/ops)  *)
(* and the review of access requests (internal/review, web/accessreview).   *)
(* A reader opens a form, which carries a token; the form is submitted, to  *)
(* this process or the next; the handler checks the reader's level and the  *)
(* token, reads the clock, and sends one request to the API server, which   *)
(* may be served late, after the handler gave up or the process was killed. *)
(***************************************************************************)
EXTENDS Integers, FiniteSets

CONSTANTS
    Posts,      \* submissions (a bound)
    Users,      \* values of the user header, when there is one
    Levels,     \* values of the level header
    Instances,  \* what is well formed as the name of an instance
    Names,      \* names of access requests
    Links,      \* to a confirmation: the operation, the instance named or ""
    Picks,      \* levels picked in a form, some not grantable
    Deployments,\* what is switched on: "operations", "review", both
    MaxAge,     \* CSRFMaxAge
    MaxForms,   \* bound: forms rendered
    MaxNow,     \* bound: the clock
    MaxLives,   \* bound: processes
    MaxFaults   \* bound: what goes wrong around the console

ASSUME ParametersAssumption ==
    /\ {MaxAge, MaxForms, MaxNow, MaxLives, MaxFaults} \subseteq Nat
    /\ Instances \cap {"", "?"} = {} /\ Names \cap {"", "?"} = {}

VARIABLES
    modes,      \* ALLOW_OPERATIONS, ALLOW_ACCESS_REVIEW
    now,        \* the wall clock, in seconds
    life,       \* the process, and with it the key of its tokens
    forms,      \* rendered: the token, and what the reader was shown
    posts,      \* each submission and the handler it runs in
    served,     \* what the API server did of each: "none", "done" or "refused"
    server,     \* the objects at the API server
    listed,     \* the access requests of the last snapshot
    faults      \* bound

vars == <<modes, now, life, forms, posts, served, server, listed, faults>>

Nil == -1

-----------------------------------------------------------------------------
(* ops.go, review.go, authz.go, identity.go: the closed sets, the gates.    *)

catalog == {"backup", "reload", "restart", "promote"}
reviewActions == {"approve", "deny"}
GrantableLevels == {"view", "poweruser", "dba"}

NeedsInstance(op) == op = "promote"

TierNone == 0
TierDBA == 3

ParseLevel(raw) ==
    CASE raw = "dba"       -> TierDBA
      [] raw = "poweruser" -> 2
      [] raw = "view"      -> 1
      [] OTHER             -> TierNone

\* requireLevel, past the wiring check: a usable identity, a level that
\* meets the route's.
requireLevel(min, user, level) == user # "" /\ ParseLevel(level) >= min

sameOriginPOST(site) == site \notin {"cross-site", "same-site"}

\* Operation and target, or action and request.
Context(action, target) == [action |-> action, target |-> target]

-----------------------------------------------------------------------------
(* csrf.go.  A token is the time it was issued and a code of this process,  *)
(* of what it is for and of that time.                                      *)

\* Mutant: the code of the operation alone.
macOfTheAction(context, issued) == <<life, context.action, issued>>

mac(context, issued) == <<life, context, issued>>

Issue(context) == [issued |-> now, mac |-> mac(context, now)]

Verify(context, token) ==
    /\ token.issued <= now
    /\ now - token.issued <= MaxAge
    /\ token.mac = mac(context, token.issued)

Form(context) == [token |-> Issue(context), about |-> context, life |-> life]

-----------------------------------------------------------------------------
Unused == [phase |-> "unused", context |-> Context("", ""), level |-> "", by |-> "",
           at |-> Nil, life |-> 0]

Undecided == [state |-> "Pending", level |-> "", by |-> "", at |-> Nil]
Gone == [Undecided EXCEPT !.state = "gone"]

Pending(request) == request.state = "Pending"

Init ==
    /\ modes \in Deployments
    /\ now = 0
    /\ life = 1
    /\ forms = {}
    /\ posts = [p \in Posts |-> Unused]
    /\ served = [p \in Posts |-> "none"]
    /\ server = [backups |-> {}, reload |-> Nil, restart |-> Nil,
                 promote |-> [target |-> "", at |-> Nil],
                 requests |-> [n \in Names |-> Undecided]]
    /\ listed = server.requests
    /\ faults = 0

-----------------------------------------------------------------------------
(* The pages.                                                               *)

\* handleOperationConfirm: a form for the operation and the instance the
\* link names, "" when it names none.
ConfirmPage(op, query, user, level) ==
    LET target == IF NeedsInstance(op) /\ query \notin Instances THEN "" ELSE query IN
    /\ "operations" \in modes
    /\ requireLevel(TierDBA, user, level)
    /\ Cardinality(forms) < MaxForms
    /\ forms' = forms \cup {Form(Context(op, target))}
    /\ UNCHANGED <<modes, now, life, posts, served, server, listed, faults>>

\* handleAccessRequestsIndex: two forms for each request the snapshot shows
\* undecided.
ReviewPanel(user, level) ==
    LET undecided == {n \in Names : Pending(listed[n])} IN
    /\ "review" \in modes
    /\ requireLevel(TierDBA, user, level)
    /\ Cardinality(forms) + 2 * Cardinality(undecided) <= MaxForms
    /\ forms' = forms \cup {Form(c) : c \in [action : reviewActions, target : undecided]}
    /\ UNCHANGED <<modes, now, life, posts, served, server, listed, faults>>

-----------------------------------------------------------------------------
(* The handlers of a submission, up to the request they send.  Between the  *)
(* check of the token and the request a handler reads nothing that another  *)
(* writes but the clock, which is read twice, in the same second.           *)

Sent(p, context, picked, user) ==
    posts' = [posts EXCEPT ![p] = [phase |-> "sent", context |-> context,
                                   level |-> picked, by |-> user, at |-> now, life |-> life]]

\* Whose operation it is is for the audit line alone.
Execute(p, context) == Sent(p, context, "", "")

\* An approval of what is not grantable sends nothing.
Decide(p, context, picked, user) ==
    IF context.action = "approve" /\ picked \notin GrantableLevels
    THEN posts' = [posts EXCEPT ![p].phase = "failed"]
    ELSE Sent(p, context, picked, user)

\* handleOperationExecute: the target counts only for an operation that
\* needs one.
SubmitOperation(p, op, instance, token, user, level, site) ==
    LET context == Context(op, IF NeedsInstance(op) THEN instance ELSE "") IN
    /\ posts[p].phase = "unused"
    /\ "operations" \in modes
    /\ requireLevel(TierDBA, user, level)
    /\ sameOriginPOST(site)
    /\ NeedsInstance(op) => instance \in Instances
    /\ Verify(context, token)
    /\ Execute(p, context)
    /\ UNCHANGED <<modes, now, life, forms, served, server, listed, faults>>

\* handleAccessDecision: the state of the request is not looked at.
SubmitDecision(p, action, name, picked, token, user, level, site) ==
    /\ posts[p].phase = "unused"
    /\ "review" \in modes
    /\ requireLevel(TierDBA, user, level)
    /\ sameOriginPOST(site)
    /\ Verify(Context(action, name), token)
    /\ Decide(p, Context(action, name), picked, user)
    /\ UNCHANGED <<modes, now, life, forms, served, server, listed, faults>>

-----------------------------------------------------------------------------
(* kube/ops.go, and the API server: a create fails on a name that is taken, *)
(* a merge patch leaves what it does not name.                              *)

\* Mutant: a backup of that name will do.
CreateBackupOnce(p) ==
    [done |-> TRUE, server |-> [server EXCEPT !.backups = @ \cup {posts[p].at}]]

\* CreateBackup: named by the second it was asked for.
CreateBackup(p) ==
    [done |-> posts[p].at \notin server.backups,
     server |-> [server EXCEPT !.backups = @ \cup {posts[p].at}]]

ReloadCluster(p) == [done |-> TRUE, server |-> [server EXCEPT !.reload = posts[p].at]]
RestartCluster(p) == [done |-> TRUE, server |-> [server EXCEPT !.restart = posts[p].at]]
PromoteInstance(p) ==
    [done |-> TRUE,
     server |-> [server EXCEPT !.promote = [target |-> posts[p].context.target, at |-> posts[p].at]]]

\* Mutant: a level on record stays.
WriteKeepingTheLevel(p) ==
    LET name == posts[p].context.target
        old  == server.requests[name] IN
    [done |-> old.state # "gone",
     server |-> IF old.state = "gone" THEN server
        ELSE [server EXCEPT !.requests[name] =
                [state |-> IF posts[p].context.action = "approve" THEN "Approved" ELSE "Denied",
                 level |-> IF old.level # "" THEN old.level ELSE posts[p].level,
                 by |-> posts[p].by, at |-> posts[p].at]]]

\* WriteAccessRequestStatus: a denial names no level.
WriteAccessRequestStatus(p) ==
    LET name    == posts[p].context.target
        old     == server.requests[name]
        approve == posts[p].context.action = "approve" IN
    [done |-> old.state # "gone",
     server |-> IF old.state = "gone" THEN server
        ELSE [server EXCEPT !.requests[name] =
                [state |-> IF approve THEN "Approved" ELSE "Denied",
                 level |-> IF approve THEN posts[p].level ELSE old.level,
                 by |-> posts[p].by, at |-> posts[p].at]]]

Written(p) ==
    CASE posts[p].context.action = "backup"  -> CreateBackup(p)
      [] posts[p].context.action = "reload"  -> ReloadCluster(p)
      [] posts[p].context.action = "restart" -> RestartCluster(p)
      [] posts[p].context.action = "promote" -> PromoteInstance(p)
      [] posts[p].context.action \in reviewActions -> WriteAccessRequestStatus(p)

OnTheWire(p) == posts[p].at # Nil /\ served[p] = "none"

\* The request is served, whatever became of its handler.
Serve(p) ==
    /\ OnTheWire(p)
    /\ server' = Written(p).server
    /\ served' = [served EXCEPT ![p] = IF Written(p).done THEN "done" ELSE "refused"]
    /\ UNCHANGED <<modes, now, life, forms, posts, listed, faults>>

\* It is refused: no right to write, a server that fails.
Refuse(p) ==
    /\ OnTheWire(p)
    /\ faults < MaxFaults
    /\ faults' = faults + 1
    /\ served' = [served EXCEPT ![p] = "refused"]
    /\ UNCHANGED <<modes, now, life, forms, posts, server, listed>>

-----------------------------------------------------------------------------
(* The answer, and with it the one audit line.                              *)

Answer(p) ==
    /\ posts[p].phase = "sent"
    /\ served[p] # "none"
    /\ posts' = [posts EXCEPT ![p].phase = IF served[p] = "done" THEN "accepted" ELSE "failed"]
    /\ UNCHANGED <<modes, now, life, forms, served, server, listed, faults>>

\* RequestTimeout, or the reader went away: the request may still be served.
GiveUp(p) ==
    /\ posts[p].phase = "sent"
    /\ posts' = [posts EXCEPT ![p].phase = "failed"]
    /\ UNCHANGED <<modes, now, life, forms, served, server, listed, faults>>

\* The process is killed and another started, with a key of its own.
Restart ==
    /\ life < MaxLives
    /\ life' = life + 1
    /\ posts' = [p \in Posts |->
            IF posts[p].phase = "sent" THEN [posts[p] EXCEPT !.phase = "failed"] ELSE posts[p]]
    /\ UNCHANGED <<modes, now, forms, served, server, listed, faults>>

-----------------------------------------------------------------------------
(* The surroundings.                                                        *)

\* The snapshot of the access requests catches up.
Refresh ==
    /\ listed # server.requests
    /\ listed' = server.requests
    /\ UNCHANGED <<modes, now, life, forms, posts, served, server, faults>>

\* A request is withdrawn, or asked again under the same name.
Asked(name) ==
    /\ faults < MaxFaults
    /\ faults' = faults + 1
    /\ server' = [server EXCEPT !.requests[name] = IF @.state = "gone" THEN Undecided ELSE Gone]
    /\ UNCHANGED <<modes, now, life, forms, posts, served, listed>>

Tick ==
    /\ now < MaxNow
    /\ now' = now + 1
    /\ UNCHANGED <<modes, life, forms, posts, served, server, listed, faults>>

\* The clock is corrected.
SetBack ==
    /\ faults < MaxFaults /\ now > 0
    /\ faults' = faults + 1
    /\ now' = now - 1
    /\ UNCHANGED <<modes, life, forms, posts, served, server, listed>>

Next ==
    \/ \E user \in Users \cup {""}, level \in Levels :
        \/ \E link \in Links : ConfirmPage(link[1], link[2], user, level)
        \/ ReviewPanel(user, level)
        \/ \E p \in Posts, f \in forms, site \in {"same-origin", "cross-site"} :
            \/ \E op \in catalog, instance \in Instances \cup {"?"} :
                SubmitOperation(p, op, instance, f.token, user, level, site)
            \/ \E action \in reviewActions, name \in Names, picked \in Picks :
                SubmitDecision(p, action, name, picked, f.token, user, level, site)
    \/ \E p \in Posts : Serve(p) \/ Refuse(p) \/ Answer(p) \/ GiveUp(p)
    \/ \E n \in Names : Asked(n)
    \/ Restart \/ Refresh \/ Tick \/ SetBack

Spec == Init /\ [][Next]_vars

\* What the reader of a form is shown when its token does not do for what
\* was filled in: a refusal, and nothing else changes.
TurnedBack(p, f, instance) ==
    LET op == f.about.action IN
    /\ posts[p].phase = "unused"
    /\ op \in catalog
    /\ ~Verify(Context(op, IF NeedsInstance(op) THEN instance ELSE ""), f.token)
    /\ posts' = [posts EXCEPT ![p].phase = "denied"]
    /\ UNCHANGED <<modes, now, life, forms, served, server, listed, faults>>

NextSeen == Next \/ \E p \in Posts, f \in forms, i \in Instances : TurnedBack(p, f, i)

SpecSeen == Init /\ [][NextSeen]_vars

-----------------------------------------------------------------------------
\* Whatever the server did was confirmed: on a form this very process had
\* rendered for that operation and target, or that action and request, not
\* longer before the submission than a token lives (csrf.go, "Verify checks
\* that token binds context and is within the age bound").
ConfirmedInTime ==
    \A p \in Posts : served[p] = "done" =>
        \E f \in forms :
            /\ f.about = posts[p].context
            /\ f.life = posts[p].life
            /\ f.token.issued <= posts[p].at
            /\ posts[p].at - f.token.issued <= MaxAge

\* An accepted outcome, shown and audited, is something the server did, and
\* two accepted backups are two Backup objects (ops.go, Execute).
AcceptedIsDone ==
    \A p \in Posts : posts[p].phase = "accepted" =>
        /\ served[p] = "done"
        /\ posts[p].context.action = "backup" =>
            /\ posts[p].at \in server.backups
            /\ \A q \in Posts \ {p} :
                posts[q].phase = "accepted" /\ posts[q].context.action = "backup"
                    => posts[q].at # posts[p].at

\* The submission a request was decided by, and one that granted its level.
DecidedBy(p, n) ==
    LET record == server.requests[n] IN
    /\ served[p] = "done"
    /\ posts[p].context = Context(IF record.state = "Approved" THEN "approve" ELSE "deny", n)
    /\ record.by = posts[p].by /\ record.at = posts[p].at
    /\ record.state = "Approved" => record.level = posts[p].level

GrantedBy(p, n) ==
    /\ served[p] = "done"
    /\ posts[p].context = Context("approve", n)
    /\ posts[p].level = server.requests[n].level

\* What is on record of a request, whoever decided it and in whatever order
\* the writes were served: its state, author and time are of one submission, and
\* a level is one that a served approval of this very request granted, that
\* submission's own when it is the approval.  A denial names no level and so
\* leaves an earlier approval's beside it (kube/ops.go:147-149), where
\* web/accessreview.go:94 says "the level granted by an approval, else empty".
DecisionIsOne ==
    \A n \in Names :
        /\ server.requests[n].state \in {"Approved", "Denied"} => \E p \in Posts : DecidedBy(p, n)
        /\ server.requests[n].level # "" => \E p \in Posts : GrantedBy(p, n)

\* A confirmation filled in on the page it was opened from is turned back
\* only when it has expired, or came from another process (web/ops.go,
\* handleOperationExecute: "confirmation expired or invalid; try again").
TurnedBackForItsAge ==
    [][\A p \in Posts, f \in forms, i \in Instances : TurnedBack(p, f, i) =>
        \/ f.life # life
        \/ f.token.issued > now
        \/ now - f.token.issued > MaxAge]_vars
==============================================================================
