-------------------------- MODULE OperationsProofs --------------------------
(***************************************************************************)
(* Proofs about Operations, for any forms, submissions, clock and number of *)
(* processes: what the server did was confirmed in time, an accepted        *)
(* outcome was done, and a decision on record is one submission's.          *)
(***************************************************************************)
EXTENDS Operations, TLAPS

Targets == Instances \cup Names \cup {""}
Actions == catalog \cup reviewActions
Contexts == [action : Actions \cup {""}, target : Targets]
Grants == Picks \cup {""}
Authors == Users \cup {""}
Phases == {"unused", "sent", "accepted", "failed"}
States == {"Pending", "gone", "Approved", "Denied"}

PostType ==
    [phase : Phases, context : Contexts, level : Grants, by : Authors, at : Int, life : Int]

RequestType == [state : States, level : Grants, by : Authors, at : Int]

ServerType ==
    [backups : SUBSET Int, reload : Int, restart : Int,
     promote : [target : Targets, at : Int], requests : [Names -> RequestType]]

Types ==
    /\ now \in Nat
    /\ life \in Int
    /\ posts \in [Posts -> PostType]
    /\ served \in [Posts -> {"none", "done", "refused"}]
    /\ server \in ServerType

\* A token is bound to what its form is about, in the process that made it.
TokensAreBound == \A f \in forms : f.token.mac = <<f.life, f.about, f.token.issued>>

\* A form that confirmed a submission.
Confirms(f, post) ==
    /\ f.about = post.context
    /\ f.life = post.life
    /\ f.token.issued <= post.at
    /\ post.at - f.token.issued <= MaxAge

\* What is on the wire was confirmed, and what is not was never served.
SentIsConfirmed ==
    \A p \in Posts :
        /\ posts[p].phase = "unused" => posts[p].at = Nil
        /\ posts[p].at = Nil => served[p] = "none"
        /\ posts[p].at # Nil => /\ posts[p].context.action \in Actions
                                /\ \E f \in forms : Confirms(f, posts[p])

AcceptedWasServed == \A p \in Posts : posts[p].phase = "accepted" => served[p] = "done"

\* A backup the server made is one of its own.
BackupDone(p) == served[p] = "done" /\ posts[p].context.action = "backup"
BackupsAreDistinct ==
    \A p \in Posts : BackupDone(p) =>
        /\ posts[p].at \in server.backups
        /\ \A q \in Posts \ {p} : BackupDone(q) => posts[q].at # posts[p].at

Inv ==
    /\ Types
    /\ TokensAreBound
    /\ SentIsConfirmed
    /\ AcceptedWasServed
    /\ BackupsAreDistinct
    /\ DecisionIsOne

\* The invariant says what the runs check.
LEMMA InvMeans == Inv => ConfirmedInTime /\ AcceptedIsDone
<1> SUFFICES ASSUME Inv PROVE ConfirmedInTime /\ AcceptedIsDone
  OBVIOUS
<1>1. ConfirmedInTime
  <2> SUFFICES ASSUME NEW p \in Posts, served[p] = "done"
               PROVE  \E f \in forms : Confirms(f, posts[p])
    BY DEF ConfirmedInTime, Confirms
  <2> QED BY DEF Inv, SentIsConfirmed
<1>2. AcceptedIsDone
  BY DEF Inv, AcceptedWasServed, BackupsAreDistinct, BackupDone, AcceptedIsDone
<1> QED BY <1>1, <1>2

\* Decisions are the server's, and the submissions' that were served.
LEMMA Decisions ==
  ASSUME DecisionIsOne, UNCHANGED <<served, server>>,
         \A p \in Posts : served[p] = "done" =>
             /\ posts'[p].context = posts[p].context /\ posts'[p].level = posts[p].level
             /\ posts'[p].by = posts[p].by /\ posts'[p].at = posts[p].at
  PROVE  DecisionIsOne'
<1>1. \A p \in Posts, n \in Names : DecidedBy(p, n) => DecidedBy(p, n)'
  BY DEF DecidedBy
<1>2. \A p \in Posts, n \in Names : GrantedBy(p, n) => GrantedBy(p, n)'
  BY DEF GrantedBy
<1> QED BY <1>1, <1>2 DEF DecisionIsOne, DecidedBy, GrantedBy

\* Initially no form is rendered and no submission is on the wire.
LEMMA InitInv == Init => Inv
<1> SUFFICES ASSUME Init PROVE Inv
  OBVIOUS
<1>1. posts \in [Posts -> PostType]
  <2>1. Context("", "") \in Contexts
    BY DEF Context, Contexts, Targets
  <2>2. "unused" \in Phases /\ "" \in Grants /\ "" \in Authors /\ Nil \in Int /\ 0 \in Int
    BY DEF Phases, Grants, Authors, Nil
  <2>3. Unused \in PostType
    BY <2>1, <2>2, Zenon DEF PostType, Unused
  <2> QED BY <2>3 DEF Init
<1>2. server \in ServerType
  <2>1. Undecided \in RequestType
    BY DEF RequestType, Undecided, Nil, States, Grants, Authors
  <2>2. [n \in Names |-> Undecided] \in [Names -> RequestType]
    BY <2>1
  <2>3. [target |-> "", at |-> Nil] \in [target : Targets, at : Int]
    BY DEF Targets, Nil
  <2> QED BY <2>2, <2>3 DEF Init, ServerType, Nil
<1>3. served \in [Posts -> {"none", "done", "refused"}] /\ now \in Nat /\ life \in Int
  <2>1. served = [p \in Posts |-> "none"] /\ now = 0 /\ life = 1
    BY Zenon DEF Init
  <2> QED BY <2>1
<1>4. TokensAreBound /\ SentIsConfirmed /\ AcceptedWasServed /\ BackupsAreDistinct
  BY DEF Init, Unused, TokensAreBound, SentIsConfirmed, AcceptedWasServed, BackupsAreDistinct, BackupDone
<1>5. DecisionIsOne
  BY DEF Init, Undecided, DecisionIsOne
<1> QED BY <1>1, <1>2, <1>3, <1>4, <1>5 DEF Inv, Types

\* Forms are only added: a step that leaves the rest alone keeps the rest.
LEMMA FormsGrow ==
  ASSUME Inv, forms \subseteq forms', TokensAreBound',
         UNCHANGED <<now, life, posts, served, server>>
  PROVE  Inv'
<1>1. SentIsConfirmed'
  BY DEF Inv, SentIsConfirmed, Confirms
<1> QED BY <1>1 DEF Inv, Types, AcceptedWasServed, BackupsAreDistinct, BackupDone, DecisionIsOne, DecidedBy, GrantedBy

\* A page renders forms whose tokens are bound to what they are about
\* (ops.go, handleOperationConfirm; accessreview.go, handleAccessRequestsIndex).
LEMMA PagesKeepInv ==
  ASSUME Inv,
         \E user \in Users \cup {""}, level \in Levels :
            \/ \E link \in Links : ConfirmPage(link[1], link[2], user, level)
            \/ ReviewPanel(user, level)
  PROVE  Inv'
<1>1. \A context : LET f == Form(context) IN f.token.mac = <<f.life, f.about, f.token.issued>>
  BY DEF Form, Issue, mac
<1>2. ASSUME NEW user, NEW level, NEW op, NEW query, ConfirmPage(op, query, user, level)
      PROVE  Inv'
  <2>1. PICK context : forms' = forms \cup {Form(context)}
    BY <1>2, Zenon DEF ConfirmPage
  <2>2. UNCHANGED <<now, life, posts, served, server>>
    BY <1>2, Zenon DEF ConfirmPage
  <2>3. TokensAreBound'
    BY <1>1, <2>1 DEF Inv, TokensAreBound
  <2> QED BY <2>1, <2>2, <2>3, FormsGrow
<1>3. ASSUME NEW user, NEW level, ReviewPanel(user, level)
      PROVE  Inv'
  <2> DEFINE undecided == {n \in Names : Pending(listed[n])}
             added == {Form(c) : c \in [action : reviewActions, target : undecided]}
  <2>1. forms' = forms \cup added /\ UNCHANGED <<now, life, posts, served, server>>
    BY <1>3, Zenon DEF ReviewPanel
  <2>2. \A f \in added : \E context : f = Form(context)
    BY Zenon
  <2> HIDE DEF added
  <2>3. TokensAreBound'
    BY <1>1, <2>1, <2>2 DEF Inv, TokensAreBound
  <2> QED BY <2>1, <2>3, FormsGrow
<1> QED BY <1>2, <1>3

\* A form whose token does for a context confirms what is sent now.
LEMMA VerifiedConfirms ==
  ASSUME Inv, NEW f \in forms, NEW context, Verify(context, f.token)
  PROVE  /\ f.about = context /\ f.life = life
         /\ f.token.issued <= now /\ now - f.token.issued <= MaxAge
BY DEF Inv, TokensAreBound, Verify, mac

\* A confirmed submission goes out.
LEMMA SentKeepsInv ==
  ASSUME Inv, NEW p \in Posts, posts[p].phase = "unused",
         NEW context \in Contexts, context.action \in Actions,
         NEW picked \in Grants, NEW user \in Authors,
         NEW f \in forms, Verify(context, f.token),
         Sent(p, context, picked, user),
         UNCHANGED <<now, life, forms, served, server>>
  PROVE  Inv'
<1> DEFINE sent == [phase |-> "sent", context |-> context, level |-> picked, by |-> user,
                    at |-> now, life |-> life]
<1>1. /\ posts'[p] = sent
      /\ \A q \in Posts \ {p} : posts'[q] = posts[q]
  BY DEF Sent, Inv, Types
<1>2. served[p] = "none"
  BY DEF Inv, SentIsConfirmed
<1>3. Types'
  <2>1. "sent" \in Phases /\ now \in Int /\ life \in Int
    BY DEF Phases, Inv, Types
  <2>2. sent \in PostType
    BY <2>1, Zenon DEF PostType
  <2> QED BY <2>2 DEF Sent, Inv, Types
<1>4. Confirms(f, sent)
  BY VerifiedConfirms DEF Confirms
<1>5. SentIsConfirmed'
  <2> SUFFICES ASSUME NEW q \in Posts
               PROVE  /\ posts'[q].phase = "unused" => posts'[q].at = Nil
                      /\ posts'[q].at = Nil => served'[q] = "none"
                      /\ posts'[q].at # Nil =>
                            /\ posts'[q].context.action \in Actions
                            /\ \E g \in forms' : Confirms(g, posts'[q])
    BY DEF SentIsConfirmed, Confirms
  <2>1. CASE q = p
    BY <2>1, <1>1, <1>2, <1>4
  <2>2. CASE q # p
    BY <2>2, <1>1 DEF Inv, SentIsConfirmed
  <2> QED BY <2>1, <2>2
<1>6. TokensAreBound'
  BY DEF Inv, TokensAreBound
<1>7. AcceptedWasServed'
  BY <1>1 DEF Inv, AcceptedWasServed
<1>8. \A q \in Posts : served'[q] = "done" => posts'[q] = posts[q]
  BY <1>1, <1>2
<1>9. BackupsAreDistinct'
  BY <1>8 DEF Inv, BackupsAreDistinct, BackupDone
<1>10. DecisionIsOne'
  BY <1>8, Decisions DEF Inv
<1> QED BY <1>3, <1>5, <1>6, <1>7, <1>9, <1>10 DEF Inv

\* A handler ends: the phase of one submission, or of several, changes, to
\* one that is neither unused nor accepted unless the server did it.
LEMMA PhaseKeepsInv ==
  ASSUME Inv, posts' \in [Posts -> PostType],
         \A p \in Posts :
            /\ posts'[p].context = posts[p].context
            /\ posts'[p].level = posts[p].level
            /\ posts'[p].by = posts[p].by
            /\ posts'[p].at = posts[p].at
            /\ posts'[p].life = posts[p].life
            /\ posts'[p].phase = posts[p].phase \/ posts'[p].phase = "failed"
               \/ (posts'[p].phase = "accepted" /\ served[p] = "done"),
         life' \in Int, UNCHANGED <<now, forms, served, server>>
  PROVE  Inv'
<1>2. Types'
  BY DEF Inv, Types
<1>3. SentIsConfirmed'
  <2> SUFFICES ASSUME NEW q \in Posts
               PROVE  /\ posts'[q].phase = "unused" => posts'[q].at = Nil
                      /\ posts'[q].at = Nil => served'[q] = "none"
                      /\ posts'[q].at # Nil =>
                            /\ posts'[q].context.action \in Actions
                            /\ \E g \in forms' : Confirms(g, posts'[q])
    BY DEF SentIsConfirmed, Confirms
  <2> QED BY DEF Inv, SentIsConfirmed, Confirms
<1>4. TokensAreBound' /\ AcceptedWasServed'
  BY DEF Inv, TokensAreBound, AcceptedWasServed
<1>5. BackupsAreDistinct' /\ DecisionIsOne'
  BY Decisions DEF Inv, BackupsAreDistinct, BackupDone
<1> QED BY <1>2, <1>3, <1>4, <1>5 DEF Inv

\* An operation goes out on a token that does for it
\* (ops.go, handleOperationExecute).
LEMMA SubmitOperationKeepsInv ==
  ASSUME Inv, NEW p \in Posts, NEW op \in catalog, NEW instance, NEW f \in forms,
         NEW user, NEW level, NEW site,
         SubmitOperation(p, op, instance, f.token, user, level, site)
  PROVE  Inv'
<1> DEFINE context == Context(op, IF NeedsInstance(op) THEN instance ELSE "")
<1>1. /\ posts[p].phase = "unused" /\ Verify(context, f.token) /\ Sent(p, context, "", "")
      /\ NeedsInstance(op) => instance \in Instances
      /\ UNCHANGED <<now, life, forms, served, server>>
  BY Zenon DEF SubmitOperation, Execute
<1>2. context \in Contexts /\ context.action \in Actions
  BY <1>1 DEF Context, Contexts, Actions, Targets
<1>3. "" \in Grants /\ "" \in Authors
  BY DEF Grants, Authors
<1> QED BY <1>1, <1>2, <1>3, SentKeepsInv

\* So does a decision, unless its level cannot be granted
\* (accessreview.go, handleAccessDecision).
LEMMA SubmitDecisionKeepsInv ==
  ASSUME Inv, NEW p \in Posts, NEW action \in reviewActions, NEW name \in Names,
         NEW picked \in Picks, NEW f \in forms, NEW user \in Users \cup {""}, NEW level, NEW site,
         SubmitDecision(p, action, name, picked, f.token, user, level, site)
  PROVE  Inv'
<1> DEFINE context == Context(action, name)
<1>1. /\ posts[p].phase = "unused" /\ Verify(context, f.token)
      /\ UNCHANGED <<now, life, forms, served, server>>
      /\ posts' = [posts EXCEPT ![p].phase = "failed"] \/ Sent(p, context, picked, user)
  BY Zenon DEF SubmitDecision, Decide
<1>2. context \in Contexts /\ context.action \in Actions
  BY DEF Context, Contexts, Actions, Targets
<1>3. CASE Sent(p, context, picked, user)
  BY <1>1, <1>2, <1>3, SentKeepsInv DEF Grants, Authors
<1>4. CASE posts' = [posts EXCEPT ![p].phase = "failed"]
  <2>1. posts' \in [Posts -> PostType]
    BY <1>4 DEF Inv, Types, PostType, Phases
  <2> QED BY <1>1, <1>4, <2>1, PhaseKeepsInv DEF Inv, Types, PostType
<1> QED BY <1>1, <1>3, <1>4

\* The handler's end: an answer, a wait given up, a process killed.
LEMMA HandlersKeepInv ==
  ASSUME Inv, (\E p \in Posts : Answer(p) \/ GiveUp(p)) \/ Restart
  PROVE  Inv'
<1> USE DEF Inv, Types, PostType, Phases
<1>1. ASSUME NEW p \in Posts, Answer(p) PROVE Inv'
  <2>1. posts' \in [Posts -> PostType]
    BY <1>1 DEF Answer
  <2> QED BY <1>1, <2>1, PhaseKeepsInv DEF Answer
<1>2. ASSUME NEW p \in Posts, GiveUp(p) PROVE Inv'
  <2>1. posts' \in [Posts -> PostType]
    BY <1>2 DEF GiveUp
  <2> QED BY <1>2, <2>1, PhaseKeepsInv DEF GiveUp
<1>3. ASSUME Restart PROVE Inv'
  <2>1. posts' \in [Posts -> PostType]
    BY <1>3 DEF Restart
  <2> QED BY <1>3, <2>1, PhaseKeepsInv DEF Restart
<1> QED BY <1>1, <1>2, <1>3

\* What a request on record says of the submission that decided it.
Records(p, n, request) ==
    /\ posts[p].context = Context(IF request.state = "Approved" THEN "approve" ELSE "deny", n)
    /\ request.by = posts[p].by /\ request.at = posts[p].at
    /\ request.state = "Approved" => request.level = posts[p].level
    /\ request.level # "" =>
           \/ posts[p].context = Context("approve", n) /\ posts[p].level = request.level
           \/ request.level = server.requests[n].level

\* A request is served, or refused: what the server may make of it.
LEMMA ServedKeepsInv ==
  ASSUME Inv, NEW p \in Posts, OnTheWire(p), NEW answer \in {"done", "refused"},
         served' = [served EXCEPT ![p] = answer], server' \in ServerType,
         UNCHANGED <<now, life, forms, posts>>,
         server.backups \subseteq server'.backups,
         posts[p].context.action = "backup" /\ answer = "done" =>
            posts[p].at \in server'.backups \ server.backups,
         \A n \in Names :
            \/ server'.requests[n] = server.requests[n]
            \/ answer = "done" /\ Records(p, n, server'.requests[n])
  PROVE  Inv'
<1>1. served'[p] = answer /\ \A q \in Posts \ {p} : served'[q] = served[q]
  BY DEF Inv, Types
<1>2. served[p] = "none" /\ posts[p].at # Nil
  BY DEF OnTheWire
<1>3. Types' /\ TokensAreBound'
  BY DEF Inv, Types, TokensAreBound
<1>4. SentIsConfirmed'
  BY <1>1, <1>2 DEF Inv, SentIsConfirmed, Confirms
<1>5. AcceptedWasServed'
  BY <1>1, <1>2 DEF Inv, AcceptedWasServed
<1>6. BackupsAreDistinct'
  BY <1>1, <1>2 DEF Inv, BackupsAreDistinct, BackupDone
<1>7. DecisionIsOne'
  <2> SUFFICES ASSUME NEW n \in Names
               PROVE  /\ server'.requests[n].state \in {"Approved", "Denied"} =>
                             \E q \in Posts : DecidedBy(q, n)'
                      /\ server'.requests[n].level # "" => \E q \in Posts : GrantedBy(q, n)'
    BY DEF DecisionIsOne
  <2>1. \A q \in Posts : served[q] = "done" => served'[q] = "done"
    BY <1>1, <1>2
  <2>2. CASE server'.requests[n] = server.requests[n]
    <3>1. \A q \in Posts : DecidedBy(q, n) => DecidedBy(q, n)'
      BY <2>1, <2>2 DEF DecidedBy
    <3>2. \A q \in Posts : GrantedBy(q, n) => GrantedBy(q, n)'
      BY <2>1, <2>2 DEF GrantedBy
    <3>3. server'.requests[n].state \in {"Approved", "Denied"} => \E q \in Posts : DecidedBy(q, n)'
      BY <2>2, <3>1 DEF Inv, DecisionIsOne, DecidedBy
    <3>4. server'.requests[n].level # "" => \E q \in Posts : GrantedBy(q, n)'
      BY <2>2, <3>2 DEF Inv, DecisionIsOne, GrantedBy
    <3> QED BY <3>3, <3>4
  <2>3. CASE answer = "done" /\ Records(p, n, server'.requests[n])
    <3>1. DecidedBy(p, n)'
      BY <1>1, <2>3 DEF Records, DecidedBy
    <3>2. server'.requests[n].state \in {"Approved", "Denied"} => \E q \in Posts : DecidedBy(q, n)'
      BY <3>1 DEF DecidedBy
    <3>3. ASSUME server'.requests[n].level # "" PROVE \E q \in Posts : GrantedBy(q, n)'
      <4>1. CASE posts[p].context = Context("approve", n)
                 /\ posts[p].level = server'.requests[n].level
        BY <1>1, <2>3, <4>1 DEF GrantedBy
      <4>2. CASE server'.requests[n].level = server.requests[n].level
        <5>1. PICK q \in Posts : GrantedBy(q, n)
          BY <3>3, <4>2 DEF Inv, DecisionIsOne
        <5>2. GrantedBy(q, n)'
          BY <2>1, <4>2, <5>1 DEF GrantedBy
        <5> QED BY <5>2 DEF GrantedBy
      <4> QED BY <2>3, <3>3, <4>1, <4>2 DEF Records
    <3> QED BY <3>2, <3>3
  <2> QED BY <2>2, <2>3
<1> QED BY <1>3, <1>4, <1>5, <1>6, <1>7 DEF Inv

\* A refusal changes nothing at the server.
LEMMA RefuseKeepsInv == ASSUME Inv, NEW p \in Posts, Refuse(p) PROVE Inv'
BY ServedKeepsInv DEF Refuse, Inv, Types

\* Each of the writes, served: a backup is new or refused, a decision is
\* written in one patch (kube/ops.go).
LEMMA ServeKeepsInv == ASSUME Inv, NEW p \in Posts, Serve(p) PROVE Inv'
<1> DEFINE made == Written(p)
           answer == IF made.done THEN "done" ELSE "refused"
<1>1. /\ OnTheWire(p) /\ server' = made.server /\ served' = [served EXCEPT ![p] = answer]
      /\ UNCHANGED <<now, life, forms, posts>>
  BY Zenon DEF Serve
<1>2. posts[p] \in PostType /\ server \in ServerType
  BY DEF Inv, Types
<1>3. posts[p].context.action \in Actions
  BY <1>1 DEF OnTheWire, Inv, SentIsConfirmed
<1>4. CASE posts[p].context.action = "backup"
  <2>1. made = CreateBackup(p)
    BY <1>4 DEF Written, reviewActions
  <2> DEFINE grown == [server EXCEPT !.backups = @ \cup {posts[p].at}]
  <2>2. made = [done |-> posts[p].at \notin server.backups, server |-> grown]
    BY <2>1, Zenon DEF CreateBackup
  <2>3. server' = grown
    <3> HIDE DEF grown
    <3> QED BY <1>1, <2>2
  <2>4. made.done = (posts[p].at \notin server.backups)
    BY <2>1 DEF CreateBackup
  <2>5. answer = "done" => posts[p].at \notin server.backups
    BY <2>4
  <2>6. server' \in ServerType
    BY <1>2, <2>3 DEF ServerType, PostType
  <2> HIDE DEF made
  <2> QED BY <1>1, <1>2, <2>3, <2>5, <2>6, ServedKeepsInv DEF ServerType
<1>5. CASE posts[p].context.action = "reload"
  <2>1. made = ReloadCluster(p)
    BY <1>5 DEF Written, reviewActions
  <2>2. server' = [server EXCEPT !.reload = posts[p].at]
    BY <1>1, <2>1 DEF ReloadCluster
  <2>3. server' \in ServerType
    BY <1>2, <2>2 DEF ServerType, PostType
  <2> HIDE DEF made
  <2> QED BY <1>1, <1>2, <1>5, <2>2, <2>3, ServedKeepsInv DEF ServerType
<1>6. CASE posts[p].context.action = "restart"
  <2>1. made = RestartCluster(p)
    BY <1>6 DEF Written, reviewActions
  <2>2. server' = [server EXCEPT !.restart = posts[p].at]
    BY <1>1, <2>1 DEF RestartCluster
  <2>3. server' \in ServerType
    BY <1>2, <2>2 DEF ServerType, PostType
  <2> HIDE DEF made
  <2> QED BY <1>1, <1>2, <1>6, <2>2, <2>3, ServedKeepsInv DEF ServerType
<1>7. CASE posts[p].context.action = "promote"
  <2>1. made = PromoteInstance(p)
    BY <1>7 DEF Written, reviewActions
  <2>2. server' = [server EXCEPT !.promote = [target |-> posts[p].context.target, at |-> posts[p].at]]
    BY <1>1, <2>1 DEF PromoteInstance
  <2>3. posts[p].context.target \in Targets
    BY <1>2 DEF PostType, Contexts
  <2>4. server' \in ServerType
    BY <1>2, <2>2, <2>3 DEF ServerType, PostType
  <2> HIDE DEF made
  <2> QED BY <1>1, <1>2, <1>7, <2>2, <2>4, ServedKeepsInv DEF ServerType
<1>8. CASE posts[p].context.action \in reviewActions
  <2> DEFINE name == posts[p].context.target
             approve == posts[p].context.action = "approve"
             old == server.requests[name]
             record == [state |-> IF approve THEN "Approved" ELSE "Denied",
                        level |-> IF approve THEN posts[p].level ELSE old.level,
                        by |-> posts[p].by, at |-> posts[p].at]
             kept == [server EXCEPT !.requests[name] = record]
  <2>1. made = WriteAccessRequestStatus(p)
    BY <1>8 DEF Written, reviewActions
  <2>2. made.done = (old.state # "gone")
    BY <2>1 DEF WriteAccessRequestStatus
  <2>3. made.server = IF old.state = "gone" THEN server ELSE kept
    <3>1. CASE old.state = "gone"
      BY <2>1, <3>1 DEF WriteAccessRequestStatus
    <3>2. CASE old.state # "gone"
      <4>1. made = [done |-> old.state # "gone", server |-> IF old.state = "gone" THEN server ELSE kept]
        BY <2>1, Zenon DEF WriteAccessRequestStatus
      <4> HIDE DEF kept, made
      <4> QED BY <4>1, <3>2
    <3> QED BY <3>1, <3>2
  <2>4. answer = (IF old.state # "gone" THEN "done" ELSE "refused")
    BY <2>2
  <2>5. server' = server \/ (old.state # "gone" /\ server' = kept)
    BY <1>1, <2>3
  <2> HIDE DEF made
  <2>6. name \in Names => record \in RequestType
    BY <1>2 DEF PostType, ServerType, RequestType, States
  <2>7. server' \in ServerType
    BY <1>2, <2>5, <2>6 DEF ServerType
  <2>8. Records(p, name, record)
    <3>1. posts[p].context = Context(IF approve THEN "approve" ELSE "deny", name)
      BY <1>2, <1>8 DEF Context, PostType, Contexts, reviewActions
    <3> QED BY <3>1 DEF Records
  <2>9. ASSUME NEW n \in Names
        PROVE  \/ server'.requests[n] = server.requests[n]
               \/ answer = "done" /\ Records(p, n, server'.requests[n])
    <3> HIDE DEF record
    <3>1. server' = kept => server'.requests[n] = IF n = name THEN record ELSE server.requests[n]
      BY <1>2 DEF ServerType
    <3> QED BY <3>1, <2>4, <2>5, <2>8
  <2>10. server'.backups = server.backups /\ posts[p].context.action # "backup"
    BY <1>2, <1>8, <2>5 DEF ServerType, reviewActions
  <2> HIDE DEF answer
  <2>11. answer \in {"done", "refused"}
    BY <2>4
  <2> QED BY <1>1, <2>7, <2>9, <2>10, <2>11, ServedKeepsInv
<1> QED BY <1>3, <1>4, <1>5, <1>6, <1>7, <1>8 DEF Actions, catalog

\* A request withdrawn or asked again is undecided.
LEMMA AskedKeepsInv == ASSUME Inv, NEW name \in Names, Asked(name) PROVE Inv'
<1> DEFINE asked == IF server.requests[name].state = "gone" THEN Undecided ELSE Gone
<1>1. /\ server' = [server EXCEPT !.requests = [@ EXCEPT ![name] = asked]]
      /\ UNCHANGED <<now, life, forms, posts, served>>
  BY DEF Asked
<1>2. asked \in RequestType /\ asked.state \notin {"Approved", "Denied"} /\ asked.level = ""
  <2>1. "Pending" \in States /\ "gone" \in States /\ "" \in Grants /\ "" \in Authors /\ Nil \in Int
    BY DEF States, Grants, Authors, Nil
  <2>2. Undecided \in RequestType
    BY <2>1, Zenon DEF RequestType, Undecided
  <2>3. Gone = [state |-> "gone", level |-> "", by |-> "", at |-> Nil]
    <3>1. DOMAIN Undecided = {"state", "level", "by", "at"}
      BY DEF Undecided
    <3>2. Gone = [Undecided EXCEPT !.state = "gone"]
      BY Zenon DEF Gone
    <3> QED BY <3>1, <3>2 DEF Undecided
  <2>4. Gone \in RequestType
    BY <2>1, <2>3, Zenon DEF RequestType
  <2>5. Undecided.state = "Pending" /\ Gone.state = "gone"
    BY <2>3 DEF Undecided
  <2>6. Undecided.level = "" /\ Gone.level = ""
    BY <2>3 DEF Undecided
  <2> QED BY <2>2, <2>4, <2>5, <2>6
<1>3. server \in ServerType
  BY DEF Inv, Types
<1>4. server' \in ServerType
  BY <1>1, <1>2, <1>3 DEF ServerType
<1>5. server'.backups = server.backups /\ \A n \in Names :
        server'.requests[n] = IF n = name THEN asked ELSE server.requests[n]
  BY <1>1, <1>3 DEF ServerType
<1>6. Types' /\ TokensAreBound' /\ SentIsConfirmed' /\ AcceptedWasServed'
  BY <1>1, <1>4 DEF Inv, Types, TokensAreBound, SentIsConfirmed, Confirms, AcceptedWasServed
<1>7. BackupsAreDistinct'
  BY <1>1, <1>5 DEF Inv, BackupsAreDistinct, BackupDone
<1>8. DecisionIsOne'
  <2> SUFFICES ASSUME NEW n \in Names
               PROVE  /\ server'.requests[n].state \in {"Approved", "Denied"} =>
                             \E q \in Posts : DecidedBy(q, n)'
                      /\ server'.requests[n].level # "" => \E q \in Posts : GrantedBy(q, n)'
    BY DEF DecisionIsOne
  <2>1. CASE n = name
    BY <1>2, <1>5, <2>1
  <2>2. CASE n # name
    <3>1. server'.requests[n] = server.requests[n]
      BY <1>5, <2>2
    <3>2. /\ server.requests[n].state \in {"Approved", "Denied"} => \E q \in Posts : DecidedBy(q, n)
          /\ server.requests[n].level # "" => \E q \in Posts : GrantedBy(q, n)
      BY DEF Inv, DecisionIsOne
    <3>3. ASSUME server.requests[n].state \in {"Approved", "Denied"}
          PROVE  \E q \in Posts : DecidedBy(q, n)'
      <4>1. PICK q \in Posts : DecidedBy(q, n)
        BY <3>2, <3>3
      <4>2. DecidedBy(q, n)'
        BY <1>1, <3>1, <4>1 DEF DecidedBy
      <4> QED BY <4>2 DEF DecidedBy
    <3>4. ASSUME server.requests[n].level # "" PROVE \E q \in Posts : GrantedBy(q, n)'
      <4>1. PICK q \in Posts : GrantedBy(q, n)
        BY <3>2, <3>4
      <4>2. GrantedBy(q, n)'
        BY <1>1, <3>1, <4>1 DEF GrantedBy
      <4> QED BY <4>2 DEF GrantedBy
    <3> HIDE DEF asked
    <3> QED BY <3>1, <3>3, <3>4
  <2> QED BY <2>1, <2>2
<1> QED BY <1>6, <1>7, <1>8 DEF Inv

\* The clock, which no part of the invariant but its type looks at.
LEMMA ClockKeepsInv ==
  ASSUME Inv, now' \in Nat, UNCHANGED <<life, forms, posts, served, server>>
  PROVE  Inv'
BY DEF Inv, Types, TokensAreBound, SentIsConfirmed, Confirms, AcceptedWasServed,
       BackupsAreDistinct, BackupDone, DecisionIsOne, DecidedBy, GrantedBy

\* Every step keeps the invariant.
LEMMA NextInv == Inv /\ [Next]_vars => Inv'
<1> SUFFICES ASSUME Inv, [Next]_vars PROVE Inv'
  OBVIOUS
<1> now \in Nat
  BY DEF Inv, Types
<1>1. ASSUME NEW user \in Users \cup {""}, NEW level \in Levels,
             \/ \E link \in Links : ConfirmPage(link[1], link[2], user, level)
             \/ ReviewPanel(user, level)
      PROVE  Inv'
  BY <1>1, PagesKeepInv
<1>2. ASSUME NEW user \in Users \cup {""}, NEW level \in Levels, NEW p \in Posts, NEW f \in forms,
             NEW site \in {"same-origin", "cross-site"},
             \/ \E op \in catalog, instance \in Instances \cup {"?"} :
                    SubmitOperation(p, op, instance, f.token, user, level, site)
             \/ \E action \in reviewActions, name \in Names, picked \in Picks :
                    SubmitDecision(p, action, name, picked, f.token, user, level, site)
      PROVE  Inv'
  BY <1>2, SubmitOperationKeepsInv, SubmitDecisionKeepsInv
<1>3. ASSUME NEW p \in Posts, Serve(p) \/ Refuse(p) \/ Answer(p) \/ GiveUp(p)
      PROVE  Inv'
  BY <1>3, ServeKeepsInv, RefuseKeepsInv, HandlersKeepInv
<1>4. ASSUME NEW n \in Names, Asked(n) PROVE Inv'
  BY <1>4, AskedKeepsInv
<1>5. CASE Restart
  BY <1>5, HandlersKeepInv
<1>6. CASE Refresh
  BY <1>6, ClockKeepsInv DEF Refresh
<1>7. CASE Tick
  BY <1>7, ClockKeepsInv DEF Tick
<1>8. CASE SetBack
  BY <1>8, ClockKeepsInv DEF SetBack
<1>9. CASE UNCHANGED vars
  BY <1>9, ClockKeepsInv DEF vars
<1> QED BY <1>1, <1>2, <1>3, <1>4, <1>5, <1>6, <1>7, <1>8, <1>9 DEF Next

\* Types, tokens bound to their forms, and what is on the wire: the
\* inductive invariant of the writes.
THEOREM InvHolds == Spec => []Inv
BY InitInv, NextInv, PTL DEF Spec

\* Whatever the server did was confirmed on a form this very process had
\* rendered for it, in time (csrf.go, Verify; web/ops.go).
THEOREM ConfirmedHolds == Spec => []ConfirmedInTime
BY InvHolds, InvMeans, PTL

\* An accepted outcome was done, and two accepted backups are two objects
\* (ops.go, Execute; kube/ops.go, CreateBackup).
THEOREM AcceptedHolds == Spec => []AcceptedIsDone
BY InvHolds, InvMeans, PTL

\* A decision on record is one submission's, however late it was served and
\* however often the request was decided, and a level on record was granted by a
\* served approval of it: by the decision itself or, under a denial, by an
\* earlier one (kube/ops.go, WriteAccessRequestStatus).
THEOREM DecisionHolds == Spec => []DecisionIsOne
<1>1. Inv => DecisionIsOne
  BY DEF Inv
<1> QED BY <1>1, InvHolds, PTL
=============================================================================
