------------------------------ MODULE Workspaces ------------------------------
(***************************************************************************)
(* How workspaces, their users and their subscriptions come to be:         *)
(* sign-up, e-mail verification and invitations (auth/auth.service.ts),    *)
(* users created by an administrator (users/users.service.ts), and the     *)
(* subscription that payment events of Stripe and bank transfers over      *)
(* SePay drive (billing/billing.service.ts) and the billing guard reads    *)
(* (billing/billing.guard.ts), under the environment the process was       *)
(* started with.                                                           *)
(*                                                                         *)
(* A Request is one call at work; its statements are steps of their own,   *)
(* since no transaction holds them together. Logging in is the subject of  *)
(* Sessions.                                                               *)
(***************************************************************************)
EXTENDS Naturals, FiniteSets

CONSTANTS
    Email, Slug,  \* e-mail addresses; workspaces, by slug
    Request,      \* bound: calls at work at once
    Purchase,     \* bound: Stripe subscriptions bought
    MaxOrders,    \* bound: SePay orders of a workspace
    MaxEvents     \* bound: calls cut short and payment events repeated

ASSUME NoneAssumption == "none" \notin Email \cup Slug \cup Purchase
ASSUME BoundsAssumption == MaxOrders \in Nat /\ MaxEvents \in Nat

VARIABLES
    workspaces,  \* slugs of the Workspace rows
    users,       \* [Email -> Slug or "none"]: the user of an address
    chiefs,      \* addresses whose user is a super_admin
    verify,      \* [Email -> "none", "open", "done"]: EmailVerifyToken
    invites,     \* <<address, slug>> of the unused InviteToken rows
    call,        \* [Request -> Call]
    sub,         \* [Slug -> Subscription]: status "none" where there is no row
    bought,      \* [Purchase -> ...]: the subscription at Stripe, and for whom
    posts,       \* payment events not yet answered
    cancelling,  \* <<slug, purchase>>: a cancellation between its two statements
    transfers,   \* <<slug, order>>: transfers made and confirmable
    cut,         \* observer: slugs whose sign-up was cut short or lost its address
    disorder,    \* observer: slugs with payment events out of order or lost
    events,
    site         \* environment: BILLING_ENABLED; STRIPE_WEBHOOK_SECRET

accounts == <<workspaces, users, chiefs, verify, invites, call, cut>>
billing == <<bought, posts, cancelling, transfers, disorder>>
vars == <<accounts, sub, billing, events, site>>

Steps == {"idle", "slug", "workspace", "user", "subscription", "verify", "used"}
Kinds == {"signup", "invite", "staff", "chief"}
Call == [at : Steps, kind : Kinds,
         email : Email \cup {"none"}, slug : Slug \cup {"none"}]
Idle == [at |-> "idle", kind |-> "signup", email |-> "none", slug |-> "none"]

Status == {"none", "trialing", "active", "canceled"}
Subscription == [status : Status, stripe : Purchase \cup {"none"},
                 order : 0..MaxOrders, over : BOOLEAN]
NoRow == [status |-> "none", stripe |-> "none", order |-> 0, over |-> FALSE]
Purchased == [by : Slug \cup {"none"}, is : {"none", "open", "live", "ended"}]
PostKind == {"completed", "deleted"}
Site == [enforced : BOOLEAN, signed : BOOLEAN]

Init ==
    /\ workspaces = {} /\ chiefs = {} /\ invites = {} /\ cut = {}
    /\ users = [e \in Email |-> "none"] /\ verify = [e \in Email |-> "none"]
    /\ call = [r \in Request |-> Idle]
    /\ sub = [s \in Slug |-> NoRow]
    /\ bought = [x \in Purchase |-> [by |-> "none", is |-> "none"]]
    /\ posts = {} /\ cancelling = {} /\ transfers = {} /\ disorder = {}
    /\ events = 0 /\ site \in Site

\* BillingGuard.canActivate, which every request of a user passes, those to the billing
\* endpoints too (app.module.ts). Routes that are @Public are open to everyone.
Standing(s) == \/ sub[s].status \in {"none", "active"}
               \/ sub[s].status = "trialing" /\ ~sub[s].over
Admitted(e) == ~site.enforced \/ e \in chiefs \/ Standing(users[e])

\* Someone of workspace s can call the API.
Served(s) == \E e \in Email : users[e] = s /\ Admitted(e)

-----------------------------------------------------------------------------
(* Sign-up, invitations and users *)

Begin(r, at, kind, e, s) ==
    /\ call[r] = Idle
    /\ call' = [call EXCEPT ![r] = [at |-> at, kind |-> kind, email |-> e, slug |-> s]]
Goto(r, at) == call' = [call EXCEPT ![r].at = at]
Return(r) == call' = [call EXCEPT ![r] = Idle]
Event == events < MaxEvents /\ events' = events + 1

\* register: the address is free, then the slug; the password is hashed meanwhile.
Register(r, e, s) ==
    /\ users[e] = "none"
    /\ Begin(r, "slug", "signup", e, s)
    /\ UNCHANGED <<workspaces, users, chiefs, verify, invites, cut, sub, billing, events>>

CheckSlug(r) ==
    /\ call[r].at = "slug"
    /\ IF call[r].slug \in workspaces THEN Return(r) ELSE Goto(r, "workspace")
    /\ UNCHANGED <<workspaces, users, chiefs, verify, invites, cut, sub, billing, events>>

\* The slug is unique: the second of two sign-ups fails here, with nothing written.
CreateWorkspace(r) ==
    /\ call[r].at = "workspace"
    /\ IF call[r].slug \in workspaces THEN Return(r) ELSE Goto(r, "user")
    /\ workspaces' = workspaces \cup {call[r].slug}
    /\ UNCHANGED <<users, chiefs, verify, invites, cut, sub, billing, events>>

\* So is the address: a sign-up that loses it leaves its workspace behind.
CreateUser(r) ==
    /\ call[r].at = "user"
    /\ LET e == call[r].email  s == call[r].slug
       IN  IF users[e] # "none"
             THEN /\ Return(r) /\ UNCHANGED <<users, chiefs>>
                  /\ cut' = IF call[r].kind = "signup" THEN cut \cup {s} ELSE cut
             ELSE /\ users' = [users EXCEPT ![e] = s]
                  /\ chiefs' = IF call[r].kind = "chief" THEN chiefs \cup {e} ELSE chiefs
                  /\ CASE call[r].kind = "signup" -> Goto(r, "subscription")
                       [] call[r].kind = "invite" -> Goto(r, "used")
                       [] OTHER -> Return(r)
                  /\ UNCHANGED cut
    /\ UNCHANGED <<workspaces, verify, invites, sub, billing, events>>

\* Mutant of CreateSubscription: the trial is left for later.
CreateSubscription_Skipped(r) ==
    /\ call[r].at = "subscription"
    /\ Goto(r, "verify")
    /\ UNCHANGED <<workspaces, users, chiefs, verify, invites, cut, sub, billing, events>>

CreateSubscription(r) ==
    /\ call[r].at = "subscription"
    /\ sub' = [sub EXCEPT ![call[r].slug] = [NoRow EXCEPT !.status = "trialing"]]
    /\ Goto(r, "verify")
    /\ UNCHANGED <<workspaces, users, chiefs, verify, invites, cut, billing, events>>

CreateVerifyToken(r) ==
    /\ call[r].at = "verify"
    /\ verify' = [verify EXCEPT ![call[r].email] = "open"]
    /\ Return(r)
    /\ UNCHANGED <<workspaces, users, chiefs, invites, cut, sub, billing, events>>

\* verifyEmail: in one transaction, before the token expires.
VerifyEmail(e) ==
    /\ verify[e] = "open"
    /\ verify' = [verify EXCEPT ![e] = "done"]
    /\ UNCHANGED <<workspaces, users, chiefs, invites, call, cut, sub, billing, events>>

SendInvite(e, s) ==
    /\ users[e] = "none" /\ s \in workspaces /\ Served(s)
    /\ invites' = invites \cup {<<e, s>>}
    /\ UNCHANGED <<workspaces, users, chiefs, verify, call, cut, sub, billing, events>>

\* acceptInvite: the token is unused, its address free; then the user is created.
AcceptInvite(r, e, s) ==
    /\ <<e, s>> \in invites /\ users[e] = "none"
    /\ Begin(r, "user", "invite", e, s)
    /\ UNCHANGED <<workspaces, users, chiefs, verify, invites, cut, sub, billing, events>>

UseInvite(r) ==
    /\ call[r].at = "used"
    /\ invites' = invites \ {<<call[r].email, call[r].slug>>}
    /\ Return(r)
    /\ UNCHANGED <<workspaces, users, chiefs, verify, cut, sub, billing, events>>

\* UsersService.create: an administrator adds a user of any role to the workspace.
AddUser(r, e, s) ==
    /\ users[e] = "none" /\ s \in workspaces /\ Served(s)
    /\ \E kind \in {"staff", "chief"} : Begin(r, "user", kind, e, s)
    /\ UNCHANGED <<workspaces, users, chiefs, verify, invites, cut, sub, billing, events>>

\* UsersService.update: an administrator changes a user's role.
ChangeRole(e) ==
    /\ users[e] # "none" /\ \E s \in workspaces : Served(s)
    /\ chiefs' \in {chiefs \cup {e}, chiefs \ {e}}
    /\ UNCHANGED <<workspaces, users, verify, invites, call, cut, sub, billing, events>>

\* A statement fails or the process dies: what was written before it stays.
CutShort(r) ==
    /\ call[r] # Idle /\ Event
    /\ Return(r)
    /\ cut' = IF call[r].at \in {"user", "subscription", "verify"}
                 /\ call[r].kind = "signup" THEN cut \cup {call[r].slug} ELSE cut
    /\ UNCHANGED <<workspaces, users, chiefs, verify, invites, sub, billing>>

-----------------------------------------------------------------------------
(* Billing *)

Posted(s) == {p \in posts : bought[p[2]].by = s}
Live(s) == {x \in Purchase : bought[x].by = s /\ bought[x].is = "live"}
AtWork(s) == \E c \in cancelling : c[1] = s
Unsettled(s) == Posted(s) # {} \/ Live(s) # {} \/ AtWork(s)

\* createStripeCheckout: a session is opened, and may be paid at any later time.
OpenCheckout(s, x) ==
    /\ site.enforced /\ Served(s)
    /\ sub[s].status # "none" /\ bought[x].is = "none"
    /\ bought' = [bought EXCEPT ![x] = [by |-> s, is |-> "open"]]
    /\ UNCHANGED <<accounts, sub, posts, cancelling, transfers, disorder, events>>

\* The customer pays. Nothing keeps a workspace from buying again before the first
\* purchase has settled or while it runs.
Pay(x) ==
    LET s == bought[x].by
    IN  /\ bought[x].is = "open"
        /\ bought' = [bought EXCEPT ![x].is = "live"]
        /\ posts' = posts \cup {<<"completed", x>>}
        /\ disorder' = IF Unsettled(s) THEN disorder \cup {s} ELSE disorder
        /\ UNCHANGED <<accounts, sub, cancelling, transfers, events>>

\* The subscription ends at Stripe.
EndPurchase(x) ==
    /\ bought[x].is = "live"
    /\ bought' = [bought EXCEPT ![x].is = "ended"]
    /\ posts' = posts \cup {<<"deleted", x>>}
    /\ UNCHANGED <<accounts, sub, cancelling, transfers, disorder, events>>

\* The event is answered, or comes again.
Answer(p) == \/ posts' = posts \ {p} /\ UNCHANGED events
             \/ Event /\ UNCHANGED posts

\* Which workspaces a handled event of x leaves out of order: the events of x have
\* crossed, or this one will come again.
Crossed(p) ==
    LET s == bought[p[2]].by
    IN  disorder' = IF Posted(s) # {p} \/ posts' = posts \/ AtWork(s)
                      THEN disorder \cup {s} ELSE disorder

\* The endpoint reads the events it is sent only with billing enabled and the secret set.
Reads == site.enforced /\ site.signed

\* Without the secret an event is answered and dropped; with billing disabled it is
\* refused until Stripe gives it up.
Ignore(p) ==
    /\ p \in posts /\ ~Reads
    /\ posts' = posts \ {p}
    /\ disorder' = disorder \cup {bought[p[2]].by}
    /\ UNCHANGED <<accounts, sub, bought, cancelling, transfers, events>>

\* Mutant of Completed: the id of the purchase is not kept.
Completed_NoId(x) ==
    LET s == bought[x].by
    IN  /\ <<"completed", x>> \in posts /\ Reads
        /\ sub' = [sub EXCEPT ![s].status = "active"]
        /\ Answer(<<"completed", x>>) /\ Crossed(<<"completed", x>>)
        /\ UNCHANGED <<accounts, bought, cancelling, transfers>>

\* checkout.session.completed: active, whatever came before it.
Completed(x) ==
    LET s == bought[x].by
    IN  /\ <<"completed", x>> \in posts /\ Reads
        /\ sub' = [sub EXCEPT ![s].status = "active", ![s].stripe = x]
        /\ Answer(<<"completed", x>>) /\ Crossed(<<"completed", x>>)
        /\ UNCHANGED <<accounts, bought, cancelling, transfers>>

\* customer.subscription.deleted: the row that names the purchase is looked up; there
\* may be none. Then it is cancelled, by its own id.
Deleted(x) ==
    /\ <<"deleted", x>> \in posts /\ Reads
    /\ cancelling' = cancelling \cup {<<s, x>> : s \in {t \in Slug : sub[t].stripe = x}}
    /\ Answer(<<"deleted", x>>) /\ Crossed(<<"deleted", x>>)
    /\ UNCHANGED <<accounts, sub, bought, transfers>>

Cancel(s, x) ==
    /\ <<s, x>> \in cancelling
    /\ sub' = [sub EXCEPT ![s].status = "canceled"]
    /\ cancelling' = cancelling \ {<<s, x>>}
    /\ UNCHANGED <<accounts, bought, posts, transfers, disorder, events>>

\* initSePayOrder: a new code replaces the one before.
InitOrder(s) ==
    /\ site.enforced /\ Served(s)
    /\ sub[s].status # "none" /\ sub[s].order < MaxOrders
    /\ sub' = [sub EXCEPT ![s].order = @ + 1]
    /\ UNCHANGED <<accounts, billing, events>>

\* A transfer is made for the order the customer was shown last.
Transfer(s) ==
    /\ sub[s].order > 0
    /\ transfers' = transfers \cup {<<s, sub[s].order>>}
    /\ UNCHANGED <<accounts, sub, bought, posts, cancelling, disorder, events>>

\* Mutant of ConfirmTransfer: a status the guard does not know.
ConfirmTransfer_Paid(s) ==
    /\ <<s, sub[s].order>> \in transfers /\ site.enforced
    /\ sub' = [sub EXCEPT ![s].status = "paid"]
    /\ UNCHANGED <<accounts, billing, events>>

\* confirmSePayTransfer: the transfer must name the current code, which stays.
ConfirmTransfer(s) ==
    /\ <<s, sub[s].order>> \in transfers /\ site.enforced
    /\ sub' = [sub EXCEPT ![s].status = "active"]
    /\ UNCHANGED <<accounts, billing, events>>

TrialEnds(s) ==
    /\ sub[s].status # "none" /\ ~sub[s].over
    /\ sub' = [sub EXCEPT ![s].over = TRUE]
    /\ UNCHANGED <<accounts, billing, events>>

-----------------------------------------------------------------------------
(* Specification *)

CallStep(r) == \/ CheckSlug(r) \/ CreateWorkspace(r) \/ CreateUser(r)
               \/ CreateSubscription(r) \/ CreateVerifyToken(r) \/ UseInvite(r)

Step ==
    \/ \E r \in Request : \/ CallStep(r) \/ CutShort(r)
                          \/ \E e \in Email, s \in Slug :
                               Register(r, e, s) \/ AcceptInvite(r, e, s) \/ AddUser(r, e, s)
    \/ \E e \in Email : VerifyEmail(e) \/ ChangeRole(e) \/ \E s \in Slug : SendInvite(e, s)
    \/ \E s \in Slug : \/ InitOrder(s) \/ Transfer(s) \/ ConfirmTransfer(s) \/ TrialEnds(s)
                       \/ \E x \in Purchase : OpenCheckout(s, x) \/ Cancel(s, x)
    \/ \E x \in Purchase : \/ Pay(x) \/ EndPurchase(x) \/ Completed(x) \/ Deleted(x)
                           \/ \E k \in PostKind : Ignore(<<k, x>>)

\* The process is started again with another environment.
Redeploy == Event /\ site' \in Site \ {site} /\ UNCHANGED <<accounts, sub, billing>>

Next == (Step /\ UNCHANGED site) \/ Redeploy

Spec == Init /\ [][Next]_vars

-----------------------------------------------------------------------------
(* Properties *)

\* Types of the variables.
TypeOK ==
    /\ workspaces \subseteq Slug /\ users \in [Email -> Slug \cup {"none"}]
    /\ chiefs \subseteq Email /\ verify \in [Email -> {"none", "open", "done"}]
    /\ invites \subseteq Email \X Slug /\ call \in [Request -> Call]
    /\ sub \in [Slug -> Subscription] /\ bought \in [Purchase -> Purchased]
    /\ posts \subseteq PostKind \X Purchase /\ cancelling \subseteq Slug \X Purchase
    /\ transfers \subseteq Slug \X (1..MaxOrders)
    /\ cut \subseteq Slug /\ disorder \subseteq Slug /\ events \in 0..MaxEvents
    /\ site \in Site

\* A sign-up is whole though nothing holds its statements together: a workspace has a
\* user, a subscription and a verification, unless its sign-up is at work, was cut
\* short, or lost its address to another call at the last moment.
SignUpIsWhole ==
    \A s \in workspaces :
        \/ s \in cut
        \/ \E r \in Request : call[r].kind = "signup" /\ call[r].slug = s
                              /\ call[r].at \in {"user", "subscription", "verify"}
        \/ /\ sub[s].status # "none"
           /\ \E e \in Email : users[e] = s /\ verify[e] # "none"

\* With all payment events of a workspace answered, in order and once, and no second
\* purchase on top of an unsettled one, the guard admits exactly the users of those that
\* pay or are in their trial; but a super_admin, and with billing disabled everyone, is
\* admitted anyhow. (A transfer that was confirmed admits too: those are left out.)
BillingFollowsPurchases ==
    \A e \in Email, s \in Slug :
        (/\ users[e] = s /\ sub[s].status # "none" /\ s \notin disorder
         /\ Posted(s) = {} /\ ~AtWork(s) /\ \A t \in transfers : t[1] # s)
        => (Admitted(e) <=> \/ ~site.enforced \/ e \in chiefs \/ Live(s) # {}
                            \/ sub[s].status = "trialing" /\ ~sub[s].over)

=============================================================================
