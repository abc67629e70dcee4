--------------------------- MODULE WorkspacesProofs ---------------------------
(***************************************************************************)
(* Proofs about Workspaces, in three layers: the types, with what a call   *)
(* at work is about (TInv); the links between accounts, subscriptions and  *)
(* purchases, with what each statement of a sign-up has established for    *)
(* the next (SInv); the phases a workspace goes through while its payment  *)
(* events come in order (BInv).                                            *)
(***************************************************************************)
EXTENDS Workspaces, TLAPS

-----------------------------------------------------------------------------
(* Types *)

\* The slot of no call.
LEMMA IdleCall == Idle \in Call /\ Idle.at = "idle" /\ Idle.kind = "signup"
  BY DEF Idle, Call, Kinds, Steps

\* A call that begins, goes on or returns stays a call.
LEMMA BeginType ==
    ASSUME TypeOK, NEW r \in Request, NEW at \in Steps, NEW kind \in {"signup", "invite", "staff", "chief"},
           NEW e \in Email, NEW s \in Slug, Begin(r, at, kind, e, s)
    PROVE  /\ call' \in [Request -> Call]
           /\ \A q \in Request \ {r} : call'[q] = call[q]
           /\ call[r] = Idle
           /\ call'[r] = [at |-> at, kind |-> kind, email |-> e, slug |-> s]
  BY DEF Begin, Call, Kinds, TypeOK

\* A step of a call changes its place and nothing else of it.
LEMMA GotoType ==
    ASSUME TypeOK, NEW r \in Request, NEW at \in Steps, Goto(r, at)
    PROVE  /\ call' \in [Request -> Call]
           /\ \A q \in Request \ {r} : call'[q] = call[q]
           /\ call'[r].at = at /\ call'[r].kind = call[r].kind
           /\ call'[r].email = call[r].email /\ call'[r].slug = call[r].slug
  <1>1. call[r] \in Call
    BY DEF TypeOK
  <1>2. [call[r] EXCEPT !.at = at] \in Call
    BY <1>1 DEF Call
  <1>3. call' = [call EXCEPT ![r] = [call[r] EXCEPT !.at = at]]
    BY DEF Goto
  <1>4. /\ [call[r] EXCEPT !.at = at].at = at
        /\ [call[r] EXCEPT !.at = at].kind = call[r].kind
        /\ [call[r] EXCEPT !.at = at].email = call[r].email
        /\ [call[r] EXCEPT !.at = at].slug = call[r].slug
    BY <1>1 DEF Call
  <1> DEFINE n == [call[r] EXCEPT !.at = at]
  <1> HIDE DEF n
  <1>5. call' = [call EXCEPT ![r] = n] /\ n \in Call
    BY <1>2, <1>3 DEF n
  <1>6. n.at = at /\ n.kind = call[r].kind /\ n.email = call[r].email /\ n.slug = call[r].slug
    BY <1>4 DEF n
  <1> QED  BY <1>5, <1>6 DEF TypeOK

\* A call that returns frees its slot.
LEMMA ReturnType ==
    ASSUME TypeOK, NEW r \in Request, Return(r)
    PROVE  /\ call' \in [Request -> Call]
           /\ \A q \in Request \ {r} : call'[q] = call[q]
           /\ call'[r] = Idle
  BY IdleCall DEF Return, TypeOK

\* What a call at work is about: an address and a slug, and only sign-ups store a
\* subscription.
CallOK(r) ==
    /\ call[r].at # "idle" => call[r].email \in Email /\ call[r].slug \in Slug
    /\ call[r].kind = "signup" => call[r].at # "used"
    /\ call[r].kind # "signup" => call[r].at \in {"user", "used"}

\* A payment event is one of a purchase that was made.
PostOK == /\ \A k \in PostKind, x \in Purchase :
               <<k, x>> \in posts => bought[x].is \notin {"none", "open"}
          /\ \A x \in Purchase : IF bought[x].is = "none" THEN bought[x].by = "none"
                                                      ELSE bought[x].by \in Slug

\* The types, with what posts and calls say of each other.
TInv == TypeOK /\ PostOK /\ \A r \in Request : CallOK(r)

\* At first no call is at work and nothing is stored.
LEMMA TInit == Init => TInv
  <1> SUFFICES ASSUME Init PROVE TInv
    OBVIOUS
  <1>1. \A r \in Request : call[r] = Idle
    BY DEF Init
  <1>2. call \in [Request -> Call] /\ \A r \in Request : CallOK(r)
    BY <1>1, IdleCall DEF Init, CallOK
  <1>3. sub \in [Slug -> Subscription] /\ bought \in [Purchase -> Purchased]
    BY BoundsAssumption DEF Init, Subscription, Status, NoRow, Purchased
  <1>4. PostOK
    BY DEF Init, PostOK
  <1>5. events \in 0..MaxEvents
    BY BoundsAssumption DEF Init
  <1>8. chiefs \subseteq Email /\ site \in Site
    BY DEF Init
  <1>6. /\ workspaces \subseteq Slug /\ users \in [Email -> Slug \cup {"none"}]
        /\ verify \in [Email -> {"none", "open", "done"}]
        /\ invites \subseteq Email \X Slug
    BY DEF Init
  <1>7. /\ posts \subseteq PostKind \X Purchase /\ cancelling \subseteq Slug \X Purchase
        /\ transfers \subseteq Slug \X (1..MaxOrders)
        /\ cut \subseteq Slug /\ disorder \subseteq Slug
    BY DEF Init
  <1> QED  BY <1>2, <1>3, <1>4, <1>5, <1>6, <1>7, <1>8 DEF TInv, TypeOK

\* The events that are counted stay within their bound.
LEMMA EventType ==
    ASSUME TypeOK, Event \/ UNCHANGED events
    PROVE  events' \in 0..MaxEvents
  BY BoundsAssumption DEF TypeOK, Event

\* A change of one field of a subscription.
SubStep(s) == \A t \in Slug \ {s} : sub'[t] = sub[t]

\* A new row for one workspace leaves the others alone.
LEMMA SubType ==
    ASSUME TypeOK, NEW s \in Slug, NEW row \in Subscription, sub' = [sub EXCEPT ![s] = row]
    PROVE  sub' \in [Slug -> Subscription] /\ SubStep(s) /\ sub'[s] = row
  BY DEF TypeOK, SubStep

\* The fields a subscription is changed in.
LEMMA SubRows ==
    ASSUME TypeOK, NEW s \in Slug, NEW st \in Status, NEW x \in Purchase \cup {"none"},
           NEW n \in 0..MaxOrders, NEW over \in BOOLEAN
    PROVE  [status |-> st, stripe |-> x, order |-> n, over |-> over] \in Subscription
  BY DEF Subscription

\* The calls, after one of them begins, goes on or returns.
LEMMA CallBegins ==
    ASSUME TInv, NEW r \in Request, NEW at \in Steps \ {"idle"},
           NEW kind \in {"signup", "invite", "staff", "chief"},
           NEW e \in Email, NEW s \in Slug, Begin(r, at, kind, e, s),
           kind = "signup" => at # "used", kind # "signup" => at \in {"user", "used"}
    PROVE  call' \in [Request -> Call] /\ \A q \in Request : CallOK(q)'
  <1>1. /\ call' \in [Request -> Call] /\ \A q \in Request \ {r} : call'[q] = call[q]
        /\ call'[r] = [at |-> at, kind |-> kind, email |-> e, slug |-> s]
    BY BeginType DEF TInv
  <1>2. CallOK(r)'
    BY <1>1 DEF CallOK
  <1> QED  BY <1>1, <1>2 DEF TInv, CallOK

\* A call that goes on is about the same address and slug.
LEMMA CallGoesOn ==
    ASSUME TInv, NEW r \in Request, NEW at \in Steps \ {"idle"}, Goto(r, at),
           call[r].at # "idle", call[r].kind = "signup" => at # "used",
           call[r].kind # "signup" => at \in {"user", "used"}
    PROVE  call' \in [Request -> Call] /\ \A q \in Request : CallOK(q)'
  <1>1. /\ call' \in [Request -> Call] /\ \A q \in Request \ {r} : call'[q] = call[q]
        /\ call'[r].at = at /\ call'[r].kind = call[r].kind
        /\ call'[r].email = call[r].email /\ call'[r].slug = call[r].slug
    BY GotoType DEF TInv
  <1>2. CallOK(r)'
    BY <1>1 DEF CallOK, TInv
  <1> QED  BY <1>1, <1>2 DEF TInv, CallOK

\* A call that returns leaves the others as they are.
LEMMA CallReturns ==
    ASSUME TInv, NEW r \in Request, Return(r)
    PROVE  call' \in [Request -> Call] /\ \A q \in Request : CallOK(q)'
  <1>1. /\ call' \in [Request -> Call] /\ \A q \in Request \ {r} : call'[q] = call[q]
        /\ call'[r] = Idle
    BY ReturnType DEF TInv
  <1>2. CallOK(r)'
    BY <1>1, IdleCall DEF CallOK
  <1> QED  BY <1>1, <1>2 DEF TInv, CallOK

\* The statements of sign-up, invitation and staff keep the types.
LEMMA CallStepType ==
    ASSUME TInv, NEW r \in Request, CallStep(r), UNCHANGED site
    PROVE  TInv'
  <1>0. /\ TypeOK /\ PostOK /\ CallOK(r) /\ call[r] \in Call
        /\ {"slug", "workspace", "user", "subscription", "verify", "used"} \subseteq Steps
    BY DEF TInv, TypeOK, Steps
  <1>1. ASSUME CheckSlug(r) PROVE TInv'
    <2>1. call' \in [Request -> Call] /\ \A q \in Request : CallOK(q)'
      BY <1>0, <1>1, CallGoesOn, CallReturns DEF CheckSlug, CallOK
    <2>2. UNCHANGED <<workspaces, users, chiefs, verify, invites, cut, sub, billing, events>>
      BY <1>1 DEF CheckSlug
    <2> QED  BY <1>0, <2>1, <2>2 DEF TInv, TypeOK, PostOK, billing
  <1>2. ASSUME CreateWorkspace(r) PROVE TInv'
    <2>1. call' \in [Request -> Call] /\ \A q \in Request : CallOK(q)'
      BY <1>0, <1>2, CallGoesOn, CallReturns DEF CreateWorkspace, CallOK
    <2>2. /\ UNCHANGED <<users, chiefs, verify, invites, cut, sub, billing, events>>
          /\ workspaces' = workspaces \cup {call[r].slug} /\ call[r].slug \in Slug
      BY <1>0, <1>2 DEF CreateWorkspace, CallOK
    <2> QED  BY <1>0, <2>1, <2>2 DEF TInv, TypeOK, PostOK, billing
  <1>3. ASSUME CreateUser(r) PROVE TInv'
    <2>1. call' \in [Request -> Call] /\ \A q \in Request : CallOK(q)'
      <3>1. \/ Return(r)
            \/ call[r].kind = "signup" /\ Goto(r, "subscription")
            \/ call[r].kind = "invite" /\ Goto(r, "used")
        BY <1>3 DEF CreateUser
      <3>2. call[r].at = "user"
        BY <1>3 DEF CreateUser
      <3> QED  BY <1>0, <3>1, <3>2, CallGoesOn, CallReturns
    <2>2. call[r].email \in Email /\ call[r].slug \in Slug
      BY <1>0, <1>3 DEF CreateUser, CallOK
    <2>3. /\ UNCHANGED <<workspaces, verify, invites, sub, billing, events>>
          /\ users' = users \/ users' = [users EXCEPT ![call[r].email] = call[r].slug]
          /\ cut' = cut \/ cut' = cut \cup {call[r].slug}
          /\ chiefs' = chiefs \/ chiefs' = chiefs \cup {call[r].email}
      BY <1>3 DEF CreateUser
    <2>4. /\ users' \in [Email -> Slug \cup {"none"}]
          /\ cut' \subseteq Slug /\ chiefs' \subseteq Email
      BY <1>0, <2>2, <2>3 DEF TypeOK
    <2> QED  BY <1>0, <2>1, <2>3, <2>4 DEF TInv, TypeOK, PostOK, billing
  <1>4. ASSUME CreateSubscription(r) PROVE TInv'
    <2>1. call' \in [Request -> Call] /\ \A q \in Request : CallOK(q)'
      BY <1>0, <1>4, CallGoesOn DEF CreateSubscription, CallOK
    <2>2. /\ UNCHANGED <<workspaces, users, chiefs, verify, invites, cut, billing, events>>
          /\ sub' = [sub EXCEPT ![call[r].slug] = [NoRow EXCEPT !.status = "trialing"]]
          /\ call[r].slug \in Slug
      BY <1>0, <1>4 DEF CreateSubscription, CallOK
    <2>3. [NoRow EXCEPT !.status = "trialing"] \in Subscription
      <3>1. "none" \in Status /\ "trialing" \in Status /\ 0 \in 0..MaxOrders
        BY BoundsAssumption DEF Status
      <3>2. NoRow \in Subscription
        BY <3>1 DEF NoRow, Subscription
      <3> QED  BY <3>1, <3>2 DEF Subscription
    <2>4. sub' \in [Slug -> Subscription]
      BY <1>0, <2>2, <2>3, SubType
    <2> QED  BY <1>0, <2>1, <2>2, <2>4 DEF TInv, TypeOK, PostOK, billing
  <1>5. ASSUME CreateVerifyToken(r) PROVE TInv'
    <2>1. call' \in [Request -> Call] /\ \A q \in Request : CallOK(q)'
      BY <1>0, <1>5, CallReturns DEF CreateVerifyToken
    <2>2. /\ UNCHANGED <<workspaces, users, chiefs, invites, cut, sub, billing, events>>
          /\ verify' = [verify EXCEPT ![call[r].email] = "open"]
      BY <1>5 DEF CreateVerifyToken
    <2> QED  BY <1>0, <2>1, <2>2 DEF TInv, TypeOK, PostOK, billing
  <1>6. ASSUME UseInvite(r) PROVE TInv'
    <2>1. call' \in [Request -> Call] /\ \A q \in Request : CallOK(q)'
      BY <1>0, <1>6, CallReturns DEF UseInvite
    <2>2. /\ UNCHANGED <<workspaces, users, chiefs, verify, cut, sub, billing, events>>
          /\ invites' \subseteq invites
      BY <1>6 DEF UseInvite
    <2> QED  BY <1>0, <2>1, <2>2 DEF TInv, TypeOK, PostOK, billing
  <1> QED  BY <1>1, <1>2, <1>3, <1>4, <1>5, <1>6 DEF CallStep

\* So does what starts a call,
LEMMA StartType ==
    ASSUME TInv, NEW r \in Request, NEW e \in Email, NEW s \in Slug, UNCHANGED site,
           Register(r, e, s) \/ AcceptInvite(r, e, s) \/ AddUser(r, e, s)
    PROVE  TInv'
  <1>1. call' \in [Request -> Call] /\ \A q \in Request : CallOK(q)'
    BY CallBegins DEF Register, AcceptInvite, AddUser, Steps
  <1>2. UNCHANGED <<workspaces, users, chiefs, verify, invites, cut, sub, billing, events>>
    BY DEF Register, AcceptInvite, AddUser
  <1> QED  BY <1>1, <1>2 DEF TInv, TypeOK, PostOK, billing

\* what cuts one short,
LEMMA CutType ==
    ASSUME TInv, NEW r \in Request, CutShort(r), UNCHANGED site
    PROVE  TInv'
  <1>1. call' \in [Request -> Call] /\ \A q \in Request : CallOK(q)'
    BY CallReturns DEF CutShort
  <1>2. UNCHANGED <<workspaces, users, chiefs, verify, invites, sub, billing>> /\ Event
    BY DEF CutShort
  <1>3. cut' \subseteq Slug
    BY DEF CutShort, CallOK, TInv, TypeOK
  <1>4. events' \in 0..MaxEvents
    BY <1>2, EventType DEF TInv
  <1> QED  BY <1>1, <1>2, <1>3, <1>4 DEF TInv, TypeOK, PostOK, billing

\* a verification, a change of role and an invitation,
LEMMA MailType ==
    ASSUME TInv, NEW e \in Email, UNCHANGED site,
           VerifyEmail(e) \/ ChangeRole(e) \/ \E s \in Slug : SendInvite(e, s)
    PROVE  TInv'
  <1>1. UNCHANGED <<workspaces, users, call, cut, sub, billing, events>>
    BY DEF VerifyEmail, ChangeRole, SendInvite
  <1>2. /\ verify' \in [Email -> {"none", "open", "done"}]
        /\ invites' \subseteq Email \X Slug /\ chiefs' \subseteq Email
    BY DEF VerifyEmail, ChangeRole, SendInvite, TInv, TypeOK
  <1>3. \A q \in Request : CallOK(q)'
    BY <1>1 DEF TInv, CallOK
  <1>4. TypeOK'
    BY <1>1, <1>2 DEF TInv, TypeOK, billing
  <1>5. PostOK'
    BY <1>1 DEF TInv, PostOK, billing
  <1> QED  BY <1>3, <1>4, <1>5 DEF TInv

\* One field of a subscription is changed.
LEMMA SubFields ==
    ASSUME NEW row \in Subscription, NEW st \in Status, NEW x \in Purchase \cup {"none"},
           NEW n \in 0..MaxOrders
    PROVE  /\ [row EXCEPT !.status = st] \in Subscription
           /\ [row EXCEPT !.status = st].status = st
           /\ [row EXCEPT !.status = st].stripe = row.stripe
           /\ [row EXCEPT !.status = st, !.stripe = x] \in Subscription
           /\ [row EXCEPT !.status = st, !.stripe = x].status = st
           /\ [row EXCEPT !.status = st, !.stripe = x].stripe = x
           /\ [row EXCEPT !.order = n] \in Subscription
           /\ [row EXCEPT !.order = n].status = row.status
           /\ [row EXCEPT !.order = n].stripe = row.stripe
           /\ [row EXCEPT !.over = TRUE] \in Subscription
           /\ [row EXCEPT !.over = TRUE].status = row.status
           /\ [row EXCEPT !.over = TRUE].stripe = row.stripe
  BY DEF Subscription

\* What a step does to the subscription of s, and to no other.
Becomes(s, status, stripe) ==
    /\ sub' \in [Slug -> Subscription] /\ SubStep(s)
    /\ sub'[s].status = status /\ sub'[s].stripe = stripe

\* The purchase an event of completion names was made, and its subscription is active.
LEMMA CompletedStep ==
    ASSUME TInv, NEW x \in Purchase, Completed(x)
    PROVE  bought[x].by \in Slug /\ Becomes(bought[x].by, "active", x)
  <1>1. bought[x].by \in Slug
    BY DEF Completed, TInv, PostOK, PostKind
  <1> DEFINE s == bought[x].by
             old == sub[s]
             row == [old EXCEPT !.status = "active", !.stripe = x]
  <1>2. old \in Subscription /\ "active" \in Status /\ 0 \in 0..MaxOrders
    BY <1>1, BoundsAssumption DEF TInv, TypeOK, Status
  <1> HIDE DEF old
  <1>3. row \in Subscription /\ row.status = "active" /\ row.stripe = x
    BY <1>2 DEF Subscription
  <1>4. sub' = [sub EXCEPT ![s] = row]
    BY DEF Completed, old
  <1> HIDE DEF s, row
  <1>5. s \in Slug
    BY <1>1 DEF s
  <1>6. Becomes(s, "active", x)
    BY <1>3, <1>4, <1>5, SubType DEF Becomes, TInv
  <1> QED  BY <1>1, <1>6 DEF s

\* A change of the status keeps the purchase a subscription names.
LEMMA StatusStep ==
    ASSUME TInv, NEW s \in Slug, NEW st \in Status, sub' = [sub EXCEPT ![s].status = st]
    PROVE  Becomes(s, st, sub[s].stripe)
  <1> DEFINE row == [sub[s] EXCEPT !.status = st]
  <1>2. sub[s] \in Subscription /\ 0 \in 0..MaxOrders
    BY BoundsAssumption DEF TInv, TypeOK
  <1>3. row \in Subscription /\ row.status = st /\ row.stripe = sub[s].stripe
    BY <1>2, SubFields
  <1>4. sub' = [sub EXCEPT ![s] = row]
    OBVIOUS
  <1> HIDE DEF row
  <1> QED  BY <1>3, <1>4, SubType DEF Becomes, TInv

\* An order and the end of a trial change neither status nor purchase.
LEMMA OrderStep ==
    ASSUME TInv, NEW s \in Slug, InitOrder(s) \/ TrialEnds(s)
    PROVE  Becomes(s, sub[s].status, sub[s].stripe)
  <1>1. sub[s] \in Subscription
    BY DEF TInv, TypeOK
  <1>2. ASSUME InitOrder(s) PROVE Becomes(s, sub[s].status, sub[s].stripe)
    <2> DEFINE n == sub[s].order + 1
               row == [sub[s] EXCEPT !.order = n]
    <2>1. n \in 0..MaxOrders /\ "none" \in Status
      BY <1>1, <1>2, BoundsAssumption DEF InitOrder, Subscription, Status
    <2>2. sub' = [sub EXCEPT ![s] = row]
      BY <1>2 DEF InitOrder
    <2> HIDE DEF n
    <2>3. row \in Subscription /\ row.status = sub[s].status /\ row.stripe = sub[s].stripe
      BY <1>1, <2>1, SubFields
    <2> HIDE DEF row
    <2> QED  BY <2>2, <2>3, SubType DEF Becomes, TInv
  <1>3. ASSUME TrialEnds(s) PROVE Becomes(s, sub[s].status, sub[s].stripe)
    <2> DEFINE row == [sub[s] EXCEPT !.over = TRUE]
    <2>1. 0 \in 0..MaxOrders /\ "none" \in Status
      BY BoundsAssumption DEF Status
    <2>2. sub' = [sub EXCEPT ![s] = row]
      BY <1>3 DEF TrialEnds
    <2>3. row \in Subscription /\ row.status = sub[s].status /\ row.stripe = sub[s].stripe
      BY <1>1, <2>1, SubFields
    <2> HIDE DEF row
    <2> QED  BY <2>2, <2>3, SubType DEF Becomes, TInv
  <1> QED  BY <1>2, <1>3

\* What a step does to a purchase, and to no other.
Buys(x, by, is) == /\ bought' \in [Purchase -> Purchased]
                   /\ bought'[x].by = by /\ bought'[x].is = is
                   /\ \A y \in Purchase \ {x} : bought'[y] = bought[y]

\* A purchase is made by one workspace, and stays its own when it ends.
LEMMA PurchaseStep ==
    ASSUME TInv, NEW x \in Purchase
    PROVE  /\ \A s \in Slug : OpenCheckout(s, x) => Buys(x, s, "open")
           /\ Pay(x) => Buys(x, bought[x].by, "live")
           /\ EndPurchase(x) => Buys(x, bought[x].by, "ended")
  <1>1. bought[x] \in Purchased
    BY DEF TInv, TypeOK
  <1>2. ASSUME NEW s \in Slug, OpenCheckout(s, x) PROVE Buys(x, s, "open")
    BY <1>2 DEF OpenCheckout, Buys, TInv, TypeOK, Purchased
  <1>3. ASSUME NEW is \in {"live", "ended"}, bought' = [bought EXCEPT ![x].is = is]
        PROVE  Buys(x, bought[x].by, is)
    <2> DEFINE row == [bought[x] EXCEPT !.is = is]
    <2>1. row \in Purchased /\ row.by = bought[x].by /\ row.is = is
      BY <1>1 DEF Purchased
    <2>2. bought' = [bought EXCEPT ![x] = row]
      BY <1>3
    <2> HIDE DEF row
    <2> QED  BY <2>1, <2>2 DEF Buys, TInv, TypeOK
  <1> QED  BY <1>2, <1>3 DEF Pay, EndPurchase

\* and every step of the billing, which leaves the accounts alone.
LEMMA BillingType ==
    ASSUME TInv, UNCHANGED site,
           \/ \E s \in Slug : \/ InitOrder(s) \/ Transfer(s) \/ ConfirmTransfer(s) \/ TrialEnds(s)
                              \/ \E x \in Purchase : OpenCheckout(s, x) \/ Cancel(s, x)
           \/ \E x \in Purchase : \/ Pay(x) \/ EndPurchase(x) \/ Completed(x) \/ Deleted(x)
                                  \/ \E k \in PostKind : Ignore(<<k, x>>)
    PROVE  TInv' /\ UNCHANGED accounts
  <1>0. TypeOK /\ PostOK
    BY DEF TInv
  <1>1. ASSUME UNCHANGED accounts, TypeOK', PostOK' PROVE TInv' /\ UNCHANGED accounts
    <2>1. \A q \in Request : CallOK(q)'
      BY <1>1 DEF TInv, CallOK, accounts
    <2> QED  BY <1>1, <2>1 DEF TInv
  <1>2. ASSUME NEW s \in Slug, InitOrder(s) \/ TrialEnds(s) \/ ConfirmTransfer(s)
        PROVE  TInv' /\ UNCHANGED accounts
    <2>1. sub' \in [Slug -> Subscription]
      BY <1>2, OrderStep, StatusStep DEF Becomes, ConfirmTransfer, Status
    <2>2. UNCHANGED <<accounts, billing, events>>
      BY <1>2 DEF InitOrder, TrialEnds, ConfirmTransfer
    <2> QED  BY <1>0, <1>1, <2>1, <2>2 DEF TypeOK, PostOK, accounts, billing
  <1>3. ASSUME NEW s \in Slug, Transfer(s) PROVE TInv' /\ UNCHANGED accounts
    <2>1. sub[s].order \in 1..MaxOrders
      BY <1>0, <1>3, BoundsAssumption DEF Transfer, TypeOK, Subscription
    <2>2. transfers' \subseteq Slug \X (1..MaxOrders)
      BY <1>0, <1>3, <2>1 DEF Transfer, TypeOK
    <2>3. UNCHANGED <<accounts, sub, bought, posts, cancelling, disorder, events>>
      BY <1>3 DEF Transfer
    <2> QED  BY <1>0, <1>1, <2>2, <2>3 DEF TypeOK, PostOK, accounts
  <1>4. ASSUME NEW s \in Slug, NEW x \in Purchase, OpenCheckout(s, x)
        PROVE  TInv' /\ UNCHANGED accounts
    <2>1. Buys(x, s, "open") /\ bought[x].is = "none"
      BY <1>4, PurchaseStep DEF OpenCheckout
    <2>2. UNCHANGED <<accounts, sub, posts, cancelling, transfers, disorder, events>>
      BY <1>4 DEF OpenCheckout
    <2>3. PostOK'
      <3>1. \A y \in Purchase : y = x \/ bought'[y] = bought[y]
        BY <2>1 DEF Buys
      <3>2. bought'[x].is = "open" /\ bought'[x].by \in Slug
        BY <2>1 DEF Buys
      <3>3. \A k \in PostKind : <<k, x>> \notin posts
        BY <1>0, <2>1 DEF PostOK
      <3> QED  BY <1>0, <2>2, <3>1, <3>2, <3>3 DEF PostOK
    <2> QED  BY <1>0, <1>1, <2>1, <2>2, <2>3 DEF TypeOK, Buys, accounts
  <1>10. ASSUME NEW x \in Purchase, Pay(x)
        PROVE  TInv' /\ UNCHANGED accounts
    <2>1. Buys(x, bought[x].by, "live") /\ bought[x].is = "open" /\ bought[x].by \in Slug
      BY <1>0, <1>10, PurchaseStep DEF Pay, PostOK
    <2>2. /\ posts' = posts \cup {<<"completed", x>>}
          /\ disorder' \subseteq disorder \cup {bought[x].by}
          /\ UNCHANGED <<accounts, sub, cancelling, transfers, events>>
      BY <1>10 DEF Pay
    <2>3. posts' \subseteq PostKind \X Purchase /\ disorder' \subseteq Slug
      BY <1>0, <2>1, <2>2 DEF TypeOK, PostKind
    <2>4. PostOK'
      <3>1. \A y \in Purchase : y = x \/ bought'[y] = bought[y]
        BY <2>1 DEF Buys
      <3>2. bought'[x].is = "live" /\ bought'[x].by \in Slug
        BY <2>1 DEF Buys
      <3>3. \A k \in PostKind, y \in Purchase :
              <<k, y>> \in posts' => <<k, y>> \in posts \/ y = x
        BY <2>2
      <3> QED  BY <1>0, <3>1, <3>2, <3>3 DEF PostOK
    <2> QED  BY <1>0, <1>1, <2>1, <2>2, <2>3, <2>4 DEF TypeOK, Buys, accounts
  <1>11. ASSUME NEW k \in PostKind, NEW x \in Purchase, Ignore(<<k, x>>)
         PROVE  TInv' /\ UNCHANGED accounts
    <2>1. bought[x].by \in Slug
      BY <1>0, <1>11 DEF PostOK, Ignore
    <2>2. /\ posts' \subseteq posts /\ disorder' = disorder \cup {bought[x].by}
          /\ UNCHANGED <<accounts, sub, bought, cancelling, transfers, events>>
      BY <1>11 DEF Ignore
    <2> QED  BY <1>0, <1>1, <2>1, <2>2 DEF TypeOK, PostOK, accounts
  <1>5. ASSUME NEW s \in Slug, NEW x \in Purchase, Cancel(s, x)
        PROVE  TInv' /\ UNCHANGED accounts
    <2>1. sub' \in [Slug -> Subscription]
      BY <1>5, StatusStep DEF Becomes, Cancel, Status
    <2>2. /\ cancelling' \subseteq cancelling
          /\ UNCHANGED <<accounts, bought, posts, transfers, disorder, events>>
      BY <1>5 DEF Cancel
    <2> QED  BY <1>0, <1>1, <2>1, <2>2 DEF TypeOK, PostOK, accounts
  <1>6. ASSUME NEW x \in Purchase, EndPurchase(x) PROVE TInv' /\ UNCHANGED accounts
    <2>1. Buys(x, bought[x].by, "ended") /\ bought[x].is = "live"
      BY <1>6, PurchaseStep DEF EndPurchase
    <2>2. /\ posts' = posts \cup {<<"deleted", x>>}
          /\ UNCHANGED <<accounts, sub, cancelling, transfers, disorder, events>>
      BY <1>6 DEF EndPurchase
    <2>3. posts' \subseteq PostKind \X Purchase
      BY <1>0, <2>2 DEF TypeOK, PostKind
    <2>4. PostOK'
      <3>1. \A y \in Purchase : y = x \/ bought'[y] = bought[y]
        BY <2>1 DEF Buys
      <3>2. bought'[x].is = "ended" /\ bought'[x].by \in Slug
        BY <1>0, <2>1 DEF Buys, PostOK
      <3>3. \A k \in PostKind, y \in Purchase :
              <<k, y>> \in posts' => <<k, y>> \in posts \/ y = x
        BY <2>2
      <3> QED  BY <1>0, <3>1, <3>2, <3>3 DEF PostOK
    <2> QED  BY <1>0, <1>1, <2>1, <2>2, <2>3, <2>4 DEF TypeOK, Buys, accounts
  <1>7. ASSUME NEW k \in PostKind, NEW x \in Purchase, <<k, x>> \in posts,
               Answer(<<k, x>>), Crossed(<<k, x>>)
        PROVE  /\ posts' \subseteq posts /\ disorder' \subseteq Slug
               /\ events' \in 0..MaxEvents
    <2>1. bought[x].by \in Slug
      BY <1>0, <1>7 DEF PostOK
    <2>2. posts' \subseteq posts /\ (Event \/ UNCHANGED events)
      BY <1>7 DEF Answer
    <2>3. disorder' \subseteq disorder \cup {bought[x].by}
      BY <1>7 DEF Crossed
    <2> QED  BY <1>0, <2>1, <2>2, <2>3, EventType DEF TypeOK
  <1>8. ASSUME NEW x \in Purchase, Completed(x) PROVE TInv' /\ UNCHANGED accounts
    <2>1. sub' \in [Slug -> Subscription]
      BY <1>8, CompletedStep DEF Becomes
    <2>2. /\ <<"completed", x>> \in posts
          /\ Answer(<<"completed", x>>) /\ Crossed(<<"completed", x>>)
          /\ UNCHANGED <<accounts, bought, cancelling, transfers>>
      BY <1>8 DEF Completed
    <2>3. posts' \subseteq posts /\ disorder' \subseteq Slug /\ events' \in 0..MaxEvents
      BY <1>7, <2>2 DEF PostKind
    <2> QED  BY <1>0, <1>1, <2>1, <2>2, <2>3 DEF TypeOK, PostOK, accounts
  <1>9. ASSUME NEW x \in Purchase, Deleted(x) PROVE TInv' /\ UNCHANGED accounts
    <2>1. /\ <<"deleted", x>> \in posts
          /\ Answer(<<"deleted", x>>) /\ Crossed(<<"deleted", x>>)
          /\ UNCHANGED <<accounts, sub, bought, transfers>>
      BY <1>9 DEF Deleted
    <2>2. cancelling' \subseteq Slug \X Purchase
      BY <1>0, <1>9 DEF Deleted, TypeOK
    <2>3. posts' \subseteq posts /\ disorder' \subseteq Slug /\ events' \in 0..MaxEvents
      BY <1>7, <2>1 DEF PostKind
    <2> QED  BY <1>0, <1>1, <2>1, <2>2, <2>3 DEF TypeOK, PostOK, accounts
  <1> QED  BY <1>2, <1>3, <1>4, <1>5, <1>6, <1>8, <1>9, <1>10, <1>11

\* A step that changes nothing keeps the types.
LEMMA TStutter == TInv /\ UNCHANGED vars => TInv'
  BY DEF TInv, TypeOK, PostOK, CallOK, vars, accounts, billing

\* The types, with what each call is about and who bought what, are inductive.
LEMMA TNext == TInv /\ [Next]_vars => TInv'
  <1> SUFFICES ASSUME TInv, Next PROVE TInv'
    BY TStutter
  <1>1. CASE Step /\ UNCHANGED site
    BY <1>1, CallStepType, StartType, CutType, MailType, BillingType DEF Step
  <1>2. CASE Redeploy
    BY <1>2, EventType DEF Redeploy, TInv, TypeOK, PostOK, CallOK, accounts, billing
  <1> QED  BY <1>1, <1>2 DEF Next

\* Every variable of Workspaces keeps its type, and only states of the code occur in a
\* subscription: its order stays within the bound, its purchase is one that was made.
THEOREM TypesAlwaysOK == Spec => []TypeOK
  <1>1. TInv => TypeOK
    BY DEF TInv
  <1> QED  BY <1>1, TInit, TNext, PTL DEF Spec

-----------------------------------------------------------------------------
(* Purchases and subscriptions belong together *)

\* A purchase, a cancellation at work and the id in a subscription name the workspace
\* that bought; only a workspace with a subscription buys or orders.
Linked(s) ==
    /\ sub[s].status = "none" => sub[s].order = 0 /\ sub[s].stripe = "none"
    /\ \A x \in Purchase : /\ bought[x].by = s => sub[s].status # "none"
                           /\ sub[s].stripe = x => bought[x].by = s
                           /\ <<s, x>> \in cancelling => bought[x].by = s

\* A row that is there stays there, and only a sign-up makes one.
SameRows == \A s \in Slug : sub'[s].status = "none" <=> sub[s].status = "none"

\* A subscription that is not changed, or only by a step that keeps its links.
LEMMA LinkStays ==
    ASSUME TInv, NEW s \in Slug, Linked(s), sub'[s] = sub[s],
           UNCHANGED <<bought, cancelling>>
    PROVE  Linked(s)'
  BY DEF Linked

\* Every step of the billing keeps the links, and neither makes nor loses a row.
LEMMA BillingLinks ==
    ASSUME TInv, \A s \in Slug : Linked(s),
           \/ \E s \in Slug : \/ InitOrder(s) \/ Transfer(s) \/ ConfirmTransfer(s) \/ TrialEnds(s)
                              \/ \E x \in Purchase : OpenCheckout(s, x) \/ Cancel(s, x)
           \/ \E x \in Purchase : \/ Pay(x) \/ EndPurchase(x) \/ Completed(x) \/ Deleted(x)
                                  \/ \E k \in PostKind : Ignore(<<k, x>>)
    PROVE  SameRows /\ \A s \in Slug : Linked(s)'
  <1>1. ASSUME NEW s \in Slug, InitOrder(s) \/ TrialEnds(s)
        PROVE  SameRows /\ \A t \in Slug : Linked(t)'
    <2>1. Becomes(s, sub[s].status, sub[s].stripe)
      BY <1>1, OrderStep
    <2>2. sub[s].status # "none" /\ UNCHANGED <<bought, cancelling>>
      BY <1>1 DEF InitOrder, TrialEnds, billing
    <2> QED  BY <2>1, <2>2 DEF Becomes, SubStep, SameRows, Linked
  <1>2. ASSUME NEW s \in Slug, ConfirmTransfer(s)
        PROVE  SameRows /\ \A t \in Slug : Linked(t)'
    <2>1. Becomes(s, "active", sub[s].stripe)
      BY <1>2, StatusStep DEF ConfirmTransfer, Status
    <2>2. UNCHANGED <<bought, cancelling>>
      BY <1>2 DEF ConfirmTransfer, billing
    <2>3. sub[s].order # 0
      BY <1>2 DEF ConfirmTransfer, TInv, TypeOK
    <2> QED  BY <2>1, <2>2, <2>3 DEF Becomes, SubStep, SameRows, Linked
  <1>3. ASSUME NEW s \in Slug, Transfer(s)
        PROVE  SameRows /\ \A t \in Slug : Linked(t)'
    BY <1>3 DEF Transfer, SameRows, Linked
  <1>4. ASSUME NEW s \in Slug, NEW x \in Purchase, OpenCheckout(s, x)
        PROVE  SameRows /\ \A t \in Slug : Linked(t)'
    <2>1. Buys(x, s, "open")
      BY <1>4, PurchaseStep
    <2>2. sub[s].status # "none" /\ bought[x].is = "none" /\ UNCHANGED <<sub, cancelling>>
      BY <1>4 DEF OpenCheckout
    <2>3. bought[x].by \notin Slug
      BY <2>2, NoneAssumption DEF TInv, PostOK
    <2> QED  BY <2>1, <2>2, <2>3 DEF Buys, SameRows, Linked
  <1>9. ASSUME NEW x \in Purchase, Pay(x)
        PROVE  SameRows /\ \A t \in Slug : Linked(t)'
    <2>1. Buys(x, bought[x].by, "live") /\ UNCHANGED <<sub, cancelling>>
      BY <1>9, PurchaseStep DEF Pay
    <2> QED  BY <2>1 DEF Buys, SameRows, Linked
  <1>10. ASSUME NEW k \in PostKind, NEW x \in Purchase, Ignore(<<k, x>>)
         PROVE  SameRows /\ \A t \in Slug : Linked(t)'
    BY <1>10, LinkStays DEF Ignore, SameRows
  <1>5. ASSUME NEW s \in Slug, NEW x \in Purchase, Cancel(s, x)
        PROVE  SameRows /\ \A t \in Slug : Linked(t)'
    <2>1. Becomes(s, "canceled", sub[s].stripe)
      BY <1>5, StatusStep DEF Cancel, Status
    <2>2. <<s, x>> \in cancelling /\ cancelling' \subseteq cancelling /\ UNCHANGED bought
      BY <1>5 DEF Cancel
    <2>3. sub[s].status # "none"
      BY <2>2 DEF Linked
    <2> QED  BY <2>1, <2>2, <2>3 DEF Becomes, SubStep, SameRows, Linked
  <1>6. ASSUME NEW x \in Purchase, EndPurchase(x)
        PROVE  SameRows /\ \A t \in Slug : Linked(t)'
    <2>1. Buys(x, bought[x].by, "ended") /\ UNCHANGED <<sub, cancelling>>
      BY <1>6, PurchaseStep DEF EndPurchase
    <2> QED  BY <2>1 DEF Buys, SameRows, Linked
  <1>7. ASSUME NEW x \in Purchase, Completed(x)
        PROVE  SameRows /\ \A t \in Slug : Linked(t)'
    <2> DEFINE s == bought[x].by
    <2>1. s \in Slug /\ Becomes(s, "active", x)
      BY <1>7, CompletedStep
    <2>2. UNCHANGED <<bought, cancelling>>
      BY <1>7 DEF Completed
    <2>3. sub[s].status # "none"
      BY <2>1 DEF Linked
    <2>4. ASSUME NEW t \in Slug, t # s PROVE Linked(t)'
      BY <2>1, <2>2, <2>4, LinkStays DEF Becomes, SubStep
    <2>5. Linked(s)
      BY <2>1
    <2>6. ASSUME NEW t \in Slug, t = s PROVE Linked(t)'
      BY <2>1, <2>2, <2>5, <2>6 DEF Becomes, Linked
    <2>7. SameRows
      BY <2>1, <2>3 DEF Becomes, SubStep, SameRows
    <2> QED  BY <2>4, <2>6, <2>7
  <1>8. ASSUME NEW x \in Purchase, Deleted(x)
        PROVE  SameRows /\ \A t \in Slug : Linked(t)'
    <2>1. /\ UNCHANGED <<sub, bought>>
          /\ cancelling' = cancelling \cup {<<s, x>> : s \in {t \in Slug : sub[t].stripe = x}}
      BY <1>8 DEF Deleted
    <2>2. \A s \in Slug, y \in Purchase : <<s, y>> \in cancelling' =>
              <<s, y>> \in cancelling \/ sub[s].stripe = y
      BY <2>1
    <2> QED  BY <2>1, <2>2 DEF SameRows, Linked
  <1> QED  BY <1>1, <1>2, <1>3, <1>4, <1>5, <1>6, <1>7, <1>8, <1>9, <1>10

-----------------------------------------------------------------------------
(* A sign-up is whole *)

\* What a sign-up has written: from its workspace on the slug is its own, from its user
\* on the address too.
SignUp(r) ==
    call[r].kind = "signup" =>
      /\ call[r].at \in {"user", "subscription", "verify"} => call[r].slug \in workspaces
      /\ call[r].at \in {"subscription", "verify"} => users[call[r].email] = call[r].slug
      /\ call[r].at \in {"user", "subscription"} => sub[call[r].slug].status = "none"
      /\ call[r].at = "verify" => sub[call[r].slug].status # "none"

Writes(r) == call[r].kind = "signup" /\ call[r].at \in {"user", "subscription", "verify"}

Solo == \A q, r \in Request : Writes(q) /\ Writes(r) /\ q # r => call[q].slug # call[r].slug

Whole(s) == \/ s \in cut
            \/ \E r \in Request : Writes(r) /\ call[r].slug = s
            \/ /\ sub[s].status # "none"
               /\ \E e \in Email : users[e] = s /\ verify[e] # "none"

\* The inductive invariant about sign-ups.
SInv == /\ TInv /\ Solo
        /\ \A r \in Request : SignUp(r)
        /\ \A s \in Slug : Linked(s)
        /\ \A s \in Slug \ workspaces : sub[s].status = "none"
        /\ \A s \in workspaces : Whole(s)

\* Steps that leave the accounts alone, and each subscription there or not there.
LEMMA SignUpsStay ==
    ASSUME SInv, TInv', UNCHANGED accounts, SameRows, \A s \in Slug : Linked(s)'
    PROVE  SInv'
  <1>1. workspaces \subseteq Slug /\ \A r \in Request : call[r].at # "idle" => call[r].slug \in Slug
    BY DEF SInv, TInv, TypeOK, CallOK
  <1>2. UNCHANGED <<workspaces, users, verify, call, cut>>
    BY DEF accounts
  <1>3. Solo'
    BY <1>2 DEF SInv, Solo, Writes
  <1>4. \A r \in Request : SignUp(r)'
    BY <1>1, <1>2 DEF SInv, SignUp, SameRows
  <1>5. \A s \in Slug \ workspaces' : sub'[s].status = "none"
    BY <1>2 DEF SInv, SameRows
  <1>6. \A s \in workspaces' : Whole(s)'
    BY <1>1, <1>2 DEF SInv, Whole, Writes, SameRows
  <1> QED  BY <1>3, <1>4, <1>5, <1>6 DEF SInv

\* The invariant about sign-ups holds at first.
LEMMA SInit == Init => SInv
  <1> SUFFICES ASSUME Init PROVE SInv
    OBVIOUS
  <1>1. /\ workspaces = {} /\ cancelling = {} /\ \A r \in Request : call[r].at = "idle"
        /\ \A x \in Purchase : bought[x].by = "none"
        /\ \A s \in Slug : sub[s] = NoRow
    BY IdleCall DEF Init
  <1>2. NoRow.status = "none" /\ NoRow.order = 0 /\ NoRow.stripe = "none"
    BY DEF NoRow
  <1>3. TInv
    BY TInit
  <1>4. Solo /\ \A r \in Request : SignUp(r)
    BY <1>1 DEF Solo, Writes, SignUp
  <1>5. \A s \in Slug : Linked(s)
    BY <1>1, <1>2, NoneAssumption DEF Linked
  <1> QED  BY <1>1, <1>2, <1>3, <1>4, <1>5 DEF SInv

\* A call that begins, or ends with nothing of its own written, disturbs no sign-up.
LEMMA QuietCall ==
    ASSUME SInv, TInv', NEW r \in Request, \A q \in Request \ {r} : call'[q] = call[q],
           ~Writes(r)', Writes(r) => call[r].slug \in cut',
           UNCHANGED <<workspaces, users, verify, sub, bought, cancelling>>, cut \subseteq cut'
    PROVE  SInv'
  <1>1. Solo' /\ \A q \in Request : SignUp(q)'
    BY DEF SInv, Solo, Writes, SignUp
  <1>2. \A s \in Slug : Linked(s)'
    BY LinkStays DEF SInv
  <1>3. ASSUME NEW s \in workspaces PROVE Whole(s)'
    <2>1. Whole(s)
      BY DEF SInv
    <2>2. CASE \E q \in Request : Writes(q) /\ call[q].slug = s
      BY <2>2 DEF Whole, Writes
    <2>3. CASE ~\E q \in Request : Writes(q) /\ call[q].slug = s
      BY <2>1, <2>3 DEF Whole
    <2> QED  BY <2>2, <2>3
  <1> QED  BY <1>1, <1>2, <1>3 DEF SInv

\* Each statement of a sign-up hands on what the next needs: its slug is its own from the
\* workspace on (the slug is unique), its address from the user on.
LEMMA CallStepWhole ==
    ASSUME SInv, TInv', NEW r \in Request, CallStep(r)
    PROVE  SInv'
  <1>0. /\ TInv /\ TypeOK /\ CallOK(r) /\ SignUp(r) /\ call[r] \in Call
        /\ {"slug", "workspace", "user", "subscription", "verify", "used"} \subseteq Steps
    BY DEF SInv, TInv, TypeOK, Steps
  <1>1. ASSUME NEW at \in Steps, Goto(r, at)
        PROVE  /\ \A q \in Request \ {r} : call'[q] = call[q]
               /\ call'[r].at = at /\ call'[r].kind = call[r].kind
               /\ call'[r].email = call[r].email /\ call'[r].slug = call[r].slug
    BY <1>0, <1>1, GotoType
  <1>2. ASSUME Return(r)
        PROVE  /\ \A q \in Request \ {r} : call'[q] = call[q]
               /\ call'[r].at = "idle"
    BY <1>0, <1>2, ReturnType, IdleCall
  <1>3. ASSUME CheckSlug(r) PROVE SInv'
    <2>1. /\ call[r].at = "slug"
          /\ UNCHANGED <<workspaces, users, verify, cut, sub, bought, cancelling>>
      BY <1>3 DEF CheckSlug, billing
    <2>2. /\ \A q \in Request \ {r} : call'[q] = call[q]
          /\ call'[r].at \in {"idle", "workspace"}
      BY <1>0, <1>1, <1>2, <1>3 DEF CheckSlug
    <2> QED  BY <2>1, <2>2, QuietCall DEF Writes
  <1>4. ASSUME CreateWorkspace(r) PROVE SInv'
    <2> DEFINE s == call[r].slug
    <2>1. /\ call[r].at = "workspace" /\ s \in Slug /\ workspaces' = workspaces \cup {s}
          /\ UNCHANGED <<users, verify, cut, sub, bought, cancelling>>
      BY <1>0, <1>4 DEF CreateWorkspace, CallOK, billing
    <2>2. CASE s \in workspaces
      <3>1. /\ \A q \in Request \ {r} : call'[q] = call[q]
            /\ call'[r].at = "idle" /\ workspaces' = workspaces
        BY <1>2, <1>4, <2>1, <2>2 DEF CreateWorkspace
      <3> QED  BY <2>1, <3>1, QuietCall DEF Writes
    <2>3. CASE s \notin workspaces
      <3>1. /\ \A q \in Request \ {r} : call'[q] = call[q]
            /\ call'[r].at = "user" /\ call'[r].kind = call[r].kind /\ call'[r].slug = s
        BY <1>0, <1>1, <1>4, <2>3 DEF CreateWorkspace
      <3>2. call[r].kind = "signup"
        BY <1>0, <2>1 DEF CallOK
      <3>3. sub[s].status = "none"
        BY <2>1, <2>3 DEF SInv
      <3>4. \A q \in Request : Writes(q) => call[q].slug # s
        BY <2>3 DEF SInv, SignUp, Writes
      <3>5. Solo'
        BY <3>1, <3>4 DEF SInv, Solo, Writes
      <3>6. \A q \in Request : SignUp(q)'
        BY <2>1, <3>1, <3>3 DEF SInv, SignUp
      <3>7. \A t \in Slug : Linked(t)'
        BY <2>1, LinkStays DEF SInv
      <3>8. \A t \in workspaces : Whole(t)'
        BY <2>1, <3>1 DEF SInv, Whole, Writes
      <3>9. ASSUME NEW t \in Slug, t = s PROVE Whole(t)'
        BY <3>1, <3>2, <3>9 DEF Whole, Writes
      <3>10. \A t \in workspaces' : Whole(t)'
        BY <2>1, <3>8, <3>9
      <3>11. \A t \in Slug \ workspaces' : sub'[t].status = "none"
        BY <2>1 DEF SInv
      <3> QED  BY <3>5, <3>6, <3>7, <3>10, <3>11 DEF SInv
    <2> QED  BY <2>2, <2>3
  <1>5. ASSUME CreateUser(r) PROVE SInv'
    <2> DEFINE s == call[r].slug
               e == call[r].email
    <2>1. /\ call[r].at = "user" /\ s \in Slug /\ e \in Email
          /\ UNCHANGED <<workspaces, verify, sub, bought, cancelling>>
      BY <1>0, <1>5 DEF CreateUser, CallOK, billing
    <2>2. CASE users[e] # "none"
      <3>1. /\ Return(r) /\ UNCHANGED users
            /\ cut' = IF call[r].kind = "signup" THEN cut \cup {s} ELSE cut
        BY <1>5, <2>2 DEF CreateUser
      <3>2. (\A q \in Request \ {r} : call'[q] = call[q]) /\ call'[r].at = "idle"
        BY <1>2, <3>1
      <3>3. cut \subseteq cut' /\ (Writes(r) => s \in cut')
        BY <3>1 DEF Writes
      <3> QED  BY <2>1, <3>1, <3>2, <3>3, QuietCall DEF Writes
    <2>3. CASE users[e] = "none"
      <3>1. /\ users' = [users EXCEPT ![e] = s] /\ UNCHANGED cut
            /\ CASE call[r].kind = "signup" -> Goto(r, "subscription")
                 [] call[r].kind = "invite" -> Goto(r, "used")
                 [] OTHER -> Return(r)
        BY <1>5, <2>3 DEF CreateUser
      <3>2. /\ \A q \in Request \ {r} : call'[q] = call[q]
            /\ IF call[r].kind = "signup"
                 THEN /\ call'[r].at = "subscription" /\ call'[r].kind = "signup"
                      /\ call'[r].email = e /\ call'[r].slug = s
                 ELSE call'[r].at \in {"used", "idle"}
        BY <1>0, <1>1, <1>2, <3>1 DEF Call
      <3>3. users'[e] = s /\ \A f \in Email : f # e => users'[f] = users[f]
        BY <1>0, <2>1, <3>1 DEF TypeOK
      <3>4. ASSUME NEW q \in Request, q # r PROVE SignUp(q)'
        <4>1. SignUp(q) /\ CallOK(q) /\ call'[q] = call[q]
          BY <3>2, <3>4 DEF SInv, TInv
        <4>2. call[q].kind = "signup" /\ call[q].at \in {"subscription", "verify"} =>
                users'[call[q].email] = call[q].slug
          BY <2>3, <3>3, <4>1, NoneAssumption DEF SignUp, CallOK
        <4> QED  BY <2>1, <4>1, <4>2 DEF SignUp
      <3>5. SignUp(r)'
        BY <1>0, <2>1, <3>2, <3>3 DEF SignUp
      <3>6. Solo'
        BY <2>1, <3>2 DEF SInv, Solo, Writes
      <3>7. \A t \in Slug : Linked(t)'
        BY <2>1, LinkStays DEF SInv
      <3>8. ASSUME NEW t \in workspaces PROVE Whole(t)'
        <4>1. Whole(t) /\ t # "none"
          BY <1>0, NoneAssumption DEF SInv, TypeOK
        <4>2. CASE \E q \in Request : Writes(q) /\ call[q].slug = t
          BY <2>1, <3>2, <4>2 DEF Whole, Writes
        <4>3. CASE /\ sub[t].status # "none"
                   /\ \E f \in Email : users[f] = t /\ verify[f] # "none"
          BY <2>1, <2>3, <3>3, <4>1, <4>3 DEF Whole
        <4> QED  BY <3>1, <4>1, <4>2, <4>3 DEF Whole
      <3> QED  BY <2>1, <3>2, <3>4, <3>5, <3>6, <3>7, <3>8 DEF SInv
    <2> QED  BY <2>2, <2>3
  <1>6. ASSUME CreateSubscription(r) PROVE SInv'
    <2> DEFINE s == call[r].slug
               row == [NoRow EXCEPT !.status = "trialing"]
    <2>1. /\ call[r].at = "subscription" /\ s \in Slug /\ sub' = [sub EXCEPT ![s] = row]
          /\ UNCHANGED <<workspaces, users, verify, cut, bought, cancelling>>
      BY <1>0, <1>6 DEF CreateSubscription, CallOK, billing
    <2>2. row.status = "trialing" /\ row.stripe = "none"
      BY DEF NoRow
    <2> HIDE DEF row
    <2>3. sub'[s] = row /\ \A t \in Slug \ {s} : sub'[t] = sub[t]
      BY <1>0, <2>1 DEF TypeOK
    <2>4. /\ \A q \in Request \ {r} : call'[q] = call[q]
          /\ call'[r].at = "verify" /\ call'[r].kind = call[r].kind
          /\ call'[r].email = call[r].email /\ call'[r].slug = s
      BY <1>0, <1>1, <1>6 DEF CreateSubscription
    <2>5. call[r].kind = "signup" /\ s \in workspaces /\ sub[s].status = "none"
      BY <1>0, <2>1 DEF CallOK, SignUp
    <2>6. Solo'
      BY <2>1, <2>4 DEF SInv, Solo, Writes
    <2>7. ASSUME NEW q \in Request, q # r PROVE SignUp(q)'
      <3>1. SignUp(q) /\ CallOK(q) /\ call'[q] = call[q]
        BY <2>4, <2>7 DEF SInv, TInv
      <3>2. Writes(q) => call[q].slug # s
        BY <2>1, <2>5, <2>7 DEF SInv, Solo, Writes
      <3> QED  BY <2>1, <2>3, <3>1, <3>2 DEF SignUp, Writes, CallOK
    <2>8. SignUp(r)'
      BY <1>0, <2>1, <2>2, <2>3, <2>4, <2>5 DEF SignUp
    <2>9. ASSUME NEW t \in Slug PROVE Linked(t)'
      <3>1. Linked(t)
        BY DEF SInv
      <3>2. CASE t # s
        BY <1>0, <2>1, <2>3, <3>1, <3>2, LinkStays
      <3>3. CASE t = s
        BY <2>1, <2>2, <2>3, <3>1, <3>3, NoneAssumption DEF Linked
      <3> QED  BY <3>2, <3>3
    <2>10. \A t \in workspaces : Whole(t)'
      BY <1>0, <2>1, <2>2, <2>3, <2>4 DEF SInv, Whole, Writes, TypeOK
    <2>11. \A t \in Slug \ workspaces' : sub'[t].status = "none"
      BY <2>1, <2>3, <2>5 DEF SInv
    <2> QED  BY <2>1, <2>6, <2>7, <2>8, <2>9, <2>10, <2>11 DEF SInv
  <1>7. ASSUME CreateVerifyToken(r) PROVE SInv'
    <2> DEFINE s == call[r].slug
               e == call[r].email
    <2>1. /\ call[r].at = "verify" /\ s \in Slug /\ e \in Email
          /\ verify' = [verify EXCEPT ![e] = "open"]
          /\ UNCHANGED <<workspaces, users, cut, sub, bought, cancelling>>
      BY <1>0, <1>7 DEF CreateVerifyToken, CallOK, billing
    <2>2. verify'[e] = "open" /\ \A f \in Email : verify[f] # "none" => verify'[f] # "none"
      BY <1>0, <2>1 DEF TypeOK
    <2>3. (\A q \in Request \ {r} : call'[q] = call[q]) /\ call'[r].at = "idle"
      BY <1>2, <1>7 DEF CreateVerifyToken
    <2>4. sub[s].status # "none" /\ users[e] = s
      BY <1>0, <2>1 DEF CallOK, SignUp
    <2>5. Solo' /\ \A q \in Request : SignUp(q)'
      BY <2>1, <2>3 DEF SInv, Solo, Writes, SignUp
    <2>6. \A t \in Slug : Linked(t)'
      BY <2>1, LinkStays DEF SInv
    <2>7. ASSUME NEW t \in workspaces PROVE Whole(t)'
      <3>1. Whole(t)
        BY DEF SInv
      <3>2. CASE t = s
        BY <2>1, <2>2, <2>4, <3>2 DEF Whole
      <3>3. CASE t # s
        BY <2>1, <2>2, <2>3, <3>1, <3>3 DEF Whole, Writes
      <3> QED  BY <3>2, <3>3
    <2> QED  BY <2>1, <2>5, <2>6, <2>7 DEF SInv
  <1>8. ASSUME UseInvite(r) PROVE SInv'
    <2>1. /\ call[r].at = "used"
          /\ UNCHANGED <<workspaces, users, verify, cut, sub, bought, cancelling>>
      BY <1>8 DEF UseInvite, billing
    <2>2. (\A q \in Request \ {r} : call'[q] = call[q]) /\ call'[r].at = "idle"
      BY <1>2, <1>8 DEF UseInvite
    <2> QED  BY <2>1, <2>2, QuietCall DEF Writes
  <1> QED  BY <1>3, <1>4, <1>5, <1>6, <1>7, <1>8 DEF CallStep

\* A call that starts writes nothing, and one that is cut short leaves its slug on record.
LEMMA OtherCallsWhole ==
    ASSUME SInv, TInv', NEW r \in Request,
           \/ CutShort(r)
           \/ \E e \in Email, s \in Slug : Register(r, e, s) \/ AcceptInvite(r, e, s) \/ AddUser(r, e, s)
    PROVE  SInv'
  <1>1. ASSUME CutShort(r) PROVE SInv'
    <2>1. (\A q \in Request \ {r} : call'[q] = call[q]) /\ call'[r].at = "idle"
      BY <1>1, ReturnType, IdleCall DEF CutShort, SInv, TInv
    <2>2. UNCHANGED <<workspaces, users, verify, sub, bought, cancelling>>
      BY <1>1 DEF CutShort, billing
    <2>3. cut \subseteq cut' /\ (Writes(r) => call[r].slug \in cut')
      BY <1>1 DEF CutShort, Writes
    <2> QED  BY <2>1, <2>2, <2>3, QuietCall DEF Writes
  <1>2. ASSUME NEW e \in Email, NEW s \in Slug,
               Register(r, e, s) \/ AcceptInvite(r, e, s) \/ AddUser(r, e, s)
        PROVE  SInv'
    <2>1. PICK at \in Steps, kind \in {"signup", "invite", "staff", "chief"} :
            Begin(r, at, kind, e, s) /\ (kind = "signup" => at = "slug")
      BY <1>2 DEF Register, AcceptInvite, AddUser, Steps
    <2>2. /\ \A q \in Request \ {r} : call'[q] = call[q]
          /\ call[r].at = "idle" /\ call'[r].at = at /\ call'[r].kind = kind
      <3>1. /\ \A q \in Request \ {r} : call'[q] = call[q]
            /\ call[r] = Idle
            /\ call'[r] = [at |-> at, kind |-> kind, email |-> e, slug |-> s]
        BY <2>1, BeginType DEF SInv, TInv
      <3>2. Idle.at = "idle"
        BY IdleCall
      <3> QED  BY <3>1, <3>2
    <2>3. UNCHANGED <<workspaces, users, verify, cut, sub, bought, cancelling>>
      BY <1>2 DEF Register, AcceptInvite, AddUser, billing
    <2> QED  BY <2>1, <2>2, <2>3, QuietCall DEF Writes
  <1> QED  BY <1>1, <1>2

\* Verifications and invitations take nothing from a sign-up.
LEMMA MailWhole ==
    ASSUME SInv, TInv', NEW e \in Email,
           VerifyEmail(e) \/ ChangeRole(e) \/ \E s \in Slug : SendInvite(e, s)
    PROVE  SInv'
  <1>1. UNCHANGED <<workspaces, users, call, cut, sub, bought, cancelling>>
    BY DEF VerifyEmail, ChangeRole, SendInvite, billing
  <1>2. \A f \in Email : verify[f] # "none" => verify'[f] # "none"
    BY DEF VerifyEmail, ChangeRole, SendInvite, SInv, TInv, TypeOK
  <1>3. Solo' /\ \A q \in Request : SignUp(q)'
    BY <1>1 DEF SInv, Solo, Writes, SignUp
  <1>4. \A s \in Slug : Linked(s)'
    BY <1>1, LinkStays DEF SInv
  <1>5. \A s \in workspaces : Whole(s)'
    BY <1>1, <1>2 DEF SInv, Whole, Writes
  <1> QED  BY <1>1, <1>3, <1>4, <1>5 DEF SInv

\* A step that changes neither accounts nor billing keeps the invariant about sign-ups.
LEMMA SStutter == SInv /\ TInv' /\ UNCHANGED <<accounts, sub, billing>> => SInv'
  <1> SUFFICES ASSUME SInv, TInv', UNCHANGED <<accounts, sub, billing>> PROVE SInv'
    OBVIOUS
  <1>1. UNCHANGED <<accounts, sub, bought, cancelling>>
    BY DEF billing
  <1>2. SameRows /\ \A s \in Slug : Linked(s)'
    BY <1>1, LinkStays DEF SInv, SameRows
  <1> QED  BY <1>1, <1>2, SignUpsStay

\* The invariant about sign-ups is inductive.
LEMMA SNext == SInv /\ [Next]_vars => SInv'
  <1> SUFFICES ASSUME SInv, [Next]_vars PROVE SInv'
    OBVIOUS
  <1>1. TInv /\ TInv' /\ \A s \in Slug : Linked(s)
    BY TNext DEF SInv
  <1>2. CASE UNCHANGED vars \/ Redeploy
    BY <1>1, <1>2, SStutter DEF vars, Redeploy
  <1>3. CASE Step /\ UNCHANGED site
    BY <1>1, <1>3, CallStepWhole, OtherCallsWhole, MailWhole, BillingType, BillingLinks,
       SignUpsStay DEF Step
  <1> QED  BY <1>2, <1>3 DEF Next

\* A workspace has a user, a subscription and a verification, although register writes the
\* four in statements of their own: unless its sign-up is still at work, was cut short, or
\* lost its address to another call at the last moment.
THEOREM SignUpsAreWhole == Spec => []SignUpIsWhole
  <1>1. SInv => SignUpIsWhole
    <2> SUFFICES ASSUME SInv, NEW s \in workspaces, s \notin cut
                 PROVE  \/ \E r \in Request : call[r].kind = "signup" /\ call[r].slug = s
                              /\ call[r].at \in {"user", "subscription", "verify"}
                        \/ /\ sub[s].status # "none"
                           /\ \E e \in Email : users[e] = s /\ verify[e] # "none"
      BY DEF SignUpIsWhole
    <2> QED  BY DEF SInv, Whole, Writes
  <1> QED  BY <1>1, SInit, SNext, PTL DEF Spec

-----------------------------------------------------------------------------
(* The subscription follows the purchases *)

\* The events on their way to workspace s, its live purchases, and whether it is
\* cancelling none of them.
HasPost(s, k, x) == <<k, x>> \in posts /\ bought[x].by = s
NoPost(s) == \A k \in PostKind, x \in Purchase : ~HasPost(s, k, x)
OnlyPost(s, k, x) == /\ HasPost(s, k, x)
                     /\ \A j \in PostKind, y \in Purchase : HasPost(s, j, y) => j = k /\ y = x
IsLive(s, x) == bought[x].by = s /\ bought[x].is = "live"
NoLive(s) == \A x \in Purchase : ~IsLive(s, x)
OnlyLive(s, x) == IsLive(s, x) /\ \A y \in Purchase : IsLive(s, y) => y = x
Calm(s) == \A x \in Purchase : <<s, x>> \notin cancelling

\* The sets of the module, told purchase by purchase.
LEMMA PostedIs ==
    ASSUME TypeOK, NEW s \in Slug
    PROVE  /\ Posted(s) = {} <=> NoPost(s)
           /\ \A k \in PostKind, x \in Purchase : Posted(s) = {<<k, x>>} => OnlyPost(s, k, x)
           /\ AtWork(s) <=> ~Calm(s)
           /\ Live(s) = {} <=> NoLive(s)
  <1>1. posts \subseteq PostKind \X Purchase /\ cancelling \subseteq Slug \X Purchase
    BY DEF TypeOK
  <1>2. Posted(s) = {} <=> NoPost(s)
    BY <1>1 DEF Posted, NoPost, HasPost
  <1>3. ASSUME NEW k \in PostKind, NEW x \in Purchase, Posted(s) = {<<k, x>>}
        PROVE  OnlyPost(s, k, x)
    BY <1>1, <1>3 DEF Posted, OnlyPost, HasPost
  <1>4. AtWork(s) <=> ~Calm(s)
    BY <1>1 DEF AtWork, Calm
  <1>5. Live(s) = {} <=> NoLive(s)
    BY DEF Live, NoLive, IsLive
  <1> QED  BY <1>2, <1>3, <1>4, <1>5

\* Where a workspace whose events came in order can be: it has bought nothing or what it
\* bought has ended, it pays, it has paid and the event is on its way, both events are,
\* the purchase has ended and the event is on its way, or the cancellation is at work.
Resting(s) == /\ NoPost(s) /\ Calm(s) /\ NoLive(s)
              /\ sub[s].status \in {"trialing", "canceled"}
Paying(s) == /\ NoPost(s) /\ Calm(s)
             /\ \E x \in Purchase : /\ OnlyLive(s, x) /\ sub[s].status = "active"
                                    /\ sub[s].stripe = x
Buying(s) == /\ Calm(s)
             /\ \E x \in Purchase : OnlyPost(s, "completed", x) /\ OnlyLive(s, x)
Both(s) == \E x \in Purchase : HasPost(s, "completed", x) /\ HasPost(s, "deleted", x)
Ending(s) == /\ Calm(s) /\ NoLive(s)
             /\ \E x \in Purchase : /\ OnlyPost(s, "deleted", x) /\ sub[s].status = "active"
                                    /\ sub[s].stripe = x
Cancelled(s) == NoPost(s) /\ ~Calm(s) /\ NoLive(s)

Phase(s) == \/ Resting(s) \/ Paying(s) \/ Buying(s) \/ Both(s) \/ Ending(s) \/ Cancelled(s)

InOrder(s) == /\ sub[s].status # "none" /\ s \notin disorder
              /\ \A n \in 1..MaxOrders : <<s, n>> \notin transfers

Follows(s) == InOrder(s) => Phase(s)

\* A step that is not about a workspace leaves its phase alone.
LEMMA FollowsStays ==
    ASSUME NEW s \in Slug, Follows(s),
           sub'[s].status = sub[s].status, sub'[s].stripe = sub[s].stripe,
           \A x \in Purchase : IsLive(s, x)' <=> IsLive(s, x),
           \A k \in PostKind, x \in Purchase : HasPost(s, k, x)' <=> HasPost(s, k, x),
           \A x \in Purchase : <<s, x>> \in cancelling' <=> <<s, x>> \in cancelling,
           disorder \subseteq disorder', transfers \subseteq transfers'
    PROVE  Follows(s)'
  <1>1. InOrder(s)' => InOrder(s)
    BY DEF InOrder
  <1>2. /\ NoPost(s)' <=> NoPost(s)
        /\ Calm(s)' <=> Calm(s)
        /\ NoLive(s)' <=> NoLive(s)
        /\ \A x \in Purchase : OnlyLive(s, x) => OnlyLive(s, x)'
        /\ \A k \in PostKind, x \in Purchase : OnlyPost(s, k, x) => OnlyPost(s, k, x)'
    BY DEF NoPost, Calm, NoLive, OnlyLive, OnlyPost
  <1>3. Both(s) => Both(s)'
    BY DEF Both, PostKind
  <1>4. Phase(s) => Phase(s)'
    BY <1>2, <1>3 DEF Phase, Resting, Paying, Buying, Ending, Cancelled, PostKind
  <1> QED  BY <1>1, <1>4 DEF Follows

\* A session that is opened changes no phase.
LEMMA OpenFollows ==
    ASSUME SInv, \A s \in Slug : Follows(s), NEW s \in Slug, NEW x \in Purchase,
           OpenCheckout(s, x)
    PROVE  \A t \in Slug : Follows(t)'
  <1>1. TInv /\ TypeOK /\ PostOK
    BY DEF SInv, TInv
  <1>2. Buys(x, s, "open") /\ bought[x].is = "none" /\ bought[x].by = "none"
    BY <1>1, PurchaseStep DEF OpenCheckout, PostOK
  <1>3. UNCHANGED <<sub, posts, cancelling, transfers, disorder>>
    BY DEF OpenCheckout
  <1>4. \A k \in PostKind : <<k, x>> \notin posts
    BY <1>1, <1>2 DEF PostOK
  <1>5. ASSUME NEW t \in Slug PROVE Follows(t)'
    <2>1. \A y \in Purchase : IsLive(t, y)' <=> IsLive(t, y)
      BY <1>2 DEF IsLive, Buys
    <2>2. \A k \in PostKind, y \in Purchase : HasPost(t, k, y)' <=> HasPost(t, k, y)
      BY <1>2, <1>3, <1>4 DEF HasPost, Buys
    <2> QED  BY <1>3, <2>1, <2>2, FollowsStays
  <1> QED  BY <1>5

\* A purchase in order is made by a workspace at rest.
LEMMA PayFollows ==
    ASSUME SInv, \A s \in Slug : Follows(s), NEW x \in Purchase, Pay(x)
    PROVE  \A t \in Slug : Follows(t)'
  <1>1. TInv /\ TypeOK /\ PostOK
    BY DEF SInv, TInv
  <1>2. Buys(x, bought[x].by, "live") /\ bought[x].is = "open" /\ bought[x].by \in Slug
    BY <1>1, PurchaseStep DEF Pay, PostOK
  <1>3. /\ posts' = posts \cup {<<"completed", x>>} /\ UNCHANGED <<sub, cancelling, transfers>>
        /\ disorder' = IF Unsettled(bought[x].by) THEN disorder \cup {bought[x].by} ELSE disorder
    BY DEF Pay
  <1>4. \A k \in PostKind : <<k, x>> \notin posts
    BY <1>1, <1>2 DEF PostOK
  <1>5. ASSUME NEW t \in Slug, t # bought[x].by PROVE Follows(t)'
    <2>1. \A y \in Purchase : IsLive(t, y)' <=> IsLive(t, y)
      BY <1>2, <1>5 DEF IsLive, Buys
    <2>2. \A k \in PostKind, y \in Purchase : HasPost(t, k, y)' <=> HasPost(t, k, y)
      BY <1>2, <1>3, <1>5 DEF HasPost, Buys
    <2> QED  BY <1>3, <2>1, <2>2, FollowsStays
  <1>6. ASSUME NEW s \in Slug, s = bought[x].by, InOrder(s)' PROVE Buying(s)'
    <2>1. NoPost(s) /\ Calm(s) /\ NoLive(s)
      BY <1>1, <1>3, <1>6, PostedIs DEF InOrder, Unsettled
    <2>2. OnlyPost(s, "completed", x)'
      BY <1>2, <1>3, <1>4, <1>6, <2>1 DEF OnlyPost, HasPost, NoPost, Buys, PostKind
    <2>3. OnlyLive(s, x)'
      BY <1>2, <1>6, <2>1 DEF OnlyLive, IsLive, NoLive, Buys
    <2>4. Calm(s)'
      BY <1>3, <2>1 DEF Calm
    <2> QED  BY <2>2, <2>3, <2>4 DEF Buying
  <1> QED  BY <1>5, <1>6 DEF Follows, Phase

\* An event that is not read leaves its workspace out of order.
LEMMA IgnoreFollows ==
    ASSUME SInv, \A s \in Slug : Follows(s), NEW k \in PostKind, NEW x \in Purchase,
           Ignore(<<k, x>>)
    PROVE  \A t \in Slug : Follows(t)'
  <1>1. /\ posts' = posts \ {<<k, x>>} /\ disorder' = disorder \cup {bought[x].by}
        /\ UNCHANGED <<sub, bought, cancelling, transfers>>
    BY DEF Ignore
  <1>2. ASSUME NEW t \in Slug, t # bought[x].by PROVE Follows(t)'
    <2>1. \A y \in Purchase : IsLive(t, y)' <=> IsLive(t, y)
      BY <1>1 DEF IsLive
    <2>2. \A j \in PostKind, y \in Purchase : HasPost(t, j, y)' <=> HasPost(t, j, y)
      BY <1>1, <1>2 DEF HasPost
    <2> QED  BY <1>1, <2>1, <2>2, FollowsStays
  <1>3. ASSUME NEW t \in Slug, t = bought[x].by PROVE Follows(t)'
    BY <1>1, <1>3 DEF Follows, InOrder
  <1> QED  BY <1>2, <1>3

\* A purchase that ends was live: its workspace was paying, or the first event is still due.
LEMMA EndPurchaseFollows ==
    ASSUME SInv, \A s \in Slug : Follows(s), NEW x \in Purchase, EndPurchase(x)
    PROVE  \A t \in Slug : Follows(t)'
  <1>1. TInv /\ TypeOK /\ PostOK
    BY DEF SInv, TInv
  <1>2. Buys(x, bought[x].by, "ended") /\ bought[x].is = "live" /\ bought[x].by \in Slug
    BY <1>1, PurchaseStep DEF EndPurchase, PostOK
  <1>3. /\ posts' = posts \cup {<<"deleted", x>>}
        /\ UNCHANGED <<sub, cancelling, transfers, disorder>>
    BY DEF EndPurchase
  <1>4. ASSUME NEW t \in Slug, t # bought[x].by PROVE Follows(t)'
    <2>1. \A y \in Purchase : IsLive(t, y)' <=> IsLive(t, y)
      BY <1>2, <1>4 DEF IsLive, Buys
    <2>2. \A k \in PostKind, y \in Purchase : HasPost(t, k, y)' <=> HasPost(t, k, y)
      BY <1>2, <1>3, <1>4 DEF HasPost, Buys
    <2> QED  BY <1>3, <2>1, <2>2, FollowsStays
  <1>5. ASSUME NEW s \in Slug, s = bought[x].by, InOrder(s)' PROVE Phase(s)'
    <2>1. InOrder(s) /\ Phase(s)
      BY <1>3, <1>5 DEF InOrder, Follows
    <2>2. IsLive(s, x)
      BY <1>2, <1>5 DEF IsLive
    <2>3. HasPost(s, "deleted", x)' /\ (Calm(s)' <=> Calm(s))
      BY <1>2, <1>3, <1>5 DEF HasPost, Calm, Buys
    <2>4. \A k \in PostKind, y \in Purchase :
            /\ HasPost(s, k, y) => HasPost(s, k, y)'
            /\ HasPost(s, k, y)' => HasPost(s, k, y) \/ (k = "deleted" /\ y = x)
      BY <1>2, <1>3, <1>5 DEF HasPost, Buys
    <2>5. \A y \in Purchase : IsLive(s, y)' => IsLive(s, y) /\ y # x
      BY <1>2, <1>5 DEF IsLive, Buys
    <2>6. CASE Paying(s)
      <3>1. OnlyLive(s, x) /\ sub[s].status = "active" /\ sub[s].stripe = x
        BY <2>2, <2>6 DEF Paying, OnlyLive
      <3>2. NoLive(s)'
        BY <2>5, <3>1 DEF NoLive, OnlyLive
      <3>3. OnlyPost(s, "deleted", x)'
        BY <2>3, <2>4, <2>6 DEF OnlyPost, Paying, NoPost
      <3>4. Ending(s)'
        BY <1>3, <2>3, <2>6, <3>1, <3>2, <3>3 DEF Ending, Paying
      <3> QED  BY <3>4 DEF Phase
    <2>7. CASE Buying(s)
      <3>1. HasPost(s, "completed", x)
        BY <2>2, <2>7 DEF Buying, OnlyPost, OnlyLive
      <3>2. Both(s)'
        BY <2>3, <2>4, <3>1 DEF Both, PostKind
      <3> QED  BY <3>2 DEF Phase
    <2>8. CASE Both(s)
      <3>1. Both(s)'
        BY <2>4, <2>8 DEF Both, PostKind
      <3> QED  BY <3>1 DEF Phase
    <2>9. ~Resting(s) /\ ~Ending(s) /\ ~Cancelled(s)
      BY <2>2 DEF Resting, Ending, Cancelled, NoLive
    <2> QED  BY <2>1, <2>6, <2>7, <2>8, <2>9 DEF Phase
  <1> QED  BY <1>4, <1>5 DEF Follows

\* An event that is handled in order is the only one of its workspace, and is answered.
LEMMA Handled ==
    ASSUME SInv, NEW k \in PostKind, NEW x \in Purchase, <<k, x>> \in posts,
           Answer(<<k, x>>), Crossed(<<k, x>>), UNCHANGED bought
    PROVE  /\ bought[x].by \in Slug /\ disorder \subseteq disorder'
           /\ bought[x].by \notin disorder' =>
                /\ OnlyPost(bought[x].by, k, x) /\ Calm(bought[x].by)
                /\ posts' = posts \ {<<k, x>>}
           /\ \A t \in Slug : t # bought[x].by =>
                \A j \in PostKind, y \in Purchase : HasPost(t, j, y)' <=> HasPost(t, j, y)
  <1>1. TypeOK /\ bought[x].by \in Slug
    BY DEF SInv, TInv, PostOK
  <1>2. disorder' = IF Posted(bought[x].by) # {<<k, x>>} \/ posts' = posts \/ AtWork(bought[x].by)
                      THEN disorder \cup {bought[x].by} ELSE disorder
    BY DEF Crossed
  <1>3. posts' = posts \/ posts' = posts \ {<<k, x>>}
    BY DEF Answer, Event
  <1>4. bought[x].by \notin disorder' => OnlyPost(bought[x].by, k, x) /\ Calm(bought[x].by)
                                        /\ posts' = posts \ {<<k, x>>}
    BY <1>1, <1>2, <1>3, PostedIs
  <1>5. ASSUME NEW t \in Slug, t # bought[x].by, NEW j \in PostKind, NEW y \in Purchase
        PROVE  HasPost(t, j, y)' <=> HasPost(t, j, y)
    BY <1>3, <1>5 DEF HasPost
  <1> QED  BY <1>1, <1>2, <1>4, <1>5

\* The first event, in order, makes the workspace a paying one.
LEMMA CompletedFollows ==
    ASSUME SInv, \A s \in Slug : Follows(s), NEW x \in Purchase, Completed(x)
    PROVE  \A t \in Slug : Follows(t)'
  <1>1. /\ <<"completed", x>> \in posts /\ "completed" \in PostKind
        /\ Answer(<<"completed", x>>) /\ Crossed(<<"completed", x>>)
        /\ UNCHANGED <<bought, cancelling, transfers>>
    BY DEF Completed, PostKind
  <1>2. bought[x].by \in Slug /\ Becomes(bought[x].by, "active", x)
    BY CompletedStep DEF SInv
  <1>3. ASSUME NEW t \in Slug, t # bought[x].by PROVE Follows(t)'
    <2>1. sub'[t] = sub[t]
      BY <1>2, <1>3 DEF Becomes, SubStep
    <2>2. \A y \in Purchase : IsLive(t, y)' <=> IsLive(t, y)
      BY <1>1 DEF IsLive
    <2> QED  BY <1>1, <1>3, <2>1, <2>2, Handled, FollowsStays
  <1>4. ASSUME NEW s \in Slug, s = bought[x].by, InOrder(s)' PROVE Paying(s)'
    <2>1. /\ OnlyPost(s, "completed", x) /\ Calm(s) /\ posts' = posts \ {<<"completed", x>>}
          /\ disorder \subseteq disorder'
      BY <1>1, <1>4, Handled DEF InOrder
    <2>2. sub[s].status # "none"
      BY <1>4 DEF SInv, Linked
    <2>3. Phase(s)
      BY <1>1, <1>4, <2>1, <2>2 DEF InOrder, Follows
    <2>4. Buying(s)
      BY <2>1, <2>3 DEF Phase, Resting, Paying, Both, Ending, Cancelled, NoPost, OnlyPost, PostKind
    <2>5. OnlyLive(s, x)
      BY <2>1, <2>4 DEF Buying, OnlyPost, PostKind
    <2>6. OnlyLive(s, x)' /\ Calm(s)'
      BY <1>1, <2>1, <2>5 DEF OnlyLive, IsLive, Calm
    <2>7. NoPost(s)'
      BY <1>1, <2>1 DEF NoPost, OnlyPost, HasPost
    <2> QED  BY <1>2, <1>4, <2>6, <2>7 DEF Paying, Becomes
  <1> QED  BY <1>3, <1>4 DEF Follows, Phase

\* The last event, in order, finds the subscription by its purchase.
LEMMA DeletedFollows ==
    ASSUME SInv, \A s \in Slug : Follows(s), NEW x \in Purchase, Deleted(x)
    PROVE  \A t \in Slug : Follows(t)'
  <1>1. /\ <<"deleted", x>> \in posts /\ "deleted" \in PostKind
        /\ Answer(<<"deleted", x>>) /\ Crossed(<<"deleted", x>>)
        /\ UNCHANGED <<bought, sub, transfers>>
    BY DEF Deleted, PostKind
  <1>2. \A t \in Slug, y \in Purchase :
          <<t, y>> \in cancelling' <=> <<t, y>> \in cancelling \/ (y = x /\ sub[t].stripe = x)
    BY DEF Deleted
  <1>3. ASSUME NEW t \in Slug, t # bought[x].by PROVE Follows(t)'
    <2>1. sub[t].stripe # x
      BY <1>3 DEF SInv, Linked
    <2>2. \A y \in Purchase : IsLive(t, y)' <=> IsLive(t, y)
      BY <1>1 DEF IsLive
    <2>3. \A y \in Purchase : <<t, y>> \in cancelling' <=> <<t, y>> \in cancelling
      BY <1>2, <2>1
    <2> QED  BY <1>1, <1>3, <2>2, <2>3, Handled, FollowsStays
  <1>4. ASSUME NEW s \in Slug, s = bought[x].by, InOrder(s)' PROVE Cancelled(s)'
    <2>1. /\ OnlyPost(s, "deleted", x) /\ Calm(s) /\ posts' = posts \ {<<"deleted", x>>}
          /\ disorder \subseteq disorder'
      BY <1>1, <1>4, Handled DEF InOrder
    <2>2. Phase(s)
      BY <1>1, <1>4, <2>1 DEF InOrder, Follows
    <2>3. Ending(s)
      BY <2>1, <2>2 DEF Phase, Resting, Paying, Buying, Both, Cancelled, NoPost, OnlyPost, PostKind
    <2>4. sub[s].stripe = x /\ NoLive(s)
      BY <2>1, <2>3 DEF Ending, OnlyPost, PostKind
    <2>5. NoLive(s)' /\ ~Calm(s)'
      BY <1>1, <1>2, <2>4 DEF NoLive, IsLive, Calm
    <2>6. NoPost(s)'
      BY <1>1, <2>1 DEF NoPost, OnlyPost, HasPost
    <2> QED  BY <2>5, <2>6 DEF Cancelled
  <1> QED  BY <1>3, <1>4 DEF Follows, Phase

\* The second statement of a cancellation puts the workspace to rest.
LEMMA CancelFollows ==
    ASSUME SInv, \A s \in Slug : Follows(s), NEW s \in Slug, NEW x \in Purchase, Cancel(s, x)
    PROVE  \A t \in Slug : Follows(t)'
  <1>1. /\ <<s, x>> \in cancelling /\ cancelling' = cancelling \ {<<s, x>>}
        /\ UNCHANGED <<bought, posts, transfers, disorder>>
        /\ Becomes(s, "canceled", sub[s].stripe)
    BY StatusStep DEF Cancel, Status, SInv
  <1>2. \A t \in Slug : /\ \A y \in Purchase : IsLive(t, y)' <=> IsLive(t, y)
                        /\ \A k \in PostKind, y \in Purchase : HasPost(t, k, y)' <=> HasPost(t, k, y)
    BY <1>1 DEF IsLive, HasPost
  <1>3. ASSUME NEW t \in Slug, t # s PROVE Follows(t)'
    BY <1>1, <1>2, <1>3, FollowsStays DEF Becomes, SubStep
  <1>4. ASSUME InOrder(s)' PROVE Phase(s)'
    <2>1. sub[s].status # "none" /\ ~Calm(s)
      BY <1>1 DEF SInv, Linked, Calm
    <2>2. Phase(s)
      BY <1>1, <1>4, <2>1 DEF InOrder, Follows
    <2>3. CASE Both(s)
      <3>1. Both(s)'
        BY <1>2, <2>3 DEF Both, PostKind
      <3> QED  BY <3>1 DEF Phase
    <2>4. CASE Cancelled(s)
      <3>1. NoPost(s)' /\ NoLive(s)'
        BY <1>2, <2>4 DEF Cancelled, NoPost, NoLive
      <3>2. Resting(s)' \/ Cancelled(s)'
        BY <1>1, <3>1 DEF Resting, Cancelled, Becomes
      <3> QED  BY <3>2 DEF Phase
    <2>5. Both(s) \/ Cancelled(s)
      BY <2>1, <2>2 DEF Phase, Resting, Paying, Buying, Ending
    <2> QED  BY <2>3, <2>4, <2>5
  <1> QED  BY <1>3, <1>4 DEF Follows

\* Orders, transfers and the end of a trial change no phase; a confirmed transfer leaves
\* the workspace to its transfer.
LEMMA OrdersFollow ==
    ASSUME SInv, \A s \in Slug : Follows(s), NEW s \in Slug,
           InitOrder(s) \/ Transfer(s) \/ ConfirmTransfer(s) \/ TrialEnds(s)
    PROVE  \A t \in Slug : Follows(t)'
  <1>1. UNCHANGED <<bought, posts, cancelling, disorder>> /\ transfers \subseteq transfers'
    BY DEF InitOrder, Transfer, ConfirmTransfer, TrialEnds, billing
  <1>2. \A t \in Slug : /\ \A y \in Purchase : IsLive(t, y)' <=> IsLive(t, y)
                        /\ \A k \in PostKind, y \in Purchase : HasPost(t, k, y)' <=> HasPost(t, k, y)
    BY <1>1 DEF IsLive, HasPost
  <1>3. CASE ConfirmTransfer(s)
    <2>1. Becomes(s, "active", sub[s].stripe)
      BY <1>3, StatusStep DEF ConfirmTransfer, Status, SInv
    <2>2. <<s, sub[s].order>> \in transfers' /\ sub[s].order \in 1..MaxOrders
      BY <1>1, <1>3 DEF ConfirmTransfer, SInv, TInv, TypeOK
    <2>3. Follows(s)'
      BY <2>2 DEF Follows, InOrder
    <2>4. ASSUME NEW t \in Slug, t # s PROVE Follows(t)'
      BY <1>1, <1>2, <2>1, <2>4, FollowsStays DEF Becomes, SubStep
    <2> QED  BY <2>3, <2>4
  <1>4. CASE InitOrder(s) \/ TrialEnds(s)
    <2>1. Becomes(s, sub[s].status, sub[s].stripe)
      BY <1>4, OrderStep DEF SInv
    <2> QED  BY <1>1, <1>2, <2>1, FollowsStays DEF Becomes, SubStep
  <1>5. CASE Transfer(s)
    <2>1. UNCHANGED sub
      BY <1>5 DEF Transfer
    <2> QED  BY <1>1, <1>2, <2>1, FollowsStays
  <1> QED  BY <1>3, <1>4, <1>5

\* Steps that leave the billing alone: only a sign-up makes a subscription, and it begins at rest.
LEMMA AccountsFollow ==
    ASSUME SInv, \A s \in Slug : Follows(s), UNCHANGED billing,
           \/ UNCHANGED sub
           \/ \E r \in Request : CreateSubscription(r)
    PROVE  \A t \in Slug : Follows(t)'
  <1>1. UNCHANGED <<bought, posts, cancelling, disorder, transfers>>
    BY DEF billing
  <1>2. \A t \in Slug : /\ \A y \in Purchase : IsLive(t, y)' <=> IsLive(t, y)
                        /\ \A k \in PostKind, y \in Purchase : HasPost(t, k, y)' <=> HasPost(t, k, y)
    BY <1>1 DEF IsLive, HasPost
  <1>3. CASE UNCHANGED sub
    BY <1>1, <1>2, <1>3, FollowsStays
  <1>4. ASSUME NEW r \in Request, CreateSubscription(r) PROVE \A t \in Slug : Follows(t)'
    <2> DEFINE row == [NoRow EXCEPT !.status = "trialing"]
    <2>1. row.status = "trialing"
      BY DEF NoRow
    <2> HIDE DEF row
    <2>2. /\ call[r].at = "subscription" /\ sub' = [sub EXCEPT ![call[r].slug] = row]
          /\ call[r].slug \in Slug
      BY <1>4 DEF CreateSubscription, SInv, TInv, CallOK, row
    <2>3. sub'[call[r].slug] = row /\ \A t \in Slug : t # call[r].slug => sub'[t] = sub[t]
      BY <2>2 DEF SInv, TInv, TypeOK
    <2>4. ASSUME NEW t \in Slug, t # call[r].slug PROVE Follows(t)'
      BY <1>1, <1>2, <2>3, <2>4, FollowsStays
    <2>5. ASSUME NEW t \in Slug, t = call[r].slug PROVE Resting(t)'
      <3>1. sub[t].status = "none"
        BY <2>2, <2>5 DEF SInv, SignUp, TInv, CallOK
      <3>2. \A x \in Purchase : bought[x].by # t /\ <<t, x>> \notin cancelling
        BY <3>1 DEF SInv, Linked
      <3>3. NoPost(t)' /\ NoLive(t)' /\ Calm(t)'
        BY <1>1, <3>2 DEF NoPost, HasPost, NoLive, IsLive, Calm
      <3> QED  BY <2>1, <2>3, <2>5, <3>3 DEF Resting
    <2> QED  BY <2>4, <2>5 DEF Follows, Phase
  <1> QED  BY <1>3, <1>4

\* The invariant of billing.
BInv == SInv /\ \A s \in Slug : Follows(s)

\* The invariant about billing holds at first: there is no subscription.
LEMMA BInit == Init => BInv
  <1> SUFFICES ASSUME Init PROVE BInv
    OBVIOUS
  <1>1. \A s \in Slug : sub[s] = NoRow
    BY DEF Init
  <1>2. NoRow.status = "none"
    BY DEF NoRow
  <1> QED  BY <1>1, <1>2, SInit DEF BInv, Follows, InOrder

\* The invariant about billing is inductive.
LEMMA BNext == BInv /\ [Next]_vars => BInv'
  <1> SUFFICES ASSUME BInv, [Next]_vars PROVE \A s \in Slug : Follows(s)'
    BY SNext DEF BInv
  <1>1. SInv /\ \A s \in Slug : Follows(s)
    BY DEF BInv
  <1>2. CASE UNCHANGED vars \/ Redeploy
    BY <1>1, <1>2, AccountsFollow DEF vars, Redeploy
  <1>3. ASSUME NEW r \in Request,
               \/ CallStep(r) \/ CutShort(r)
               \/ \E e \in Email, s \in Slug : Register(r, e, s) \/ AcceptInvite(r, e, s) \/ AddUser(r, e, s)
        PROVE  \A s \in Slug : Follows(s)'
    <2>1. UNCHANGED billing /\ (UNCHANGED sub \/ CreateSubscription(r))
      BY <1>3 DEF CallStep, CutShort, Register, AcceptInvite, AddUser, CheckSlug, CreateWorkspace,
                  CreateUser, CreateSubscription, CreateVerifyToken, UseInvite
    <2> QED  BY <1>1, <2>1, AccountsFollow
  <1>4. ASSUME NEW e \in Email,
               VerifyEmail(e) \/ ChangeRole(e) \/ \E s \in Slug : SendInvite(e, s)
        PROVE  \A s \in Slug : Follows(s)'
    BY <1>1, <1>4, AccountsFollow DEF VerifyEmail, ChangeRole, SendInvite
  <1> QED  BY <1>1, <1>2, <1>3, <1>4, OpenFollows, PayFollows, IgnoreFollows, EndPurchaseFollows,
              CompletedFollows, DeletedFollows, CancelFollows, OrdersFollow DEF Next, Step

\* BillingGuard admits a super_admin, and everyone while billing is disabled; with it
\* enabled, the other users of a workspace whose payment events were answered, in order
\* and once, with no purchase on top of an unsettled one and no transfer, exactly while the
\* workspace pays or is in its trial: for any number of workspaces, users and purchases,
\* and whatever the process was started with before.
THEOREM BillingFollows == Spec => []BillingFollowsPurchases
  <1>1. BInv => BillingFollowsPurchases
    <2> SUFFICES ASSUME BInv, NEW e \in Email, NEW s \in Slug, users[e] = s,
                        sub[s].status # "none", s \notin disorder,
                        Posted(s) = {}, ~AtWork(s), \A t \in transfers : t[1] # s
                 PROVE  Admitted(e) <=> \/ ~site.enforced \/ e \in chiefs \/ Live(s) # {}
                                        \/ sub[s].status = "trialing" /\ ~sub[s].over
      BY DEF BillingFollowsPurchases
    <2>1. InOrder(s)
      BY DEF InOrder
    <2>2. NoPost(s) /\ Calm(s) /\ (Live(s) = {} <=> NoLive(s))
      BY PostedIs DEF BInv, SInv, TInv
    <2>3. Phase(s)
      BY <2>1 DEF BInv, Follows
    <2>4. Resting(s) \/ Paying(s)
      BY <2>2, <2>3 DEF Phase, Buying, Both, Ending, Cancelled, NoPost, OnlyPost, PostKind
    <2>5. CASE Resting(s)
      BY <2>2, <2>5 DEF Resting, Admitted, Standing
    <2>6. CASE Paying(s)
      BY <2>2, <2>6 DEF Paying, Admitted, Standing, NoLive, OnlyLive
    <2> QED  BY <2>4, <2>5, <2>6
  <1> QED  BY <1>1, BInit, BNext, PTL DEF Spec
=============================================================================
