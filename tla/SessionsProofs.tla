---------------------------- MODULE SessionsProofs ----------------------------
(***************************************************************************)
(* Theorems about Sessions, for any number of calls, links, tokens and     *)
(* events.                                                                 *)
(*                                                                         *)
(* The argument: what a call at work may assume is kept in its slot        *)
(* (CallInv). Two calls of one token, or a call of a token that has a      *)
(* successor already, have raced (ChainInv); the same for the reset links  *)
(* (LinkInv). Each is inductive next to the types.                         *)
(***************************************************************************)
EXTENDS Sessions, TLAPS

\* The case split of the proofs below.
LEMMA NextCases ==
    ASSUME [Next]_vars
    PROVE  \/ \E r \in Request : Login(r)
           \/ \E r \in Request, t \in Token : Refresh(r, t)
           \/ \E r \in Request : Revoke(r)
           \/ \E r \in Request : CheckUser(r)
           \/ \E r \in Request : Issue(r)
           \/ \E t \in Token : Logout(t)
           \/ \E l \in Link : Forgot(l) \/ LinkExpires(l)
           \/ \E r \in Request, l \in Link : BeginReset(r, l)
           \/ \E r \in Request : Reset(r)
           \/ \E b \in BOOLEAN : SetActive(b)
           \/ \E r \in Request : CutShort(r)
           \/ UNCHANGED vars
  BY DEF Next

\* The free slot is a call.
LEMMA IdleType == Idle \in Call
  BY BoundsAssumption DEF Idle, Slot, Call

\* Slots are calls.
LEMMA SlotType ==
    ASSUME NEW at \in {"issue", "revoke", "reset"}, NEW t \in 0..MaxTokens,
           NEW l \in Link \cup {"none"}, NEW b \in BOOLEAN
    PROVE  Slot(at, t, l, b) \in Call
  BY DEF Slot, Call

\* What a call that begins, returns or goes on leaves.
LEMMA BeginKeeps ==
    ASSUME TypeOK, NEW r \in Request, NEW c \in Call, Begin(r, c)
    PROVE  /\ call' \in [Request -> Call] /\ call'[r] = c /\ call[r] = Idle
           /\ \A q \in Request \ {r} : call'[q] = call[q]
  BY DEF TypeOK, Begin

\* A call that returns frees its slot.
LEMMA ReturnKeeps ==
    ASSUME TypeOK, NEW r \in Request, Return(r)
    PROVE  /\ call' \in [Request -> Call] /\ call'[r] = Idle
           /\ \A q \in Request \ {r} : call'[q] = call[q]
  BY IdleType DEF TypeOK, Return

\* A call that goes on changes its place only.
LEMMA GotoKeeps ==
    ASSUME TypeOK, NEW r \in Request, NEW at \in {"check", "issue"}, Goto(r, at)
    PROVE  /\ call' \in [Request -> Call] /\ call'[r].at = at
           /\ call'[r].from = call[r].from /\ call'[r].link = call[r].link
           /\ call'[r].served = call[r].served
           /\ \A q \in Request \ {r} : call'[q] = call[q]
  BY DEF TypeOK, Goto, Call

\* A token that is killed keeps all but its life; so do the others.
LEMMA KillKeeps ==
    ASSUME TypeOK, NEW t \in Token, Kill(t)
    PROVE  /\ tokens' \in [Token -> Row] /\ ~tokens'[t].live
           /\ \A u \in Token : /\ tokens'[u].from = tokens[u].from
                               /\ tokens'[u].born = tokens[u].born
                               /\ tokens'[u].served = tokens[u].served
                               /\ tokens'[u].live => tokens[u].live
  BY DEF TypeOK, Kill, Row

\* So does a reset, which kills them all.
LEMMA ResetKills ==
    ASSUME TypeOK, NEW r \in Request, Reset(r)
    PROVE  /\ tokens' \in [Token -> Row]
           /\ \A u \in Token : /\ tokens'[u].from = tokens[u].from
                               /\ tokens'[u].born = tokens[u].born
                               /\ tokens'[u].served = tokens[u].served
                               /\ ~tokens'[u].live
  BY DEF TypeOK, Reset, Row

\* What Issue writes, in a slot of its own.
LEMMA IssueWrites ==
    ASSUME TypeOK, NEW r \in Request, Issue(r)
    PROVE  /\ tokens' \in [Token -> Row] /\ issued + 1 \in Token
           /\ tokens'[issued + 1] = [live |-> TRUE, from |-> call[r].from, born |-> resets,
                                     served |-> call[r].served]
           /\ \A u \in Token \ {issued + 1} : tokens'[u] = tokens[u]
  BY BoundsAssumption DEF TypeOK, Issue, Row, Token, Call

-----------------------------------------------------------------------------
(* Types *)

\* What a call's slot says of it, and what the unused slots of tokens hold.
Sound(c, n) ==
    /\ c.at = "revoke" => c.from \in 1..n
    /\ c.from # 0 => c.at \in {"revoke", "check", "issue"}
    /\ c.from \in 0..n
    /\ c.at = "reset" <=> c.link # "none"
CallInv == \A r \in Request : Sound(call[r], issued)
TokenInv ==
    \A t \in Token : /\ t > issued => ~tokens[t].live /\ tokens[t].from = 0
                     /\ tokens[t].from \in 0..issued
Inv0 == TypeOK /\ CallInv /\ TokenInv

\* A free slot says nothing.
LEMMA IdleSound == \A n \in Nat : Sound(Idle, n)
  BY DEF Idle, Slot, Sound

\* Every step keeps the types and what the slots say.
LEMMA TypeStep == Inv0 /\ [Next]_vars => Inv0'
  <1> SUFFICES ASSUME Inv0, [Next]_vars PROVE Inv0'
    OBVIOUS
  <1> USE BoundsAssumption, NoLinkAssumption DEF Inv0
  <1>0. issued \in Nat /\ MaxTokens \in Nat /\ active \in BOOLEAN
    BY DEF TypeOK
  <1>1. ASSUME NEW r \in Request, Login(r) PROVE Inv0'
    <2> DEFINE c == Slot("issue", 0, "none", TRUE)
    <2>1. Begin(r, c) /\ c \in Call
      <3>1. c \in Call
        BY <1>0 DEF Slot, Call
      <3> QED
        BY <1>1, <3>1 DEF Login
    <2>2. /\ call' \in [Request -> Call]
          /\ call'[r] = c
          /\ \A q \in Request \ {r} : call'[q] = call[q]
      BY <2>1, BeginKeeps
    <2>3. CallInv'
      <3>1. call'[r].at = "issue" /\ call'[r].from = 0 /\ call'[r].link = "none"
        BY <2>2 DEF Slot
      <3> QED
        <4>1. issued' = issued /\ Sound(call'[r], issued)
          BY <1>0, <1>1, <3>1 DEF Login, Sound
        <4> QED
          BY <2>2, <4>1 DEF CallInv
    <2> QED
      BY <1>1, <2>2, <2>3 DEF Login, TypeOK, TokenInv
  <1>2. ASSUME NEW r \in Request, NEW t \in Token, Refresh(r, t)
        PROVE  Inv0'
    <2> DEFINE c == Slot("revoke", t, "none", active)
    <2>1. Begin(r, c) /\ c \in Call /\ t \in 1..issued
      <3>1. c \in Call
        BY <1>0, SlotType DEF Token
      <3>2. t \in 1..issued
        BY <1>2, <1>0 DEF Refresh, TokenInv, Token
      <3> QED
        BY <1>2, <3>1, <3>2 DEF Refresh
    <2>2. /\ call' \in [Request -> Call] /\ call'[r] = c
          /\ \A q \in Request \ {r} : call'[q] = call[q]
      BY <2>1, BeginKeeps
    <2>3. CallInv'
      <3>1. call'[r].at = "revoke" /\ call'[r].from = t /\ call'[r].link = "none"
        BY <2>2 DEF Slot
      <3> QED
        <4>1. issued' = issued /\ Sound(call'[r], issued)
          BY <1>0, <1>2, <2>1, <3>1 DEF Refresh, Sound
        <4> QED
          BY <2>2, <4>1 DEF CallInv
    <2>4. raced' \subseteq Token \cup Link
      BY <1>2 DEF Refresh, TypeOK
    <2> QED
      BY <1>2, <2>2, <2>3, <2>4 DEF Refresh, TypeOK, TokenInv
  <1>3. ASSUME NEW r \in Request, Revoke(r) PROVE Inv0'
    <2>1. call[r].from \in Token /\ Kill(call[r].from) /\ Goto(r, "check")
      BY <1>3, <1>0 DEF Revoke, CallInv, Sound, Token, TypeOK
    <2>2. CallInv'
      BY <1>3, <2>1, GotoKeeps DEF Revoke, CallInv, Sound
    <2>3. TokenInv'
      BY <1>3, <1>0, <2>1, KillKeeps DEF Revoke, TokenInv
    <2> QED
      BY <1>3, <2>1, <2>2, <2>3, GotoKeeps, KillKeeps DEF Revoke, TypeOK
  <1>4. ASSUME NEW r \in Request, CheckUser(r) PROVE Inv0'
    <2>1. call' \in [Request -> Call] /\ CallInv'
      <3>1. CASE active
        <4>1. Goto(r, "issue")
          BY <1>4, <3>1 DEF CheckUser
        <4> QED
          BY <1>4, <1>0, <4>1, GotoKeeps DEF CheckUser, CallInv, Sound
      <3>2. CASE ~active
        <4>1. Return(r)
          BY <1>4, <3>2 DEF CheckUser
        <4> QED
          BY <1>4, <1>0, <4>1, ReturnKeeps, IdleSound DEF CheckUser, CallInv
      <3> QED
        BY <3>1, <3>2
    <2> QED
      BY <1>4, <2>1 DEF CheckUser, TypeOK, TokenInv
  <1>5. ASSUME NEW r \in Request, Issue(r) PROVE Inv0'
    <2>1. Return(r) /\ issued' = issued + 1 /\ issued' \in 0..MaxTokens
      BY <1>5, <1>0 DEF Issue
    <2>2. CallInv'
      <3>1. \A q \in Request : Sound(call[q], issued')
        BY <1>0, <2>1 DEF CallInv, Sound
      <3> QED
        BY <1>0, <2>1, <3>1, ReturnKeeps, IdleSound DEF CallInv
    <2>3. TokenInv'
      <3>1. call[r].from \in 0..issued
        BY DEF CallInv, Sound
      <3>2. /\ tokens'[issued + 1].from = call[r].from
            /\ \A u \in Token \ {issued + 1} : tokens'[u] = tokens[u]
        <4>1. tokens'[issued + 1] = [live |-> TRUE, from |-> call[r].from,
                                     born |-> resets, served |-> call[r].served]
          BY <1>5, IssueWrites
        <4> QED
          BY <1>5, <4>1, IssueWrites
      <3>3. \A u \in Token : tokens'[u].from \in 0..(issued + 1)
        BY <1>0, <3>1, <3>2 DEF TokenInv, Token
      <3>4. \A u \in Token : u > issued + 1 => ~tokens'[u].live /\ tokens'[u].from = 0
        BY <1>0, <3>2 DEF TokenInv, Token
      <3> QED
        BY <2>1, <3>3, <3>4 DEF TokenInv
    <2> QED
      BY <1>5, <2>1, <2>2, <2>3, ReturnKeeps, IssueWrites DEF Issue, TypeOK
  <1>6. ASSUME NEW t \in Token, Logout(t) PROVE Inv0'
    <2>1. Kill(t)
      BY <1>6 DEF Logout
    <2>2. TokenInv'
      BY <1>6, <1>0, <2>1, KillKeeps DEF Logout, TokenInv
    <2> QED
      BY <1>6, <2>1, <2>2, KillKeeps DEF Logout, TypeOK, CallInv
  <1>7. ASSUME NEW l \in Link, Forgot(l) \/ LinkExpires(l) PROVE Inv0'
    BY <1>7 DEF Forgot, LinkExpires, TypeOK, CallInv, TokenInv
  <1>8. ASSUME NEW r \in Request, NEW l \in Link, BeginReset(r, l) PROVE Inv0'
    <2> DEFINE c == Slot("reset", 0, l, FALSE)
    <2>1. Begin(r, c) /\ c \in Call
      <3>1. c \in Call
        BY <1>0 DEF Slot, Call
      <3> QED
        BY <1>8, <3>1 DEF BeginReset
    <2>2. /\ call' \in [Request -> Call] /\ call'[r] = c
          /\ \A q \in Request \ {r} : call'[q] = call[q]
      BY <2>1, BeginKeeps
    <2>3. CallInv'
      <3>1. call'[r].at = "reset" /\ call'[r].from = 0 /\ call'[r].link = l
        BY <2>2 DEF Slot
      <3> QED
        <4>1. issued' = issued /\ Sound(call'[r], issued)
          BY <1>0, <1>8, <3>1 DEF BeginReset, Sound
        <4> QED
          BY <2>2, <4>1 DEF CallInv
    <2>4. raced' \subseteq Token \cup Link
      BY <1>8 DEF BeginReset, TypeOK
    <2> QED
      BY <1>8, <2>2, <2>3, <2>4 DEF BeginReset, TypeOK, TokenInv
  <1>9. ASSUME NEW r \in Request, Reset(r) PROVE Inv0'
    <2>1. call[r].link \in Link /\ Return(r)
      BY <1>9 DEF Reset, CallInv, Sound, TypeOK, Call
    <2>2. links' \in [Link -> {"none", "open", "spent"}] /\ uses' \in [Link -> Nat]
      BY <1>9, <2>1 DEF Reset, TypeOK
    <2>3. CallInv'
      BY <1>9, <1>0, <2>1, ReturnKeeps, IdleSound DEF Reset, CallInv
    <2>4. TokenInv'
      BY <1>9, ResetKills DEF Reset, TokenInv
    <2>5. /\ resets' = resets + 1 /\ active' = active /\ issued' = issued
          /\ raced' = raced /\ events' = events
      BY <1>9 DEF Reset
    <2>6. call' \in [Request -> Call] /\ tokens' \in [Token -> Row]
      BY <1>9, <2>1, ReturnKeeps, ResetKills
    <2> QED
      BY <2>2, <2>3, <2>4, <2>5, <2>6 DEF TypeOK
  <1>10. ASSUME NEW b \in BOOLEAN, SetActive(b) PROVE Inv0'
    <2>1. \A r \in Request : /\ call'[r].at = call[r].at /\ call'[r].from = call[r].from
                             /\ call'[r].link = call[r].link /\ call'[r] \in Call
      BY <1>10 DEF SetActive, TypeOK, Call
    <2>2. call' \in [Request -> Call]
      BY <1>10, <2>1 DEF SetActive
    <2>3. CallInv'
      BY <1>10, <2>1 DEF SetActive, CallInv, Sound
    <2> QED
      BY <1>10, <2>2, <2>3 DEF SetActive, Event, TypeOK, TokenInv
  <1>11. ASSUME NEW r \in Request, CutShort(r) PROVE Inv0'
    <2>1. CallInv'
      BY <1>11, <1>0, ReturnKeeps, IdleSound DEF CutShort, CallInv
    <2> QED
      BY <1>11, <2>1, ReturnKeeps DEF CutShort, Event, TypeOK, TokenInv
  <1>12. ASSUME UNCHANGED vars PROVE Inv0'
    BY <1>12 DEF vars, TypeOK, CallInv, TokenInv
  <1> QED
    BY <1>1, <1>2, <1>3, <1>4, <1>5, <1>6, <1>7, <1>8, <1>9, <1>10, <1>11, <1>12, NextCases

\* The types and what the slots say, in every behaviour.
THEOREM TypesHold == Spec => [](TypeOK /\ CallInv /\ TokenInv)
  <1>1. Init => Inv0
    BY BoundsAssumption, IdleType, IdleSound
       DEF Init, Inv0, TypeOK, CallInv, TokenInv, NoRow, Row, Token, Idle, Slot
  <1> QED
    BY <1>1, TypeStep, PTL DEF Spec, Inv0

\* The variables keep their types.
THEOREM TypesAlwaysOK == Spec => []TypeOK
  BY TypesHold, PTL

-----------------------------------------------------------------------------
(* Sessions end with a reset *)

\* A reset of the password leaves no token alive that is older than it.
LEMMA ResetStep == Inv0 /\ ResetEndsSessions /\ [Next]_vars => ResetEndsSessions'
  <1> SUFFICES ASSUME Inv0, ResetEndsSessions, [Next]_vars PROVE ResetEndsSessions'
    OBVIOUS
  <1>0. TypeOK /\ CallInv
    BY DEF Inv0
  <1>1. CASE UNCHANGED <<tokens, resets>>
    BY <1>1 DEF ResetEndsSessions
  <1>2. ASSUME NEW t \in Token, Kill(t), resets' = resets PROVE ResetEndsSessions'
    BY <1>0, <1>2, KillKeeps DEF ResetEndsSessions
  <1>3. ASSUME NEW r \in Request, Issue(r) PROVE ResetEndsSessions'
    <2>1. tokens'[issued + 1].born = resets /\ resets' = resets
      BY <1>0, <1>3, IssueWrites DEF Issue
    <2> QED
      BY <1>0, <1>3, <2>1, IssueWrites DEF ResetEndsSessions
  <1>4. ASSUME NEW r \in Request, Reset(r) PROVE ResetEndsSessions'
    BY <1>0, <1>4, ResetKills DEF ResetEndsSessions
  <1>5. ASSUME NEW r \in Request, Revoke(r) PROVE ResetEndsSessions'
    <2>1. call[r].from \in Token /\ Kill(call[r].from) /\ resets' = resets
      BY <1>0, <1>5, BoundsAssumption DEF Revoke, CallInv, Sound, Token, TypeOK
    <2> QED
      BY <1>2, <2>1
  <1>6. ASSUME NEW t \in Token, Logout(t) PROVE ResetEndsSessions'
    BY <1>2, <1>6 DEF Logout
  <1> QED
    BY <1>1, <1>3, <1>4, <1>5, <1>6, NextCases
       DEF Login, Refresh, CheckUser, Forgot, LinkExpires, BeginReset, SetActive,
           CutShort, vars

\* After resetPassword's transaction no token from before it lives.
THEOREM ResetsEndSessions == Spec => []ResetEndsSessions
  <1>1. Init => ResetEndsSessions
    BY DEF Init, ResetEndsSessions, NoRow
  <1> QED
    BY <1>1, ResetStep, TypesHold, PTL DEF Spec, Inv0

-----------------------------------------------------------------------------
(* Accounts that are off *)

\* A call past the check of the account, and every call while the account is on, was
\* served while it was on.
ServedInv ==
    /\ OffAccountsGetNoToken
    /\ \A r \in Request : call[r].at = "issue" \/ (active /\ call[r].at \in {"revoke", "check"})
                          => call[r].served

\* Every step keeps it.
LEMMA ServedStep == Inv0 /\ ServedInv /\ [Next]_vars => ServedInv'
  <1> SUFFICES ASSUME Inv0, ServedInv, [Next]_vars PROVE ServedInv'
    OBVIOUS
  <1>0. TypeOK /\ CallInv
    BY DEF Inv0
  <1> DEFINE Fair(c, on) == c.at = "issue" \/ (on /\ c.at \in {"revoke", "check"}) => c.served
  <1>1. \A r \in Request : Fair(call[r], active)
    BY DEF ServedInv
  <1>2. ASSUME \A t \in Token : tokens'[t].served, \A r \in Request : Fair(call'[r], active')
        PROVE  ServedInv'
    BY <1>2 DEF ServedInv, OffAccountsGetNoToken
  <1>3. ~(Idle.at \in {"revoke", "check", "issue"})
    BY DEF Idle, Slot
  <1>4. ASSUME tokens' = tokens PROVE \A t \in Token : tokens'[t].served
    BY <1>4 DEF ServedInv, OffAccountsGetNoToken
  <1> HIDE DEF Fair
  <1>5. ASSUME NEW r \in Request, NEW c \in Call, Begin(r, c), Fair(c, active),
               tokens' = tokens, active' = active
        PROVE  ServedInv'
    BY <1>0, <1>1, <1>2, <1>4, <1>5, BeginKeeps
  <1>6. ASSUME NEW r \in Request, Return(r), active' = active
        PROVE  \A q \in Request : Fair(call'[q], active')
    BY <1>0, <1>1, <1>3, <1>6, ReturnKeeps DEF Fair
  <1>7. ASSUME NEW r \in Request, Login(r) PROVE ServedInv'
    <2>1. /\ Slot("issue", 0, "none", TRUE) \in Call
          /\ Fair(Slot("issue", 0, "none", TRUE), active)
      BY BoundsAssumption DEF Slot, Call, Fair
    <2> QED
      BY <1>5, <1>7, <2>1 DEF Login
  <1>8. ASSUME NEW r \in Request, NEW t \in Token, Refresh(r, t) PROVE ServedInv'
    <2>1. Slot("revoke", t, "none", active) \in Call
      BY <1>0, BoundsAssumption DEF Slot, Call, Token, TypeOK
    <2>2. Fair(Slot("revoke", t, "none", active), active)
      BY <1>0 DEF Slot, Fair, TypeOK
    <2> QED
      BY <1>5, <1>8, <2>1, <2>2 DEF Refresh
  <1>9. ASSUME NEW r \in Request, Revoke(r) PROVE ServedInv'
    <2>1. call[r].from \in Token /\ Kill(call[r].from) /\ Goto(r, "check") /\ active' = active
      BY <1>0, <1>9, BoundsAssumption DEF Revoke, CallInv, Sound, Token, TypeOK
    <2>2. Fair(call'[r], active')
      BY <1>0, <1>1, <1>9, <2>1, GotoKeeps DEF Revoke, Fair
    <2>3. \A t \in Token : tokens'[t].served
      BY <1>0, <2>1, KillKeeps DEF ServedInv, OffAccountsGetNoToken
    <2> QED
      BY <1>0, <1>1, <1>2, <2>1, <2>2, <2>3, GotoKeeps
  <1>10. ASSUME NEW r \in Request, CheckUser(r) PROVE ServedInv'
    <2>1. tokens' = tokens /\ active' = active
      BY <1>10 DEF CheckUser
    <2>2. CASE active
      <3>1. Goto(r, "issue")
        BY <1>10, <2>2 DEF CheckUser
      <3>2. Fair(call'[r], active')
        BY <1>0, <1>1, <1>10, <2>2, <3>1, GotoKeeps DEF CheckUser, Fair
      <3> QED
        BY <1>0, <1>1, <1>2, <1>4, <2>1, <3>1, <3>2, GotoKeeps
    <2>3. CASE ~active
      BY <1>2, <1>4, <1>6, <1>10, <2>1, <2>3 DEF CheckUser
    <2> QED
      BY <2>2, <2>3
  <1>11. ASSUME NEW r \in Request, Issue(r) PROVE ServedInv'
    <2>1. tokens'[issued + 1].served
      <3>1. tokens'[issued + 1].served = call[r].served
        <4>1. tokens'[issued + 1] = [live |-> TRUE, from |-> call[r].from,
                                     born |-> resets, served |-> call[r].served]
          BY <1>0, <1>11, IssueWrites
        <4> QED
          BY <4>1
      <3> QED
        BY <1>1, <1>11, <3>1 DEF Issue, Fair
    <2>2. \A t \in Token : tokens'[t].served
      BY <1>0, <1>11, <2>1, IssueWrites DEF ServedInv, OffAccountsGetNoToken
    <2> QED
      BY <1>2, <1>6, <1>11, <2>2 DEF Issue
  <1>12. ASSUME NEW t \in Token, Logout(t) PROVE ServedInv'
    BY <1>0, <1>1, <1>2, <1>12, KillKeeps DEF Logout, ServedInv, OffAccountsGetNoToken
  <1>13. ASSUME NEW r \in Request, NEW l \in Link, BeginReset(r, l) PROVE ServedInv'
    <2>1. Slot("reset", 0, l, FALSE) \in Call /\ Fair(Slot("reset", 0, l, FALSE), active)
      BY BoundsAssumption DEF Slot, Call, Fair
    <2> QED
      BY <1>5, <1>13, <2>1 DEF BeginReset
  <1>14. ASSUME NEW r \in Request, Reset(r) PROVE ServedInv'
    <2>1. \A t \in Token : tokens'[t].served
      BY <1>0, <1>14, ResetKills DEF ServedInv, OffAccountsGetNoToken
    <2> QED
      BY <1>2, <1>6, <1>14, <2>1 DEF Reset
  <1>15. ASSUME NEW b \in BOOLEAN, SetActive(b) PROVE ServedInv'
    <2>1. \A r \in Request : Fair(call'[r], active')
      <3> SUFFICES ASSUME NEW r \in Request PROVE Fair(call'[r], active')
        OBVIOUS
      <3>1. /\ call'[r].at = call[r].at
            /\ call'[r].served <=> call[r].served \/ (b /\ call[r] # Idle)
        BY <1>0, <1>15 DEF SetActive, TypeOK, Call
      <3>2. call[r] = Idle => ~(call[r].at \in {"revoke", "check", "issue"})
        BY <1>3
      <3>3. call[r].at = "issue" => call[r].served
        BY <1>1 DEF Fair
      <3>4. active' = b
        BY <1>15 DEF SetActive
      <3> QED
        BY <3>1, <3>2, <3>3, <3>4 DEF Fair
    <2> QED
      BY <1>2, <1>4, <1>15, <2>1 DEF SetActive
  <1>16. ASSUME NEW r \in Request, CutShort(r) PROVE ServedInv'
    BY <1>2, <1>4, <1>6, <1>16 DEF CutShort
  <1>17. CASE UNCHANGED <<tokens, call, active>>
    BY <1>1, <1>2, <1>4, <1>17
  <1> QED
    BY <1>7, <1>8, <1>9, <1>10, <1>11, <1>12, <1>13, <1>14, <1>15, <1>16, <1>17, NextCases
       DEF Forgot, LinkExpires, vars

\* A call throughout which the account is off issues no token: login and refresh check
\* isActive between their first read and the token.
THEOREM OffAccountsStayOut == Spec => []OffAccountsGetNoToken
  <1>1. Init => ServedInv
    BY DEF Init, ServedInv, OffAccountsGetNoToken, NoRow, Idle, Slot
  <1>2. ServedInv => OffAccountsGetNoToken
    BY DEF ServedInv
  <1> QED
    BY <1>1, <1>2, ServedStep, TypesHold, PTL DEF Spec, Inv0

-----------------------------------------------------------------------------
(* Chains *)

\* What keeps a session a chain: a call that replaces a token races with any other call
\* of it and with any successor it has; past its revocation the token is dead.
ChainInv ==
    /\ SessionsAreChains
    /\ \A r, q \in Request : r # q /\ call[r].from = call[q].from /\ call[r].from # 0
                             => call[r].from \in raced
    /\ \A r \in Request, u \in Token : call[r].from = tokens[u].from /\ call[r].from # 0
                                       => call[r].from \in raced
    /\ \A r \in Request : call[r].from # 0 /\ call[r].at # "revoke"
                          => ~tokens[call[r].from].live

\* A step that creates no token, kills any, and lets no call begin on one, keeps it.
LEMMA ChainKeeps ==
    ASSUME Inv0, ChainInv, tokens' \in [Token -> Row], raced \subseteq raced',
           \A u \in Token : tokens'[u].from = tokens[u].from /\ (tokens'[u].live => tokens[u].live),
           \A r \in Request : /\ call'[r].from \in {0, call[r].from}
                              /\ call'[r].at = "revoke" \/ call'[r].from = 0
                                 \/ call[r].at # "revoke" \/ ~tokens'[call[r].from].live
    PROVE  ChainInv'
  <1>1. SessionsAreChains'
    BY DEF ChainInv, SessionsAreChains
  <1>2. \A r, q \in Request : r # q /\ call'[r].from = call'[q].from /\ call'[r].from # 0
                             => call'[r].from \in raced'
    BY DEF ChainInv
  <1>3. \A r \in Request, u \in Token : call'[r].from = tokens'[u].from /\ call'[r].from # 0
                                       => call'[r].from \in raced'
    BY DEF ChainInv
  <1>4. ASSUME NEW r \in Request, call'[r].from # 0, call'[r].at # "revoke"
        PROVE  ~tokens'[call'[r].from].live
    <2>1. call[r].from \in Token /\ call'[r].from = call[r].from
      BY <1>4, BoundsAssumption DEF Inv0, TypeOK, Call, Token
    <2> QED
      BY <1>4, <2>1 DEF ChainInv
  <1> QED
    BY <1>1, <1>2, <1>3, <1>4 DEF ChainInv

\* Every step keeps it.
LEMMA ChainStep == Inv0 /\ ChainInv /\ [Next]_vars => ChainInv'
  <1> SUFFICES ASSUME Inv0, ChainInv, [Next]_vars PROVE ChainInv'
    OBVIOUS
  <1> USE BoundsAssumption
  <1>0. TypeOK /\ CallInv /\ TokenInv /\ tokens \in [Token -> Row] /\ Idle.from = 0
    BY DEF Inv0, TypeOK, Idle, Slot
  <1>1. ASSUME NEW r \in Request, NEW c \in Call, c.from = 0, Begin(r, c), tokens' = tokens,
               raced \subseteq raced'
        PROVE  ChainInv'
    <2>1. \A q \in Request : call'[q].from = 0 \/ call'[q] = call[q]
      BY <1>0, <1>1, BeginKeeps
    <2> QED
      BY <1>0, <1>1, <2>1, ChainKeeps
  <1>2. ASSUME NEW r \in Request, Return(r), tokens' \in [Token -> Row], raced' = raced,
               \A u \in Token : /\ tokens'[u].from = tokens[u].from
                                /\ tokens'[u].live => tokens[u].live
        PROVE  ChainInv'
    <2>1. \A q \in Request : call'[q].from = 0 \/ call'[q] = call[q]
      BY <1>0, <1>2, ReturnKeeps
    <2> QED
      BY <1>0, <1>2, <2>1, ChainKeeps
  <1>3. ASSUME NEW r \in Request, Login(r) PROVE ChainInv'
    <2>1. Slot("issue", 0, "none", TRUE) \in Call /\ Slot("issue", 0, "none", TRUE).from = 0
      BY DEF Slot, Call
    <2> QED
      BY <1>1, <1>3, <2>1 DEF Login
  <1>4. ASSUME NEW r \in Request, NEW t \in Token, Refresh(r, t) PROVE ChainInv'
    <2> DEFINE c == Slot("revoke", t, "none", active)
    <2>1. c \in Call /\ c.from = t /\ c.at = "revoke" /\ t # 0
      BY <1>0 DEF Slot, Call, Token, TypeOK
    <2>2. call'[r] = c /\ \A q \in Request \ {r} : call'[q] = call[q]
      BY <1>0, <1>4, <2>1, BeginKeeps DEF Refresh
    <2>3. tokens' = tokens /\ raced \subseteq raced' /\ \A u \in Token : tokens[u].from # t
      BY <1>4 DEF Refresh, ChainInv, SessionsAreChains
    <2>4. \A q \in Request \ {r} : call[q].from = t => t \in raced'
      <3>1. ASSUME NEW q \in Request \ {r}, call[q].from = t PROVE call[q].at # "idle"
        BY <2>1, <3>1, <1>0 DEF CallInv, Sound
      <3> QED
        BY <1>4, <3>1 DEF Refresh
    <2> HIDE DEF c
    <2>5. SessionsAreChains'
      BY <2>3 DEF ChainInv, SessionsAreChains
    <2>6. \A p, q \in Request : p # q /\ call'[p].from = call'[q].from /\ call'[p].from # 0
                               => call'[p].from \in raced'
      BY <2>1, <2>2, <2>3, <2>4 DEF ChainInv
    <2>7. \A q \in Request, u \in Token : call'[q].from = tokens'[u].from /\ call'[q].from # 0
                                         => call'[q].from \in raced'
      BY <2>1, <2>2, <2>3 DEF ChainInv
    <2>8. \A q \in Request : call'[q].from # 0 /\ call'[q].at # "revoke"
                            => ~tokens'[call'[q].from].live
      BY <2>1, <2>2, <2>3 DEF ChainInv
    <2> QED
      BY <2>5, <2>6, <2>7, <2>8 DEF ChainInv
  <1>5. ASSUME NEW r \in Request, Revoke(r) PROVE ChainInv'
    <2>1. call[r].from \in Token /\ Kill(call[r].from) /\ Goto(r, "check") /\ raced' = raced
      BY <1>0, <1>5 DEF Revoke, CallInv, Sound, Token, TypeOK
    <2>2. ~tokens'[call[r].from].live
      BY <1>0, <2>1, KillKeeps
    <2>3. \A q \in Request : /\ call'[q].from = call[q].from
                             /\ q # r => call'[q].at = call[q].at
      BY <1>0, <2>1, GotoKeeps
    <2>4. \A q \in Request : \/ call'[q].at = "revoke" \/ call[q].at # "revoke"
                             \/ ~tokens'[call[q].from].live
      BY <2>2, <2>3
    <2> QED
      BY <1>0, <2>1, <2>3, <2>4, KillKeeps, ChainKeeps
  <1>6. ASSUME NEW r \in Request, CheckUser(r) PROVE ChainInv'
    <2>1. tokens' = tokens /\ raced' = raced /\ call[r].at = "check"
      BY <1>6 DEF CheckUser
    <2>2. CASE active
      <3>1. \A q \in Request : /\ call'[q].from = call[q].from
                               /\ q # r => call'[q].at = call[q].at
        BY <1>0, <1>6, <2>2, GotoKeeps DEF CheckUser
      <3> QED
        BY <1>0, <2>1, <3>1, ChainKeeps
    <2>3. CASE ~active
      BY <1>0, <1>2, <1>6, <2>1, <2>3 DEF CheckUser
    <2> QED
      BY <2>2, <2>3
  <1>7. ASSUME NEW r \in Request, Issue(r) PROVE ChainInv'
    <2> DEFINE n == issued + 1
               t == call[r].from
    <2>1. /\ n \in Token /\ tokens'[n].from = t /\ raced' = raced /\ issued \in Nat
          /\ call[r].at = "issue" /\ t \in 0..issued
          /\ \A u \in Token \ {n} : tokens'[u] = tokens[u]
      <3>1. tokens'[n] = [live |-> TRUE, from |-> t, born |-> resets, served |-> call[r].served]
        BY <1>0, <1>7, IssueWrites
      <3>2. n \in Token /\ \A u \in Token \ {n} : tokens'[u] = tokens[u]
        BY <1>0, <1>7, IssueWrites
      <3> QED
        BY <1>0, <1>7, <3>1, <3>2 DEF Issue, CallInv, Sound, TypeOK
    <2>2. call'[r].from = 0 /\ \A q \in Request \ {r} : call'[q] = call[q]
      BY <1>0, <1>7, ReturnKeeps DEF Issue
    <2>3. \A u \in Token : tokens[u].from # n /\ tokens[u].from \in Nat
      BY <1>0, <2>1 DEF TokenInv
    <2>4. \A q \in Request : call[q].from # n /\ call[q].from \in Nat
      BY <1>0, <2>1 DEF CallInv, Sound
    <2>5. \A u \in Token : tokens[u].from = t /\ t # 0 => t \in raced
      BY DEF ChainInv
    <2>6. t # 0 => ~tokens[t].live
      BY <2>1 DEF ChainInv
    <2>7. tokens[n].from = 0 /\ t # n
      BY <1>0, <2>1 DEF TokenInv
    <2> HIDE DEF n, t
    <2>8. ASSUME NEW a \in Token, NEW u \in Token, tokens'[u].from = a
          PROVE  /\ ~tokens'[a].live
                 /\ \A v \in Token \ {u} : tokens'[v].from = a => a \in raced'
      <3>1. a # n /\ a # 0 /\ tokens'[a] = tokens[a]
        BY <2>1, <2>3, <2>7, <2>8 DEF Token
      <3>2. ~tokens[a].live
        BY <2>1, <2>6, <2>8, <3>1 DEF ChainInv, SessionsAreChains
      <3>3. \A v \in Token \ {u} : tokens'[v].from = a => a \in raced
        BY <2>1, <2>5, <2>8, <3>1 DEF ChainInv, SessionsAreChains
      <3> QED
        BY <2>1, <3>1, <3>2, <3>3
    <2>9. \A p, q \in Request : p # q /\ call'[p].from = call'[q].from /\ call'[p].from # 0
                               => call'[p].from \in raced'
      BY <2>1, <2>2 DEF ChainInv
    <2>10. ASSUME NEW q \in Request, NEW u \in Token, call'[q].from = tokens'[u].from,
                  call'[q].from # 0
           PROVE  call'[q].from \in raced'
      <3>1. q # r /\ call'[q] = call[q]
        BY <2>2, <2>10
      <3>2. CASE u = n
        BY <2>1, <2>10, <3>1, <3>2 DEF ChainInv, t
      <3>3. CASE u # n
        BY <2>1, <2>10, <3>1, <3>3 DEF ChainInv
      <3> QED
        BY <3>2, <3>3
    <2>11. ASSUME NEW q \in Request, call'[q].from # 0, call'[q].at # "revoke"
           PROVE  ~tokens'[call'[q].from].live
      <3>1. q # r /\ call'[q] = call[q]
        BY <2>2, <2>11
      <3>2. call[q].from \in Token /\ call[q].from # n
        BY <1>0, <2>4, <2>11, <3>1 DEF TypeOK, Call, Token
      <3> QED
        BY <2>1, <2>11, <3>1, <3>2 DEF ChainInv
    <2> QED
      BY <2>8, <2>9, <2>10, <2>11 DEF ChainInv, SessionsAreChains
  <1>8. ASSUME NEW t \in Token, Logout(t) PROVE ChainInv'
    BY <1>0, <1>8, KillKeeps, ChainKeeps DEF Logout
  <1>9. ASSUME NEW r \in Request, NEW l \in Link, BeginReset(r, l) PROVE ChainInv'
    <2>1. Slot("reset", 0, l, FALSE) \in Call /\ Slot("reset", 0, l, FALSE).from = 0
      BY DEF Slot, Call
    <2> QED
      BY <1>1, <1>9, <2>1 DEF BeginReset
  <1>10. ASSUME NEW r \in Request, Reset(r) PROVE ChainInv'
    BY <1>0, <1>2, <1>10, ResetKills DEF Reset
  <1>11. ASSUME NEW b \in BOOLEAN, SetActive(b) PROVE ChainInv'
    <2>1. \A q \in Request : call'[q].from = call[q].from /\ call'[q].at = call[q].at
      BY <1>0, <1>11 DEF SetActive, TypeOK, Call
    <2> QED
      BY <1>0, <1>11, <2>1, ChainKeeps DEF SetActive
  <1>12. ASSUME NEW r \in Request, CutShort(r) PROVE ChainInv'
    BY <1>0, <1>2, <1>12 DEF CutShort
  <1>13. CASE UNCHANGED <<tokens, call, raced>>
    BY <1>0, <1>13, ChainKeeps
  <1> QED
    BY <1>3, <1>4, <1>5, <1>6, <1>7, <1>8, <1>9, <1>10, <1>11, <1>12, <1>13, NextCases
       DEF Forgot, LinkExpires, vars

\* A refresh replaces its token for good: one successor, unless refreshes overlapped.
THEOREM SessionsStayChains == Spec => []SessionsAreChains
  <1>1. Init => ChainInv
    BY BoundsAssumption DEF Init, ChainInv, SessionsAreChains, NoRow, Idle, Slot, Token
  <1>2. ChainInv => SessionsAreChains
    BY DEF ChainInv
  <1> QED
    BY <1>1, <1>2, ChainStep, TypesHold, PTL DEF Spec, Inv0

-----------------------------------------------------------------------------
(* Reset links *)

\* What makes a link reset once: it is open only until its first use, and a call at
\* work through a link that was used, or through one that another call is at work
\* through, races.
LinkInv ==
    /\ LinksAreSpent
    /\ \A l \in Link : links[l] # "spent" => uses[l] = 0
    /\ \A r \in Request : call[r].link # "none" /\ uses[call[r].link] > 0
                          => call[r].link \in raced
    /\ \A r, q \in Request : r # q /\ call[r].link = call[q].link /\ call[r].link # "none"
                             => call[r].link \in raced

\* A step that resets nothing and begins nothing through a link keeps it.
LEMMA LinkKeeps ==
    ASSUME Inv0, LinkInv, uses' = uses, raced \subseteq raced',
           \A l \in Link : links'[l] # "spent" => links[l] # "spent",
           \A r \in Request : call'[r].link \in {"none", call[r].link}
    PROVE  LinkInv'
  BY DEF LinkInv, LinksAreSpent, Inv0, TypeOK

\* Every step keeps it.
LEMMA LinkStep == Inv0 /\ LinkInv /\ [Next]_vars => LinkInv'
  <1> SUFFICES ASSUME Inv0, LinkInv, [Next]_vars PROVE LinkInv'
    OBVIOUS
  <1>0. TypeOK /\ CallInv /\ Idle.link = "none"
    BY DEF Inv0, Idle, Slot
  <1>1. ASSUME NEW r \in Request, NEW c \in Call, c.link = "none", Begin(r, c),
               uses' = uses, links' = links, raced \subseteq raced'
        PROVE  LinkInv'
    <2>1. \A q \in Request : call'[q].link \in {"none", call[q].link}
      BY <1>0, <1>1, BeginKeeps
    <2> QED
      BY <1>1, <2>1, LinkKeeps
  <1>2. ASSUME NEW r \in Request, Return(r), UNCHANGED <<uses, links, raced>>
        PROVE  LinkInv'
    <2>1. \A q \in Request : call'[q].link \in {"none", call[q].link}
      BY <1>0, <1>2, ReturnKeeps
    <2> QED
      BY <1>2, <2>1, LinkKeeps
  <1>3. ASSUME NEW r \in Request, NEW at \in {"check", "issue"}, Goto(r, at),
               UNCHANGED <<uses, links, raced>>
        PROVE  LinkInv'
    <2>1. \A q \in Request : call'[q].link = call[q].link
      BY <1>0, <1>3, GotoKeeps
    <2> QED
      BY <1>3, <2>1, LinkKeeps
  <1>4. ASSUME NEW r \in Request, Login(r) PROVE LinkInv'
    <2>1. Slot("issue", 0, "none", TRUE) \in Call /\ Slot("issue", 0, "none", TRUE).link = "none"
      BY BoundsAssumption DEF Slot, Call
    <2> QED
      BY <1>1, <1>4, <2>1 DEF Login
  <1>5. ASSUME NEW r \in Request, NEW t \in Token, Refresh(r, t) PROVE LinkInv'
    <2>1. /\ Slot("revoke", t, "none", active) \in Call
          /\ Slot("revoke", t, "none", active).link = "none"
      BY <1>0, BoundsAssumption DEF Slot, Call, Token, TypeOK
    <2>2. raced \subseteq raced'
      BY <1>5 DEF Refresh
    <2> QED
      BY <1>1, <1>5, <2>1, <2>2 DEF Refresh
  <1>6. ASSUME NEW r \in Request, Revoke(r) \/ CheckUser(r) \/ Issue(r) \/ CutShort(r)
        PROVE  LinkInv'
    BY <1>2, <1>3, <1>6 DEF Revoke, CheckUser, Issue, CutShort
  <1>7. ASSUME NEW l \in Link, Forgot(l) \/ LinkExpires(l) PROVE LinkInv'
    <2>1. \A k \in Link : links'[k] # "spent" => links[k] # "spent"
      BY <1>0, <1>7 DEF Forgot, LinkExpires, TypeOK
    <2> QED
      BY <1>7, <2>1, LinkKeeps DEF Forgot, LinkExpires
  <1>8. ASSUME NEW r \in Request, NEW l \in Link, BeginReset(r, l) PROVE LinkInv'
    <2> DEFINE c == Slot("reset", 0, l, FALSE)
    <2>1. c \in Call /\ c.link = l /\ l # "none"
      BY BoundsAssumption, NoLinkAssumption DEF Slot, Call
    <2>2. call'[r] = c /\ \A q \in Request \ {r} : call'[q] = call[q]
      BY <1>0, <1>8, <2>1, BeginKeeps DEF BeginReset
    <2>3. /\ UNCHANGED <<uses, links>> /\ raced \subseteq raced' /\ uses[l] = 0
          /\ \A q \in Request \ {r} : call[q].link = l => l \in raced'
      BY <1>8 DEF BeginReset, LinkInv
    <2> HIDE DEF c
    <2>4. \A q \in Request : call'[q].link # "none" /\ uses'[call'[q].link] > 0
                            => call'[q].link \in raced'
      BY <2>1, <2>2, <2>3 DEF LinkInv
    <2>5. \A p, q \in Request : p # q /\ call'[p].link = call'[q].link /\ call'[p].link # "none"
                               => call'[p].link \in raced'
      BY <2>1, <2>2, <2>3 DEF LinkInv
    <2> QED
      BY <2>3, <2>4, <2>5 DEF LinkInv, LinksAreSpent
  <1>9. ASSUME NEW r \in Request, Reset(r) PROVE LinkInv'
    <2> DEFINE l == call[r].link
    <2>1. l \in Link /\ l # "none"
      BY <1>0, <1>9 DEF Reset, CallInv, Sound, TypeOK, Call
    <2>2. /\ links'[l] = "spent" /\ uses'[l] = uses[l] + 1 /\ raced' = raced /\ uses[l] \in Nat
          /\ \A k \in Link \ {l} : links'[k] = links[k] /\ uses'[k] = uses[k]
      BY <1>0, <1>9, <2>1 DEF Reset, TypeOK
    <2>3. call'[r].link = "none" /\ \A q \in Request \ {r} : call'[q] = call[q]
      BY <1>0, <1>9, ReturnKeeps DEF Reset
    <2>4. uses[l] > 0 => l \in raced
      BY <2>1 DEF LinkInv
    <2>5. \A q \in Request \ {r} : call[q].link = l => l \in raced
      BY <2>1 DEF LinkInv
    <2> HIDE DEF l
    <2>6. LinksAreSpent'
      BY <2>2, <2>4 DEF LinkInv, LinksAreSpent
    <2>7. \A k \in Link : links'[k] # "spent" => uses'[k] = 0
      BY <2>2 DEF LinkInv
    <2>8. ASSUME NEW q \in Request, call'[q].link # "none", uses'[call'[q].link] > 0
          PROVE  call'[q].link \in raced'
      <3>1. q # r /\ call'[q] = call[q] /\ call[q].link \in Link
        BY <1>0, <2>3, <2>8 DEF TypeOK, Call
      <3> QED
        BY <2>2, <2>5, <2>8, <3>1 DEF LinkInv
    <2>9. \A p, q \in Request : p # q /\ call'[p].link = call'[q].link /\ call'[p].link # "none"
                               => call'[p].link \in raced'
      BY <2>2, <2>3 DEF LinkInv
    <2> QED
      BY <2>6, <2>7, <2>8, <2>9 DEF LinkInv
  <1>10. ASSUME NEW b \in BOOLEAN, SetActive(b) PROVE LinkInv'
    <2>1. \A q \in Request : call'[q].link = call[q].link
      BY <1>0, <1>10 DEF SetActive, TypeOK, Call
    <2> QED
      BY <1>10, <2>1, LinkKeeps DEF SetActive
  <1>11. ASSUME NEW t \in Token, Logout(t) PROVE LinkInv'
    BY <1>11, LinkKeeps DEF Logout
  <1>12. CASE UNCHANGED vars
    BY <1>12, LinkKeeps DEF vars
  <1> QED
    BY <1>4, <1>5, <1>6, <1>7, <1>8, <1>9, <1>10, <1>11, <1>12, NextCases

\* A reset link resets once, unless two resets through it overlapped.
THEOREM LinksStaySpent == Spec => []LinksAreSpent
  <1>1. Init => LinkInv
    BY DEF Init, LinkInv, LinksAreSpent, Idle, Slot
  <1>2. LinkInv => LinksAreSpent
    BY DEF LinkInv
  <1> QED
    BY <1>1, <1>2, LinkStep, TypesHold, PTL DEF Spec, Inv0
=============================================================================
