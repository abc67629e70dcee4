------------------------------- MODULE Sessions -------------------------------
(***************************************************************************)
(* The sessions of one user (auth/auth.service.ts): refresh tokens issued  *)
(* by a login and replaced by every refresh, revoked by a logout and by a  *)
(* password reset, while an administrator switches the account off and on  *)
(* (users/users.service.ts).                                               *)
(*                                                                         *)
(* No transaction spans the statements of a login or a refresh: each is a  *)
(* step of its own. A reset writes in one transaction, but checks its link *)
(* before it hashes the new password. How users are created is the subject *)
(* of Workspaces; accepting an invitation ends in the same Issue.          *)
(***************************************************************************)
EXTENDS Naturals

CONSTANTS
    Request,    \* bound: calls at work at once
    Link,       \* bound: reset links mailed
    MaxTokens,  \* bound: refresh tokens issued
    MaxEvents   \* bound: accounts switched and calls cut short

ASSUME BoundsAssumption == MaxTokens \in Nat /\ MaxEvents \in Nat
ASSUME NoLinkAssumption == "none" \notin Link

VARIABLES
    active,    \* User.isActive
    links,     \* [Link -> "none", "open", "spent"]: PasswordResetToken
    tokens,    \* [1..MaxTokens -> Row]: RefreshToken, in order of creation
    issued,    \* how many of them there are
    call,      \* [Request -> Call]
    resets,    \* observer: resets that went through
    uses,      \* observer: [Link -> how often it reset the password]
    raced,     \* observer: tokens and links that two calls were at work on at once
    events

vars == <<active, links, tokens, issued, call, resets, uses, raced, events>>

Token == 1..MaxTokens
\* live: neither revoked nor expired; from: the token it replaces, 0 after a login;
\* born: the resets before its creation; served: whether the account was on at some
\* time of the call that created it.
Row == [live : BOOLEAN, from : 0..MaxTokens, born : Nat, served : BOOLEAN]
NoRow == [live |-> FALSE, from |-> 0, born |-> 0, served |-> TRUE]

Call == [at : {"idle", "revoke", "check", "issue", "reset"}, from : 0..MaxTokens,
         link : Link \cup {"none"}, served : BOOLEAN]
Slot(at, t, l, b) == [at |-> at, from |-> t, link |-> l, served |-> b]
Idle == Slot("idle", 0, "none", FALSE)

Init ==
    /\ active = TRUE /\ links = [l \in Link |-> "none"]
    /\ tokens = [t \in Token |-> NoRow] /\ issued = 0
    /\ call = [r \in Request |-> Idle]
    /\ resets = 0 /\ uses = [l \in Link |-> 0] /\ raced = {} /\ events = 0

Begin(r, c) == call[r] = Idle /\ call' = [call EXCEPT ![r] = c]
Goto(r, at) == call' = [call EXCEPT ![r].at = at]
Return(r) == call' = [call EXCEPT ![r] = Idle]
Event == events < MaxEvents /\ events' = events + 1
Kill(t) == tokens' = [tokens EXCEPT ![t].live = FALSE]

-----------------------------------------------------------------------------
(* Login, refresh, logout *)

\* login: the account is on and the password matches the one read with it. (Which
\* passwords there are is left out: a login that fails writes nothing.)
Login(r) ==
    /\ active
    /\ Begin(r, Slot("issue", 0, "none", TRUE))
    /\ UNCHANGED <<active, links, tokens, issued, resets, uses, raced, events>>

\* refresh: the token is found valid; it is revoked in a statement of its own.
Refresh(r, t) ==
    /\ tokens[t].live
    /\ Begin(r, Slot("revoke", t, "none", active))
    /\ raced' = IF \E q \in Request \ {r} : call[q].at # "idle" /\ call[q].from = t
                  THEN raced \cup {t} ELSE raced
    /\ UNCHANGED <<active, links, tokens, issued, resets, uses, events>>

\* Mutant of Revoke: the old token stays.
Revoke_Skipped(r) ==
    /\ call[r].at = "revoke"
    /\ Goto(r, "check")
    /\ UNCHANGED <<active, links, tokens, issued, resets, uses, raced, events>>

\* The update names the row only: it succeeds on a token revoked in the meantime too.
Revoke(r) ==
    /\ call[r].at = "revoke"
    /\ Kill(call[r].from)
    /\ Goto(r, "check")
    /\ UNCHANGED <<active, links, issued, resets, uses, raced, events>>

\* Mutant of CheckUser: the account is not looked at.
CheckUser_Skipped(r) ==
    /\ call[r].at = "check"
    /\ Goto(r, "issue")
    /\ UNCHANGED <<active, links, tokens, issued, resets, uses, raced, events>>

\* An account that is off gets no token; the old one is gone all the same.
CheckUser(r) ==
    /\ call[r].at = "check"
    /\ IF active THEN Goto(r, "issue") ELSE Return(r)
    /\ UNCHANGED <<active, links, tokens, issued, resets, uses, raced, events>>

\* issueTokenPair
Issue(r) ==
    /\ call[r].at = "issue" /\ issued < MaxTokens
    /\ issued' = issued + 1
    /\ tokens' = [tokens EXCEPT ![issued + 1] =
                    [live |-> TRUE, from |-> call[r].from, born |-> resets,
                     served |-> call[r].served]]
    /\ Return(r)
    /\ UNCHANGED <<active, links, resets, uses, raced, events>>

\* logout, or the token expires.
Logout(t) ==
    /\ tokens[t].live
    /\ Kill(t)
    /\ UNCHANGED <<active, links, issued, call, resets, uses, raced, events>>

-----------------------------------------------------------------------------
(* Password resets *)

\* Mutant of Forgot: a state of the link that no one reads.
Forgot_Mailed(l) ==
    /\ active /\ links[l] = "none"
    /\ links' = [links EXCEPT ![l] = "mailed"]
    /\ UNCHANGED <<active, tokens, issued, call, resets, uses, raced, events>>

\* forgotPassword: a link is mailed, unless the account is off.
Forgot(l) ==
    /\ active /\ links[l] = "none"
    /\ links' = [links EXCEPT ![l] = "open"]
    /\ UNCHANGED <<active, tokens, issued, call, resets, uses, raced, events>>

\* resetPassword: the link is found unused; then the new password is hashed.
BeginReset(r, l) ==
    /\ links[l] = "open"
    /\ Begin(r, Slot("reset", 0, l, FALSE))
    /\ raced' = IF \E q \in Request \ {r} : call[q].link = l
                  THEN raced \cup {l} ELSE raced
    /\ UNCHANGED <<active, links, tokens, issued, resets, uses, events>>

\* Mutant of Reset: the sessions go on.
Reset_KeepsTokens(r) ==
    LET l == call[r].link
    IN  /\ call[r].at = "reset"
        /\ links' = [links EXCEPT ![l] = "spent"]
        /\ Return(r)
        /\ resets' = resets + 1 /\ uses' = [uses EXCEPT ![l] = @ + 1]
        /\ UNCHANGED <<active, tokens, issued, raced, events>>

\* Mutant of Reset: the link is not marked.
Reset_KeepsLink(r) ==
    LET l == call[r].link
    IN  /\ call[r].at = "reset"
        /\ tokens' = [t \in Token |-> [tokens[t] EXCEPT !.live = FALSE]]
        /\ Return(r)
        /\ resets' = resets + 1 /\ uses' = [uses EXCEPT ![l] = @ + 1]
        /\ UNCHANGED <<active, links, issued, raced, events>>

\* One transaction: the new password, the link, every token that is not revoked.
Reset(r) ==
    LET l == call[r].link
    IN  /\ call[r].at = "reset"
        /\ links' = [links EXCEPT ![l] = "spent"]
        /\ tokens' = [t \in Token |-> [tokens[t] EXCEPT !.live = FALSE]]
        /\ Return(r)
        /\ resets' = resets + 1 /\ uses' = [uses EXCEPT ![l] = @ + 1]
        /\ UNCHANGED <<active, issued, raced, events>>

LinkExpires(l) ==
    /\ links[l] = "open"
    /\ links' = [links EXCEPT ![l] = "spent"]
    /\ UNCHANGED <<active, tokens, issued, call, resets, uses, raced, events>>

-----------------------------------------------------------------------------
(* Administration *)

\* UsersService.update and deactivate: no token is revoked, by a new password neither;
\* RbacGuard and the checks above read the row. Calls at work see the account on from now on, if it is.
SetActive(b) ==
    /\ Event /\ active # b
    /\ active' = b
    /\ call' = [r \in Request |-> [call[r] EXCEPT !.served = @ \/ (b /\ call[r] # Idle)]]
    /\ UNCHANGED <<links, tokens, issued, resets, uses, raced>>

\* A statement fails or the process dies: what was written stays, and a refresh
\* leaves its client without a session.
CutShort(r) ==
    /\ Event /\ call[r] # Idle
    /\ Return(r)
    /\ UNCHANGED <<active, links, tokens, issued, resets, uses, raced>>

-----------------------------------------------------------------------------
(* Specification *)

Next ==
    \/ \E r \in Request : \/ Revoke(r) \/ CheckUser(r) \/ Issue(r) \/ Reset(r) \/ CutShort(r)
                          \/ Login(r)
                          \/ \E t \in Token : Refresh(r, t)
                          \/ \E l \in Link : BeginReset(r, l)
    \/ \E t \in Token : Logout(t)
    \/ \E l \in Link : Forgot(l) \/ LinkExpires(l)
    \/ \E b \in BOOLEAN : SetActive(b)

Spec == Init /\ [][Next]_vars

-----------------------------------------------------------------------------
(* Properties *)

\* Types of the variables.
TypeOK ==
    /\ active \in BOOLEAN
    /\ links \in [Link -> {"none", "open", "spent"}]
    /\ tokens \in [Token -> Row] /\ issued \in 0..MaxTokens
    /\ call \in [Request -> Call]
    /\ resets \in Nat /\ uses \in [Link -> Nat]
    /\ raced \subseteq Token \cup Link /\ events \in 0..MaxEvents

\* A password reset ends every session there is: a token that lives was created after
\* the last reset. (By a call that may have begun before it: a refresh at work across
\* the reset carries its session over.)
ResetEndsSessions ==
    \A t \in Token : tokens[t].live => tokens[t].born = resets

\* A session is a chain: a token that was replaced is dead, and it was replaced once,
\* unless two refreshes with it were at work at once.
SessionsAreChains ==
    \A t, u \in Token :
        tokens[u].from = t =>
            /\ ~tokens[t].live
            /\ \A v \in Token \ {u} : tokens[v].from = t => t \in raced

\* No token comes of a call throughout which the account was off.
OffAccountsGetNoToken ==
    \A t \in Token : tokens[t].served

\* A reset link changes the password once, unless two resets through it were at work
\* at once: the transaction does not look at it again.
LinksAreSpent ==
    \A l \in Link : uses[l] > 1 => l \in raced
=============================================================================
