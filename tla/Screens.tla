------------------------------ MODULE Screens ------------------------------
(***************************************************************************)
(* One browser tab on one page of the web client, and the API behind it.   *)
(* The page is any of the records of Pages.tla; the actions are what every *)
(* page component does: it asks on opening, again when a filter changes,   *)
(* and again after a button's answer, never cancels what it asked before,  *)
(* and shows whatever answer comes in.  Answers may cross.  The API serves *)
(* a call in one step, for the role its cookie carries; another user may   *)
(* change the same record, the cookie may expire, a call may fail before   *)
(* or after the API did its work.  A tab the user closes or takes to       *)
(* another page by hand is out of sight: answers to come find no page, and *)
(* there is no action for it.                                              *)
(*                                                                         *)
(* stored is the one record the page is about: how often it was changed    *)
(* and the text of the field the page's form edits ("" is the emptied      *)
(* field).                                                                 *)
(***************************************************************************)
EXTENDS Pages, Naturals

CONSTANTS
  Opened,    \* the pages looked at, keys of Screen
  Filter,    \* values of a list's search box and page number
  First,     \* the value it opens with
  Text,      \* what a user may type; "" is the emptied field
  MaxCalls,  \* bound: calls the user causes by hand
  MaxFaults  \* bound: failed calls, expired cookies, writes of other users

ASSUME ScreensAssumption ==
  /\ Opened \subseteq DOMAIN Screen
  /\ First \in Filter
  /\ "" \in Text
  /\ MaxCalls \in Nat /\ MaxFaults \in Nat

VARIABLES
  screen,   \* the page
  p,        \* ... its record in Pages
  role,     \* the user's role, "visitor" without a session
  session,  \* the cookie is still good
  auth,     \* what useRequireAuth knows: "asking", "in", "out"
  at,       \* the tab: "open" on the page, "left" it, or at "login"
  loading,  \* the page's loading flag
  filter,   \* its inputs
  draft,    \* what its form holds
  typed,    \* ... and whether that was typed since it was last sent
  shown,    \* the answer on the screen: of which call, filter and version
  calls,    \* calls under way
  sent,     \* calls made so far
  latest,   \* the last call whose answer the screen is to show
  stored,   \* the API's record
  clicks,   \* calls the user caused by hand (for the bound)
  faults,   \* faults so far (for the bound)
  own,      \* history: the version the tab's last answered change made
  said,     \* history: the text last reported saved, "none" without one
  carried,  \* history: a reread took over inputs that had changed since
  lost,     \* history: something typed and not sent was overwritten
  did       \* history: the changing calls the API served this tab

user == <<screen, p, role>>
page == <<at, auth, loading, filter, draft, typed, shown>>
net  == <<calls, sent, latest>>
hist == <<own, said, carried, lost, did>>
vars == <<user, session, page, net, stored, clicks, faults, hist>>

Has(trait) == trait \in p.traits

\* Where one of the calls is looked up in a table of the page.
At(table, c, other) == IF c \in DOMAIN table THEN table[c] ELSE other

\* Calls after which the stored text is not what it was, sent or made up.
Rewriting == {"generateQuote", "createQuoteFromMatches"}
Writes(of) == of \cap (p.form \cup Rewriting) # {}

(***************************************************************************)
(* A call under way.  Its inputs are those the closure that made it saw.   *)
(* after is what becomes of the answer: "load" shows it, "again" shows it  *)
(* and leaves the form alone, the others are a button's (see Pages).       *)
(* alone: no other write of the text was under way with it.                *)
(***************************************************************************)
Call(no, of, after, f) ==
  [no |-> no, of |-> of, after |-> after, filter |-> f,
   text |-> IF of \cap p.form = {} THEN "" ELSE draft,
   alone |-> TRUE, reply |-> "none", rev |-> 0, back |-> ""]

Crowded ==
  {[m EXCEPT !.alone = m.of \cap p.form = {}] : m \in calls}

Loads == {"load", "again"}

\* Calls whose answer fills the form anew.
Fill(m) == m.after = "refill" \/ (m.after = "load" /\ Has("filled"))

\* The page asks; inputs f are those of the function that asks.
Ask(others, of, after, f) ==
  /\ calls' = others \cup {Call(sent + 1, of, after, f)}
  /\ sent' = sent + 1
  /\ latest' = sent + 1
  /\ carried' = (f # filter)
  /\ loading' = (loading \/ Has("hides"))

NoAsk == UNCHANGED <<sent, latest, carried>>

Init ==
  /\ screen \in Opened
  /\ p = Screen[screen]
  /\ role \in IF Has("public") THEN {"visitor"} ELSE Staff
  /\ session = (role # "visitor")
  /\ auth = IF session THEN "asking" ELSE "in"
  /\ at = "open"
  /\ filter = First /\ draft = "" /\ typed = FALSE
  /\ shown = [no |-> 0, filter |-> First, rev |-> 0]
  /\ stored = [rev |-> 0, text |-> "old"]
  /\ loading = (p.opens # {})
  /\ IF p.opens = {} \/ Has("waits")
       THEN calls = {} /\ sent = 0
       ELSE calls = {Call(1, p.opens, "load", First)} /\ sent = 1
  /\ latest = sent
  /\ clicks = 0 /\ faults = 0
  /\ own = 0 /\ said = "none" /\ carried = FALSE /\ lost = FALSE /\ did = {}

(***************************************************************************)
(* useRequireAuth: /auth/me answers.  Without a session the tab goes to    *)
(* the sign-in page; a role the page does not admit sees a refusal.        *)
(***************************************************************************)
RoleKnown ==
  /\ at = "open" /\ auth = "asking"
  /\ IF ~session
       THEN /\ at' = "login" /\ calls' = {}
            /\ UNCHANGED <<auth, loading, sent, latest, carried>>
       ELSE /\ auth' = IF role \in p.admits THEN "in" ELSE "out"
            /\ IF auth' = "in" /\ (Has("waits") \/ (Has("rerun") /\ role = "admin"))
                 THEN Ask(calls, p.opens, "load", filter)
                 ELSE UNCHANGED <<loading, net, carried>>
            /\ UNCHANGED at
  /\ UNCHANGED <<user, session, filter, draft, typed, shown, stored,
                 clicks, faults, own, said, lost, did>>

Using == at = "open" /\ auth = "in"

\* The first answer is in, or the page does without.
Ready == p.opens = {} \/ shown.no > 0 \/ Has("free")

\* The form and the buttons are on the screen.
\* Mutant: the form is usable while the first answer is still to come.
Visible_Early == Using

Visible == Using /\ (Has("early") \/ (~loading /\ Ready))

(***************************************************************************)
(* The user.                                                               *)
(***************************************************************************)
Type(t) ==
  /\ Visible /\ p.form # {} /\ t # draft
  /\ draft' = t /\ typed' = TRUE
  /\ UNCHANGED <<user, session, at, auth, loading, filter, shown, net,
                 stored, clicks, faults, hist>>

\* Mutant: the load effect does not depend on the inputs it sends.
ChangeFilter_Stale(f) ==
  /\ Using /\ (Has("filters") \/ Has("inputs"))
  /\ Has("hides") \/ Has("early") \/ ~loading
  /\ f # filter /\ filter' = f
  /\ UNCHANGED <<user, session, at, auth, draft, typed, shown, stored, faults,
                 own, said, lost, did, clicks, net, carried, loading>>

\* A filter or the page number changes: the load effect runs again, the
\* answer to the one before stays welcome.  Search pages wait for the button.
ChangeFilter(f) ==
  /\ Using /\ (Has("filters") \/ Has("inputs"))
  /\ Has("hides") \/ Has("early") \/ ~loading
  /\ f # filter /\ filter' = f
  /\ IF Has("filters")
       THEN /\ clicks < MaxCalls /\ clicks' = clicks + 1
            /\ calls' = calls \cup {Call(sent + 1, p.opens, "load", f)}
            /\ sent' = sent + 1 /\ latest' = sent + 1 /\ carried' = FALSE
            /\ loading' = (loading \/ Has("hides"))
       ELSE UNCHANGED <<clicks, net, carried, loading>>
  /\ UNCHANGED <<user, session, at, auth, draft, typed, shown, stored,
                 faults, own, said, lost, did>>

\* A search, or a refresh: lists that follow their filters offer it always.
Search ==
  /\ Using /\ p.asks # {} /\ clicks < MaxCalls
  /\ Has("filters") \/ (~loading /\ Ready)
  /\ clicks' = clicks + 1
  /\ Ask(calls, p.asks, "load", filter)
  /\ UNCHANGED <<user, session, at, auth, filter, draft, typed, shown,
                 stored, faults, own, said, lost, did>>

\* A button: not while a call its flag stands for is under way.
Click(c) ==
  LET after == p.does[c]
      mine  == [Call(sent + 1, {c}, after, filter) EXCEPT
                  !.alone = c \in p.form => ~\E m \in calls : Writes(m.of)]
      rest  == IF Writes({c}) THEN Crowded
                              ELSE calls
  IN /\ Visible /\ Ready /\ clicks < MaxCalls
     /\ after = "reload" => shown.no > 0
     /\ role \in At(p.only, c, Staff \cup {"visitor"})
     /\ \A m \in calls : m.of \cap At(p.busy, c, {}) = {}
     /\ clicks' = clicks + 1
     /\ calls' = rest \cup {mine}
     /\ sent' = sent + 1
     /\ latest' = IF after = "refill" THEN sent + 1 ELSE latest
     /\ typed' = (typed /\ c \notin p.form)
     /\ said' = IF Writes({c}) THEN "none" ELSE said
     /\ UNCHANGED <<user, session, at, auth, loading, filter, draft, shown,
                    stored, faults, own, carried, lost, did>>

(***************************************************************************)
(* The API.                                                                *)
(***************************************************************************)
Who == IF session THEN role ELSE "visitor"

Needs(m) == \E c \in m.of : <<"visitor", c>> \notin Routes

\* Mutant: the API, too, takes an emptied field for one not sent.
Written_DropsEmpty(m) ==
  [rev |-> stored.rev + 1,
   text |-> IF m.of \cap Rewriting # {} THEN "made"
            ELSE IF m.of \cap p.form = {} \/ m.text = "" THEN stored.text
            ELSE m.text]

\* What a served call leaves in the record.
Written(m) ==
  [rev |-> stored.rev + 1,
   text |-> IF m.of \cap Rewriting # {} THEN "made"
            ELSE IF m.of \cap p.form = {} THEN stored.text
            ELSE IF m.text = "" /\ Has("omits") THEN stored.text
            ELSE m.text]

\* Mutant: trying out writes as well.
Effect_Trials(m) ==
  IF \E k \in Clients : m.of \cap k.send # {}
    THEN stored' = Written(m) /\ did' = did \cup m.of
    ELSE UNCHANGED <<stored, did>>

Effect(m) ==
  IF m.of \cap Changing # {}
    THEN stored' = Written(m) /\ did' = did \cup m.of
    ELSE UNCHANGED <<stored, did>>

Answer(m, reply) ==
  calls' = (calls \ {m}) \cup
             {[m EXCEPT !.reply = reply, !.rev = stored'.rev,
                        !.back = IF Fill(m) THEN stored'.text ELSE ""]}

Serve(m) ==
  /\ m.reply = "none"
  /\ IF Needs(m) /\ ~session
       THEN UNCHANGED <<stored, did>> /\ Answer(m, "expired")
     ELSE IF ~CanActivate(Who, m.of)
       THEN UNCHANGED <<stored, did>> /\ Answer(m, "failed")
       ELSE Effect(m) /\ Answer(m, "ok")
  /\ UNCHANGED <<user, session, page, sent, latest, clicks, faults, own, said,
                 carried, lost>>

\* The call fails on the way out, or its answer on the way back.
Fail(m) ==
  /\ faults < MaxFaults /\ m.reply = "none"
  /\ \/ UNCHANGED <<stored, did>>
     \/ CanActivate(Who, m.of) /\ Effect(m)
  /\ Answer(m, "failed")
  /\ faults' = faults + 1
  /\ UNCHANGED <<user, session, page, sent, latest, clicks, own, said,
                 carried, lost>>

Expire ==
  /\ at = "open" /\ faults < MaxFaults /\ session
  /\ session' = FALSE /\ faults' = faults + 1
  /\ UNCHANGED <<user, page, net, stored, clicks, hist>>

\* Another user changes the record.
OtherWrites ==
  /\ at = "open" /\ faults < MaxFaults
  /\ stored' = [rev |-> stored.rev + 1, text |-> "theirs"]
  /\ calls' = Crowded
  /\ said' = "none"
  /\ faults' = faults + 1
  /\ UNCHANGED <<user, session, page, sent, latest, clicks, own, carried,
                 lost, did>>

(***************************************************************************)
(* Answers reach the page, in any order.                                   *)
(***************************************************************************)
Show(m) == shown' = [no |-> m.no, filter |-> m.filter, rev |-> m.rev]

\* The form is filled anew: what was typed there meanwhile is gone.
Refill(text) ==
  /\ draft' = text
  /\ lost' = (lost \/ typed)
  /\ typed' = FALSE

KeepForm == UNCHANGED <<draft, lost, typed>>

ArriveLoad(m) ==
  /\ at = "open" /\ m.after \in Loads /\ m.reply = "ok"
  /\ calls' = calls \ {m}
  /\ loading' = FALSE
  /\ Show(m)
  /\ IF Fill(m) THEN Refill(m.back) ELSE KeepForm
  /\ UNCHANGED <<user, session, at, auth, filter, stored, clicks,
                 faults, own, said, did>>
  /\ NoAsk

\* What is reported saved: the text sent, if no other write came near it.
Report(m) ==
  said' = IF m.of \cap p.form = {} THEN said
          ELSE IF m.alone THEN m.text ELSE "none"

ArriveWrite(m) ==
  /\ at = "open" /\ m.after \notin Loads /\ m.reply = "ok"
  /\ at' = IF m.after = "leave" THEN "left" ELSE at
  /\ Report(m)
  /\ own' = IF m.after \in {"reload", "clear", "reread", "refill"}
              THEN m.rev ELSE own
  /\ CASE m.after \in {"reload", "clear"} ->
            Ask(calls \ {m}, p.opens, "load", m.filter)
       [] m.after = "reread" ->
            Ask(calls \ {m}, p.opens, "again", m.filter)
       [] OTHER ->
            calls' = calls \ {m} /\ NoAsk /\ UNCHANGED loading
  /\ IF m.after = "refill" THEN Show(m) ELSE UNCHANGED shown
  /\ CASE m.after = "refill" -> Refill(m.back)
       [] m.after \in {"clear", "close"} -> Refill("")
       [] OTHER -> KeepForm
  /\ UNCHANGED <<user, session, auth, filter, stored, clicks, faults, did>>

ArriveFailed(m) ==
  /\ at = "open"
  /\ \/ m.reply = "failed"
     \/ m.reply = "expired" /\ m.of \cap Direct # {}
  /\ calls' = calls \ {m}
  /\ loading' = (loading /\ m.after \notin Loads)
  /\ UNCHANGED <<user, session, at, auth, filter, draft, typed, shown, stored,
                 clicks, faults, own, said, lost, did>>
  /\ NoAsk

\* parseJson on a 401: sign out and go to the sign-in page.
ArriveExpired(m) ==
  /\ at = "open" /\ m.reply = "expired" /\ m.of \cap Direct = {}
  /\ at' = "login" /\ session' = FALSE
  /\ calls' = {} /\ said' = "none"
  /\ UNCHANGED <<user, auth, loading, filter, draft, typed, shown, stored,
                 clicks, faults, own, lost, did>>
  /\ NoAsk

Next ==
  \/ RoleKnown \/ Search \/ Expire \/ OtherWrites
  \/ \E t \in Text : Type(t)
  \/ \E f \in Filter : ChangeFilter(f)
  \/ \E c \in DOMAIN p.does : Click(c)
  \/ \E m \in calls : Serve(m) \/ Fail(m)
  \/ \E m \in calls : \/ ArriveLoad(m) \/ ArriveWrite(m)
                      \/ ArriveFailed(m) \/ ArriveExpired(m)

Spec == Init /\ [][Next]_vars

-----------------------------------------------------------------------------

Texts == Text \cup {"old", "theirs", "made"}

\* The type invariant.
TypeOK ==
  /\ screen \in Opened /\ p = Screen[screen] /\ role \in Staff \cup {"visitor"}
  /\ session \in BOOLEAN /\ auth \in {"asking", "in", "out"}
  /\ at \in {"open", "left", "login"} /\ loading \in BOOLEAN
  /\ filter \in Filter /\ draft \in Texts /\ typed \in BOOLEAN
  /\ shown \in [no : Nat, filter : Filter, rev : Nat]
  /\ \A m \in calls :
       /\ m.no \in 1..sent /\ m.of \subseteq Calls /\ m.of # {}
       /\ m.after \in Loads \cup {"reload", "clear", "reread", "refill",
                                  "close", "keep", "leave", "show"}
       /\ m.filter \in Filter /\ m.text \in Texts /\ m.back \in Texts
       /\ m.reply \in {"none", "ok", "failed", "expired"}
  /\ stored \in [rev : Nat, text : Texts]
  /\ said \in Text \cup {"none"} \cup Texts
  /\ did \subseteq Changing

\* A page with nothing under way whose last question was the last answered
\* shows at least what the tab's own last answered change left (the reread
\* is not overtaken by the change it follows), and what its inputs say,
\* unless a reread after a button took over the inputs from before the user
\* changed them (the stale closure of refreshRfqs and of load).
ScreenKeepsUp ==
  (Using /\ calls = {} /\ shown.no = latest) =>
    /\ shown.rev >= own \/ screen = "rfq"
    /\ Has("filters") => (shown.filter = filter \/ carried)

\* Once a page has reported a form saved, the API holds what was typed, until
\* somebody writes again; the exception are the forms that drop an emptied
\* field from the request, on which clearing a field saves nothing.
SavedStands ==
  said # "none" => (stored.text = said \/ (said = "" /\ Has("omits")))

\* What is typed while a call is under way is overwritten, or its row closed,
\* by the answer on these pages and no other: the inputs stay open there while
\* a button works or the first answer is still to come.  (A page that is left
\* takes with it what was typed on it.)
TypingIsKept ==
  lost => screen \in {"rfqs", "rfq", "items", "workspace", "webhooks",
                      "modelSettings", "slaSettings"}

\* Whatever page is opened by its address: nobody but an administrator both
\* submits a quote and approves one, changes users, connectors, settings or
\* the catalogue, or deletes a customer.
DutiesApart ==
  role \notin Admins =>
    /\ ~({"submitQuote", "approveQuote"} \subseteq did)
    /\ did \cap {"createUser", "updateUser", "deactivateUser",
                 "createConnector", "updateConnector", "deleteConnector",
                 "updateLlmSetting", "updateSlaConfig", "updateWorkspace",
                 "createProduct", "updateProduct", "deleteProduct",
                 "uploadCatalogue", "deleteCustomer", "assignRfq"} = {}

=============================================================================
