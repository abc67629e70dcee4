---------------------------- MODULE QuoteWorkflow ----------------------------
(***************************************************************************)
(* The life of the quote of one RFQ: QuoteWorkflowService of               *)
(* apps/api/src/rfqs/quote-workflow.service.ts, the e-mail draft an        *)
(* approval composes (QuoteEmailService.generateDraft) and the customer's  *)
(* answer through a magic link (PortalService).                            *)
(*                                                                         *)
(* Every operation reads the quote (or the link), checks what it read, and *)
(* after one or more awaits runs a transaction that does not check again.  *)
(* An Operator slot is one such HTTP request in flight, a Visitor slot one *)
(* request to the public portal; a slot is reused once it has replied. A   *)
(* request whose first check fails replies with an error and leaves no     *)
(* trace, so it has no action.                                             *)
(*                                                                         *)
(* A transaction that records a status stamps its event when it begins and *)
(* takes its place among the others when it updates the quote's row, which *)
(* it then holds until it commits (READ COMMITTED): the order of the       *)
(* stamps need not be the order of the statuses. Begin and commit are two  *)
(* steps here; all between them waits for the row or holds it.             *)
(***************************************************************************)
EXTENDS Naturals

CONSTANTS
    Answer,      \* the customer's: customer_accepted, customer_rejected, revision_requested
    Text,        \* what a quote may say: customer, lines, prices and terms together
    NoText,
    Operator,    \* bound: staff requests that may be in flight at once
    Visitor,     \* bound: portal requests that may be in flight at once
    Link,        \* bound: share links that may ever be created
    Announcement,\* how an approval is announced: the job sheet_export, the event quote.approved
    MaxFaults    \* bound: crashes of the process and failed calls

ASSUME NoTextAssumption == NoText \notin Text
ASSUME SlotsAssumption == Operator \cap Visitor = {}
ASSUME AnswerAssumption ==
    Answer \cap {"none", "draft", "pending_approval", "approved"} = {}
ASSUME AnnouncementAssumption ==
    Announcement \cap {"draft", "quote_draft_created", "quote_submitted", "approved",
                       "intake", "byHand"} = {}
ASSUME MaxFaultsAssumption == MaxFaults \in Nat

VARIABLES
    status,      \* Quote.status, "none" while the RFQ has no quote
    text,        \* the quote's contents
    lastEvent,   \* status of the QuoteStatusEvent with the latest createdAt
    approvedAt,  \* Quote.approvedAt is set
    workflow,    \* Rfq.workflowState
    pipeline,    \* RfqIntake.rfqPipelineStatus, "intake" for all that precedes a quote
    later,       \* calls started and not awaited
    draft,       \* what the QuoteEmail row quotes
    published,   \* announcements made
    links,       \* [Link -> LinkState]: the MagicLinkToken rows
    req,         \* [Operator -> Request]: staff requests in flight
    visits,      \* portal requests in flight, whose link was found good
    open,        \* requests whose status transaction has begun
    before,      \* the order of the stamps of open transactions
    overtaken,   \* open transactions older than an event that has been committed
    met,         \* observer: open transactions that were not alone all the time
    crossed,     \* observer: so was the latest status transaction to commit
    submitted,   \* observer: contents at the latest submission
    uses,        \* observer: answers each link has given, saturating at 2
    torn,        \* observer: a transaction was applied to rows that had changed
                 \* since its request read them
    faults,      \* faults so far
    lost         \* observer: follow-ups that a failed call or a crash took away

quote == <<status, text, lastEvent, crossed, approvedAt, workflow, submitted>>
tx == <<open, before, overtaken, met>>
effects == <<pipeline, later, draft, published>>
portal == <<links, visits, uses>>
trouble == <<faults, lost>>
vars == <<quote, tx, effects, portal, req, torn, trouble>>

UnderReview == {"pending_approval", "approved"}
Status == {"none", "draft"} \cup UnderReview \cup Answer
Milestone == {"quote_draft_created", "quote_submitted", "approved"}
FollowUp == {"approved"} \cup Announcement
Call == Milestone \cup FollowUp
LinkState == {"absent", "live", "used", "expired", "revoked"}

Promise == {"draft"} \cup Announcement

Mailing == {"compose", "upsert"}
Stage == {"idle", "generate", "save", "submit", "approve", "publish", "revise"} \cup Mailing

\* "seen" is kept for the stages that write over what they read.
Request == [op : Stage, seen : Status, arg : Text \cup {NoText}]
Idle == [op |-> "idle", seen |-> "none", arg |-> NoText]
Visit == [by : Visitor, link : Link, answer : Answer]
Owner == Operator \cup Visitor

Init ==
    /\ status = "none" /\ text = NoText /\ lastEvent = "none"
    /\ approvedAt = FALSE /\ workflow = "new" /\ submitted = NoText
    /\ open = {} /\ before = {} /\ overtaken = {} /\ met = {} /\ crossed = FALSE
    /\ pipeline = "intake" /\ later = {} /\ draft = NoText /\ published = {}
    /\ links = [k \in Link |-> "absent"]
    /\ uses = [k \in Link |-> 0]
    /\ req = [o \in Operator |-> Idle]
    /\ visits = {}
    /\ torn = FALSE
    /\ faults = 0 /\ lost = {}

-----------------------------------------------------------------------------
(* Helpers *)

\* The request goes on to stage op, and will write over the quote it has just read.
Checked(o, op, arg) ==
    req' = [req EXCEPT ![o] = [op |-> op, seen |-> status, arg |-> arg]]

\* The request goes on to stage op, for which that quote does not matter.
Continue(o, op, arg) ==
    req' = [req EXCEPT ![o] = [op |-> op, seen |-> "none", arg |-> arg]]

Reply(o) == req' = [req EXCEPT ![o] = Idle]

\* Record whether the transaction of request o finds another status than it read.
NoteTear(o) == torn' = (torn \/ req[o].seen # status)

\* The transaction of x is over, and with it the events older than its own.
End(x, older) ==
    /\ open' = open \ {x}
    /\ before' = {p \in before : p[1] # x /\ p[2] # x}
    /\ overtaken' = (overtaken \cup older) \ {x}
    /\ met' = met \ {x}

RollBack(x) == End(x, {})

\* The transaction of x commits status s and its event, whose stamp may be older than
\* that of an event that is there already.
Record(x, s) ==
    /\ x \in open
    /\ status' = s
    /\ lastEvent' = IF x \in overtaken THEN lastEvent ELSE s
    /\ crossed' = (x \in met)
    /\ End(x, {y \in open : <<y, x>> \in before})

\* A call fails, and follow-up f with it.
CallFails(f) == /\ faults < MaxFaults /\ faults' = faults + 1
                /\ lost' = lost \cup ({f} \cap Promise)

\* Mutant of Editable: the check forgets quotes that wait for approval.
Editable_WhilePending == status # "approved"

\* What saveDraft and generateFromRfq refuse to touch.
Editable == status \notin UnderReview

-----------------------------------------------------------------------------
(* saveDraft, and the two operations that end in it *)

SaveDraft(o, t) ==
    /\ req[o] = Idle
    /\ Editable
    /\ Checked(o, "save", t)
    /\ UNCHANGED <<quote, tx, effects, portal, torn, trouble>>

GenerateFromRfq(o) ==
    /\ req[o] = Idle
    /\ Editable
    /\ Continue(o, "generate", NoText)
    /\ UNCHANGED <<quote, tx, effects, portal, torn, trouble>>

CreateQuoteFromMatches(o) ==
    /\ req[o] = Idle
    /\ status # "draft"
    /\ Continue(o, "generate", NoText)
    /\ UNCHANGED <<quote, tx, effects, portal, torn, trouble>>

\* The model has answered, or the accepted matches are loaded: saveDraft reads
\* the quote anew and makes its own check.
InputReady(o, t) ==
    /\ req[o].op = "generate"
    /\ IF Editable THEN Checked(o, "save", t) ELSE Reply(o)
    /\ UNCHANGED <<quote, tx, effects, portal, torn, trouble>>

\* The RFQ had no quote when it was read, and still has none: create it.
CreateQuote(o) ==
    /\ req[o].op = "save" /\ req[o].seen = "none" /\ status = "none"
    /\ status' = "draft" /\ lastEvent' = "draft" /\ workflow' = "draft"
    /\ text' = req[o].arg
    /\ later' = later \cup {"quote_draft_created"}
    /\ Reply(o)
    /\ UNCHANGED <<crossed, approvedAt, submitted, tx, pipeline, draft, published, portal,
                   torn, trouble>>

\* Another request created it meanwhile: Quote.rfqId is unique, the transaction
\* rolls back.
CreateCollides(o) ==
    /\ req[o].op = "save" /\ req[o].seen = "none" /\ status # "none"
    /\ Reply(o)
    /\ UNCHANGED <<quote, tx, effects, portal, torn, trouble>>

\* Replace the contents and the lines; the status stays what it is by now, and
\* the RFQ goes back to draft.
UpdateQuote(o) ==
    /\ req[o].op = "save" /\ req[o].seen # "none"
    /\ text' = req[o].arg
    /\ workflow' = "draft"
    /\ NoteTear(o)
    /\ Reply(o)
    /\ UNCHANGED <<status, lastEvent, crossed, approvedAt, submitted, tx, effects, portal,
                   trouble>>

-----------------------------------------------------------------------------
(* Submission, approval, revision *)

SubmitForApproval(o) ==
    /\ req[o] = Idle
    /\ status = "draft"
    /\ Checked(o, "submit", NoText)
    /\ UNCHANGED <<quote, tx, effects, portal, torn, trouble>>

\* The status transaction of a staff request or of a customer's answer begins, and
\* the time its event will bear is taken.
BeginTransaction(x) ==
    /\ x \in {o \in Operator : req[o].op \in {"submit", "approve"}} \cup {w.by : w \in visits}
    /\ x \notin open
    /\ open' = open \cup {x}
    /\ before' = before \cup (open \X {x})
    /\ met' = IF open = {} THEN met ELSE met \cup open \cup {x}
    /\ UNCHANGED <<quote, overtaken, effects, portal, req, torn, trouble>>

\* Mutant of CommitSubmit: the RFQ gets the pipeline's name for the milestone.
CommitSubmit_BadState(o) ==
    /\ req[o].op = "submit"
    /\ Record(o, "pending_approval")
    /\ workflow' = "quote_submitted"
    /\ submitted' = text
    /\ later' = later \cup {"quote_submitted"}
    /\ NoteTear(o)
    /\ Reply(o)
    /\ UNCHANGED <<text, approvedAt, pipeline, draft, published, portal, trouble>>

\* Mutant of CommitSubmit: the e-mail draft is composed right away.
CommitSubmit_DraftsEarly(o) ==
    /\ req[o].op = "submit"
    /\ Record(o, "pending_approval")
    /\ workflow' = "pending_approval"
    /\ submitted' = text
    /\ later' = later \cup {"quote_submitted"}
    /\ NoteTear(o)
    /\ Continue(o, "compose", NoText)
    /\ UNCHANGED <<text, approvedAt, pipeline, draft, published, portal, trouble>>

CommitSubmit(o) ==
    /\ req[o].op = "submit"
    /\ Record(o, "pending_approval")
    /\ workflow' = "pending_approval"
    /\ submitted' = text
    /\ later' = later \cup {"quote_submitted"}
    /\ NoteTear(o)
    /\ Reply(o)
    /\ UNCHANGED <<text, approvedAt, pipeline, draft, published, portal, trouble>>

\* Mutant of ApproveQuote: a quote the customer answered may be approved as well.
ApproveQuote_AnyStatus(o) ==
    /\ req[o] = Idle
    /\ status \notin {"none", "draft"}
    /\ Checked(o, "approve", NoText)
    /\ UNCHANGED <<quote, tx, effects, portal, torn, trouble>>

ApproveQuote(o) ==
    /\ req[o] = Idle
    /\ status = "pending_approval"
    /\ Checked(o, "approve", NoText)
    /\ UNCHANGED <<quote, tx, effects, portal, torn, trouble>>

\* Mutant of CommitApprove: the workflow state is written, the status event is not.
CommitApprove_NoEvent(o) ==
    /\ req[o].op = "approve" /\ o \in open
    /\ status' = "approved" /\ workflow' = "approved"
    /\ crossed' = (o \in met)
    /\ approvedAt' = TRUE
    /\ RollBack(o)
    /\ NoteTear(o)
    /\ Continue(o, "compose", NoText)
    /\ UNCHANGED <<text, lastEvent, submitted, effects, portal, trouble>>

CommitApprove(o) ==
    /\ req[o].op = "approve"
    /\ Record(o, "approved")
    /\ workflow' = "approved"
    /\ approvedAt' = TRUE
    /\ NoteTear(o)
    /\ Continue(o, "compose", NoText)
    /\ UNCHANGED <<text, submitted, effects, portal, trouble>>

\* generateDraft reads the quote, ...
ComposeDraft(o) ==
    /\ req[o].op = "compose"
    /\ Continue(o, "upsert", text)
    /\ UNCHANGED <<quote, tx, effects, portal, torn, trouble>>

\* ... asks the language model, when it is enabled, and stores the draft.
StoreDraft(o) ==
    /\ req[o].op = "upsert"
    /\ draft' = req[o].arg
    /\ Continue(o, "publish", NoText)
    /\ UNCHANGED <<quote, tx, pipeline, later, published, portal, torn, trouble>>

\* Mutant of DraftFails: the exception ends the request.
DraftFails_Rethrown(o) ==
    /\ req[o].op \in Mailing
    /\ CallFails("draft")
    /\ Reply(o)
    /\ UNCHANGED <<quote, tx, effects, portal, torn>>

\* A failure to draft the e-mail does not undo the approval.
DraftFails(o) ==
    /\ req[o].op \in Mailing
    /\ CallFails("draft")
    /\ Continue(o, "publish", NoText)
    /\ UNCHANGED <<quote, tx, effects, portal, torn>>

\* The rest of approveQuote starts three calls and waits for none of them.
Publish(o) ==
    /\ req[o].op = "publish"
    /\ later' = later \cup FollowUp
    /\ Reply(o)
    /\ UNCHANGED <<quote, tx, pipeline, draft, published, portal, torn, trouble>>

ReviseQuote(o) ==
    /\ req[o] = Idle
    /\ status = "approved"
    /\ Continue(o, "revise", NoText)
    /\ UNCHANGED <<quote, tx, effects, portal, torn, trouble>>

\* The transaction creates a second quote with the same rfqId, which is unique:
\* it always rolls back, the status "revised" with it.
RollBackRevise(o) ==
    /\ req[o].op = "revise"
    /\ Reply(o)
    /\ UNCHANGED <<quote, tx, effects, portal, torn, trouble>>

-----------------------------------------------------------------------------
(* Calls that nobody waits for, and the status set by hand *)

\* updatePipelineStatus.
AdvancePipeline(s) ==
    /\ s \in later \cap Milestone
    /\ pipeline' = s
    /\ later' = later \ {s}
    /\ UNCHANGED <<quote, tx, draft, published, portal, req, torn, trouble>>

\* The job is enqueued, or the event emitted.
Announce(a) ==
    /\ a \in later \cap Announcement
    /\ published' = published \cup {a}
    /\ later' = later \ {a}
    /\ UNCHANGED <<quote, tx, pipeline, draft, portal, req, torn, trouble>>

\* The failure of such a call is logged and nothing else.
LaterFails(f) ==
    /\ f \in later
    /\ later' = later \ {f}
    /\ CallFails(f)
    /\ UNCHANGED <<quote, tx, pipeline, draft, published, portal, req, torn>>

\* PATCH /rfqs/:id/pipeline-status sets any status at any time, whatever the quote is;
\* "byHand" stands for it, to be told from what the program set.
OverridePipeline ==
    /\ pipeline' = "byHand"
    /\ UNCHANGED <<quote, tx, later, draft, published, portal, req, torn, trouble>>

-----------------------------------------------------------------------------
(* PortalService *)

\* A link may be shared in any status of the quote.
CreateShareLink(k) ==
    /\ status # "none"
    /\ links[k] = "absent"
    /\ links' = [links EXCEPT ![k] = "live"]
    /\ UNCHANGED <<quote, tx, effects, visits, uses, req, torn, trouble>>

RevokeShareLinks ==
    /\ links' = [k \in Link |-> IF links[k] = "absent" THEN "absent" ELSE "revoked"]
    /\ UNCHANGED <<quote, tx, effects, visits, uses, req, torn, trouble>>

LinkExpires(k) ==
    /\ links[k] = "live"
    /\ links' = [links EXCEPT ![k] = "expired"]
    /\ UNCHANGED <<quote, tx, effects, visits, uses, req, torn, trouble>>

\* acceptQuote, rejectQuote or requestRevision: validateToken finds the link good.
OpenLink(v, k, a) ==
    /\ \A w \in visits : w.by # v
    /\ links[k] = "live"
    /\ visits' = visits \cup {[by |-> v, link |-> k, answer |-> a]}
    /\ UNCHANGED <<quote, tx, effects, links, uses, req, torn, trouble>>

\* Mutant of RecordAnswer: the link is not marked used.
RecordAnswer_NotMarked(w) ==
    /\ w \in visits
    /\ LET k == w.link IN
       /\ links[k] # "revoked"
       /\ uses' = [uses EXCEPT ![k] = IF @ < 2 THEN @ + 1 ELSE @]
       /\ torn' = (torn \/ links[k] # "live")
    /\ Record(w.by, w.answer)
    /\ visits' = visits \ {w}
    /\ UNCHANGED <<text, approvedAt, workflow, submitted, effects, links, req, trouble>>

\* One transaction: the event, the status, and the link marked used. It fails when
\* the link's row is gone, and otherwise does not look at what the row says by now.
RecordAnswer(w) ==
    /\ w \in visits
    /\ LET k == w.link IN
       /\ links[k] # "revoked"
       /\ links' = [links EXCEPT ![k] = "used"]
       /\ uses' = [uses EXCEPT ![k] = IF @ < 2 THEN @ + 1 ELSE @]
       /\ torn' = (torn \/ links[k] # "live")
    /\ Record(w.by, w.answer)
    /\ visits' = visits \ {w}
    /\ UNCHANGED <<text, approvedAt, workflow, submitted, effects, req, trouble>>

\* The transaction rolls back.
AnswerFails(w) ==
    /\ w \in visits
    /\ visits' = visits \ {w}
    /\ RollBack(w.by)
    /\ UNCHANGED <<quote, effects, links, uses, req, torn, trouble>>

-----------------------------------------------------------------------------
(* Failures *)

\* No accepted match, an answer that does not parse, an unknown customer or a
\* failed query: the request replies with an error and nothing of it stays written.
RequestFails(o) ==
    /\ req[o].op \in {"generate", "save", "submit", "approve", "revise"}
    /\ Reply(o)
    /\ RollBack(o)
    /\ UNCHANGED <<quote, effects, portal, torn, trouble>>

\* What a request in stage op has still to see to once its quote is approved.
Due(op) == IF op \in Mailing THEN Promise
           ELSE IF op = "publish" THEN Announcement ELSE {}

\* The process dies: requests, transactions and calls in flight are lost, rows stay.
Crash ==
    /\ faults < MaxFaults /\ faults' = faults + 1
    /\ lost' = lost \cup (Promise \cap later) \cup UNION {Due(req[o].op) : o \in Operator}
    /\ req' = [o \in Operator |-> Idle]
    /\ visits' = {}
    /\ later' = {}
    /\ open' = {} /\ before' = {} /\ overtaken' = {} /\ met' = {}
    /\ UNCHANGED <<quote, pipeline, draft, published, links, uses, torn>>

-----------------------------------------------------------------------------
(* Specification *)

ServerStep(o) ==
    \/ CreateQuote(o) \/ CreateCollides(o) \/ UpdateQuote(o)
    \/ BeginTransaction(o) \/ CommitSubmit(o) \/ CommitApprove(o)
    \/ ComposeDraft(o) \/ StoreDraft(o) \/ Publish(o) \/ RollBackRevise(o)

StaffStep(o) ==
    \/ \E t \in Text : SaveDraft(o, t) \/ InputReady(o, t)
    \/ GenerateFromRfq(o) \/ CreateQuoteFromMatches(o)
    \/ SubmitForApproval(o) \/ ApproveQuote(o) \/ ReviseQuote(o)
    \/ DraftFails(o) \/ RequestFails(o)

PortalStep ==
    \/ \E k \in Link : CreateShareLink(k) \/ LinkExpires(k)
    \/ RevokeShareLinks
    \/ \E v \in Visitor, k \in Link, a \in Answer : OpenLink(v, k, a)
    \/ \E v \in Visitor : BeginTransaction(v)
    \/ \E w \in visits : RecordAnswer(w) \/ AnswerFails(w)

Next ==
    \/ \E o \in Operator : StaffStep(o) \/ ServerStep(o)
    \/ \E c \in Call : AdvancePipeline(c) \/ Announce(c) \/ LaterFails(c)
    \/ OverridePipeline
    \/ PortalStep
    \/ Crash

Spec == Init /\ [][Next]_vars

-----------------------------------------------------------------------------
(* What the quote promises *)

\* QuoteLifecycle tells the quote without the requests that work on it.
Lifecycle == INSTANCE QuoteLifecycle
    WITH approved <- approvedAt,
         told <- draft # NoText \/ published # {},
         answered <- {k \in Link : uses[k] > 0}

-----------------------------------------------------------------------------
(* Properties *)

\* Every variable keeps its type.
TypeOK ==
    /\ status \in Status /\ lastEvent \in Status
    /\ {text, submitted, draft} \subseteq Text \cup {NoText}
    /\ approvedAt \in BOOLEAN
    /\ workflow \in {"new", "draft"} \cup UnderReview
    /\ pipeline \in {"intake", "byHand"} \cup Milestone /\ later \subseteq Call
    /\ published \subseteq Announcement
    /\ open \cup overtaken \cup met \subseteq Owner /\ before \subseteq Owner \X Owner
    /\ crossed \in BOOLEAN
    /\ links \in [Link -> LinkState]
    /\ req \in [Operator -> Request]
    /\ visits \subseteq Visit
    /\ uses \in [Link -> 0 .. 2]
    /\ torn \in BOOLEAN
    /\ faults \in 0 .. MaxFaults /\ lost \subseteq Promise

\* The latest status event is the status of the quote whenever the last transaction
\* that wrote the two ran alone, whatever crossed before it: two at a time may stamp
\* their events in one order and write the status in the other, and the next one that
\* runs alone sets the history right (quote-workflow.service.ts:213-224, 250-262,
\* portal.service.ts:102-114).
HistoryMatchesStatus == ~crossed => lastEvent = status

\* The RFQ is never shown further than its quote: when it waits for approval or is
\* approved, so is the quote, or the customer has answered. Holds under every race
\* of stale requests; the converse does not (an edit puts the RFQ back to draft
\* and leaves the quote's status alone, quote-workflow.service.ts:155).
WorkflowNeverAhead ==
    workflow \in UnderReview => status \in {workflow} \cup Answer

\* Status, history and the RFQ's workflow state tell one story: history unless two
\* status transactions overlapped, workflow state always
\* (quote-workflow.service.ts:288-303).
StatusesAgree == HistoryMatchesStatus /\ WorkflowNeverAhead

\* As long as no request wrote over a state it had not checked, the contents under
\* review, and the contents approved, are the ones that were submitted, and RFQ
\* and quote agree (quote-workflow.service.ts:51, 191-211).
ReviewedIsWhatStands ==
    ~torn /\ status \in UnderReview => text = submitted /\ workflow = status

\* As long as no request wrote over a state it had not checked, the e-mail draft of
\* an approved quote offers what was submitted for approval
\* (quote-workflow.service.ts:264-269).
DraftOffersReviewed ==
    ~torn /\ status = "approved" => draft \in {NoText, submitted}

\* What is under review, approved, and offered to the customer is what was submitted,
\* as long as no request wrote over a state it had not checked.
SubmittedIsWhatCounts == ReviewedIsWhatStands /\ DraftOffersReviewed

\* The program tells nobody of an approval before it was recorded, however requests
\* interleave and whenever the process dies: no e-mail draft, no export, no event, no
\* pipeline status "approved" but one that somebody set by hand
\* (the order of quote-workflow.service.ts:250-286).
ToldOnlyOnceApproved ==
    \/ draft # NoText \/ published # {}
    \/ FollowUp \cap ({pipeline} \cup later) # {}
    => approvedAt /\ submitted # NoText

\* A link gives one answer, unless requests that both found it good overlapped
\* (portal.service.ts:54-60).
LinkAnswersOnce == ~torn => \A k \in Link : uses[k] <= 1

\* A link binds the customer once: an answer that is recorded through it is its first,
\* unless requests that both found it good overlapped, and none is recorded once it is
\* revoked, not even for a request that had validated it (portal.service.ts:50-60,
\* 102-114).
LinksAreBinding ==
    [][\A k \in Link : uses'[k] # uses[k] =>
         links[k] # "revoked" /\ (uses[k] = 0 \/ torn')]_vars

\* The customer's answer is not replaced by an internal status, unless by a request
\* that had checked the quote before the answer came (quote-workflow.service.ts:205,
\* 244, 411).
AnswerStands ==
    [][(status \in Answer /\ ~torn') => status' \in Answer]_vars

\* Every write of a request, of a crash and of a customer is one step of the quote's
\* life, taken in the state its request had checked, or the observer torn tells: the
\* checks and the transactions that follow them, awaits apart, are one step each
\* (quote-workflow.service.ts:51, 205, 244; portal.service.ts:54-60).
ImplementsLifecycle == Lifecycle!Spec

\* No follow-up of an approval is dropped in silence: the e-mail draft, the export job
\* and the event each have been made, or are still owed by a request or a call in hand,
\* or were lost to the failure of their own call or to a crash. What goes wrong with one
\* of them does not take the others along, and with requests and calls gone, all is made
\* that was not lost (quote-workflow.service.ts:264-286).
Made(f) == IF f = "draft" THEN draft # NoText ELSE f \in published
Owed(f) == f \in later \/ \E o \in Operator : f \in Due(req[o].op)
ApprovalIsFollowedUp == approvedAt => \A f \in Promise : Made(f) \/ Owed(f) \/ f \in lost

\* docs/ARCHITECTURE.md:147 calls the links single-use; see the finding.
LinkIsSingleUse == \A k \in Link : uses[k] <= 1

=============================================================================
