------------------------- MODULE QuoteWorkflowProofs -------------------------
(***************************************************************************)
(* Theorems about QuoteWorkflow, for any number of staff requests, portal  *)
(* requests, links, texts and faults.                                      *)
(*                                                                         *)
(* The argument: what a request read is kept in its slot (SlotInv), so a   *)
(* transaction that tears nothing meets the very status it was checked     *)
(* against, and the quote goes draft, pending_approval, approved once      *)
(* (ReviewInv). What holds under torn transactions too is carried by the   *)
(* transactions themselves (AloneInv, ToldInv).                            *)
(***************************************************************************)
EXTENDS QuoteWorkflow, TLAPS

\* The staff actions that only move a request on, writing no row.
Moves(o) ==
    \/ \E t \in Text : SaveDraft(o, t) \/ InputReady(o, t)
    \/ GenerateFromRfq(o) \/ CreateQuoteFromMatches(o) \/ CreateCollides(o)
    \/ SubmitForApproval(o) \/ ApproveQuote(o) \/ ReviseQuote(o)
    \/ ComposeDraft(o) \/ DraftFails(o) \/ RollBackRevise(o) \/ RequestFails(o)

\* The steps that take no part in the quote's life: calls nobody waits for other than
\* announcements, the status set by hand, and transactions that begin.
Calls == \/ \E c \in Call : AdvancePipeline(c) \/ LaterFails(c)
         \/ OverridePipeline
         \/ \E x \in Owner : BeginTransaction(x)

\* The portal's actions that leave the quote alone.
Links == \/ \E k \in Link : CreateShareLink(k) \/ LinkExpires(k)
         \/ RevokeShareLinks
         \/ \E v \in Visitor, k \in Link, a \in Answer : OpenLink(v, k, a)
         \/ \E w \in visits : AnswerFails(w)

\* The case split of the proofs below.
LEMMA NextCases ==
    ASSUME [Next]_vars
    PROVE  \/ \E o \in Operator : Moves(o)
           \/ \E o \in Operator : CreateQuote(o)
           \/ \E o \in Operator : UpdateQuote(o)
           \/ \E o \in Operator : CommitSubmit(o)
           \/ \E o \in Operator : CommitApprove(o)
           \/ \E o \in Operator : StoreDraft(o)
           \/ \E o \in Operator : Publish(o)
           \/ \E a \in Call : Announce(a)
           \/ Calls
           \/ Links
           \/ \E w \in visits : RecordAnswer(w)
           \/ Crash
           \/ UNCHANGED vars
  BY DEF Next, StaffStep, ServerStep, PortalStep, Moves, Links, Calls, Owner

\* What a request that moves on leaves behind.
LEMMA MovesKeep ==
    ASSUME TypeOK, NEW o \in Operator, Moves(o)
    PROVE  /\ UNCHANGED <<quote, effects, portal, torn>>
           /\ \A p \in Operator \ {o} : req'[p] = req[p]
  <1>1. UNCHANGED <<quote, effects, portal, torn>>
    BY DEF Moves, SaveDraft, InputReady, GenerateFromRfq, CreateQuoteFromMatches,
         CreateCollides, SubmitForApproval, ApproveQuote, ReviseQuote, ComposeDraft,
         DraftFails, RollBackRevise, RequestFails
  <1>2. Reply(o) \/ \E op, a : Checked(o, op, a) \/ Continue(o, op, a)
    BY DEF Moves, SaveDraft, InputReady, GenerateFromRfq, CreateQuoteFromMatches,
         CreateCollides, SubmitForApproval, ApproveQuote, ReviseQuote, ComposeDraft,
         DraftFails, RollBackRevise, RequestFails
  <1>3. \A p \in Operator \ {o} : req'[p] = req[p]
    BY <1>2 DEF Checked, Continue, Reply, TypeOK
  <1> QED
    BY <1>1, <1>3

-----------------------------------------------------------------------------
(* Types *)

\* The constant slots have their type.
LEMMA SlotTypes ==
    /\ Idle \in Request
    /\ \A op \in Stage, s \in Status, a \in Text \cup {NoText} :
         [op |-> op, seen |-> s, arg |-> a] \in Request
  BY DEF Idle, Request, Stage, Status

\* Writing one slot keeps the type of all of them.
LEMMA ReqTypes ==
    ASSUME TypeOK, NEW o \in Operator,
           \/ Reply(o)
           \/ \E op \in Stage, a \in Text \cup {NoText} :
                Checked(o, op, a) \/ Continue(o, op, a)
    PROVE  req' \in [Operator -> Request]
  <1>1. CASE Reply(o)
    BY <1>1, SlotTypes DEF Reply, TypeOK
  <1>2. ASSUME NEW op \in Stage, NEW a \in Text \cup {NoText},
               Checked(o, op, a) \/ Continue(o, op, a)
        PROVE  req' \in [Operator -> Request]
    BY <1>2, SlotTypes DEF Checked, Continue, TypeOK, Status
  <1> QED
    BY <1>1, <1>2

\* The transactions' bookkeeping has its type.
TxOK == open \cup overtaken \cup met \subseteq Owner /\ before \subseteq Owner \X Owner

\* A transaction that begins or ends keeps the type of the bookkeeping.
LEMMA TxTypes ==
    ASSUME TypeOK,
           \/ UNCHANGED tx
           \/ \E x \in Owner : BeginTransaction(x)
           \/ \E x \in Owner : RollBack(x) \/ \E s : Record(x, s)
    PROVE  TxOK'
  <1>1. ASSUME NEW x \in Owner, BeginTransaction(x) PROVE TxOK'
    BY <1>1 DEF BeginTransaction, TypeOK, TxOK
  <1>2. ASSUME NEW x \in Owner, RollBack(x) PROVE TxOK'
    BY <1>2 DEF RollBack, End, TypeOK, TxOK
  <1>3. ASSUME NEW x \in Owner, NEW s, Record(x, s) PROVE TxOK'
    BY <1>3 DEF Record, End, TypeOK, TxOK
  <1> QED
    BY <1>1, <1>2, <1>3 DEF TypeOK, TxOK, tx

\* What a request carries is a text, or none.
LEMMA ArgType ==
    ASSUME TypeOK, NEW o \in Operator
    PROVE  req[o].arg \in Text \cup {NoText}
  BY DEF TypeOK, Request

\* Every step keeps the types.
LEMMA TypeStep == TypeOK /\ [Next]_vars => TypeOK'
  <1> SUFFICES ASSUME TypeOK, [Next]_vars PROVE TypeOK'
    OBVIOUS
  <1> USE MaxFaultsAssumption
  <1>1. ASSUME NEW o \in Operator, Moves(o) PROVE TypeOK'
    <2>1. req' \in [Operator -> Request]
      <3>1. \/ Reply(o)
            \/ \E op \in Stage, a \in Text \cup {NoText} :
                 Checked(o, op, a) \/ Continue(o, op, a)
        BY <1>1 DEF Moves, SaveDraft, InputReady, GenerateFromRfq,
           CreateQuoteFromMatches, CreateCollides, SubmitForApproval, ApproveQuote,
           ReviseQuote, ComposeDraft, DraftFails, RollBackRevise, RequestFails,
           Stage, Mailing, TypeOK
      <3> QED
        BY <3>1, ReqTypes
    <2>2. faults' \in 0 .. MaxFaults
      <3>1. faults' = faults \/ (faults < MaxFaults /\ faults' = faults + 1)
        BY <1>1 DEF Moves, SaveDraft, InputReady, GenerateFromRfq,
           CreateQuoteFromMatches, CreateCollides, SubmitForApproval, ApproveQuote,
           ReviseQuote, ComposeDraft, DraftFails, RollBackRevise, RequestFails,
           CallFails, trouble
      <3> QED
        BY <3>1 DEF TypeOK
    <2>3. UNCHANGED <<quote, effects, portal, torn>>
      BY <1>1, MovesKeep
    <2>4. lost' \subseteq Promise
      BY <1>1 DEF Moves, SaveDraft, InputReady, GenerateFromRfq,
         CreateQuoteFromMatches, CreateCollides, SubmitForApproval, ApproveQuote,
         ReviseQuote, ComposeDraft, DraftFails, RollBackRevise, RequestFails,
         CallFails, trouble, TypeOK
    <2>5. UNCHANGED tx \/ RollBack(o)
      BY <1>1 DEF Moves, SaveDraft, InputReady, GenerateFromRfq,
         CreateQuoteFromMatches, CreateCollides, SubmitForApproval, ApproveQuote,
         ReviseQuote, ComposeDraft, DraftFails, RollBackRevise, RequestFails
    <2>6. TxOK'
      BY <2>5, TxTypes DEF Owner
    <2> QED
      BY <2>1, <2>2, <2>3, <2>4, <2>6 DEF TypeOK, TxOK, quote, effects, portal
  <1>2. ASSUME NEW o \in Operator,
               \/ CreateQuote(o) \/ UpdateQuote(o) \/ CommitSubmit(o)
               \/ CommitApprove(o) \/ StoreDraft(o) \/ Publish(o)
        PROVE  TypeOK'
    <2>1. req' \in [Operator -> Request]
      <3>1. \/ Reply(o)
            \/ \E op \in Stage, a \in Text \cup {NoText} :
                 Checked(o, op, a) \/ Continue(o, op, a)
        BY <1>2 DEF CreateQuote, UpdateQuote, CommitSubmit, CommitApprove,
           StoreDraft, Publish, Stage, Mailing
      <3> QED
        BY <3>1, ReqTypes
    <2>2. /\ status' \in Status /\ lastEvent' \in Status
          /\ workflow' \in {"new", "draft"} \cup UnderReview
          /\ {text', submitted', draft'} \subseteq Text \cup {NoText}
      BY <1>2, ArgType DEF CreateQuote, UpdateQuote, CommitSubmit, CommitApprove,
         StoreDraft, Publish, Record, TypeOK, Status, UnderReview, effects, quote
    <2>3. /\ pipeline' = pipeline /\ published' = published /\ later' \subseteq Call
          /\ UNCHANGED <<links, visits, uses, faults, lost>>
      BY <1>2 DEF CreateQuote, UpdateQuote, CommitSubmit, CommitApprove,
         StoreDraft, Publish, TypeOK, Call, Milestone, effects, portal, trouble
    <2>4. approvedAt' \in BOOLEAN
      BY <1>2 DEF CreateQuote, UpdateQuote, CommitSubmit, CommitApprove,
         StoreDraft, Publish, TypeOK, quote
    <2>5. TxOK' /\ crossed' \in BOOLEAN
      <3>1. UNCHANGED tx \/ \E s : Record(o, s)
        BY <1>2 DEF CreateQuote, UpdateQuote, CommitSubmit, CommitApprove,
           StoreDraft, Publish
      <3>2. crossed' = crossed \/ crossed' = (o \in met)
        BY <1>2 DEF CreateQuote, UpdateQuote, CommitSubmit, CommitApprove,
           StoreDraft, Publish, Record, quote
      <3>3. TxOK'
        BY <3>1, TxTypes DEF Owner
      <3>4. CASE crossed' = crossed
        BY <3>3, <3>4 DEF TypeOK
      <3>5. CASE crossed' = (o \in met)
        BY <3>3, <3>5
      <3> QED
        BY <3>2, <3>4, <3>5
    <2>6. torn' \in BOOLEAN
      BY <1>2 DEF CreateQuote, UpdateQuote, CommitSubmit, CommitApprove,
         StoreDraft, Publish, TypeOK, NoteTear
    <2> QED
      BY <2>1, <2>2, <2>3, <2>4, <2>5, <2>6 DEF TypeOK, TxOK
  <1>3. ASSUME (\E a \in Call : Announce(a)) \/ Calls PROVE TypeOK'
    <2>1. /\ pipeline' \in {"intake", "byHand"} \cup Milestone /\ later' \subseteq Call
          /\ published' \subseteq Announcement
          /\ faults' \in 0 .. MaxFaults /\ lost' \subseteq Promise
      BY <1>3 DEF Calls, AdvancePipeline, Announce, LaterFails, OverridePipeline,
         BeginTransaction, CallFails, TypeOK, trouble, effects
    <2>2. UNCHANGED <<quote, portal, req, draft, torn>>
      BY <1>3 DEF Calls, AdvancePipeline, Announce, LaterFails, OverridePipeline,
         BeginTransaction, effects
    <2>3. TxOK'
      BY <1>3, TxTypes DEF Calls, AdvancePipeline, Announce, LaterFails, OverridePipeline
    <2> QED
      BY <2>1, <2>2, <2>3 DEF TypeOK, TxOK, quote, portal
  <1>4. CASE Links
    <2>1. links' \in [Link -> LinkState]
      BY <1>4 DEF Links, CreateShareLink, LinkExpires, RevokeShareLinks, OpenLink,
         AnswerFails, TypeOK, LinkState
    <2>2. visits' \subseteq Visit
      BY <1>4 DEF Links, CreateShareLink, LinkExpires, RevokeShareLinks, OpenLink,
         AnswerFails, TypeOK, Visit
    <2>3. UNCHANGED <<quote, effects, req, uses, torn, trouble>>
      BY <1>4 DEF Links, CreateShareLink, LinkExpires, RevokeShareLinks, OpenLink,
         AnswerFails
    <2>4. TxOK'
      <3>1. UNCHANGED tx \/ \E w \in visits : RollBack(w.by)
        BY <1>4 DEF Links, CreateShareLink, LinkExpires, RevokeShareLinks, OpenLink,
           AnswerFails
      <3> QED
        BY <3>1, TxTypes DEF TypeOK, Visit, Owner
    <2> QED
      BY <2>1, <2>2, <2>3, <2>4 DEF TypeOK, TxOK, quote, effects, trouble
  <1>5. ASSUME NEW w \in visits, RecordAnswer(w) PROVE TypeOK'
    <2>1. w.link \in Link /\ w.answer \in Status /\ w.by \in Owner
      BY <1>5 DEF TypeOK, Visit, Status, Owner
    <2>2. links' \in [Link -> LinkState] /\ visits' \subseteq Visit
      BY <1>5, <2>1 DEF RecordAnswer, Record, TypeOK, LinkState
    <2>3. uses' \in [Link -> 0 .. 2]
      BY <1>5, <2>1 DEF RecordAnswer, Record, TypeOK
    <2>4. status' \in Status /\ lastEvent' \in Status /\ crossed' \in BOOLEAN
      BY <1>5, <2>1 DEF RecordAnswer, Record, TypeOK
    <2>5. torn' \in BOOLEAN
      BY <1>5 DEF RecordAnswer, Record, TypeOK
    <2>6. UNCHANGED <<text, approvedAt, workflow, submitted, effects, req, trouble>>
      BY <1>5 DEF RecordAnswer, Record
    <2>7. TxOK'
      BY <1>5, <2>1, TxTypes DEF RecordAnswer, Record
    <2> QED
      BY <2>2, <2>3, <2>4, <2>5, <2>6, <2>7 DEF TypeOK, TxOK, effects, trouble
  <1>6. CASE Crash
    <2>1. /\ req' \in [Operator -> Request] /\ visits' = {} /\ later' = {}
          /\ faults' \in 0 .. MaxFaults
      BY <1>6, SlotTypes DEF Crash, TypeOK
    <2>2. lost' \subseteq Promise /\ TxOK'
      BY <1>6 DEF Crash, Due, Promise, TypeOK, TxOK
    <2>3. UNCHANGED <<quote, pipeline, draft, published, links, uses, torn>>
      BY <1>6 DEF Crash
    <2> QED
      BY <2>1, <2>2, <2>3 DEF TypeOK, TxOK, quote
  <1>7. CASE UNCHANGED vars
    BY <1>7 DEF vars, quote, tx, effects, portal, trouble, TypeOK
  <1> QED
    BY NextCases, <1>1, <1>2, <1>3, <1>4, <1>5, <1>6, <1>7

\* The type invariant the runs check.
THEOREM TypesHold == Spec => []TypeOK
  <1>1. ASSUME Init PROVE TypeOK
    <2>1. req \in [Operator -> Request] /\ links \in [Link -> LinkState]
          /\ uses \in [Link -> 0 .. 2]
      BY <1>1, SlotTypes DEF Init, LinkState
    <2>2. approvedAt \in BOOLEAN /\ crossed \in BOOLEAN /\ torn \in BOOLEAN
      BY <1>1 DEF Init
    <2>3. /\ published \subseteq Announcement /\ lost \subseteq Promise
          /\ open \cup overtaken \cup met \subseteq Owner /\ before \subseteq Owner \X Owner
      BY <1>1 DEF Init
    <2>4. /\ {text, submitted, draft} \subseteq Text \cup {NoText}
          /\ status \in Status /\ lastEvent \in Status
          /\ workflow \in {"new", "draft"} \cup UnderReview
      BY <1>1 DEF Init, Status
    <2>5. /\ pipeline \in {"intake", "byHand"} \cup Milestone /\ later \subseteq Call
          /\ visits \subseteq Visit /\ faults \in 0 .. MaxFaults
      BY <1>1, MaxFaultsAssumption DEF Init
    <2> QED
      BY <2>1, <2>2, <2>3, <2>4, <2>5 DEF TypeOK
  <1> QED
    BY <1>1, TypeStep, PTL DEF Spec

-----------------------------------------------------------------------------
(* What holds under any race *)

\* What a request in flight knows, and what it presupposes of the rows.
SlotInv ==
    \A o \in Operator :
      /\ req[o].op = "save" => req[o].seen \notin UnderReview /\ req[o].arg \in Text
      /\ req[o].op = "submit" => req[o].seen = "draft" /\ text \in Text
      /\ req[o].op = "approve" =>
           req[o].seen = "pending_approval" /\ {text, submitted} \subseteq Text
      /\ req[o].op \in Mailing \cup {"publish"} => approvedAt

\* A quote that exists says something, one under review was submitted, and only
\* quotes that exist have links.
RowInv ==
    /\ status # "none" => text \in Text
    /\ status \in UnderReview => submitted \in Text
    /\ \A k \in Link : links[k] # "absent" => status # "none"
    /\ \A w \in visits : links[w.link] # "absent"

\* An approval concerns a submitted text, and what tells of it comes after it.
TellInv ==
    /\ approvedAt => submitted \in Text
    /\ (\/ draft # NoText \/ published # {} \/ FollowUp \cap ({pipeline} \cup later) # {})
         => approvedAt

ToldInv == SlotInv /\ RowInv /\ TellInv

\* Every step keeps what the slots and the rows know of each other.
LEMMA ToldStep == TypeOK /\ ToldInv /\ [Next]_vars => ToldInv'
  <1> SUFFICES ASSUME TypeOK, ToldInv, [Next]_vars PROVE ToldInv'
    OBVIOUS
  <1> DEFINE Goal == ToldInv'
  <1> USE DEF ToldInv
  <1>1. ASSUME NEW o \in Operator, Moves(o) PROVE Goal
    <2>1. UNCHANGED <<quote, effects, portal>>
      BY <1>1, MovesKeep
    <2>2. RowInv' /\ TellInv'
      BY <2>1 DEF RowInv, TellInv, quote, effects, portal
    <2>3. /\ req'[o].op = "save" =>
                req'[o].seen \notin UnderReview /\ req'[o].arg \in Text
          /\ req'[o].op = "submit" => req'[o].seen = "draft" /\ text \in Text
          /\ req'[o].op = "approve" =>
                req'[o].seen = "pending_approval" /\ {text, submitted} \subseteq Text
      BY <1>1 DEF Moves, SaveDraft, InputReady, GenerateFromRfq, CreateQuoteFromMatches,
         CreateCollides, SubmitForApproval, ApproveQuote, ReviseQuote, ComposeDraft,
         DraftFails, RollBackRevise, RequestFails, Checked, Continue, Reply, Idle, Editable,
         Mailing, UnderReview, RowInv, TypeOK
    <2>4. req'[o].op \in Mailing \cup {"publish"} => req[o].op \in Mailing
      BY <1>1 DEF Moves, SaveDraft, InputReady, GenerateFromRfq, CreateQuoteFromMatches,
         CreateCollides, SubmitForApproval, ApproveQuote, ReviseQuote, ComposeDraft,
         DraftFails, RollBackRevise, RequestFails, Checked, Continue, Reply, Idle,
         Mailing, TypeOK
    <2>5. SlotInv'
      BY <1>1, <2>1, <2>3, <2>4, MovesKeep DEF SlotInv, quote
    <2> QED
      BY <2>2, <2>5
  <1>2. ASSUME NEW o \in Operator,
               \/ CreateQuote(o) \/ UpdateQuote(o) \/ CommitSubmit(o)
               \/ StoreDraft(o) \/ Publish(o) \/ CommitApprove(o)
        PROVE  Goal
    <2>1. /\ \A p \in Operator \ {o} : req'[p] = req[p]
          /\ \/ req'[o] = Idle
             \/ req'[o].op \in {"compose", "publish"}
      BY <1>2 DEF CreateQuote, UpdateQuote, CommitSubmit, StoreDraft, Publish,
         CommitApprove, Reply, Continue, TypeOK
    <2>2. /\ approvedAt => approvedAt'
          /\ req'[o].op \in {"compose", "publish"} => approvedAt'
      BY <1>2, <2>1 DEF CreateQuote, UpdateQuote, CommitSubmit, StoreDraft, Publish,
         CommitApprove, quote, SlotInv, Mailing, Idle, Reply, TypeOK
    <2>3. /\ text \in Text => text' \in Text
          /\ submitted \in Text => submitted' \in Text
      BY <1>2 DEF CreateQuote, UpdateQuote, CommitSubmit, StoreDraft, Publish,
         CommitApprove, quote, SlotInv
    <2>4. SlotInv'
      BY <2>1, <2>2, <2>3 DEF SlotInv, Idle, Mailing
    <2>5. RowInv'
      BY <1>2 DEF CreateQuote, UpdateQuote, CommitSubmit, StoreDraft, Publish,
         CommitApprove, Record, quote, portal, SlotInv, RowInv, UnderReview
    <2>6. approvedAt' => submitted' \in Text
      BY <1>2 DEF CreateQuote, UpdateQuote, CommitSubmit, StoreDraft, Publish,
         CommitApprove, quote, SlotInv, TellInv
    <2>7. \/ draft' # NoText \/ published' # {} \/ FollowUp \cap ({pipeline'} \cup later') # {}
          => approvedAt'
      <3>1. approvedAt' \/ /\ UNCHANGED <<draft, published, pipeline>>
                           /\ later' \subseteq later \cup {"quote_draft_created", "quote_submitted"}
        BY <1>2 DEF CreateQuote, UpdateQuote, CommitSubmit, StoreDraft, Publish,
           CommitApprove, quote, effects, SlotInv, Mailing
      <3> QED
        BY <2>2, <3>1, AnnouncementAssumption DEF TellInv, FollowUp
    <2> QED
      BY <2>4, <2>5, <2>6, <2>7 DEF TellInv
  <1>3. ASSUME (\E a \in Call : Announce(a)) \/ Calls PROVE Goal
    <2>1. UNCHANGED <<quote, portal, req, draft>>
      BY <1>3 DEF Calls, AdvancePipeline, Announce, LaterFails, OverridePipeline,
         BeginTransaction, effects
    <2>2. /\ later' \subseteq later /\ pipeline' \in {pipeline, "byHand"} \cup later
          /\ published' = published \/ Announcement \cap later # {}
      BY <1>3 DEF Calls, AdvancePipeline, Announce, LaterFails, OverridePipeline,
         BeginTransaction, effects
    <2>3. TellInv'
      BY <2>1, <2>2, AnnouncementAssumption DEF TellInv, FollowUp, quote
    <2> QED
      BY <2>1, <2>3 DEF quote, portal, SlotInv, RowInv
  <1>4. ASSUME Links PROVE Goal
    <2>1. UNCHANGED <<quote, effects, req>>
      BY <1>4 DEF Links, CreateShareLink, LinkExpires, RevokeShareLinks, OpenLink,
         AnswerFails
    <2>2. \A k \in Link : /\ links'[k] # "absent" => status # "none"
                          /\ links[k] # "absent" => links'[k] # "absent"
      BY <1>4 DEF Links, CreateShareLink, LinkExpires, RevokeShareLinks, OpenLink,
         AnswerFails, RowInv, TypeOK
    <2>3. \A w \in visits' : w.link \in Link /\ links[w.link] # "absent"
      BY <1>4 DEF Links, CreateShareLink, LinkExpires, RevokeShareLinks, OpenLink,
         AnswerFails, RowInv, TypeOK, Visit
    <2> QED
      BY <2>1, <2>2, <2>3 DEF quote, effects, SlotInv, RowInv, TellInv
  <1>5. ASSUME NEW w \in visits, RecordAnswer(w) PROVE Goal
    <2>1. w.link \in Link /\ w.answer \in Answer /\ status # "none"
      BY <1>5 DEF RowInv, TypeOK, Visit
    <2>2. UNCHANGED <<text, approvedAt, submitted, effects, req>>
      BY <1>5 DEF RecordAnswer, Record
    <2>3. /\ status' \in Answer
          /\ \A k \in Link : links[k] # "absent" => links'[k] # "absent"
          /\ visits' \subseteq visits
      BY <1>5, <2>1 DEF RecordAnswer, Record, TypeOK
    <2>4. RowInv'
      BY <2>1, <2>2, <2>3, AnswerAssumption DEF RowInv, UnderReview, TypeOK, Visit
    <2> QED
      BY <2>2, <2>4 DEF effects, SlotInv, TellInv
  <1>6. ASSUME Crash PROVE Goal
    BY <1>6 DEF Crash, quote, SlotInv, RowInv, TellInv, Idle, Mailing
  <1>7. ASSUME UNCHANGED vars PROVE Goal
    BY <1>7 DEF vars, quote, effects, portal, SlotInv, RowInv, TellInv
  <1> QED
    BY NextCases, <1>1, <1>2, <1>3, <1>4, <1>5, <1>6, <1>7

\* Slots, rows and announcements agree in every reachable state.
LEMMA ToldCorrect == Spec => []ToldInv
  <1>1. Init => ToldInv
    BY NoTextAssumption, AnnouncementAssumption
    DEF Init, ToldInv, SlotInv, RowInv, TellInv, FollowUp, Idle, Mailing, UnderReview
  <1> QED
    BY <1>1, ToldStep, TypesHold, PTL DEF Spec

\* The program makes no e-mail draft, no announcement and no "approved" pipeline status
\* without a recorded approval of a submitted text (quote-workflow.service.ts:250-286).
THEOREM TellingFollowsApproval == Spec => []ToldOnlyOnceApproved
  <1>1. ToldInv => ToldOnlyOnceApproved
    BY NoTextAssumption DEF ToldInv, TellInv, ToldOnlyOnceApproved
  <1> QED
    BY <1>1, ToldCorrect, PTL

\* What is owed of an approval, and what an e-mail draft will say.
FollowInv ==
    /\ ApprovalIsFollowedUp
    /\ approvedAt => text \in Text
    /\ \A o \in Operator : req[o].op = "upsert" => req[o].arg \in Text

\* The parts of an approval's promise.
LEMMA Promises ==
    /\ NoText \notin Text
    /\ Promise \cap Milestone = {} /\ "draft" \notin Announcement
    /\ \A op \in Mailing : Due(op) = {"draft"} \cup Announcement
    /\ Due("publish") = Announcement /\ Due("compose") = Promise
    /\ \A op \in {"idle", "generate", "save", "submit", "approve", "revise"} : Due(op) = {}
  BY NoTextAssumption, AnnouncementAssumption DEF Promise, Milestone, Due, Mailing

\* A request that only moves on drops nothing it owes.
LEMMA MovesOwe ==
    ASSUME TypeOK, ToldInv, NEW o \in Operator, Moves(o)
    PROVE  /\ Due(req[o].op) \subseteq Due(req'[o].op) \cup lost'
           /\ lost \subseteq lost'
           /\ req'[o].op = "upsert" => approvedAt /\ req'[o].arg = text
  <1>1. CASE ComposeDraft(o)
    BY <1>1, Promises DEF ComposeDraft, Continue, TypeOK, Due, Mailing, trouble, ToldInv, SlotInv
  <1>2. CASE DraftFails(o)
    BY <1>2, Promises DEF DraftFails, CallFails, Continue, TypeOK, Promise
  <1>3. ASSUME ~ComposeDraft(o), ~DraftFails(o)
        PROVE  /\ req[o].op \in {"idle", "generate", "save", "submit", "approve", "revise"}
               /\ req'[o].op # "upsert" /\ lost' = lost
    BY <1>3 DEF Moves, SaveDraft, InputReady, GenerateFromRfq, CreateQuoteFromMatches,
         CreateCollides, SubmitForApproval, ApproveQuote, ReviseQuote,
         RollBackRevise, RequestFails, Checked, Continue, Reply, Idle, TypeOK, trouble
  <1> QED
    BY <1>1, <1>2, <1>3, Promises

\* Every step keeps what is owed.
LEMMA FollowStep == TypeOK /\ ToldInv /\ FollowInv /\ [Next]_vars => FollowInv'
  <1> SUFFICES ASSUME TypeOK, ToldInv, FollowInv, [Next]_vars PROVE FollowInv'
    OBVIOUS
  <1> DEFINE Goal == FollowInv'
  <1>1. ASSUME NEW o \in Operator, Moves(o) PROVE Goal
    <2>1. /\ UNCHANGED <<approvedAt, text, draft, published, later>>
          /\ \A p \in Operator \ {o} : req'[p] = req[p]
      BY <1>1, MovesKeep DEF quote, effects
    <2>2. ApprovalIsFollowedUp'
      BY <1>1, <2>1, MovesOwe DEF FollowInv, ApprovalIsFollowedUp, Made, Owed
    <2> QED
      BY <1>1, <2>1, <2>2, MovesOwe DEF FollowInv
  <1>2. ASSUME NEW o \in Operator, CreateQuote(o) \/ UpdateQuote(o) \/ CommitSubmit(o)
        PROVE  Goal
    <2>1. /\ UNCHANGED <<approvedAt, draft, published, lost>>
          /\ later \subseteq later'
          /\ \A p \in Operator \ {o} : req'[p] = req[p]
          /\ req[o].op \in {"save", "submit"} /\ req'[o].op = "idle"
      BY <1>2 DEF CreateQuote, UpdateQuote, CommitSubmit, Reply, Idle, effects, trouble, TypeOK
    <2>2. text \in Text => text' \in Text
      BY <1>2 DEF CreateQuote, UpdateQuote, CommitSubmit, ToldInv, SlotInv
    <2>3. ApprovalIsFollowedUp'
      BY <2>1, Promises DEF FollowInv, ApprovalIsFollowedUp, Made, Owed
    <2> QED
      BY <2>1, <2>2, <2>3 DEF FollowInv
  <1>3. ASSUME NEW o \in Operator, CommitApprove(o) PROVE Goal
    <2>1. /\ text' = text /\ text \in Text
          /\ req'[o].op = "compose" /\ \A p \in Operator \ {o} : req'[p] = req[p]
      BY <1>3 DEF CommitApprove, Continue, TypeOK, ToldInv, SlotInv
    <2>2. ApprovalIsFollowedUp'
      BY <2>1, Promises DEF ApprovalIsFollowedUp, Owed
    <2> QED
      BY <2>1, <2>2 DEF FollowInv
  <1>4. ASSUME NEW o \in Operator, StoreDraft(o) PROVE Goal
    <2>1. /\ UNCHANGED <<approvedAt, text, published, later, lost>>
          /\ draft' \in Text
          /\ req'[o].op = "publish" /\ \A p \in Operator \ {o} : req'[p] = req[p]
      BY <1>4 DEF StoreDraft, Continue, TypeOK, FollowInv, quote, trouble
    <2>2. Due(req[o].op) = {"draft"} \cup Due(req'[o].op)
      BY <1>4, <2>1, Promises DEF StoreDraft, Mailing
    <2>3. ApprovalIsFollowedUp'
      BY <2>1, <2>2, Promises DEF FollowInv, ApprovalIsFollowedUp, Made, Owed
    <2> QED
      BY <2>1, <2>3 DEF FollowInv
  <1>5. ASSUME NEW o \in Operator, Publish(o) PROVE Goal
    <2>1. /\ UNCHANGED <<approvedAt, text, draft, published, lost>>
          /\ later \subseteq later' /\ Due(req[o].op) \subseteq later'
          /\ req'[o].op = "idle" /\ \A p \in Operator \ {o} : req'[p] = req[p]
      BY <1>5, Promises DEF Publish, FollowUp, Reply, Idle, TypeOK, quote, trouble
    <2>2. ApprovalIsFollowedUp'
      BY <2>1 DEF FollowInv, ApprovalIsFollowedUp, Made, Owed
    <2> QED
      BY <2>1, <2>2 DEF FollowInv
  <1>6. ASSUME (\E a \in Call : Announce(a)) \/ Calls PROVE Goal
    <2>1. /\ UNCHANGED <<approvedAt, text, draft, req>>
          /\ later \cap Promise \subseteq later' \cup published' \cup lost'
          /\ lost \subseteq lost' /\ published \subseteq published'
      BY <1>6, Promises DEF Announce, Calls, AdvancePipeline, LaterFails, CallFails,
         OverridePipeline, BeginTransaction, quote, effects, trouble
    <2>2. \A f \in Promise \cap published' : Made(f)'
      BY Promises, <1>6, TypeStep DEF Made, TypeOK
    <2>3. ApprovalIsFollowedUp'
      BY <2>1, <2>2 DEF FollowInv, ApprovalIsFollowedUp, Made, Owed
    <2> QED
      BY <2>1, <2>3 DEF FollowInv
  <1>7. ASSUME Links \/ (\E w \in visits : RecordAnswer(w)) \/ UNCHANGED vars PROVE Goal
    <2>1. UNCHANGED <<approvedAt, text, draft, published, later, req, lost>>
      BY <1>7 DEF Links, CreateShareLink, LinkExpires, RevokeShareLinks, OpenLink,
         AnswerFails, RecordAnswer, vars, quote, effects, trouble
    <2> QED
      BY <2>1 DEF FollowInv, ApprovalIsFollowedUp, Made, Owed
  <1>8. ASSUME Crash PROVE Goal
    <2>1. /\ UNCHANGED <<approvedAt, text, draft, published>>
          /\ \A f \in Promise : Owed(f) \/ f \in lost => f \in lost'
          /\ \A o \in Operator : req'[o].op = "idle"
      BY <1>8 DEF Crash, quote, Owed, Idle
    <2>2. ApprovalIsFollowedUp'
      BY <2>1 DEF FollowInv, ApprovalIsFollowedUp, Made
    <2> QED
      BY <2>1, <2>2 DEF FollowInv
  <1> QED
    BY NextCases, <1>1, <1>2, <1>3, <1>4, <1>5, <1>6, <1>7, <1>8

\* No follow-up of an approval is dropped in silence: it is made, owed, or lost to a
\* failure of its own or to a crash (quote-workflow.service.ts:264-286).
THEOREM FollowUpIsNotDropped == Spec => []ApprovalIsFollowedUp
  <1>1. Init => FollowInv
    BY DEF Init, FollowInv, ApprovalIsFollowedUp, Idle
  <1>2. FollowInv => ApprovalIsFollowedUp
    BY DEF FollowInv
  <1> QED
    BY <1>1, <1>2, FollowStep, TypesHold, ToldCorrect, PTL DEF Spec

\* The steps that leave the quote and the RFQ alone.
LEMMA Aside ==
    ASSUME TypeOK,
           \/ \E o \in Operator : Moves(o) \/ StoreDraft(o) \/ Publish(o)
           \/ (\E a \in Call : Announce(a)) \/ Calls
           \/ Links \/ Crash \/ UNCHANGED vars
    PROVE  UNCHANGED quote /\ UNCHANGED torn
  <1>1. ASSUME NEW o \in Operator, Moves(o) PROVE UNCHANGED quote /\ UNCHANGED torn
    BY <1>1, MovesKeep
  <1>2. ASSUME NEW o \in Operator, StoreDraft(o) \/ Publish(o)
        PROVE  UNCHANGED quote /\ UNCHANGED torn
    BY <1>2 DEF StoreDraft, Publish
  <1>3. ASSUME (\E a \in Call : Announce(a)) \/ Calls
        PROVE  UNCHANGED quote /\ UNCHANGED torn
    BY <1>3 DEF Calls, AdvancePipeline, Announce, LaterFails, OverridePipeline,
       BeginTransaction
  <1>4. ASSUME Links PROVE UNCHANGED quote /\ UNCHANGED torn
    BY <1>4 DEF Links, CreateShareLink, LinkExpires, RevokeShareLinks, OpenLink, AnswerFails
  <1>5. ASSUME Crash \/ UNCHANGED vars PROVE UNCHANGED quote /\ UNCHANGED torn
    BY <1>5 DEF Crash, vars
  <1> QED
    BY <1>1, <1>2, <1>3, <1>4, <1>5

\* Only a transaction that was not alone can be overtaken.
AloneInv == overtaken \subseteq met /\ \A p \in before : p[1] \in met /\ p[2] \in met

\* A transaction that ends leaves that so.
LEMMA EndKeepsAlone ==
    ASSUME AloneInv, NEW x, NEW older, older \subseteq met, End(x, older)
    PROVE  AloneInv'
  BY DEF AloneInv, End

\* Every step keeps it.
LEMMA AloneStep == TypeOK /\ AloneInv /\ [Next]_vars => AloneInv'
  <1> SUFFICES ASSUME TypeOK, AloneInv, [Next]_vars PROVE AloneInv'
    OBVIOUS
  <1>1. ASSUME NEW x, RollBack(x) \/ \E s : Record(x, s) PROVE AloneInv'
    <2>1. {y \in open : <<y, x>> \in before} \subseteq met
      BY DEF AloneInv
    <2> QED
      BY <1>1, <2>1, EndKeepsAlone DEF RollBack, Record
  <1>2. ASSUME UNCHANGED tx PROVE AloneInv'
    BY <1>2 DEF AloneInv, tx
  <1>3. ASSUME NEW o \in Operator, Moves(o) PROVE UNCHANGED tx \/ RollBack(o)
    BY <1>3 DEF Moves, SaveDraft, InputReady, GenerateFromRfq, CreateQuoteFromMatches,
       CreateCollides, SubmitForApproval, ApproveQuote, ReviseQuote, ComposeDraft,
       DraftFails, RollBackRevise, RequestFails
  <1>4. ASSUME NEW o \in Operator, \/ CreateQuote(o) \/ UpdateQuote(o) \/ CommitSubmit(o)
                                   \/ CommitApprove(o) \/ StoreDraft(o) \/ Publish(o)
        PROVE  UNCHANGED tx \/ \E s : Record(o, s)
    BY <1>4 DEF CreateQuote, UpdateQuote, CommitSubmit, CommitApprove, StoreDraft, Publish
  <1>5. ASSUME NEW x \in Owner, BeginTransaction(x) PROVE AloneInv'
    BY <1>5 DEF BeginTransaction, AloneInv
  <1>6. ASSUME (\E a \in Call : Announce(a)) \/ Calls
        PROVE  UNCHANGED tx \/ \E x \in Owner : BeginTransaction(x)
    BY <1>6 DEF Calls, AdvancePipeline, Announce, LaterFails, OverridePipeline
  <1>7. ASSUME Links PROVE UNCHANGED tx \/ \E w \in visits : RollBack(w.by)
    BY <1>7 DEF Links, CreateShareLink, LinkExpires, RevokeShareLinks, OpenLink, AnswerFails
  <1>8. ASSUME NEW w \in visits, RecordAnswer(w) PROVE Record(w.by, w.answer)
    BY <1>8 DEF RecordAnswer, Record
  <1>9. ASSUME Crash PROVE AloneInv'
    BY <1>9 DEF Crash, AloneInv
  <1>10. ASSUME UNCHANGED vars PROVE UNCHANGED tx
    BY <1>10 DEF vars
  <1> QED
    BY NextCases, <1>1, <1>2, <1>3, <1>4, <1>5, <1>6, <1>7, <1>8, <1>9, <1>10

\* The latest status event is the status of the quote whenever the last transaction
\* that wrote the two ran alone, whatever raced or crashed before it: it cannot have
\* been overtaken, so its event is the latest (quote-workflow.service.ts:213-224,
\* 250-262, portal.service.ts:102-114).
THEOREM HistoryIsKept == Spec => []HistoryMatchesStatus
  <1>1. Init => AloneInv /\ HistoryMatchesStatus
    BY DEF Init, AloneInv, HistoryMatchesStatus
  <1>2. ASSUME TypeOK, AloneInv, HistoryMatchesStatus, [Next]_vars
        PROVE  HistoryMatchesStatus'
    <2>1. ASSUME NEW x, NEW s, Record(x, s) PROVE HistoryMatchesStatus'
      BY <1>2, <2>1 DEF Record, AloneInv, HistoryMatchesStatus
    <2>2. ASSUME NEW o \in Operator, CreateQuote(o) PROVE HistoryMatchesStatus'
      BY <2>2 DEF CreateQuote, HistoryMatchesStatus
    <2>3. ASSUME NEW o \in Operator, CommitSubmit(o) \/ CommitApprove(o)
          PROVE  HistoryMatchesStatus'
      BY <2>1, <2>3 DEF CommitSubmit, CommitApprove
    <2>4. ASSUME NEW w \in visits, RecordAnswer(w) PROVE HistoryMatchesStatus'
      BY <2>1, <2>4 DEF RecordAnswer, Record
    <2>5. ASSUME UNCHANGED <<status, lastEvent, crossed>> PROVE HistoryMatchesStatus'
      BY <1>2, <2>5 DEF HistoryMatchesStatus
    <2>6. ASSUME NEW o \in Operator, UpdateQuote(o)
          PROVE  UNCHANGED <<status, lastEvent, crossed>>
      BY <2>6 DEF UpdateQuote
    <2> QED
      BY <1>2, NextCases, Aside, <2>2, <2>3, <2>4, <2>5, <2>6 DEF quote
  <1> QED
    BY <1>1, <1>2, AloneStep, TypesHold, PTL DEF Spec

\* The RFQ never claims more than its quote, under every race of stale requests:
\* whoever advances the one writes the other to the same state.
THEOREM WorkflowStaysBehind == Spec => []WorkflowNeverAhead
  <1>1. Init => WorkflowNeverAhead
    BY DEF Init, WorkflowNeverAhead, UnderReview
  <1>2. ASSUME TypeOK, WorkflowNeverAhead, [Next]_vars PROVE WorkflowNeverAhead'
    <2>1. ASSUME NEW o \in Operator, CreateQuote(o) \/ CommitSubmit(o) \/ CommitApprove(o)
          PROVE  WorkflowNeverAhead'
      <3>1. workflow' = status'
        BY <2>1 DEF CreateQuote, CommitSubmit, CommitApprove, Record
      <3> QED
        BY <3>1 DEF WorkflowNeverAhead
    <2>2. ASSUME NEW o \in Operator, UpdateQuote(o) PROVE WorkflowNeverAhead'
      BY <2>2 DEF UpdateQuote, WorkflowNeverAhead, UnderReview
    <2>3. ASSUME NEW w \in visits, RecordAnswer(w) PROVE WorkflowNeverAhead'
      BY <1>2, <2>3 DEF RecordAnswer, Record, TypeOK, Visit, WorkflowNeverAhead
    <2>4. ASSUME UNCHANGED <<status, workflow>> PROVE WorkflowNeverAhead'
      BY <1>2, <2>4 DEF WorkflowNeverAhead
    <2> QED
      BY <1>2, NextCases, Aside, <2>1, <2>2, <2>3, <2>4 DEF quote
  <1> QED
    BY <1>1, <1>2, TypesHold, PTL DEF Spec

\* Status, history and workflow state agree (quote-workflow.service.ts:288-303).
THEOREM StatusesStayTogether == Spec => []StatusesAgree
  BY HistoryIsKept, WorkflowStaysBehind, PTL DEF StatusesAgree

-----------------------------------------------------------------------------
(* While no transaction has torn another *)

\* The quote passes through review once, with one text.
ReviewInv ==
    ~torn => /\ status \in UnderReview => text = submitted /\ workflow = status
             /\ status \in {"none", "draft", "pending_approval"} => ~approvedAt
             /\ status = "approved" =>
                  /\ draft \in {NoText, submitted}
                  /\ \A o \in Operator : req[o].op = "upsert" => req[o].arg = submitted

\* Every step keeps the review intact, or tears it.
LEMMA ReviewStep == TypeOK /\ ToldInv /\ ReviewInv /\ [Next]_vars => ReviewInv'
  <1> SUFFICES ASSUME TypeOK, ToldInv, ReviewInv, [Next]_vars PROVE ReviewInv'
    OBVIOUS
  <1> DEFINE Goal == ReviewInv'
  <1>1. ASSUME NEW o \in Operator, Moves(o) PROVE Goal
    <2>1. UNCHANGED <<quote, effects, portal, torn>>
          /\ \A p \in Operator \ {o} : req'[p] = req[p]
      BY <1>1, MovesKeep
    <2>2. req'[o].op = "upsert" => req'[o].arg = text
      BY <1>1 DEF Moves, SaveDraft, InputReady, GenerateFromRfq, CreateQuoteFromMatches,
         CreateCollides, SubmitForApproval, ApproveQuote, ReviseQuote, ComposeDraft,
         DraftFails, RollBackRevise, RequestFails, Checked, Continue, Reply, Idle, TypeOK
    <2> QED
      BY <2>1, <2>2 DEF ReviewInv, quote, effects, UnderReview
  <1>2. ASSUME NEW o \in Operator, CreateQuote(o) PROVE Goal
    <2>1. ~torn' => ~torn /\ ~approvedAt'
      BY <1>2 DEF CreateQuote, ReviewInv
    <2>2. status' = "draft"
      BY <1>2 DEF CreateQuote
    <2> QED
      BY <2>1, <2>2 DEF ReviewInv, UnderReview
  <1>3. ASSUME NEW o \in Operator, UpdateQuote(o) PROVE Goal
    <2>1. ~torn' => ~torn /\ status \notin UnderReview
      BY <1>3 DEF UpdateQuote, NoteTear, ToldInv, SlotInv
    <2>2. UNCHANGED <<status, approvedAt>>
      BY <1>3 DEF UpdateQuote
    <2> QED
      BY <2>1, <2>2 DEF ReviewInv, UnderReview
  <1>4. ASSUME NEW o \in Operator, CommitSubmit(o) PROVE Goal
    <2>1. ~torn' => ~torn /\ ~approvedAt'
      BY <1>4 DEF CommitSubmit, NoteTear, ToldInv, SlotInv, ReviewInv
    <2>2. status' = "pending_approval" /\ workflow' = status' /\ text' = submitted'
      BY <1>4 DEF CommitSubmit, Record
    <2> QED
      BY <2>1, <2>2 DEF ReviewInv
  <1>5. ASSUME NEW o \in Operator, CommitApprove(o) PROVE Goal
    <2>1. ASSUME ~torn'
          PROVE  ~torn /\ status = "pending_approval" /\ ~approvedAt
      BY <1>5, <2>1 DEF CommitApprove, NoteTear, ToldInv, SlotInv, ReviewInv
    <2>2. /\ status' = "approved" /\ workflow' = status'
          /\ UNCHANGED <<text, submitted, draft>>
      BY <1>5 DEF CommitApprove, Record, effects
    <2>3. ASSUME ~torn', NEW p \in Operator PROVE req'[p].op # "upsert"
      <3>1. req[p].op # "upsert"
        BY <2>1, <2>3 DEF ToldInv, SlotInv, Mailing
      <3> QED
        BY <1>5, <3>1 DEF CommitApprove, Continue, TypeOK
    <2>4. ~torn' => draft = NoText /\ text = submitted
      BY <2>1 DEF ToldInv, TellInv, ReviewInv, UnderReview
    <2> QED
      BY <2>2, <2>3, <2>4 DEF ReviewInv
  <1>6. ASSUME NEW o \in Operator, StoreDraft(o) \/ Publish(o) PROVE Goal
    <2>1. UNCHANGED <<quote, torn>>
      BY <1>6 DEF StoreDraft, Publish
    <2>2. /\ \A p \in Operator : req'[p].op = "upsert" => req'[p] = req[p]
          /\ \/ draft' = draft
             \/ req[o].op = "upsert" /\ draft' = req[o].arg
      BY <1>6 DEF StoreDraft, Publish, Continue, Reply, Idle, TypeOK
    <2> QED
      BY <2>1, <2>2 DEF ReviewInv, quote
  <1>7. ASSUME NEW w \in visits, RecordAnswer(w) PROVE Goal
    <2>1. status' \in Answer
      BY <1>7 DEF RecordAnswer, Record, TypeOK, Visit
    <2> QED
      BY <2>1, AnswerAssumption DEF ReviewInv, UnderReview
  <1>8. ASSUME \/ (\E a \in Call : Announce(a)) \/ Calls
               \/ Links \/ Crash \/ UNCHANGED vars
        PROVE  Goal
    <2>1. /\ UNCHANGED <<quote, draft, torn>>
          /\ \A p \in Operator : req'[p] = req[p] \/ req'[p] = Idle
      BY <1>8 DEF Calls, AdvancePipeline, Announce, LaterFails, OverridePipeline,
         BeginTransaction, Links, CreateShareLink, LinkExpires,
         RevokeShareLinks, OpenLink, AnswerFails, Crash, vars, effects
    <2> QED
      BY <2>1 DEF ReviewInv, quote, Idle
  <1> QED
    BY NextCases, <1>1, <1>2, <1>3, <1>4, <1>5, <1>6, <1>7, <1>8

\* What holds of the review while nothing has been torn.
LEMMA ReviewCorrect == Spec => []ReviewInv
  <1>1. Init => ReviewInv
    BY DEF Init, ReviewInv, UnderReview
  <1> QED
    BY <1>1, ReviewStep, TypesHold, ToldCorrect, PTL DEF Spec

\* While no request has written over a state it had not checked, what is under
\* review, and what is approved, is what was submitted.
THEOREM ReviewIsOfTheSubmitted == Spec => []ReviewedIsWhatStands
  <1>1. ReviewInv => ReviewedIsWhatStands
    BY DEF ReviewInv, ReviewedIsWhatStands
  <1> QED
    BY <1>1, ReviewCorrect, PTL

\* While no request has written over a state it had not checked, the e-mail draft of
\* an approved quote offers what was submitted.
THEOREM DraftIsOfTheSubmitted == Spec => []DraftOffersReviewed
  <1>1. ReviewInv => DraftOffersReviewed
    BY DEF ReviewInv, DraftOffersReviewed
  <1> QED
    BY <1>1, ReviewCorrect, PTL

\* Review, approval and e-mail draft are all of the submitted contents
\* (quote-workflow.service.ts:51, 191-211, 264-269).
THEOREM SubmittedCounts == Spec => []SubmittedIsWhatCounts
  BY ReviewIsOfTheSubmitted, DraftIsOfTheSubmitted, PTL DEF SubmittedIsWhatCounts

\* The customer's answer stays, except for a request that had checked the quote
\* before the answer was given.
THEOREM AnswersAreFinal == Spec => AnswerStands
  <1>1. ASSUME TypeOK, ToldInv, [Next]_vars, status \in Answer, ~torn'
        PROVE  status' \in Answer
    <2>1. ASSUME NEW o \in Operator PROVE ~CreateQuote(o)
      BY <1>1, AnswerAssumption DEF CreateQuote
    <2>2. ASSUME NEW o \in Operator PROVE ~CommitSubmit(o) /\ ~CommitApprove(o)
      BY <1>1, AnswerAssumption DEF CommitSubmit, CommitApprove, NoteTear, ToldInv, SlotInv
    <2>3. ASSUME NEW w \in visits, RecordAnswer(w) PROVE status' \in Answer
      BY <1>1, <2>3 DEF RecordAnswer, Record, TypeOK, Visit
    <2>4. ASSUME NEW o \in Operator, UpdateQuote(o) PROVE UNCHANGED status
      BY <2>4 DEF UpdateQuote
    <2> QED
      BY <1>1, NextCases, Aside, <2>1, <2>2, <2>3, <2>4 DEF quote
  <1>2. TypeOK /\ ToldInv /\ [Next]_vars =>
          [(status \in Answer /\ ~torn') => status' \in Answer]_vars
    BY <1>1
  <1> QED
    BY <1>2, TypesHold, ToldCorrect, PTL DEF Spec, AnswerStands

-----------------------------------------------------------------------------
(* Links *)

\* A link that has not been used has given no answer.
LinkInv ==
    /\ \A k \in Link : links[k] \in {"absent", "live"} => uses[k] = 0
    /\ ~torn => \A k \in Link : uses[k] <= 1

\* It always holds.
THEOREM LinksKeepCount == Spec => []LinkInv
  <1>1. Init => LinkInv
    BY DEF Init, LinkInv
  <1>2. ASSUME TypeOK, LinkInv, [Next]_vars PROVE LinkInv'
    <2>1. ASSUME NEW w \in visits, RecordAnswer(w) PROVE LinkInv'
      <3> DEFINE k == w.link
      <3>1. k \in Link
        BY <1>2 DEF TypeOK, Visit
      <3>2. \A i \in Link \ {k} : links'[i] = links[i] /\ uses'[i] = uses[i]
        BY <1>2, <2>1, <3>1 DEF RecordAnswer, Record, TypeOK
      <3>3. links'[k] = "used" /\ uses'[k] = IF uses[k] < 2 THEN uses[k] + 1 ELSE uses[k]
        BY <1>2, <2>1, <3>1 DEF RecordAnswer, Record, TypeOK
      <3>4. ~torn' => ~torn /\ links[k] = "live"
        BY <2>1 DEF RecordAnswer, Record
      <3> QED
        BY <1>2, <3>1, <3>2, <3>3, <3>4 DEF LinkInv
    <2>2. ASSUME Links PROVE LinkInv'
      <3>1. UNCHANGED <<uses, torn>>
        BY <2>2 DEF Links, CreateShareLink, LinkExpires, RevokeShareLinks, OpenLink,
           AnswerFails
      <3>2. \A k \in Link :
              links'[k] \in {"absent", "live"} => links[k] \in {"absent", "live"}
        BY <1>2, <2>2 DEF Links, CreateShareLink, LinkExpires, RevokeShareLinks, OpenLink,
           AnswerFails, TypeOK
      <3> QED
        BY <1>2, <3>1, <3>2 DEF LinkInv
    <2>3. ASSUME NEW o \in Operator,
                 \/ Moves(o) \/ CreateQuote(o) \/ UpdateQuote(o) \/ CommitSubmit(o)
                 \/ CommitApprove(o) \/ StoreDraft(o) \/ Publish(o)
          PROVE  LinkInv'
      <3>1. UNCHANGED portal
        BY <1>2, <2>3, MovesKeep DEF CreateQuote, UpdateQuote, CommitSubmit, CommitApprove,
           StoreDraft, Publish
      <3>2. UNCHANGED torn \/ torn' = (torn \/ req[o].seen # status)
        BY <1>2, <2>3, MovesKeep DEF CreateQuote, UpdateQuote, CommitSubmit, CommitApprove,
           StoreDraft, Publish, NoteTear
      <3> QED
        BY <1>2, <3>1, <3>2 DEF LinkInv, portal
    <2>4. ASSUME \/ (\E a \in Call : Announce(a)) \/ Calls
                 \/ Crash \/ UNCHANGED vars
          PROVE  LinkInv'
      BY <1>2, <2>4 DEF Calls, AdvancePipeline, Announce, LaterFails, OverridePipeline,
         BeginTransaction, Crash, vars, portal, LinkInv
    <2> QED
      BY <1>2, NextCases, <2>1, <2>2, <2>3, <2>4
  <1> QED
    BY <1>1, <1>2, TypesHold, PTL DEF Spec

\* While no two requests have answered through a link both found good, a link
\* answers once (portal.service.ts:54-60).
THEOREM LinksAnswerOnce == Spec => []LinkAnswersOnce
  <1>1. LinkInv => LinkAnswersOnce
    BY DEF LinkInv, LinkAnswersOnce
  <1> QED
    BY <1>1, LinksKeepCount, PTL

\* An answer through a link is its first, unless two overlapped, and none is recorded
\* once the link is revoked: the transaction updates the link's row, which is gone then
\* (portal.service.ts:50-60 and 102-114).
THEOREM LinksBind == Spec => LinksAreBinding
  <1>1. ASSUME TypeOK, LinkInv, [Next]_vars, NEW k \in Link, uses'[k] # uses[k]
        PROVE  links[k] # "revoked" /\ (uses[k] = 0 \/ torn')
    <2>1. ASSUME NEW w \in visits, RecordAnswer(w)
          PROVE  links[k] # "revoked" /\ (uses[k] = 0 \/ torn')
      <3>1. w.link = k
        BY <1>1, <2>1 DEF RecordAnswer, Record, TypeOK, Visit
      <3>2. links[k] # "revoked" /\ (torn' \/ links[k] = "live")
        BY <2>1, <3>1 DEF RecordAnswer, Record
      <3> QED
        BY <1>1, <3>2 DEF LinkInv
    <2>2. \/ \E o \in Operator : \/ Moves(o) \/ CreateQuote(o) \/ UpdateQuote(o)
                                \/ CommitSubmit(o) \/ CommitApprove(o)
                                \/ StoreDraft(o) \/ Publish(o)
          \/ (\E a \in Call : Announce(a)) \/ Calls
          \/ Links \/ Crash \/ UNCHANGED vars
          => UNCHANGED uses
      BY <1>1, MovesKeep DEF CreateQuote, UpdateQuote, CommitSubmit, CommitApprove,
         StoreDraft, Publish, Calls, AdvancePipeline, Announce, LaterFails, OverridePipeline,
         BeginTransaction, Links, CreateShareLink,
         LinkExpires, RevokeShareLinks, OpenLink, AnswerFails, Crash, vars, portal
    <2> QED
      BY <1>1, NextCases, <2>1, <2>2
  <1>2. TypeOK /\ LinkInv /\ [Next]_vars =>
          [\A k \in Link : uses'[k] # uses[k] =>
             links[k] # "revoked" /\ (uses[k] = 0 \/ torn')]_vars
    BY <1>1
  <1> QED
    BY <1>2, TypesHold, LinksKeepCount, PTL DEF Spec, LinksAreBinding

-----------------------------------------------------------------------------
(* The quote's life *)

\* What a request read of a quote that exists, and what is drafted for it, stays so:
\* quotes are not deleted and texts do not become empty.
LifeInv ==
    /\ \A o \in Operator : req[o].seen # "none" => status # "none"
    /\ approvedAt => text \in Text
    /\ \A o \in Operator : req[o].op = "upsert" => req[o].arg \in Text

\* Every step keeps it.
LEMMA LifeStep == TypeOK /\ ToldInv /\ LifeInv /\ [Next]_vars => LifeInv'
  <1> SUFFICES ASSUME TypeOK, ToldInv, LifeInv, [Next]_vars PROVE LifeInv'
    OBVIOUS
  <1> DEFINE Goal == LifeInv'
  <1>1. ASSUME NEW o \in Operator, Moves(o) PROVE Goal
    <2>1. UNCHANGED quote /\ \A p \in Operator \ {o} : req'[p] = req[p]
      BY <1>1, MovesKeep
    <2>2. req'[o].seen \in {"none", status}
      BY <1>1 DEF Moves, SaveDraft, InputReady, GenerateFromRfq, CreateQuoteFromMatches,
         CreateCollides, SubmitForApproval, ApproveQuote, ReviseQuote, ComposeDraft,
         DraftFails, RollBackRevise, RequestFails, Checked, Continue, Reply, Idle, TypeOK
    <2>3. req'[o].op = "upsert" => req'[o].arg = text /\ req[o].op = "compose"
      BY <1>1 DEF Moves, SaveDraft, InputReady, GenerateFromRfq, CreateQuoteFromMatches,
         CreateCollides, SubmitForApproval, ApproveQuote, ReviseQuote, ComposeDraft,
         DraftFails, RollBackRevise, RequestFails, Checked, Continue, Reply, Idle, TypeOK
    <2>4. req[o].op = "compose" => text \in Text
      BY DEF LifeInv, ToldInv, SlotInv, Mailing
    <2> QED
      BY <2>1, <2>2, <2>3, <2>4 DEF LifeInv, quote
  <1>2. ASSUME NEW o \in Operator,
               \/ CreateQuote(o) \/ UpdateQuote(o) \/ CommitSubmit(o)
               \/ CommitApprove(o) \/ StoreDraft(o) \/ Publish(o)
        PROVE  Goal
    <2>1. /\ \A p \in Operator \ {o} : req'[p] = req[p]
          /\ req'[o].op # "upsert" /\ req'[o].seen \in {"none", status}
      BY <1>2 DEF CreateQuote, UpdateQuote, CommitSubmit, CommitApprove, StoreDraft,
         Publish, Continue, Reply, Idle, TypeOK
    <2>2. /\ status # "none" => status' # "none"
          /\ status = "none" => status' = "none" \/ req'[o] = Idle \/ req'[o].seen = "none"
      BY <1>2 DEF CreateQuote, UpdateQuote, CommitSubmit, CommitApprove, StoreDraft,
         Publish, Record, quote, Reply, Continue, TypeOK
    <2>3. approvedAt' => text' \in Text
      BY <1>2 DEF CreateQuote, UpdateQuote, CommitSubmit, CommitApprove, StoreDraft,
         Publish, quote, LifeInv, ToldInv, SlotInv
    <2> QED
      BY <2>1, <2>2, <2>3 DEF LifeInv, Idle
  <1>3. ASSUME NEW w \in visits, RecordAnswer(w) PROVE Goal
    <2>1. status' # "none" /\ UNCHANGED <<text, approvedAt, req>>
      BY <1>3, AnswerAssumption DEF RecordAnswer, Record, TypeOK, Visit
    <2> QED
      BY <2>1 DEF LifeInv
  <1>4. ASSUME \/ (\E a \in Call : Announce(a)) \/ Calls
               \/ Links \/ Crash \/ UNCHANGED vars
        PROVE  Goal
    <2>1. UNCHANGED quote
      BY <1>4, Aside
    <2>2. \A p \in Operator : req'[p] = req[p] \/ req'[p] = Idle
      BY <1>4 DEF Calls, AdvancePipeline, Announce, LaterFails, OverridePipeline,
         BeginTransaction, Links, CreateShareLink, LinkExpires,
         RevokeShareLinks, OpenLink, AnswerFails, Crash, vars
    <2> QED
      BY <2>1, <2>2 DEF LifeInv, quote, Idle
  <1> QED
    BY NextCases, <1>1, <1>2, <1>3, <1>4

\* It always holds.
LEMMA LifeCorrect == Spec => []LifeInv
  <1>1. Init => LifeInv
    BY DEF Init, LifeInv, Idle
  <1> QED
    BY <1>1, LifeStep, TypesHold, ToldCorrect, PTL DEF Spec

\* The quote as the abstract life knows it.
Life == <<status, text, submitted, approvedAt, draft # NoText \/ published # {},
          {k \in Link : uses[k] > 0}, torn>>

\* All that its steps need.
ImplInv == TypeOK /\ ToldInv /\ ReviewInv /\ LinkInv /\ LifeInv

\* A transaction that follows a check is meant for the status that was checked, and
\* a torn life stays torn.
LEMMA TearsShow ==
    ASSUME TypeOK, NEW o \in Operator, NoteTear(o)
    PROVE  (torn => torn') /\ (req[o].seen = status \/ torn')
  BY DEF NoteTear

\* An answer through a link adds that link to the ones answered through.
LEMMA AnswersAdd ==
    ASSUME TypeOK, NEW w \in visits, RecordAnswer(w)
    PROVE  /\ w.link \in Link /\ w.answer \in Answer
           /\ {k \in Link : uses'[k] > 0} = {k \in Link : uses[k] > 0} \cup {w.link}
  <1>1. w.link \in Link /\ w.answer \in Answer
    BY DEF TypeOK, Visit
  <1>2. uses'[w.link] > 0
    BY <1>1 DEF RecordAnswer, Record, TypeOK
  <1>3. \A k \in Link \ {w.link} : uses'[k] = uses[k]
    BY <1>1 DEF RecordAnswer, Record, TypeOK
  <1> QED
    BY <1>1, <1>2, <1>3

\* A request that stores the draft, and a call that announces, follow an approval, and
\* the rest of the quote's life stands still.
LEMMA TellStep ==
    ASSUME ImplInv,
           (\E o \in Operator : StoreDraft(o)) \/ (\E a \in Call : Announce(a))
    PROVE  Lifecycle!Tell
  <1>1. UNCHANGED quote /\ UNCHANGED portal /\ UNCHANGED torn
    BY DEF StoreDraft, Announce
  <1>2. approvedAt
    <2>1. ASSUME NEW o \in Operator, StoreDraft(o) PROVE approvedAt
      BY <2>1 DEF StoreDraft, ImplInv, ToldInv, SlotInv, Mailing
    <2>2. ASSUME NEW a \in Call, Announce(a) PROVE approvedAt
      BY <2>2 DEF Announce, ImplInv, ToldInv, TellInv, FollowUp
    <2> QED
      BY <2>1, <2>2
  <1>3. draft' # NoText \/ published' # {}
    <2>1. ASSUME NEW o \in Operator, StoreDraft(o) PROVE draft' # NoText
      BY <2>1, NoTextAssumption DEF StoreDraft, ImplInv, LifeInv
    <2>2. ASSUME NEW a \in Call, Announce(a) PROVE published' # {}
      BY <2>2 DEF Announce
    <2> QED
      BY <2>1, <2>2
  <1> QED
    BY <1>1, <1>2, <1>3 DEF Lifecycle!Tell, quote, portal

\* Every step of the requests is one step of the quote's life, or none.
LEMMA LifecycleStep == ImplInv /\ [Next]_vars => [Lifecycle!Next]_Life
  <1> SUFFICES ASSUME ImplInv, [Next]_vars PROVE [Lifecycle!Next]_Life
    OBVIOUS
  <1> USE DEF ImplInv
  <1> DEFINE Goal == [Lifecycle!Next]_Life
  <1>1. ASSUME NEW o \in Operator, Moves(o) PROVE Goal
    <2>1. UNCHANGED <<quote, effects, portal, torn>>
      BY <1>1, MovesKeep
    <2> QED
      BY <2>1 DEF Life, quote, effects, portal
  <1>2. ASSUME NEW o \in Operator, CreateQuote(o) PROVE Goal
    <2>1. req[o].arg \in Text
      BY <1>2 DEF CreateQuote, ToldInv, SlotInv
    <2>2. Lifecycle!Open(req[o].arg)
      BY <1>2 DEF CreateQuote, Lifecycle!Open, portal
    <2> QED
      BY <2>1, <2>2 DEF Lifecycle!Next
  <1>3. ASSUME NEW o \in Operator, UpdateQuote(o) PROVE Goal
    <2>1. /\ req[o].arg \in Text /\ req[o].seen \notin UnderReview
          /\ status # "none"
      BY <1>3 DEF UpdateQuote, ToldInv, SlotInv, LifeInv
    <2>2. Lifecycle!MeantFor(status \notin UnderReview)
      BY <1>3, <2>1, TearsShow DEF UpdateQuote, Lifecycle!MeantFor
    <2>3. Lifecycle!Edit(req[o].arg)
      BY <1>3, <2>1, <2>2
      DEF UpdateQuote, Lifecycle!Edit, Lifecycle!UnderReview, UnderReview, portal, effects
    <2> QED
      BY <2>1, <2>3 DEF Lifecycle!Next
  <1>4. ASSUME NEW o \in Operator, CommitSubmit(o) PROVE Goal
    <2>1. req[o].seen = "draft" /\ status # "none"
      BY <1>4 DEF CommitSubmit, ToldInv, SlotInv, LifeInv
    <2>2. Lifecycle!MeantFor(status = "draft")
      BY <1>4, <2>1, TearsShow DEF CommitSubmit, Lifecycle!MeantFor
    <2>3. Lifecycle!Submit
      BY <1>4, <2>1, <2>2 DEF CommitSubmit, Record, Lifecycle!Submit, portal
    <2> QED
      BY <2>3 DEF Lifecycle!Next
  <1>5. ASSUME NEW o \in Operator, CommitApprove(o) PROVE Goal
    <2>1. req[o].seen = "pending_approval" /\ submitted # NoText
      BY <1>5, NoTextAssumption DEF CommitApprove, ToldInv, SlotInv
    <2>2. (torn => torn') /\ (status = "pending_approval" \/ torn')
      BY <1>5, <2>1, TearsShow DEF CommitApprove
    <2>3. Lifecycle!MeantFor(status = "pending_approval" /\ text = submitted)
      BY <2>2 DEF ReviewInv, UnderReview, Lifecycle!MeantFor
    <2>4. Lifecycle!Approve
      BY <1>5, <2>1, <2>3 DEF CommitApprove, Record, Lifecycle!Approve, portal, effects
    <2> QED
      BY <2>4 DEF Lifecycle!Next
  <1>6. ASSUME (\E o \in Operator : StoreDraft(o)) \/ (\E a \in Call : Announce(a))
        PROVE  Goal
    BY <1>6, TellStep DEF Lifecycle!Next
  <1>9. ASSUME NEW o \in Operator, Publish(o) PROVE Goal
    BY <1>9 DEF Publish, Life, quote, portal
  <1>7. ASSUME NEW w \in visits, RecordAnswer(w) PROVE Goal
    <2>1. /\ w.link \in Link /\ w.answer \in Answer
          /\ {k \in Link : uses'[k] > 0} = {k \in Link : uses[k] > 0} \cup {w.link}
      BY <1>7, AnswersAdd
    <2>2. status # "none"
      BY <1>7, <2>1 DEF ToldInv, RowInv
    <2>3. (torn => torn') /\ (uses[w.link] = 0 \/ torn')
      BY <1>7, <2>1 DEF RecordAnswer, Record, LinkInv
    <2>4. Lifecycle!MeantFor(w.link \notin {k \in Link : uses[k] > 0})
      BY <2>3 DEF Lifecycle!MeantFor
    <2>5. Lifecycle!Reply(w.link, w.answer)
      BY <1>7, <2>1, <2>2, <2>4 DEF RecordAnswer, Record, Lifecycle!Reply, effects
    <2> QED
      BY <2>1, <2>5 DEF Lifecycle!Next
  <1>8. ASSUME Calls \/ Links \/ Crash \/ UNCHANGED vars PROVE Goal
    <2>1. UNCHANGED quote /\ UNCHANGED torn
      BY <1>8, Aside
    <2>2. UNCHANGED <<draft, published, uses>>
      BY <1>8 DEF Calls, AdvancePipeline, LaterFails, OverridePipeline,
         BeginTransaction, Links, CreateShareLink, LinkExpires,
         RevokeShareLinks, OpenLink, AnswerFails, Crash, vars, effects, portal
    <2> QED
      BY <2>1, <2>2 DEF Life, quote
  <1> QED
    BY NextCases, <1>1, <1>2, <1>3, <1>4, <1>5, <1>6, <1>7, <1>8, <1>9

\* The workflow implements the quote's life: whatever requests, links and crashes do,
\* the quote is drafted, submitted, approved, told of and answered in the states these
\* steps were checked in, or torn (quote-workflow.service.ts:51, 205, 244;
\* portal.service.ts:54-60).
THEOREM QuoteImplementsLifecycle == Spec => ImplementsLifecycle
  <1>1. Init => Lifecycle!Init
    <2>1. ASSUME Init PROVE {k \in Link : uses[k] > 0} = {}
      BY <2>1 DEF Init
    <2> QED
      BY <2>1 DEF Init, Lifecycle!Init
  <1>2. Spec => []ImplInv
    BY TypesHold, ToldCorrect, ReviewCorrect, LinksKeepCount, LifeCorrect, PTL DEF ImplInv
  <1>3. ImplInv /\ [Next]_vars => [Lifecycle!Next]_Life
    BY LifecycleStep
  <1> QED
    BY <1>1, <1>2, <1>3, PTL
    DEF Spec, ImplementsLifecycle, Lifecycle!Spec, Lifecycle!lifecycle, Life
=============================================================================
