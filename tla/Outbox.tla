------------------------------- MODULE Outbox -------------------------------
(***************************************************************************)
(* What leaves the system once a quote is approved: the quote mail, the    *)
(* sheet row and the webhook deliveries.                                   *)
(*                                                                         *)
(* QuoteWorkflowService.approveQuote commits, awaits the e-mail draft and  *)
(* then asks, without awaiting, for a sheet_export job and for the event   *)
(* quote.approved; QuoteEmailService.send mails the draft and asks for     *)
(* quote.sent.  The emitter looks the enabled endpoints up and enqueues    *)
(* one webhook_deliver job for each.  The jobs live in the job table,      *)
(* which is known here by what it promises (JobLedger, which JobQueue      *)
(* implements): accepted jobs are run at least once before they are done.  *)
(*                                                                         *)
(* One quote, which may be approved more than once: by requests that       *)
(* overlap, or again after a stale submission (QuoteWorkflow).  The model  *)
(* follows the jobs of the approval that is first through with its draft;  *)
(* the others ask for jobs of their own, which do not meet these, and it   *)
(* has what they do to the mail and to the pipeline status.                *)
(* Request are the calls of the clerks' mail tab; a text of the mail is    *)
(* named by the request that wrote it.  The branch of the delivery handler *)
(* for an earlier delivery (deliveryId) is not modelled: the emitter, the  *)
(* only caller, never passes one, so nothing is ever retried.              *)
(***************************************************************************)
EXTENDS Naturals, FiniteSets

CONSTANTS Endpoint,   \* webhook endpoints that may be registered
          Request,    \* calls that edit or send the mail
          Subscription, \* sets of events an endpoint may be registered for
          Worker,     \* handler runs under way at one time
          MaxFaults   \* bound on failed statements and crashes

ASSUME OutboxAssumption == /\ MaxFaults \in Nat
                           /\ "sheet" \notin Endpoint
                           /\ Subscription \subseteq SUBSET {"quote.approved", "quote.sent"}
                           /\ Request \cap {"approval", "generated", "again"} = {}

VARIABLES approval,   \* the followed approval: "pending", "drafting", "announced", "cut"
          emitting,   \* events whose endpoints are being looked up
          asked,      \* jobs whose insertion is under way
          phase,      \* the job table, as JobLedger tells it
          executed,
          worker,     \* [Worker -> run of a handler]
          endpoint,   \* [Endpoint -> status]
          hears,      \* [Endpoint -> events it is registered for]
          rows,       \* WebhookDelivery: <<job, status>>
          posted,     \* jobs whose POST the endpoint has answered with a success
          exported,   \* the sheet's row: "no", "row", or "skipped" as nothing is configured
          missed,     \* history: jobs whose endpoint could not be looked up
          email,      \* QuoteEmail: [status, text]
          sends,      \* QuoteEmailSend: <<request, status>>
          call,       \* [Request -> call of the mail tab]
          pipeline,   \* the intake's pipeline status: "sent" by a send, or "other"
          raced,      \* history: the sends that ran beside an edit or before an approval
          faults

bus == <<emitting, asked>>
jobs == <<phase, executed>>
hooks == <<endpoint, hears, rows, posted, exported, missed>>
mail == <<email, sends, call, raced>>
vars == <<approval, emitting, asked, phase, executed, worker, endpoint, hears, rows, posted,
          exported, missed, email, sends, call, pipeline, raced, faults>>

Emission == {"approval"} \cup Request
Event(m) == IF m = "approval" THEN "quote.approved" ELSE "quote.sent"
SheetJob == [of |-> "approval", to |-> "sheet"]
Job == [of : Emission, to : Endpoint] \cup {SheetJob}
Text == {"generated", "again"} \cup Request

Jobs == INSTANCE JobLedger

EndpointStatus == {"absent", "enabled", "disabled", "gone"}
Run == [at : {"idle", "append", "post", "record"}, job : Job, status : {"none", "delivered", "failed"}]
Doing(at, j, s) == [at |-> at, job |-> j, status |-> s]
Idle == Doing("idle", SheetJob, "none")
MailCall == [at : {"none", "editing", "mailing", "mailed", "recorded", "saved",
                  "failing", "failed", "over"}, text : Text]
Step(at, t) == [at |-> at, text |-> t]

Init == /\ approval = "pending" /\ emitting = {} /\ asked = {}
        /\ Jobs!Init
        /\ worker = [w \in Worker |-> Idle]
        /\ endpoint = [e \in Endpoint |-> "absent"]
        /\ hears \in [Endpoint -> Subscription]
        /\ rows = {} /\ posted = {} /\ exported = "no" /\ missed = {}
        /\ email = [status |-> "none", text |-> "generated"]
        /\ sends = {} /\ raced = {}
        /\ call = [r \in Request |-> Step("none", "generated")]
        /\ pipeline = "other"
        /\ faults = 0

Fault == faults < MaxFaults /\ faults' = faults + 1

----------------------------------------------------------------------------
(* An approval, after its transaction.                                     *)

\* The sends that have read the mail, or are on record.
Carried == {r \in Request : call[r].at \in {"mailing", "mailed"} \/ <<r, "sent">> \in sends}

Approve == /\ approval = "pending" /\ approval' = "drafting"
           /\ UNCHANGED <<bus, jobs, worker, hooks, mail, pipeline, faults>>

\* What the request asks for when the draft is made, or has failed.
Announce == /\ approval = "drafting" /\ approval' = "announced"
            /\ emitting' = emitting \cup {"approval"}
            /\ asked' = asked \cup {SheetJob}
            /\ UNCHANGED <<jobs, worker, hooks, sends, call, pipeline>>

\* generateDraft creates the mail; over one that is there it writes its own text, and
\* leaves the status, be it "sent".
Upsert(t) == /\ email' = IF email.status = "none" THEN [status |-> "draft", text |-> t]
                         ELSE [email EXCEPT !.text = t]
             /\ raced' = raced \cup Carried

\* Mutated: the draft is stored with a status the mail tab does not know.
GenerateDraft_Ready == /\ Announce /\ email' = [status |-> "ready", text |-> "generated"]
                       /\ raced' = raced \cup Carried
                       /\ UNCHANGED faults

GenerateDraft == Announce /\ Upsert("generated") /\ UNCHANGED faults

DraftFails == Announce /\ Fault /\ UNCHANGED <<email, raced>>

\* Another approval of the quote, whose jobs are not followed.
ApproveAgain == /\ approval \in {"announced", "cut"}
                /\ Upsert("again")
                /\ UNCHANGED <<approval, bus, jobs, worker, hooks, sends, call, pipeline, faults>>

\* An approval's update of the pipeline status, which it does not wait for; or that of a
\* clerk (PATCH /rfqs/:id/pipeline-status), who may set any status, "sent" too, at any
\* time.  Either way the status is no longer one that a send has set.
SetPipeline == /\ pipeline' = "other"
               /\ UNCHANGED <<approval, bus, jobs, worker, hooks, mail, faults>>

----------------------------------------------------------------------------
(* The emitter and the job table.                                          *)

FindEnabledForEvent(m) == {e \in Endpoint : endpoint[e] = "enabled" /\ Event(m) \in hears[e]}

\* Mutated: the event is announced and its jobs are not inserted.
Emit_Dropped(m) == /\ m \in emitting /\ emitting' = emitting \ {m}
                   /\ UNCHANGED <<approval, asked, jobs, worker, hooks, mail, pipeline, faults>>

Emit(m) == /\ m \in emitting /\ emitting' = emitting \ {m}
           /\ asked' = asked \cup {[of |-> m, to |-> e] : e \in FindEnabledForEvent(m)}
           /\ UNCHANGED <<approval, jobs, worker, hooks, mail, pipeline, faults>>

Enqueue(j) == /\ j \in asked /\ asked' = asked \ {j}
              /\ Jobs!Accept(j)
              /\ UNCHANGED <<approval, emitting, worker, hooks, mail, pipeline, faults>>

\* A lookup or an insertion fails: the error is logged, the event is lost.
EmitFails(m) == /\ m \in emitting /\ emitting' = emitting \ {m} /\ Fault
                /\ UNCHANGED <<approval, asked, jobs, worker, hooks, mail, pipeline>>
EnqueueFails(j) == /\ j \in asked /\ asked' = asked \ {j} /\ Fault
                   /\ UNCHANGED <<approval, emitting, jobs, worker, hooks, mail, pipeline>>

\* The queue settles a job nobody works on; it fails one only after a fault.
Settle(j) == /\ \A w \in Worker : worker[w].at # "idle" => worker[w].job # j
             /\ Jobs!Close({j})
             /\ phase'[j] = "failed" => faults > 0
             /\ UNCHANGED <<approval, bus, worker, hooks, mail, pipeline, faults>>

----------------------------------------------------------------------------
(* The handlers.  An open job may be run again, and beside itself.         *)

Start(w, j) ==
    /\ worker[w].at = "idle" /\ phase[j] = "open"
    /\ worker' = [worker EXCEPT ![w] = Doing(IF j = SheetJob THEN "append" ELSE "post", j, "none")]
    /\ j # SheetJob => endpoint[j.to] # "gone"
    /\ UNCHANGED <<approval, bus, jobs, hooks, mail, pipeline, faults>>

\* The endpoint has been removed: nothing to deliver, and the job is done.
SkipMissing(w, j) ==
    /\ worker[w].at = "idle" /\ j # SheetJob /\ endpoint[j.to] = "gone"
    /\ Jobs!Execute(j)
    /\ UNCHANGED <<approval, bus, worker, hooks, mail, pipeline, faults>>

\* The lookup of the endpoint fails, for whatever reason: so is taken for its removal.
SkipUnread(w, j) ==
    /\ worker[w].at = "idle" /\ j # SheetJob
    /\ Jobs!Execute(j)
    /\ Fault
    /\ missed' = missed \cup {j}
    /\ UNCHANGED <<approval, bus, worker, endpoint, hears, rows, posted, exported, mail, pipeline>>

\* No sheet or no key is configured, which may change with every restart: done as well.
\* (That the quote is missing, the other early return, does not happen: none is deleted.)
SkipExport(w) ==
    /\ worker[w].at = "append"
    /\ exported' = IF exported = "row" THEN "row" ELSE "skipped"
    /\ Jobs!Execute(worker[w].job)
    /\ worker' = [worker EXCEPT ![w] = Idle]
    /\ UNCHANGED <<approval, bus, endpoint, hears, rows, posted, missed, mail, pipeline, faults>>

\* Mutated: the row is written before the answer is known.
Post_NotWaited(w, s) ==
    /\ worker[w].at = "post"
    /\ worker' = [worker EXCEPT ![w] = Doing("record", worker[w].job, "delivered")]
    /\ posted' = IF s = "delivered" THEN posted \cup {worker[w].job} ELSE posted
    /\ UNCHANGED <<approval, bus, jobs, endpoint, hears, rows, exported, missed, mail, pipeline, faults>>

\* The endpoint answers; an error answer or none is a status, not an error.
Post(w, s) ==
    /\ worker[w].at = "post"
    /\ worker' = [worker EXCEPT ![w] = Doing("record", worker[w].job, s)]
    /\ posted' = IF s = "delivered" THEN posted \cup {worker[w].job} ELSE posted
    /\ UNCHANGED <<approval, bus, jobs, endpoint, hears, rows, exported, missed, mail, pipeline, faults>>

\* The delivery row; its foreign key refuses it once the endpoint is removed.
Record(w) ==
    /\ worker[w].at = "record" /\ endpoint[worker[w].job.to] # "gone"
    /\ rows' = rows \cup {<<worker[w].job, worker[w].status>>}
    /\ Jobs!Execute(worker[w].job)
    /\ worker' = [worker EXCEPT ![w] = Idle]
    /\ UNCHANGED <<approval, bus, endpoint, hears, posted, exported, missed, mail, pipeline, faults>>
RecordRefused(w) ==
    /\ worker[w].at = "record" /\ endpoint[worker[w].job.to] = "gone"
    /\ worker' = [worker EXCEPT ![w] = Idle]
    /\ UNCHANGED <<approval, bus, jobs, hooks, mail, pipeline, faults>>

AppendRow(w) ==
    /\ worker[w].at = "append"
    /\ exported' = "row"
    /\ Jobs!Execute(worker[w].job)
    /\ worker' = [worker EXCEPT ![w] = Idle]
    /\ UNCHANGED <<approval, bus, endpoint, hears, rows, posted, missed, mail, pipeline, faults>>

\* A statement of the handler or the sheet's API fails: it throws.
HandlerFails(w) ==
    /\ worker[w].at # "idle" /\ Fault
    /\ worker' = [worker EXCEPT ![w] = Idle]
    /\ UNCHANGED <<approval, bus, jobs, hooks, mail, pipeline>>

----------------------------------------------------------------------------
(* WebhookEndpointService.                                                 *)

SetEndpoint(e, s, h) ==
    /\ endpoint' = [endpoint EXCEPT ![e] = s]
    /\ hears' = [hears EXCEPT ![e] = h]
    /\ UNCHANGED <<approval, bus, jobs, worker, posted, exported, missed, mail, pipeline, faults>>

CreateEndpoint(e, h) == endpoint[e] = "absent" /\ SetEndpoint(e, "enabled", h) /\ UNCHANGED rows
UpdateEndpoint(e, s, h) == /\ endpoint[e] \in {"enabled", "disabled"} /\ SetEndpoint(e, s, h)
                           /\ UNCHANGED rows
\* The deliveries go with the endpoint (ON DELETE CASCADE).
RemoveEndpoint(e) == /\ endpoint[e] \in {"enabled", "disabled"} /\ SetEndpoint(e, "gone", hears[e])
                     /\ rows' = {d \in rows : d[1].to # e}

----------------------------------------------------------------------------
(* The mail tab: one call edits the draft, or sends it.                    *)

Quiet == UNCHANGED <<approval, asked, jobs, worker, hooks>>
SentOnce == \E r \in Request : <<r, "sent">> \in sends
Unrecorded == {r \in Request : call[r].at \in {"mailing", "mailed"}}
Editing == {r \in Request : call[r].at = "editing"}
Fresh(r) == call[r].at = "none" /\ email.status # "none"
Goto(r, at) == call' = [call EXCEPT ![r] = Step(at, call[r].text)]

\* Mutated: updateDraft does not look at the sends.
BeginEdit_Unchecked(r) ==
    /\ Fresh(r) /\ Goto(r, "editing") /\ raced' = raced \cup Unrecorded
    /\ UNCHANGED <<email, sends, emitting, pipeline, faults>> /\ Quiet

\* updateDraft reads the sends, and refuses once one of them is "sent".
BeginEdit(r) == /\ Fresh(r) /\ ~SentOnce
                /\ Goto(r, "editing")
                /\ raced' = raced \cup Unrecorded
                /\ UNCHANGED <<email, sends, emitting, pipeline, faults>> /\ Quiet

WriteEdit(r) == /\ call[r].at = "editing"
                /\ email' = [email EXCEPT !.text = r]
                /\ Goto(r, "over")
                /\ UNCHANGED <<sends, raced, emitting, pipeline, faults>> /\ Quiet

\* send reads the draft; it does not ask whether it has been sent before.
BeginSend(r) == /\ Fresh(r)
                /\ call' = [call EXCEPT ![r] = Step("mailing", email.text)]
                /\ raced' = IF Editing = {} THEN raced ELSE raced \cup {r}
                /\ UNCHANGED <<email, sends, emitting, pipeline, faults>> /\ Quiet

\* EmailService.send returns whether or not a mail has left.
Mail(r) == /\ call[r].at = "mailing" /\ Goto(r, "mailed")
           /\ UNCHANGED <<email, sends, raced, emitting, pipeline, faults>> /\ Quiet

RecordSend(r) == /\ call[r].at = "mailed" /\ Goto(r, "recorded")
                 /\ sends' = sends \cup {<<r, "sent">>}
                 /\ UNCHANGED <<email, raced, emitting, pipeline, faults>> /\ Quiet

SaveStatus(r) == /\ call[r].at = "recorded" /\ Goto(r, "saved")
                 /\ email' = [email EXCEPT !.status = "sent"]
                 /\ UNCHANGED <<sends, raced, emitting, pipeline, faults>> /\ Quiet

\* The pipeline status, and then at once the event.
FinishSend(r) == /\ call[r].at = "saved" /\ Goto(r, "over")
                 /\ pipeline' = "sent"
                 /\ emitting' = emitting \cup {r}
                 /\ UNCHANGED <<email, sends, raced, faults>> /\ Quiet

\* A statement after the mail fails: the catch records an error ...
SendFails(r) == /\ call[r].at \in {"mailed", "recorded", "saved"} /\ Goto(r, "failing") /\ Fault
                /\ UNCHANGED <<email, sends, raced, emitting, pipeline>> /\ Quiet
RecordError(r) == /\ call[r].at = "failing" /\ Goto(r, "failed")
                  /\ sends' = sends \cup {<<r, "error">>}
                  /\ UNCHANGED <<email, raced, emitting, pipeline, faults>> /\ Quiet
\* ... and marks the mail with it.
MarkError(r) == /\ call[r].at = "failed" /\ Goto(r, "over")
                /\ email' = [email EXCEPT !.status = "error"]
                /\ UNCHANGED <<sends, raced, emitting, pipeline, faults>> /\ Quiet

----------------------------------------------------------------------------
\* The process dies: what was asked for and not yet stored is lost.
Crash == /\ Fault
         /\ approval' = IF approval = "drafting" THEN "cut" ELSE approval
         /\ emitting' = {} /\ asked' = {}
         /\ worker' = [w \in Worker |-> Idle]
         /\ call' = [r \in Request |-> IF call[r].at = "none" THEN call[r] ELSE Step("over", call[r].text)]
         /\ UNCHANGED <<jobs, hooks, email, sends, raced, pipeline>>

Next == \/ Approve \/ GenerateDraft \/ DraftFails \/ ApproveAgain
        \/ SetPipeline \/ Crash
        \/ \E m \in Emission : Emit(m) \/ EmitFails(m)
        \/ \E j \in Job : Enqueue(j) \/ EnqueueFails(j) \/ Settle(j)
        \/ \E w \in Worker, j \in Job : Start(w, j) \/ SkipMissing(w, j) \/ SkipUnread(w, j)
        \/ \E w \in Worker, s \in {"delivered", "failed"} : Post(w, s)
        \/ \E w \in Worker : \/ Record(w) \/ RecordRefused(w)
                             \/ AppendRow(w) \/ SkipExport(w) \/ HandlerFails(w)
        \/ \E e \in Endpoint, h \in Subscription : CreateEndpoint(e, h)
        \/ \E e \in Endpoint, s \in {"enabled", "disabled"}, h \in Subscription : UpdateEndpoint(e, s, h)
        \/ \E e \in Endpoint : RemoveEndpoint(e)
        \/ \E r \in Request : \/ BeginEdit(r) \/ WriteEdit(r) \/ BeginSend(r) \/ Mail(r)
                              \/ RecordSend(r) \/ SaveStatus(r) \/ FinishSend(r)
                              \/ SendFails(r) \/ RecordError(r) \/ MarkError(r)

Spec == Init /\ [][Next]_vars

\* Requests under way go on, handlers end, and the queue gets to every open
\* job (JobQueue: EveryJobCloses): Start is fair although workers come and go.
Fairness == /\ \A m \in Emission : WF_vars(Emit(m))
            /\ \A j \in Job : WF_vars(Enqueue(j)) /\ SF_vars(\E w \in Worker : Start(w, j))
            /\ \A w \in Worker : /\ WF_vars(Record(w)) /\ WF_vars(RecordRefused(w))
                                 /\ WF_vars(AppendRow(w) \/ SkipExport(w))
                                 /\ WF_vars(\E s \in {"delivered", "failed"} : Post(w, s))

FairSpec == Spec /\ Fairness

----------------------------------------------------------------------------
(* Properties.                                                             *)

\* Type correctness, with the sets of what is under way inside the tables
\* they will reach.
TypeOK == /\ approval \in {"pending", "drafting", "announced", "cut"}
          /\ emitting \subseteq Emission /\ asked \subseteq Job
          /\ phase \in [Job -> Jobs!Phase] /\ executed \subseteq Job
          /\ worker \in [Worker -> Run]
          /\ endpoint \in [Endpoint -> EndpointStatus] /\ hears \in [Endpoint -> Subscription]
          /\ rows \subseteq Job \X {"delivered", "failed"} /\ posted \subseteq Job
          /\ exported \in {"no", "row", "skipped"} /\ missed \subseteq Job
          /\ email \in [status : {"none", "draft", "sent", "error"}, text : Text]
          /\ sends \subseteq Request \X {"sent", "error"}
          /\ call \in [Request -> MailCall] /\ raced \subseteq Request
          /\ pipeline \in {"other", "sent"}
          /\ faults \in 0..MaxFaults

Delivered(j) == \/ \E s \in {"delivered", "failed"} : <<j, s>> \in rows
                \/ endpoint[j.to] = "gone"

\* A job is done only when its effect is on record, or for one of three reasons
\* to leave it: the export's row is in the sheet unless no sheet is configured,
\* a delivery has its row unless the endpoint has been removed or could not be
\* looked up; and a row "delivered" tells of a POST the endpoint took.  Whatever
\* runs twice, fails half way, or meets a removal between POST and row
\* (webhook-delivery.service.ts:34-39, 86-100, sheet-export.service.ts:23-91).
DoneMeansRecorded ==
    /\ \A j \in Job : phase[j] = "done" =>
         IF j = SheetJob THEN exported # "no" ELSE Delivered(j) \/ j \in missed
    /\ \A d \in rows : d[2] = "delivered" => d[1] \in posted

\* The text the clerks see in a mail that counts as sent is the text that was
\* mailed, unless an edit was under way beside that send (updateDraft looks at
\* the sends and send at the text, each before it writes) or the quote was
\* approved once more since (generateDraft does not look at the sends).
SentTextStands == \A r \in Request : <<r, "sent">> \in sends /\ r \notin raced => email.text = call[r].text

\* The mail never counts as sent without a row that says so, and the program
\* does not set the pipeline to "sent" before that row exists.
SentHasRow == (email.status = "sent" \/ pipeline = "sent") => SentOnce

\* What the program says it sent, it sent: the row is there, and the text is the mail's.
SentMailIsOnRecord == SentTextStands /\ SentHasRow

\* An event that is looked up while an endpoint hears of it ends in a delivery row
\* of that endpoint, unless it stops hearing of it (is disabled, removed, or
\* registered for other events) or a fault happens.
EventsAreTried == \A m \in Emission, e \in Endpoint :
    (m \in emitting /\ e \in FindEnabledForEvent(m))
        ~> \/ \E s \in {"delivered", "failed"} : <<[of |-> m, to |-> e], s>> \in rows
           \/ e \notin FindEnabledForEvent(m) \/ faults > 0

=============================================================================
