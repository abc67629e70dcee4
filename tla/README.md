# auto8 in TLA+

auto8 turns inbound requests for quotation (RFQs) into approved quotes. Messages
arrive through connectors (Gmail, Outlook, Slack, ...), are classified, stored, read by
a language model and matched against a catalogue; staff drafts a quote, an approver
approves it, an e-mail goes out, and the customer answers through a magic link. The
program is one NestJS process over PostgreSQL (Prisma) with a Next.js client; everything
asynchronous is either an awaited call in a request, a promise nobody waits for, or a row
of the `BackgroundJob` table that a cron drains.

The difficulty is not in the data. Nearly every operation reads a row, checks it, awaits
something and then writes without checking again; the cron does not wait for its own
previous invocation; and most follow-up work is started after a commit without being
awaited. The modules are about what survives those interleavings, failed calls and
crashes, and what does not.

Paths below are relative to `apps/api/src` unless they begin with `apps/` or `packages/`.

## Contents

| File | What it is |
|---|---|
| `JobLedger.tla` | abstract: what enqueueing on the job table promises |
| `IntakeLog.tla` | abstract: what the connectors promise of the messages that come in |
| `QuoteLifecycle.tla` | abstract: what a quote promises to staff and customer |
| `JobQueue.tla` | the job table, the overlapping ticks of its cron, recovery, crashes |
| `ConnectorSync.tla` | connectors, mailbox runs, pushed messages, the storing of a message |
| `RfqPipeline.tla` | intake, attachment parsing, extraction, matching, reclassification |
| `QuoteWorkflow.tla` | drafting, approval, revision of a quote, e-mail draft, portal |
| `Outbox.tla` | after an approval: the quote mail, the sheet row, the webhooks |
| `Sessions.tla` | login, refresh rotation, logout, password reset, deactivation |
| `Workspaces.tla` | sign-up, verification, invitations, subscriptions and the billing guard |
| `Pages.tla` | the web client as tables: calls, routes with their roles, pages |
| `Screens.tla` | one browser tab on one page, and the API behind it |
| `JobQueueProofs.tla` | invariants of `JobQueue`, and that it implements `JobLedger` |
| `ConnectorSyncProofs.tla` | invariants of `ConnectorSync`, and that it implements `IntakeLog` |
| `RfqPipelineProofs.tla` | types, extraction waits, candidates are stored once, rest is complete, accepted matches stay |
| `QuoteWorkflowProofs.tla` | invariants and action properties of `QuoteWorkflow`, and that it implements `QuoteLifecycle` |
| `OutboxProofs.tla` | invariants of `Outbox`, and that it keeps to `JobLedger` |
| `SessionsProofs.tla`, `WorkspacesProofs.tla`, `ScreensProofs.tla` | invariants and action properties of those modules |
| `MC*.tla`, `MC*.cfg` | instances for TLC |
| `PROJECT.json` | components, runs, mutants, source map, findings, hazards, theorems |

`tlc -config <cfg> <MC module>` runs an instance; `tlapm <module>` checks the proofs.

## Inventory

Each component with its state, its operations, what is hard about it and what makes it
correct. **M** is modelled, **P** partly (what is missing is said).

### Background jobs (M) — `jobs/` — `JobQueue`
State: `BackgroundJob(type, payload, status, attempts, maxAttempts, nextRunAt, updatedAt)`.
Operations: `enqueue`; `processPendingJobs`, a `@Cron` every five seconds: recover
running rows older than five minutes, read up to twenty due pending rows, drop those with
no attempts left, and for each row mark it running, run its handler, mark it done, retry
it with a back-off, or fail it. The handlers are the rest of the program's asynchronous
work. Hard: ticks overlap and work from snapshots; all writes are unconditional; a crash
leaves rows running; the failure of the final update counts as a failure of the handler.
Correct when: attempts stay bounded, *done* means executed, closed means closed, and every
job closes.

### Connectors (M; OAuth2 P) — `connector-registry/`, `scheduler/`, `gmail/`, `outlook/`, `slack/`, `whatsapp/`, `telegram/`, `zalo/` — `ConnectorSync`
State: `Connector(enabled, health, failureCount)`, `IngestionRun`, message ids and threads on
`RfqIntake`. Operations: creation at start and by staff, switching, removal, the hourly
ticks, a manual synchronisation, pushed messages, the health count and automatic
disabling. Hard: two runs on one mailbox; ids unique for Gmail and the pushing
applications, not for Outlook; a connector removed while it is read; errors kept from the
health count; mail that is skipped stays unread and comes back in every listing. Correct
when: a conversation becomes one RFQ, only stored mail is marked as read, and nothing but a
full listing holds a mail up. Of OAuth2 only the effect on the connector's row is modelled.

### RFQ intake (P), extraction (M), attachments (M), item matching (P) — `rfqs/rfq-intake.service.ts`, `rfqs/rfq-extraction.service.ts`, `attachments/`, `matching/` — `ConnectorSync`, `RfqPipeline`
State: `RfqIntake` (with `attachmentContent`, `rfqPipelineStatus`), `Rfq`, `RfqAttachment`
(`parseStatus`), `RfqExtractedItem`, `RfqItemMatch`.
Operations: `createRfqFromIntake` (count, insert under reference count + 1001, again on a
collision; then un-awaited enqueues); `attachment_parse` (parse, aggregate all contents
once all attachments are settled, enqueue `rfq_extract`); `rfq_extract` (guard on pending
attachments, language model, replace the items in one transaction, advance the pipeline
status, enqueue `item_match`); `item_match` (count, then create the candidates of each
item); `updateMatch`; `updatePipelineStatus` (which asks for a new extraction when an RFQ
is reclassified). Hard: references counted before they are taken; at-least-once handlers;
stale reads between aggregation and extraction; replaced items under a matching at work;
errors that are swallowed or thrown past the enqueue. Correct when: references have no
gap; nothing is extracted before all attachments are read; an idle system has extracted
and matched everything that could be read; candidates are stored once; accepted matches
are not lost without a reason. The contents of an intake's row and the scoring of
candidates are left out.

### Quote workflow (M) — `rfqs/quote-workflow.service.ts`, `rfqs/ai-quote-generation.service.ts`, `quotes/` — `QuoteWorkflow`
State: `Quote(status, contents, approvedAt)`, unique per RFQ; `QuoteStatusEvent`;
`Rfq.workflowState`. Operations: `saveDraft`, `generateFromRfq`, `createQuoteFromMatches`,
`submitForApproval`, `approveQuote`, `reviseQuote`. Assignment and the diff view
(`assignRfq`, `getRevisions`, `diffRevisions`) do not touch the workflow. Hard:
check-then-act in every operation; minutes-long model calls between check and save; status
and event written in different orders by staff and portal; follow-ups that are started and
not awaited. Correct when: status, history and workflow state agree, what is approved is what
was submitted, nothing outside is told of an approval that was not recorded, and no follow-up
of an approval is dropped in silence.

### Customer portal (M) — `portal/` — `QuoteWorkflow`
State: `MagicLinkToken(expiresAt, usedAt)`. Operations: create, revoke, validate; accept,
reject, request a revision. Hard: validation and answer are separate; answers race the
staff. Correct when: a link answers once, a revoked one not at all, and an answer stands.

### Quote e-mail (M), outbound webhooks (M), sheet export (M), outgoing mail (P) — `quote-email/`, `webhooks/`, `sheet-export/`, `email/` — `Outbox`
State: `QuoteEmail(subject, body, status)`, `QuoteEmailSend`, endpoints, `WebhookDelivery`, the
sheet. Operations: generate, edit, send; emit, enqueue, deliver; endpoint CRUD; append a row.
Hard: the mail leaves before it is recorded, and a failure afterwards is recorded as an error;
a draft is edited while it is sent, or generated anew after it; an endpoint is removed between
emission and delivery, or between POST and row; a delivery runs twice. Correct when: what
counts as sent was sent as it stands, a job that is done left its effect on record or had one
of the few reasons not to, and an event reaches the endpoints enabled for it. The mail
transport is outside.

### Authentication and sessions (M), users (P) — `auth/`, `users/` — `Sessions`, `Workspaces`
State: `RefreshToken`, reset, invitation and verification tokens, `User(isActive)`.
Operations: login, refresh (rotation), logout, reset; register, verify, invite, accept;
create, update, deactivate. Hard: every token is checked and consumed in two steps; an
account is switched off while a call is at work. Correct when: a session is a chain with
one successor each, a reset ends every session, and an account that is off gets no token.
Names and roles of users are left out, and which passwords there are.

### Workspaces (P), billing (M) — `workspace/`, `billing/` — `Workspaces`
State: `Workspace`, `Subscription(status, stripeSubId, sePayOrderCode, trialEndsAt)`.
Operations: sign-up in four statements; Stripe's checkout and events; SePay orders and
their confirmation; the guard. Hard: a failure between the statements of a sign-up; events
late, twice, crossed; the order code is not cleared. Correct when: a sign-up that nothing
interrupts is whole, and the guard admits exactly who pays or is in the trial. The
isolation of queries by workspace is not modelled.

### Web application (P), role-based access control (M) — `apps/web`, `rbac/`, the controllers — `Pages`, `Screens`
State: of a page, its flags, inputs, form and what it shows; calls under way; the session.
Operations: open, type, filter, click, an answer comes in, a call fails, the cookie
expires. Hard: answers cross and none is cancelled; rereads run with the closure of an
older render; forms are refilled while somebody types; client and API each decide what a
role may do. Correct when: a quiet page shows what its inputs ask, a reported save stands,
typing survives but on named pages, and submitting and approving stay apart. Layout,
formatting and the navigation between pages are left out.

### Catalogue, enrichment, quote templates, customers, settings, SLA, audit, analytics, set-up (P)
Rows written by one statement, or by one transaction, without a protocol between them.
Their routes with the roles and their pages are in `Pages` and run in `Screens`, on one
record that the calls change; what the statements compute is not modelled.

### Not modelled
- RFQ classification: a pure function of one model call and keyword lists. The pipeline
  starts behind it.
- Catalogue import, search, embeddings and enrichment suggestions, SLA dates, the queries
  of analytics: data without a protocol. A model would restate the statements.
- Plug-in registry, request validation, translations, configuration: stateless, or filled
  once at start.
- Logging, Sentry: output only.
- `packages/shared`, `tools/contract-checks`: types and a build-time comparison of them.
- Language model, mail transport, payment providers, file parsers: outside. Where a
  modelled operation calls one, its outcome is a choice.
- Isolation of workspaces from each other: the queries take the workspace from the
  decoded token or leave it out; there is no state or order in it to model.

## Modules

### JobQueue and JobLedger
`Tick` is the set of cron invocations that may be in flight at once; a tick's control is
`pc`, its rows `held`, and the attempts it read `snap`. Every query of
`processPendingJobs` is one action, in the order of the code: `Recover` (144-152), `Fetch`
(154-167), `Claim` (169-174), then `FailUnrunnable` (176-195), or `HandlerSucceeds` /
`HandlerThrows` and `MarkDone` (197-210), `Retry` or `GiveUp` (211-242). The clock is
reduced to two facts: a row's `nextRunAt` is still to come (`waiting`), or it was not
updated for five minutes (`stale`); both may change at any time the code allows. Rows are
numbered in the order of `createdAt`. Faults are a process crash, a query that fails
outside the `try`, and the update to *done* failing inside it. A payload that does not
parse takes the path of a missing handler.

`JobLedger` knows jobs that are absent, open or closed and whether they were executed.
`JobQueue!Phase` maps the table to it: a settled row is closed only when no tick that read
it is still in flight, since such a tick claims it again. That is the strongest promise
there is: *done* alone is not final in this program.

### ConnectorSync
A `Run` is a scheduled tick, a manual synchronisation, a poll on the environment's credentials,
or one pushed message; its record says at which await it is, the connectors of the tick still
to come, the messages left, and what it has read about the one in hand. `Box` is the mailbox
that the credentials of each connector, and of the environment, open: connectors may share one
or have their own, and the environment's may be neither. `Configured` says what the environment
has credentials for. The steps are those of the code: listing, look-up of the id, of the
thread, count, insert, mark as read, then the record of the run and the connector's health.
`Reads` says what each reader makes of a message: an attachment, none, or nothing to store.
`intakes` is a function from the references in use, so a gap or a repetition shows. A mailbox
holds one conversation. Staff creates, switches, authorises and removes connectors at any time;
a crash ends all runs, and the start that follows creates a connector from the environment
where a type is configured and has none. `overlapped` notes that two runs were at work on one
source at once, whether they began there or a tick turned to it as its next connector. The
failure of the mark, of a listing and of the run's record are events, as are staff's changes
(`MaxEvents`).

`IntakeLog` knows none of this: messages are received, written at the end of a log, and marked
as read. `ConnectorSync!Entries` is that log, the rows in the order of their references, each
with the position of the RFQ it answers; `received` is `arrived`. `Arrive` maps to `Receive`,
`Insert` to `Write` and `Mark` to `MarkRead`; steps of the registry, listings, look-ups, retries,
failures and crashes map to stutters.

### RfqPipeline
One message and its attachments. A `Worker` is a tick with a handler of this RFQ at work;
its record holds the step, the attachment, and what was read (`seen`), so a handler can
write what is stale by then. The queue is used as `JobLedger` promises it: an open job is
run at least once. Attachment jobs are told apart with their attempts; extraction and
matching jobs are counted. The model starts with a classified message: `StoreIntake` is the
transaction of `createRfqFromIntake`, `QueueJobs` the un-awaited enqueues after it, any of
which may be lost. `StoreItems` deletes the old items and their matches; a matching at work
on them has lost its rows (`alive`) and fails on the foreign key. The quality of what the
model or the matcher finds is abstracted to whether there is a result and from which texts.
Every item is assumed to have candidates in the catalogue. `overlapped` notes that two
handlers of the same kind were at work at once; handlers of different kinds may always
overlap.

### QuoteWorkflow
One RFQ and its quote. `Operator` slots are staff requests in flight; a slot's record says
at which await the request is, the status it read, and the contents it carries. `visits`
are portal requests whose link was found good. The transactions do not check, as in the code,
what the request had checked; `torn` notes when one is applied to a state other than the one
its request read, so that a property can say "unless a request was stale" and mean exactly
that. A transaction that records a status is two steps: it begins, and its event is stamped;
it commits, and the status is written (`Record`). In between it waits for the quote's row or
holds it (READ COMMITTED), so two that are open at once may stamp in one order and write in
the other. `open`, `before` and `overtaken` keep the order of the stamps; `crossed` notes that
the last one to commit was not alone. Calls that are not awaited, the pipeline updates, the
export job and the event, wait in `later`: they are made in any order, or fail with a line in
the log (`LaterFails`). What a failed call or a crash takes away is in `lost`. The pipeline
status may be set by hand at any time (`OverridePipeline`); the model writes "byHand" for it,
so that the property speaks of what the program sets. `reviseQuote` always rolls back (see the
findings). Share links may be created in any status, expire, are revoked, and are marked used
by the answer's own transaction. `draft` is what the e-mail draft quotes; its sending is in
`Outbox`.

`QuoteLifecycle` is the same quote without requests: each of its steps is taken in the state it
is meant for, or owns up by setting `torn`, and even then a quote exists before anything
happens to it, nobody is told before an approval, and only an answer answers. The mapping takes
`told` to "a draft quotes the text, or the approval is announced" and `answered` to the links
used at least once. A check and the transaction behind it, several steps apart, become one.

### Outbox
One quote. `approval` follows the approver's own request past its commit: the draft is
generated, then the export job and the event are asked for without being awaited
(`emitting`, `asked`). The quote may be approved again (`ApproveAgain`), by an overlapping
request or after a stale submission: its draft overwrites whatever text there is; its jobs
repeat those of the first and are not followed. The job table is the state of an `INSTANCE` of
`JobLedger`, whose `Accept`, `Execute` and `Close` are conjuncts of `Enqueue`, of the handlers'
steps and of `Settle`: handlers run at least once. A handler's run is a `worker`; POST and row
are separate steps, and an endpoint may be disabled, registered for other events or removed
between any two. A handler may also end with nothing done: the endpoint is gone
(`SkipMissing`), its look-up fails (`SkipUnread`, noted in `missed`), or no sheet is configured
(`SkipExport`). `call` are the requests of the mail tab, the four writes behind a mail one step
each; the text of a mail is named by the request that wrote it. `raced` holds the sends that
ran beside an edit or were followed by another draft. `pipeline` is "sent" by a send and
"other" by everything else that sets it, a clerk included.

### Sessions
One user. Refresh tokens are numbered in the order of creation; `from` names the token a
refresh replaced, `born` counts the resets before its creation, `served` says whether the
account was on at some time of the call that created it: the last two are observers, and the
code keeps neither. Login, refresh and reset are at work across awaits (`call`); logout and
requesting a link are one statement each. An administrator switches the account at any time.

### Workspaces
Calls of sign-up, invitation and user creation, statement by statement: the password is hashed
between check and write, and no transaction holds them together. Slug and address are unique.
Purchases end at Stripe whenever they like, each event is answered once or comes again, in any
order; a checkout session that is open may be paid whenever the customer likes, after the trial
too; a cancellation is two statements (`cancelling`). Transfers name an order; only the current
one can be confirmed. `site` is the environment of the running process: whether billing is
enabled (it is not by default: then the guard admits everyone and the webhook ignores its
events) and whether the webhook's secret is set; `Redeploy` may change it. `chiefs` are the
users the guard admits as super administrators. `cut` and `disorder` note interrupted sign-ups
and events that crossed.

### Pages and Screens
`Pages` holds the web client as tables, each from its own source: the functions of
`apps/web/lib/api.ts` sorted by whether they read or send, the roles every controller admits
on the route behind each, and for every page and panel what it reads when it opens, what
each button calls and does with the answer, which calls disable a button, what its form
sends, and traits such as "reads again when a filter changes" or "leaves an emptied field
out of the request". Nothing reconciles the tables: where a page opens for a role its reads
are refused to, that shows. `Screens` runs one tab over any of them; the actions are what
the page components have in common, with the API as a one-step server that refuses by role.
A route is a pair of a role and a call, a page a record under its name. A call under way keeps
the inputs of the closure that made it; what becomes of its answer is a button's effect, or
"load" (shows it, and fills the form where the page does), or "again" (the reread behind a
button such as `refreshRfqs`, which shows and leaves the form alone).

### How they compose
The modules share no variables. `Outbox` uses `JobLedger`, which `JobQueue` implements;
`RfqPipeline` takes from the queue what `JobLedger` says. `ConnectorSync` ends where
`RfqPipeline` starts, with the stored message. `QuoteWorkflow` ends its account of an
approval where `Outbox` starts. `QuoteWorkflow` and `RfqPipeline` meet in
`rfqPipelineStatus`, which each may find set by the other, or by hand, at any time:
`QuoteWorkflow` and `Outbox` tell what they set themselves from all that. `Sessions` and
`Workspaces` share the user's row, of which one reads `isActive` and the other the existence.
`Screens` sends the calls whose handlers the other modules are about.

## Runs

| Run | Shows | Bounds |
|---|---|---|
| `job_queue` | types; a running row has a runner until a call fails; *done* only after a completed handler; no tick holds a row without attempts, and without overlap at most `maxAttempts` runs and no early failure; the ledger is implemented; every job closes unless a fault or overlap intervenes | 2 rows, one without a handler, 2 ticks, 2 attempts, 2 faults |
| `connectors` | the intake log is implemented: a received message is written at the end, under the next reference, answering an earlier one of its own mailbox, and nothing rewrites it; a message is stored once and joined with its conversation; only stored mail is marked as read | a Gmail and an Outlook connector, 3 mails, 2 runs, 2 retries, 1 event |
| `connector_progress` | every Gmail mail whose mailbox an enabled connector reads is stored, unless unread mail fills the listing | 2 Gmail connectors with mailboxes of their own (one is the environment's too) and a pushing application, 4 mails, one without a sender, listings of 2, 3 events, fairness |
| `rfq_pipeline` | an idle system has extracted all that was read and matched all that was found; candidates are stored once; accepted matches stay | 2 attachments, 2 workers, 2 attempts, 1 rerun, 1 reclassification |
| `rfq_progress` | a message read without an error is extracted unless a call is lost | 2 attachments, 1 worker, 1 fault, fairness |
| `quote_workflow` | the workflow state never claims more than the status, and the latest event is the status whenever the last transaction ran alone; review and draft are of the submitted text unless a request was stale; the program tells nobody before an approval; each follow-up of an approval is made, owed, or lost to its own failure or a crash; a link answers once unless two answers overlapped, never after a revocation; the lifecycle is implemented | 2 texts, 2 staff requests, 1 portal request, 1 link, 1 announcement, 1 fault |
| `portal_single_use` (violation) | one link, two answers | 2 portal requests |
| `outbox` | done jobs left their effect, or had one of three reasons not to; a mail that counts as sent has its row, and its text unless something ran beside that send or the quote was approved again | 1 endpoint, 2 requests of the mail tab, 1 worker, 1 fault |
| `outbox_events` | events reach the endpoints that go on hearing of them | 1 endpoint that hears of one event or both, 1 request, 1 worker, no fault, fairness |
| `sessions` | a reset leaves no older token alive; a token has one successor unless refreshes overlap; accounts that are off get none; a link resets once unless resets overlap | 3 calls at once, 2 links, 3 tokens, 1 event |
| `workspaces` | a sign-up nothing interrupts is whole; with billing enabled the guard admits, super administrators apart, who pays or is in the trial, while events come in order | 2 addresses, 1 slug, 2 calls, 2 purchases, 1 order, 1 event |
| `screens` | a quiet page shows what its inputs ask and at least its own changes; a reported save stands; only seven pages overwrite what is being typed; the routes keep apart who submits and who approves | all pages, every role, 2 filter values, 2 clicks, 1 fault |

Why the bounds suffice for what is asked. Every race in this code is between two actors: a
request that has checked and one that has not, two ticks, two runs, two answers, a handler
and its rerun; a third repeats what one of the two does, since all state is shared and
actors do not know each other. Two attempts already separate "retry" from "give up" (the
code has three, and five for an insert); two rows separate the row in hand from the ones
waiting behind it; two attachments separate "all settled" from "some settled"; two mails
of one mailbox make a conversation, a listing of two with three mails leaves one out, and two
mailboxes let the tick's fallback read the wrong one. One announcement stands for the export
job and the event, which differ in nothing but their name. `outbox_events` has no faults, as its
property excuses them.
In `sessions` a third call lets a reset run beside two refreshes of one token, and three
tokens are a login and two successors. One slug is enough for `workspaces`, since the rows
of different workspaces never meet but in an address; two addresses contend for it. In
`screens` two clicks let answers cross, and a page is one of a table: a run over all of them
is a run over each. Two faults in `job_queue` allow a crash and then a failed query in its
recovery. `rfq_pipeline` has no faults, since its idle-state properties speak of faultless
behaviours; `rfq_progress` has one. Beyond the bounds, the theorems below hold for every
value of them. Attachments, workers, requests, runs and texts are interchangeable, so safety
runs use symmetry; runs with liveness never do.

Deadlock is not checked in the runs of `RfqPipeline`, `ConnectorSync`, `Outbox`, `Sessions`,
`Workspaces` and `Screens`: an RFQ whose jobs are done is at rest, and so are mailboxes,
sessions and purchases once the bound on outside events is used up; a tab that has left its
page stops. In the other runs it is: the cron always fires again, and staff can always send
another request.

## Fairness

- `JobQueue`: the cron keeps firing (`@Cron`), a tick that can go on does, a handler
  returns or throws, and time passes (`BackoffElapses`, `GoesStale`). Weak fairness is
  enough, since these steps stay possible until they are taken. Nothing makes a caller
  enqueue or a fault happen.
- `ConnectorSync`: a run that can go on does (weak), and the Gmail cron ticks again and
  again (strong, since in the model a tick needs a free `Run` slot and other runs may take
  it in between; the code has no such limit). Nothing makes mail arrive or staff act.
- `RfqPipeline`: the cron takes up open jobs, a handler at work goes on, and the intake and
  the reclassification request continue once begun. A language-model call or a parser that
  never returns is excluded; the code sets no timeout of its own around them.
- `Outbox`: look-ups and insertions under way finish, a handler at work goes on (weak), and
  the queue takes up each open job again and again (strong, since workers come and go): this
  is what `EveryJobCloses` says of `JobQueue`. The mail tab's requests have no fairness.
- `QuoteWorkflow`, `Sessions`, `Workspaces`, `Screens`: none; their properties are safety.
  `ApprovalIsFollowedUp` accounts for what is still owed instead of waiting for it.

## Proofs

Everything holds for every value of the constants: any number of rows, ticks, runs, requests,
links, attachments, messages, attempts and faults. Assumptions are those of the modules:
bounds are naturals (positive where the code's constant is), sets of different things are
disjoint, and "none" names nothing. Each module's Proofs file states its inductive invariants
with the argument. Every safety property of every passing run has a theorem, the three
refinements among them. In short:

**JobQueue.** `TypesHold` and `AttemptsStayBounded` come from one invariant, `TypeInv`: the
type of `attempts` depends on no tick holding a row it read as used up, which is
`SnapshotsHaveAttemptsLeft`. `RunningRowsHaveRunners` is inductive with it. `DoneIsEarned`
needs `HandInv`, what a tick knows of the row in hand from where it stands.
`SerialRunsAreBounded` and `SerialFailuresAreFinal` need `SerialInv`: while no two ticks have
overlapped, at most one is in flight and a snapshot is what the row still says (but for the
row in hand, whose attempt was just counted). `QueueImplementsLedger` is the refinement: a
step is `Accept`, `Execute`, `Close` of the rows that some tick just let go of (a crash lets
go of several), or a stutter.

**ConnectorSync.** One invariant, `Inv`. Dense references are inductive with "what a run has
counted is at most the rows there are" (`Knows`): an insert under count + 1001 that is not
refused takes the next reference. That a mail is not stored and its conversation unknown
(`Fresh`) stays true only while no other run reads the same source (`Alone`), so
`OneConversationOneRfq` is split along `overlapped`. `Sourced` keeps the messages and
connectors of a run within its source. `SyncImplementsLog` adds that runs only hold messages
that have arrived (`Fetched`), and that the rows, taken in the order of their references, are a
sequence as long as there are references (`InOrder`): that is where density is needed. Then an
insert appends one entry (`LogGrows`), and a step that leaves the rows alone leaves the log
alone (`LogStays`).

**RfqPipeline.** `TypesHold`; and `ExtractionWaits`: items are extracted only when all
attachments are settled. Its invariant adds that a handler past its guard, too, has seen
them settled; it is kept because an attachment never becomes pending again.
`SerialMatchesAreStoredOnce` needs `MatchInv`: while no two handlers of a kind have
overlapped, one matching is at work, and if its items are still there it only goes on to
store candidates when there are none. `RestIsComplete` is about who
owes what is missing. Matches are owed by an extraction about to ask for them, an open job,
or a matching whose items are alive (`MatchDue`). While nothing was lost, overlapped or
found blank (`Calm`), texts that are not aggregated yet are in the hands of a parse handler
(`Collected`), and items that are not of all the texts are owed by a handler that will ask
for an extraction, an open job, or an extraction that has read all the texts (`Due`). At rest
nobody owes anything. `AcceptedMatchIsNotReplaced` is an action property: an accepted match is
lost only with its item, and items are only replaced by a second extraction. `OnceInv` says why
there is no second one while nothing has disturbed the RFQ (`Undisturbed`): each attachment is
parsed by one run of one job, a parsed attachment whose job has not ended is in that run's hands
(`InHand`), so the extraction is asked for by the last of them (`AskedLast`), once
(`AskedOnce`). `Behind` holds whatever happens: candidates and acceptance have items behind them.

**QuoteWorkflow.** `ToldInv` says what a slot's stage implies (who is past the approval has an
approved, submitted quote), and gives `TellingFollowsApproval`; `FollowUpIsNotDropped` adds
(`FollowInv`) that an approved quote has a text, so that a draft of it is one. `HistoryIsKept`
rests on `AloneInv`: a transaction that was never open beside another (`met`) cannot have been
overtaken. `WorkflowStaysBehind` is inductive by itself. `ReviewInv` strengthens
`ReviewIsOfTheSubmitted` by what the requests in flight carry while nothing is torn, and also
gives `DraftIsOfTheSubmitted`. `AnswersAreFinal` and `LinksBind` are action properties;
`LinkInv` counts a link's answers by the state of its row. `QuoteImplementsLifecycle` rests on
all of them: where a transaction finds another state than its request had read, `torn` is set
by the same step; where it finds the same one, `ReviewInv` and `LinkInv` give the guard of the
abstract step. `LifeInv` adds that a request that has read a status has read a quote's, and
that an approved quote has contents.

**Outbox.** `DoneInv`: a handler past its POST has what it is about to record (`RunIsRight`),
and an executed job is on record, skipped or missed. `MailInv`: a send that has not failed
carries the text that stands while nothing has `raced` it, and a mail or a pipeline that counts
as sent has a send that got as far. `OutboxKeepsLedger`: the jobs of
`Outbox` are a behaviour of `JobLedger`, so the module asks nothing of the queue but what
`QueueImplementsLedger` proves of it.

**Sessions.** `CallInv` and `TokenInv` bind slots and tokens to what was issued;
`ResetsEndSessions` is inductive with them, since a reset kills every token there is and an
issue is stamped with the resets so far. `ServedInv`, `ChainInv` and `LinkInv` say what a call
past its check knows, or that what it works on has raced.

**Workspaces.** Three layers. `TInv`: types. `SInv`: one sign-up per slug, and each step of a
sign-up finds the rows its earlier steps wrote. `BInv`: a workspace whose payment events came
in order is in one of six phases (resting, paying, buying, both events under way, ending,
being cancelled), and each of these settles what the guard says of its users while billing is
enabled; an event the webhook ignores, switched off or without its secret, counts as disorder.

**Screens.** The properties hold because of what the tables say, so the proofs first read off
the tables what they need, page by page: what pages read changes nothing (`PagesAreSound`), all
pages but seven fill their form at most once, before it can be typed in (`PagesFillOnce`), all but
the RFQ page let no other renewal run beside a button that renews (`PagesRefillAlone`), and no
controller gives one role both submission and approval (`RoutesAreApart`). A new page or route
breaks the lemma that reads it. On these: `Base`, types and the numbering of calls; `Allowed`,
what was served was allowed, gives `DutiesAreApart`; `Sole` and `Stands`, a write that was alone
leaves its text, give `SavedIsStored`; `FirstLoad` and `NotLost` give `TypingIsKeptElsewhere`;
`OneRefill`, `Fresh` and `Asked`, the last call asked is at least as new as the tab's own change
and was made with the inputs unless a reread took over older ones, give `ScreenIsKeptUp`. The
invariants are stated of the kind of page (`FillsOnce(p)`, `RefillsAlone(p)`), not of page names.

**Only model-checked.** Everything under fairness, which is beyond the prover:
`EveryJobCloses`, `MailGetsStored`, `ReadGetsExtracted`, `EventsAreTried`; and the
counterexample to single use of links. No function of the program is specified by recursion, so
nothing rests on induction over data.

## What the code does not keep

Places where the code disagrees with what the repository says of it, or with itself; details
and lines are in `PROJECT.json`, "findings". The first has a counterexample run
(`portal_single_use`); the others were met while the lines were translated. Where one is about
the control of a modelled operation, the model does what the code does, and the properties
name it as an exception; those about a value or a link's address are only listed.

- *Links*: magic links are not single-use when two answers overlap.
- *Jobs*: recovery of stale jobs ignores used-up attempts: a job lost in its last attempt is
  put back to pending and never read again; twenty such rows, being the oldest, fill every
  batch.
- *Connectors*: a failing mailbox is not disabled, since its run keeps the error to itself and
  the count is cleared (only a run that cannot be recorded counts as a failure); disabling the
  last connector makes the tick use the environment's credentials; the OAuth2 callback drops
  the client id and secret a refresh needs; pushed files are recorded and never stored; skipped
  mail stays unread until it fills the listing; failed runs are counted under a status no run
  has.
- *Attachments*: one whose parser keeps throwing prevents the extraction.
- *Quotes*: a draft saved while a quote is created from matches is overwritten; answered
  quotes can be edited although only drafts should be; `reviseQuote` always fails on the
  unique `rfqId`; portal and staff write event and status in opposite orders, so that the two
  may part; a discounted quote saved again loses the discount from its total.
- *Outgoing*: a webhook is never retried, and not tried when its endpoint could not be looked
  up; a mail the provider refused, or for which no key is set, is recorded as sent; a second
  approval overwrites the text of a mail that was sent.
- *Accounts*: the billing guard refuses the very calls that would pay; two of the links that
  are mailed lead to no page; the page of a SePay order shows no account.
- *Pages*: lists are reread with an older filter; a cleared field, or a quote's cleared
  customer, is reported as saved; pages open for roles whose reads are refused, and refuse a
  super administrator; an unsaved edit is not in the mail that is sent or the quote that is
  submitted; a save may be overwritten on the screen by an older read.

Stated as exclusions in the properties: overlapping handlers of a kind (older text, duplicate
candidates), overlapping runs on a source (two RFQs of one conversation), stale requests
(`torn`), status transactions open at once (`crossed`), follow-ups lost to a failure or a crash
(`lost`), refreshes and resets that overlap (`raced`), an edit or a second draft beside a send,
a full listing (`Clogged`), payment events out of order (`disorder`), sign-ups cut short
(`cut`).

## What is left

1. Abstract specifications of a session (a chain of tokens that a reset ends) and of an RFQ's
   reading (texts, items and candidates without handlers), implemented by `Sessions` and
   `RfqPipeline`.
2. A workspace column on the rows of `ConnectorSync` and `QuoteWorkflow`, if the isolation of
   workspaces becomes more than a filter on queries.
3. The totals of a quote as functions, checked against their definition.
4. The enrichment's suggestions, if they come to be confirmed by more than one user at a time.
