----------------------------- MODULE RfqPipeline -----------------------------
(***************************************************************************)
(* What happens to one inbound RFQ between its intake and its matches:     *)
(* createRfqFromIntake (rfqs/rfq-intake.service.ts), the job handlers      *)
(* attachment_parse, rfq_extract and item_match (jobs/jobs.service.ts)     *)
(* with the services they call (attachments/attachment.service.ts,         *)
(* rfqs/rfq-extraction.service.ts, matching/item-matching.service.ts), and *)
(* what staff may do meanwhile.                                            *)
(*                                                                         *)
(* The queue is taken for what JobLedger promises of it: a job is run at   *)
(* least once until it closes. A Worker is a tick of the cron with a       *)
(* handler at work; the rows that a second tick, a recovery or a failed    *)
(* "done" runs again are the reruns. The quote of the RFQ is the subject   *)
(* of QuoteWorkflow.                                                       *)
(***************************************************************************)
EXTENDS Naturals, FiniteSets

CONSTANTS
    Att,          \* the attachments of the message
    Worker,       \* bound: ticks with a handler at work at once
    MaxAttempts,  \* attempts of a job, 3 in the code
    MaxOpen,      \* bound: open rfq_extract (and item_match) jobs told apart
    MaxReruns,    \* bound: runs of a job beyond the ones it was enqueued for
    MaxMoves,     \* bound: times the pipeline status is set from outside
    MaxFaults     \* bound: crashes and lost calls

ASSUME MaxAttemptsAssumption == MaxAttempts \in Nat \ {0}
ASSUME BoundsAssumption == /\ MaxOpen \in Nat \ {0}
                           /\ MaxReruns \in Nat /\ MaxMoves \in Nat
                           /\ MaxFaults \in Nat

VARIABLES
    intake,      \* "none", "stored" (transaction committed), "queued" (jobs asked for)
    parse,       \* [Att -> ParseStatus]: RfqAttachment.parseStatus
    job,         \* [Att -> JobState]: the attachment_parse job of each attachment
    tries,       \* [Att -> 0..MaxAttempts]: its attempts
    content,     \* attachments whose text RfqIntake.attachmentContent includes
    extracts,    \* open rfq_extract jobs, saturating
    matchJobs,   \* open item_match jobs, saturating
    items,       \* the extracted items: whether there are any, and from which texts
    copies,      \* times the candidates of the items were stored, saturating at 2
    accepted,    \* a match has been accepted or overridden
    pipeline,    \* RfqIntake.rfqPipelineStatus
    reclass,     \* the PATCH that reclassifies the RFQ
    work,        \* [Worker -> Work]: the handlers at work
    unread,      \* observer: attachments whose latest parse threw
    tried,       \* observer: extraction has got past its guard
    blank,       \* observer: some extraction ended without a result
    moves,       \* times the pipeline status was set from outside
    overlapped,  \* observer: two handlers of a kind have been at work at once
    reruns,      \* reruns so far
    faults       \* faults so far

files == <<parse, job, tries, content, unread>>
found == <<items, copies, accepted>>
open == <<extracts, matchJobs>>
staff == <<pipeline, reclass, moves>>
marks == <<tried, blank, overlapped, reruns, faults>>
vars == <<intake, files, found, open, staff, work, marks>>

ParseStatus == {"pending", "done", "failed"}
JobState == {"none", "open", "taken", "closed"}
ParseAt == {"parse", "collect", "store", "enqueue"}
ExtractAt == {"x_count", "x_store", "x_status", "x_ready", "x_enqueue"}
MatchAt == {"m_count", "m_create"}
Kinds == {ParseAt, ExtractAt, MatchAt}
Next3 == {"again", "enqueue", "throw"}

\* A handler at work: its step, its attachment, what it read, what follows the
\* aggregation, and whether the items it read still exist.
Work == [at : {"idle"} \cup ParseAt \cup ExtractAt \cup MatchAt,
         att : SUBSET Att, seen : SUBSET Att, then : Next3, alive : BOOLEAN]
Idle == [at |-> "idle", att |-> {}, seen |-> {}, then |-> "again", alive |-> TRUE]

Init ==
    /\ intake = "none"
    /\ parse = [a \in Att |-> "pending"]
    /\ job = [a \in Att |-> "none"] /\ tries = [a \in Att |-> 0]
    /\ content = {} /\ unread = {}
    /\ extracts = 0 /\ matchJobs = 0
    /\ items = [any |-> FALSE, from |-> {}] /\ copies = 0 /\ accepted = FALSE
    /\ pipeline = "classified" /\ reclass = "idle" /\ moves = 0
    /\ work = [w \in Worker |-> Idle]
    /\ tried = FALSE /\ blank = FALSE /\ overlapped = FALSE
    /\ reruns = 0 /\ faults = 0

-----------------------------------------------------------------------------
(* Helpers *)

Settled == \A a \in Att : parse[a] # "pending"
Parsed == {a \in Att : parse[a] = "done"}

\* One more open job of a kind that has n.
OneMore(n) == IF n < MaxOpen THEN n + 1 ELSE n

\* Worker w goes on with the fields of step replaced.
Goto(w, step) == work' = [work EXCEPT ![w] = step]
Stop(w) == Goto(w, Idle)

\* A handler starts; note whether another one of its kind is at work.
Begin(w, step) ==
    /\ work[w] = Idle
    /\ Goto(w, step)
    /\ overlapped' = (overlapped \/ \E u \in Worker \ {w}, kind \in Kinds :
                                       work[u].at \in kind /\ step.at \in kind)

Rerun == reruns < MaxReruns /\ reruns' = reruns + 1
Fault == faults < MaxFaults /\ faults' = faults + 1

-----------------------------------------------------------------------------
(* createRfqFromIntake, for a message classified as an RFQ and no reply *)

StoreIntake ==
    /\ intake = "none"
    /\ intake' = "stored"
    /\ UNCHANGED <<files, found, open, staff, work, marks>>

\* After the commit, one attachment_parse job per attachment, or an rfq_extract job
\* when there is none. Nothing waits for the enqueues of Lost, which fail.
QueueJobs(Lost) ==
    /\ intake = "stored"
    /\ intake' = "queued"
    /\ IF Lost = {} THEN UNCHANGED faults ELSE Fault
    /\ job' = [a \in Att |-> IF a \in Lost THEN "none" ELSE "open"]
    /\ extracts' = IF Att = {} THEN OneMore(extracts) ELSE extracts
    /\ UNCHANGED <<parse, tries, content, unread, found, matchJobs, staff, work,
                   tried, blank, overlapped, reruns>>

-----------------------------------------------------------------------------
(* attachment_parse *)

\* parseAttachment returns at once for an attachment that is done; the handler then
\* aggregates like after any other parse.
StartParse(w, a) ==
    /\ \/ job[a] = "open" /\ UNCHANGED reruns
       \/ job[a] \in {"taken", "closed"} /\ Rerun
    /\ Begin(w, [Idle EXCEPT !.at = IF parse[a] = "done" THEN "collect" ELSE "parse",
                             !.att = {a}, !.then = "enqueue"])
    /\ job' = [job EXCEPT ![a] = "taken"]
    /\ UNCHANGED <<intake, parse, tries, content, unread, found, open, staff, tried,
                   blank, faults>>

\* Mutant of ParseReturns: a status of its own for an unsupported type.
ParseReturns_Unsupported(w, a, outcome) ==
    /\ work[w].at = "parse" /\ a \in work[w].att
    /\ parse' = [parse EXCEPT ![a] = IF outcome = "done" THEN "done" ELSE "unsupported"]
    /\ unread' = unread \ {a}
    /\ Goto(w, [work[w] EXCEPT !.at = "collect", !.then = "again"])
    /\ UNCHANGED <<intake, job, tries, content, found, open, staff, marks>>

\* The text is stored, or the type is unsupported and the attachment has failed
\* without an error. Then parseAttachment aggregates, and the handler again.
ParseReturns(w, a, outcome) ==
    /\ work[w].at = "parse" /\ a \in work[w].att
    /\ parse' = [parse EXCEPT ![a] = outcome]
    /\ unread' = unread \ {a}
    /\ Goto(w, [work[w] EXCEPT !.at = "collect", !.then = "again"])
    /\ UNCHANGED <<intake, job, tries, content, found, open, staff, marks>>

\* The parser throws: the attachment is marked failed, the contents are aggregated,
\* and the error goes on to the queue.
ParseThrows(w, a) ==
    /\ work[w].at = "parse" /\ a \in work[w].att
    /\ parse' = [parse EXCEPT ![a] = "failed"]
    /\ unread' = unread \cup {a}
    /\ Goto(w, [work[w] EXCEPT !.at = "collect", !.then = "throw"])
    /\ UNCHANGED <<intake, job, tries, content, found, open, staff, marks>>

\* The job of attachment a ends, in failure when its handler threw.
Close(a, threw) ==
    LET n == IF tries[a] < MaxAttempts THEN tries[a] + 1 ELSE tries[a]
    IN  /\ tries' = [tries EXCEPT ![a] = n]
        /\ job' = [job EXCEPT ![a] = IF threw /\ n < MaxAttempts THEN "open" ELSE "closed"]

\* What follows an aggregation: the handler's own one, the rfq_extract job if that
\* one has been written, or the end.
AfterCollect(w, a, written) ==
    CASE work[w].then = "again" ->
           /\ Goto(w, [work[w] EXCEPT !.at = "collect", !.then = "enqueue"])
           /\ UNCHANGED <<job, tries>>
      [] work[w].then = "enqueue" /\ written ->
           /\ Goto(w, [work[w] EXCEPT !.at = "enqueue"])
           /\ UNCHANGED <<job, tries>>
      [] OTHER ->
           /\ Stop(w)
           /\ Close(a, work[w].then = "throw")

\* Mutant of Collect: one settled attachment is enough.
Collect_Any(w, a) ==
    /\ work[w].at = "collect" /\ a \in work[w].att
    /\ IF \E b \in Att : parse[b] # "pending"
         THEN /\ Goto(w, [work[w] EXCEPT !.at = "store", !.seen = Parsed])
              /\ UNCHANGED <<job, tries>>
         ELSE AfterCollect(w, a, FALSE)
    /\ UNCHANGED <<intake, parse, content, unread, found, open, staff, marks>>

\* Mutant of Collect: it waits until all attachments are done, not just settled.
Collect_AllDone(w, a) ==
    /\ work[w].at = "collect" /\ a \in work[w].att
    /\ IF Parsed = Att
         THEN /\ Goto(w, [work[w] EXCEPT !.at = "store", !.seen = Parsed])
              /\ UNCHANGED <<job, tries>>
         ELSE AfterCollect(w, a, FALSE)
    /\ UNCHANGED <<intake, parse, content, unread, found, open, staff, marks>>

\* aggregateAttachmentContent reads the attachments: all settled, or nothing to do.
Collect(w, a) ==
    /\ work[w].at = "collect" /\ a \in work[w].att
    /\ IF Settled
         THEN /\ Goto(w, [work[w] EXCEPT !.at = "store", !.seen = Parsed])
              /\ UNCHANGED <<job, tries>>
         ELSE AfterCollect(w, a, FALSE)
    /\ UNCHANGED <<intake, parse, content, unread, found, open, staff, marks>>

\* It writes what it has read.
Store(w, a) ==
    /\ work[w].at = "store" /\ a \in work[w].att
    /\ content' = work[w].seen
    /\ AfterCollect(w, a, TRUE)
    /\ UNCHANGED <<intake, parse, unread, found, open, staff, marks>>

EnqueueExtract(w, a) ==
    /\ work[w].at = "enqueue" /\ a \in work[w].att
    /\ extracts' = OneMore(extracts)
    /\ Stop(w) /\ Close(a, FALSE)
    /\ UNCHANGED <<intake, parse, content, unread, found, matchJobs, staff, marks>>

-----------------------------------------------------------------------------
(* rfq_extract *)

\* extractAsync reads the intake, with the contents aggregated so far.
StartExtract(w) ==
    /\ \/ extracts > 0 /\ extracts' = extracts - 1 /\ UNCHANGED reruns
       \/ tried /\ Rerun /\ UNCHANGED extracts
    /\ Begin(w, [Idle EXCEPT !.at = "x_count", !.seen = content])
    /\ UNCHANGED <<intake, files, found, matchJobs, staff, tried, blank, faults>>

\* With an attachment still pending the extraction is left to a later job.
CheckPending(w) ==
    /\ work[w].at = "x_count"
    /\ IF Settled THEN Goto(w, [work[w] EXCEPT !.at = "x_store"]) /\ tried' = TRUE
                  ELSE Stop(w) /\ UNCHANGED tried
    /\ UNCHANGED <<intake, files, found, open, staff, blank, overlapped, reruns, faults>>

\* The model has answered: one transaction replaces the items, and with the old ones
\* go their matches, accepted ones included.
StoreItems(w, any) ==
    /\ work[w].at = "x_store"
    /\ items' = [any |-> any, from |-> work[w].seen]
    /\ copies' = 0 /\ accepted' = FALSE
    /\ work' = [u \in Worker |->
                  IF u # w THEN [work[u] EXCEPT !.alive = @ /\ work[u].at \notin MatchAt]
                  ELSE IF any THEN [work[w] EXCEPT !.at = "x_status"] ELSE Idle]
    /\ UNCHANGED <<intake, files, open, staff, marks>>

\* No model, no answer that parses, or an error, which extractAsync swallows: the
\* job is done all the same.
ExtractFails(w) ==
    /\ work[w].at = "x_store"
    /\ Stop(w)
    /\ blank' = TRUE
    /\ UNCHANGED <<intake, files, found, open, staff, tried, overlapped, reruns, faults>>

ReadStatus(w) ==
    /\ work[w].at = "x_status"
    /\ Goto(w, [work[w] EXCEPT
                  !.at = IF pipeline = "classified" THEN "x_ready" ELSE "x_enqueue"])
    /\ UNCHANGED <<intake, files, found, open, staff, marks>>

SetReady(w) ==
    /\ work[w].at = "x_ready"
    /\ pipeline' = "ready_for_quote"
    /\ Goto(w, [work[w] EXCEPT !.at = "x_enqueue"])
    /\ UNCHANGED <<intake, files, found, open, reclass, moves, marks>>

\* Mutant of EnqueueMatch: the matching is left out.
EnqueueMatch_Forgotten(w) ==
    /\ work[w].at = "x_enqueue"
    /\ Stop(w)
    /\ UNCHANGED <<intake, files, found, open, staff, marks>>

EnqueueMatch(w) ==
    /\ work[w].at = "x_enqueue"
    /\ matchJobs' = OneMore(matchJobs)
    /\ Stop(w)
    /\ UNCHANGED <<intake, files, found, extracts, staff, marks>>

-----------------------------------------------------------------------------
(* item_match *)

\* matchItemsForRfq reads the items; without any (or without products) it returns.
StartMatch(w) ==
    /\ \/ matchJobs > 0 /\ matchJobs' = matchJobs - 1 /\ UNCHANGED reruns
       \/ items.any /\ Rerun /\ UNCHANGED matchJobs
    /\ items.any
    /\ Begin(w, [Idle EXCEPT !.at = "m_count"])
    /\ UNCHANGED <<intake, files, found, extracts, staff, tried, blank, faults>>

NothingToMatch ==
    /\ matchJobs > 0 /\ ~items.any
    /\ matchJobs' = matchJobs - 1
    /\ UNCHANGED <<intake, files, found, extracts, staff, work, marks>>

\* Mutant of CountMatches: matches are stored again on every run.
CountMatches_Skipped(w) ==
    /\ work[w].at = "m_count"
    /\ Goto(w, [work[w] EXCEPT !.at = "m_create"])
    /\ UNCHANGED <<intake, files, found, open, staff, marks>>

\* An item that has matches keeps them; items that were replaced have none.
CountMatches(w) ==
    /\ work[w].at = "m_count"
    /\ IF work[w].alive /\ copies > 0 THEN Stop(w)
                                      ELSE Goto(w, [work[w] EXCEPT !.at = "m_create"])
    /\ UNCHANGED <<intake, files, found, open, staff, marks>>

CreateMatches(w) ==
    /\ work[w].at = "m_create" /\ work[w].alive
    /\ copies' = IF copies < 2 THEN copies + 1 ELSE copies
    /\ Stop(w)
    /\ UNCHANGED <<intake, files, items, accepted, open, staff, marks>>

\* The items it read were replaced: the foreign key refuses the matches, the handler
\* throws, and the job is tried again or has no attempts left.
CreateMatchesFails(w) ==
    /\ work[w].at = "m_create" /\ ~work[w].alive
    /\ matchJobs' \in {matchJobs, OneMore(matchJobs)}
    /\ Stop(w)
    /\ UNCHANGED <<intake, files, found, extracts, staff, marks>>

-----------------------------------------------------------------------------
(* Staff *)

\* updateMatch: accept or override.
AcceptMatch ==
    /\ copies > 0 /\ ~accepted
    /\ accepted' = TRUE
    /\ UNCHANGED <<intake, files, items, copies, open, staff, work, marks>>

\* updatePipelineStatus, by hand or for a quote that was drafted.
SetPipeline(s) ==
    /\ intake # "none" /\ reclass = "idle" /\ moves < MaxMoves
    /\ pipeline' = s
    /\ moves' = moves + 1
    /\ reclass' = IF s = "classified" THEN "check" ELSE "idle"
    /\ UNCHANGED <<intake, files, found, open, work, marks>>

\* Back to classified: ask for an extraction unless one is pending or running.
LookForExtract ==
    /\ reclass = "check"
    /\ reclass' = IF extracts > 0 \/ \E w \in Worker : work[w].at \in ExtractAt
                    THEN "idle" ELSE "enqueue"
    /\ UNCHANGED <<intake, files, found, open, pipeline, moves, work, marks>>

EnqueueAgain ==
    /\ reclass = "enqueue"
    /\ extracts' = OneMore(extracts)
    /\ reclass' = "idle"
    /\ UNCHANGED <<intake, files, found, matchJobs, pipeline, moves, work, marks>>

-----------------------------------------------------------------------------
(* Failures *)

\* The process dies. The queue recovers the parse jobs that were at work unless this
\* was their last attempt; extraction and matching jobs may or may not come back.
Crash ==
    /\ Fault
    /\ work' = [w \in Worker |-> Idle]
    /\ reclass' = "idle"
    /\ intake' = IF intake = "stored" THEN "queued" ELSE intake
    /\ LET hit == {a \in Att : job[a] = "taken"}
       IN  /\ tries' = [a \in Att |-> IF a \in hit /\ tries[a] < MaxAttempts
                                        THEN tries[a] + 1 ELSE tries[a]]
           /\ job' = [a \in Att |-> IF a \in hit
                                      THEN IF tries[a] + 1 < MaxAttempts THEN "open"
                                                                         ELSE "closed"
                                      ELSE job[a]]
    /\ extracts' \in {extracts, OneMore(extracts)}
    /\ matchJobs' \in {matchJobs, OneMore(matchJobs)}
    /\ UNCHANGED <<parse, content, unread, found, pipeline, moves, tried, blank,
                   overlapped, reruns>>

-----------------------------------------------------------------------------
(* Specification *)

HandlerStep(w) ==
    \/ \E a \in Att : \/ \E outcome \in {"done", "failed"} : ParseReturns(w, a, outcome)
                      \/ ParseThrows(w, a)
                      \/ Collect(w, a) \/ Store(w, a) \/ EnqueueExtract(w, a)
    \/ CheckPending(w) \/ ExtractFails(w)
    \/ \E any \in BOOLEAN : StoreItems(w, any)
    \/ ReadStatus(w) \/ SetReady(w) \/ EnqueueMatch(w)
    \/ CountMatches(w) \/ CreateMatches(w) \/ CreateMatchesFails(w)

StartJob(w) == (\E a \in Att : StartParse(w, a)) \/ StartExtract(w) \/ StartMatch(w)

Staff == \/ AcceptMatch
         \/ \E s \in {"classified", "elsewhere"} : SetPipeline(s)
         \/ LookForExtract \/ EnqueueAgain

Next ==
    \/ StoreIntake
    \/ \E Lost \in SUBSET Att : QueueJobs(Lost)
    \/ \E w \in Worker : StartJob(w) \/ HandlerStep(w)
    \/ NothingToMatch
    \/ Staff
    \/ Crash

Spec == Init /\ [][Next]_vars

\* The cron takes up open jobs, handlers at work go on, and the intake request and
\* the reclassification continue once begun.
FairSpec ==
    /\ Spec
    /\ WF_vars(QueueJobs({}))
    /\ WF_vars(NothingToMatch) /\ WF_vars(LookForExtract) /\ WF_vars(EnqueueAgain)
    /\ \A w \in Worker : WF_vars(StartJob(w)) /\ WF_vars(HandlerStep(w))

-----------------------------------------------------------------------------
(* Properties *)

\* Every variable keeps its type.
TypeOK ==
    /\ intake \in {"none", "stored", "queued"}
    /\ parse \in [Att -> ParseStatus] /\ job \in [Att -> JobState]
    /\ tries \in [Att -> 0 .. MaxAttempts]
    /\ content \subseteq Att /\ unread \subseteq Att
    /\ extracts \in 0 .. MaxOpen /\ matchJobs \in 0 .. MaxOpen
    /\ items \in [any : BOOLEAN, from : SUBSET Att]
    /\ copies \in 0 .. 2 /\ accepted \in BOOLEAN
    /\ pipeline \in {"classified", "ready_for_quote", "elsewhere"}
    /\ reclass \in {"idle", "check", "enqueue"}
    /\ work \in [Worker -> Work]
    /\ tried \in BOOLEAN /\ blank \in BOOLEAN /\ overlapped \in BOOLEAN
    /\ moves \in 0 .. MaxMoves
    /\ reruns \in 0 .. MaxReruns /\ faults \in 0 .. MaxFaults

\* Items are never extracted from a message some of whose attachments are still to
\* be parsed, whoever asked for the extraction (rfq-extraction.service.ts:50-60).
ItemsOnlyAfterParse == items.any => Settled

\* The process has nothing left to do for the RFQ.
Quiet ==
    /\ intake = "queued" /\ reclass = "idle"
    /\ extracts = 0 /\ matchJobs = 0
    /\ \A a \in Att : job[a] = "closed"
    /\ \A w \in Worker : work[w] = Idle

\* When all work is done, no call was lost, no two handlers of a kind overlapped, every
\* extraction had a result and no attachment was given up on after an error, the
\* items were extracted from all the texts that could be read (the enqueues of
\* jobs.service.ts:41-49, the guard of rfq-extraction.service.ts:52-60).
QuietMeansExtracted ==
    (Quiet /\ faults = 0 /\ ~overlapped /\ ~blank /\ unread = {})
      => tried /\ items.from = Parsed

\* When all work is done and nothing was lost, items that were found have matches,
\* even if they were replaced while matching was at work, and however the handlers
\* overlapped (item-matching.service.ts:115-150, rfq-extraction.service.ts:176-181).
QuietMeansMatched == (Quiet /\ faults = 0 /\ items.any) => copies > 0

\* An RFQ at rest is complete: extracted from all that could be read, and matched.
QuietMeansComplete == QuietMeansExtracted /\ QuietMeansMatched

\* As long as no two handlers of a kind overlap, the candidates of an item are
\* stored once, however often its jobs are run (item-matching.service.ts:115-118).
MatchedOnce == ~overlapped => copies <= 1

\* A match that was accepted is only lost, with its item, to a second extraction,
\* and a second one takes an overlap, a rerun, a parse error, or a reclassification
\* (rfq-extraction.service.ts:131 deletes the items, matches cascade).
AcceptedMatchStays ==
    [][(accepted /\ ~accepted') =>
         \/ overlapped \/ reruns > 0 \/ moves > 0 \/ faults > 0
         \/ \E a \in Att : tries[a] > 1]_vars

\* An RFQ whose attachments have all been read, or refused, gets an extraction,
\* unless a call is lost (jobs.service.ts:40-49).
ReadGetsExtracted ==
    (intake = "queued" /\ Settled /\ unread = {})
      ~> (tried \/ faults > 0 \/ unread # {})

=============================================================================
