---------------------------- MODULE ConnectorSync ----------------------------
(***************************************************************************)
(* How messages become RFQs: the connector rows of the registry            *)
(* (connector-registry), the hourly scheduler and its runs (scheduler),    *)
(* the mailboxes that are polled (gmail, outlook), the applications that   *)
(* push (slack, whatsapp, telegram, zalo), and the loop that stores one    *)
(* message under a reference of its own (rfqs/rfq-intake.service.ts).      *)
(*                                                                         *)
(* A run is a scheduled tick, a manual synchronisation, a poll on the      *)
(* environment's credentials, or one pushed message. Every await between   *)
(* two queries is a step boundary. The jobs asked for after a message is   *)
(* stored are the subject of RfqPipeline.                                  *)
(***************************************************************************)
EXTENDS Integers, FiniteSets

CONSTANTS
    Gmail, Outlook, Chat,  \* rows that may be created, by type; Chat is App's
    Configured,   \* what the environment has credentials for: "gmail", "outlook"
    Box,          \* the mailbox each row's, and the environment's, credentials open:
                  \* the mail it will hold, numbered in order of receipt
    Pushed,       \* messages that are pushed
    Kind,         \* what a message holds: "text", "file", "other" (see the readers)
    App,          \* the application that pushes, "email" for the intake endpoint
    Run,          \* bound: runs at once
    MaxResults,   \* messages of one listing, 20 (Gmail) or 50 (Outlook)
    MaxRetries,   \* attempts to store one message, 5
    Threshold,    \* failures that disable a connector, 5
    MaxEvents     \* bound: crashes, lost calls and changes of the registry by staff

Connector == Gmail \cup Outlook \cup Chat
GmailMail == UNION {Box[c] : c \in Gmail \cup {"env"}}
OutlookMail == UNION {Box[c] : c \in Outlook}
Mail == GmailMail \cup OutlookMail
Msg == Mail \cup Pushed

\* Messages that share a source, and a conversation.
Source == {Box[c] : c \in DOMAIN Box} \cup {Pushed}

ASSUME MessagesAssumption ==
    /\ Box \in [Gmail \cup Outlook \cup {"env"} -> SUBSET (Nat \ {0})]
    /\ \A b, c \in DOMAIN Box : Box[b] = Box[c] \/ Box[b] \cap Box[c] = {}
    /\ Pushed \subseteq Nat \ {0} /\ {"none", "env"} \cap Connector = {}
    /\ Configured \subseteq {"gmail", "outlook"}
    /\ GmailMail \cap OutlookMail = {} /\ Mail \cap Pushed = {}
    /\ Gmail \cap Outlook = {} /\ (Gmail \cup Outlook) \cap Chat = {}
    /\ Kind \in [Msg -> {"text", "file", "other"}]
    /\ App \in {"email", "slack", "whatsapp", "telegram", "zalo"}
ASSUME BoundsAssumption == {MaxResults, MaxRetries, Threshold} \subseteq Nat \ {0}
                           /\ MaxEvents \in Nat

VARIABLES
    conn,        \* [Connector -> Row]: the Connector table
    arrived,     \* messages received so far
    unread,      \* mail that is unread in its mailbox
    intakes,     \* [references in use -> Intake]: Rfq and RfqIntake rows
    run,         \* [Run -> Step]: the runs at work
    overlapped,  \* observer: two runs on one source have been at work at once
    events       \* crashes, lost calls and changes so far

mailbox == <<arrived, unread>>
vars == <<conn, mailbox, intakes, run, overlapped, events>>

Row == [is : {"new", "there", "gone"}, on : BOOLEAN, fails : 0..Threshold]
Intake == [msg : Msg, via : Connector \cup {"none"}, reply : Nat,
           file : {"none", "saved", "missing"}]
Where == {"idle", "list", "look", "thread", "count", "insert", "mark", "record",
          "health", "disable"}
\* A run: its step, what started it, the connector it reads with, the connectors of
\* the tick still to come, the messages left, and what it has read about the first.
Step == [at : Where, how : {"cron", "now", "env", "push"},
         via : Connector \cup {"none"}, rest : SUBSET Connector, todo : SUBSET Msg,
         seen : Nat, reply : Nat, file : {"none", "saved", "missing"},
         tries : 0..MaxRetries, err : BOOLEAN]
Idle == [at |-> "idle", how |-> "cron", via |-> "none", rest |-> {}, todo |-> {},
         seen |-> 0, reply |-> 0, file |-> "none", tries |-> 0, err |-> FALSE]

-----------------------------------------------------------------------------
(* Helpers *)

Refs == DOMAIN intakes
Stored(m) == \E x \in Refs : intakes[x].msg = m
BoxOf(m) == CHOOSE B \in Source : m \in B

\* The source a run reads: what was pushed, or the mailbox its credentials open.
BoxOfRun(s) == IF s.how = "push" THEN Pushed
               ELSE Box[IF s.via \in Gmail \cup Outlook THEN s.via ELSE "env"]

Enabled(C) == {c \in C : conn[c].is = "there" /\ conn[c].on}

\* The listing of a mailbox: its newest unread messages, up to MaxResults.
Listing(B) ==
    {m \in unread \cap B : Cardinality({n \in unread \cap B : n > m}) < MaxResults}

\* They are handled in the order of the listing, the newest first.
Newest(S) == {m \in S : \A n \in S : n <= m}

Goto(r, step) == run' = [run EXCEPT ![r] = step]
Event == events < MaxEvents /\ events' = events + 1

\* A run turns to a source; whether another is at work on it is observed.
TurnTo(r, step) ==
    /\ Goto(r, step)
    /\ overlapped' = (overlapped \/ \E q \in Run \ {r} : run[q] # Idle
                                        /\ BoxOfRun(run[q]) = BoxOfRun(step))

Begin(r, step) == run[r] = Idle /\ TurnTo(r, step)

-----------------------------------------------------------------------------
(* What starts a run *)

\* runGmail: the enabled connectors, read once, one after the other. Without one the
\* environment's credentials are used, whose intakes name no connector; where there
\* are none either, the tick only records a run that failed.
TickGmail(r) ==
    /\ \/ \E c \in Enabled(Gmail) : Begin(r, [Idle EXCEPT !.at = "list", !.via = c,
                                                 !.rest = Enabled(Gmail) \ {c}])
       \/ /\ Enabled(Gmail) = {} /\ "gmail" \in Configured
          /\ Begin(r, [Idle EXCEPT !.at = "list", !.how = "env"])
    /\ UNCHANGED <<conn, mailbox, intakes, events>>

\* runOutlook: nothing is read without an enabled connector.
TickOutlook(r) ==
    /\ \E c \in Enabled(Outlook) : Begin(r, [Idle EXCEPT !.at = "list", !.via = c,
                                                 !.rest = Enabled(Outlook) \ {c}])
    /\ UNCHANGED <<conn, mailbox, intakes, events>>

\* syncNow: a connector that is enabled and not push-only.
SyncNow(r, c) ==
    /\ c \in Enabled(Gmail \cup Outlook)
    /\ Begin(r, [Idle EXCEPT !.at = "list", !.how = "now", !.via = c])
    /\ UNCHANGED <<conn, mailbox, intakes, events>>

\* GmailController.sync: a poll on the environment's credentials at any time.
SyncLegacy(r) ==
    /\ "gmail" \in Configured
    /\ Begin(r, [Idle EXCEPT !.at = "list", !.how = "env"])
    /\ UNCHANGED <<conn, mailbox, intakes, events>>

\* Which row a pushed message is handled for: Slack's events and the intake endpoint
\* name none, the others take an enabled connector of the application.
SlackRow(c) == c = "none"
ChatRow(c) == c \in Enabled(Chat)

\* A message is pushed, once more too if its sender has not had the answer.
Push(r, m, c) ==
    /\ m \in Pushed
    /\ IF App \in {"email", "slack"} THEN SlackRow(c) ELSE ChatRow(c)
    /\ Begin(r, [Idle EXCEPT !.at = "look", !.how = "push", !.via = c, !.todo = {m}])
    /\ arrived' = arrived \cup {m}
    /\ UNCHANGED <<conn, unread, intakes, events>>

-----------------------------------------------------------------------------
(* A run reads its mailbox *)

\* Mutant of List: what is listed is marked as read at once.
List_MarksRead(r) ==
    /\ run[r].at = "list"
    /\ LET todo == Listing(BoxOfRun(run[r]))
       IN  /\ Goto(r, [run[r] EXCEPT !.at = "look", !.todo = todo])
           /\ unread' = unread \ todo
    /\ UNCHANGED <<conn, arrived, intakes, overlapped, events>>

\* The listing and the messages of it.
List(r) ==
    /\ run[r].at = "list"
    /\ Goto(r, [run[r] EXCEPT !.at = "look", !.todo = Listing(BoxOfRun(run[r]))])
    /\ UNCHANGED <<conn, mailbox, intakes, overlapped, events>>

\* The listing fails: Gmail's error is the run's, Outlook's sync notes it and returns.
ListFails(r) ==
    /\ run[r].at = "list" /\ Event
    /\ Goto(r, [run[r] EXCEPT !.at = IF run[r].how = "now" THEN "health" ELSE "record",
                              !.err = run[r].via \notin Outlook])
    /\ UNCHANGED <<conn, mailbox, intakes, overlapped>>

\* What a reader makes of a message: the attachment it records, or nothing ("drop").
GmailReads(k) == IF k = "file" THEN {"saved", "none"}
                 ELSE IF k = "other" THEN {"drop"} ELSE {"none"}
OutlookReads(k) == IF k = "file" THEN {"saved", "none", "drop"} ELSE {"none"}
\* Required fields are missing, or there is no text to store.
EmailReads(k) == IF k = "other" THEN {"drop"} ELSE {"none"}
SlackReads(k) == IF k = "other" THEN {"drop"} ELSE {"none"}
\* The file is downloaded for its size, and the path recorded for it never written.
WhatsAppReads(k) == IF k = "file" THEN {"missing", "drop"}
                    ELSE IF k = "other" THEN {"drop"} ELSE {"none"}
TelegramReads(k) == IF k = "file" THEN {"missing", "drop"}
                    ELSE IF k = "other" THEN {"drop"} ELSE {"none"}
ZaloReads(k) == IF k = "file" THEN {"missing", "none", "drop"}
                ELSE IF k = "other" THEN {"drop"} ELSE {"none"}
Reads(m) == CASE m \in GmailMail -> GmailReads(Kind[m])
              [] m \in OutlookMail -> OutlookReads(Kind[m])
              [] m \in Pushed /\ App = "email" -> EmailReads(Kind[m])
              [] m \in Pushed /\ App = "slack" -> SlackReads(Kind[m])
              [] m \in Pushed /\ App = "whatsapp" -> WhatsAppReads(Kind[m])
              [] m \in Pushed /\ App = "telegram" -> TelegramReads(Kind[m])
              [] OTHER -> ZaloReads(Kind[m])

\* gmailMessageId and slackMessageId are unique; what comes in through the intake
\* endpoint has no id, and Outlook's is no key.
Keyed(m) == m \in GmailMail \/ (m \in Pushed /\ App # "email")

\* What counts as stored already: mail by its id and the connector's, a pushed message
\* by its id alone.
KnownMail(m, via) == \E x \in Refs : intakes[x].msg = m /\ intakes[x].via = via
KnownPush(m) == Keyed(m) /\ Stored(m)
Known(m, via) == IF m \in Mail THEN KnownMail(m, via) ELSE KnownPush(m)

\* The next message of a run after m, or the end of it.
NextMessage(s, m) ==
    IF s.how = "push" THEN Idle
    ELSE [s EXCEPT !.at = "look", !.todo = @ \ {m}, !.seen = 0, !.reply = 0,
                   !.file = "none", !.tries = 0]

\* Mutant of Look: a message without a sender ends the run, not its own turn.
Look_Breaks(r, m) ==
    /\ run[r].at = "look" /\ m \in Newest(run[r].todo)
    /\ IF Known(m, run[r].via) THEN Goto(r, NextMessage(run[r], m))
       ELSE \E f \in Reads(m) :
              Goto(r, IF f = "drop" THEN [NextMessage(run[r], m) EXCEPT !.todo = {}]
                      ELSE [run[r] EXCEPT !.at = "thread", !.file = f])
    /\ UNCHANGED <<conn, mailbox, intakes, overlapped, events>>

\* A message that is stored already is skipped, and stays unread if it is.
Look(r, m) ==
    /\ run[r].at = "look" /\ m \in Newest(run[r].todo)
    /\ IF Known(m, run[r].via) THEN Goto(r, NextMessage(run[r], m))
       ELSE \E f \in Reads(m) :
              Goto(r, IF f = "drop" THEN NextMessage(run[r], m)
                      ELSE [run[r] EXCEPT !.at = "thread", !.file = f])
    /\ UNCHANGED <<conn, mailbox, intakes, overlapped, events>>

Done(r) ==
    /\ run[r].at = "look" /\ run[r].todo = {}
    /\ Goto(r, [run[r] EXCEPT !.at = IF run[r].how = "now" THEN "health" ELSE "record"])
    /\ UNCHANGED <<conn, mailbox, intakes, overlapped, events>>

\* The intakes of a message's conversation; each mailbox holds one.
ThreadOf(m) == {x \in Refs : /\ m \in Mail /\ intakes[x].msg # m
                             /\ BoxOf(intakes[x].msg) = BoxOf(m)}

\* Mutant of Thread: the conversation is not looked up.
Thread_Ignored(r, m) ==
    /\ m \in Newest(run[r].todo) /\ run[r].at = "thread"
    /\ Goto(r, [run[r] EXCEPT !.at = "count", !.reply = 0])
    /\ UNCHANGED <<conn, mailbox, intakes, overlapped, events>>

\* The message answers the one of its conversation that was received first.
Thread(r, m) ==
    /\ m \in Newest(run[r].todo) /\ run[r].at = "thread"
    /\ LET T == ThreadOf(m)
           first == {x \in T : \A y \in T : intakes[x].msg <= intakes[y].msg}
       IN  \E x \in IF T = {} THEN {0} ELSE first :
             Goto(r, [run[r] EXCEPT !.at = "count", !.reply = x])
    /\ UNCHANGED <<conn, mailbox, intakes, overlapped, events>>

-----------------------------------------------------------------------------
(* createRfqFromIntake *)

\* The transaction counts the RFQs before it takes the next reference.
Count(r) ==
    /\ run[r].at = "count"
    /\ Goto(r, [run[r] EXCEPT !.at = "insert", !.seen = Cardinality(Refs)])
    /\ UNCHANGED <<conn, mailbox, intakes, overlapped, events>>

Reference(n) == 1001 + n

\* The unique keys: the reference and the message's id.
Taken(ref, m) == ref \in Refs \/ (Keyed(m) /\ Stored(m))

\* What the foreign key of an intake may name.
Linkable == {"none"} \cup {c \in Connector : conn[c].is = "there"}

RowOf(s, m) == [msg |-> m, via |-> s.via, reply |-> s.reply, file |-> s.file]

\* What was read about the message is of no use once it is stored.
AfterInsert(s) == IF s.how = "push" THEN Idle
                  ELSE [s EXCEPT !.at = "mark", !.seen = 0, !.reply = 0,
                                 !.file = "none", !.tries = 0]

\* Mutant of Insert: the reference is that of the retry, not of a new count.
Insert_Guesses(r, m) ==
    /\ m \in Newest(run[r].todo) /\ run[r].at = "insert"
    /\ ~Taken(Reference(run[r].seen + run[r].tries), m)
    /\ run[r].via \in Linkable
    /\ intakes' = [x \in Refs \cup {Reference(run[r].seen + run[r].tries)} |->
                     IF x \in Refs THEN intakes[x] ELSE RowOf(run[r], m)]
    /\ Goto(r, AfterInsert(run[r]))
    /\ UNCHANGED <<conn, mailbox, overlapped, events>>

Insert(r, m) ==
    /\ m \in Newest(run[r].todo) /\ run[r].at = "insert"
    /\ ~Taken(Reference(run[r].seen), m)
    /\ run[r].via \in Linkable
    /\ intakes' = [x \in Refs \cup {Reference(run[r].seen)} |->
                     IF x \in Refs THEN intakes[x] ELSE RowOf(run[r], m)]
    /\ Goto(r, AfterInsert(run[r]))
    /\ UNCHANGED <<conn, mailbox, overlapped, events>>

\* Mutant of InsertFails: it is tried again without end.
InsertFails_Unlimited(r, m) ==
    /\ m \in Newest(run[r].todo) /\ run[r].at = "insert"
    /\ Taken(Reference(run[r].seen), m)
    /\ Goto(r, [run[r] EXCEPT !.at = "count", !.seen = 0, !.tries = @ + 1])
    /\ UNCHANGED <<conn, mailbox, intakes, overlapped, events>>

\* A taken key: the transaction is tried again, with a new count, while attempts are
\* left. A connector deleted meanwhile: the foreign key refuses, without a retry. The
\* message is then counted as failed.
InsertFails(r, m) ==
    /\ m \in Newest(run[r].todo) /\ run[r].at = "insert"
    /\ \/ Taken(Reference(run[r].seen), m)
       \/ run[r].via \notin Linkable
    /\ Goto(r, IF run[r].via \in Linkable /\ run[r].tries + 1 < MaxRetries
                 THEN [run[r] EXCEPT !.at = "count", !.seen = 0, !.tries = @ + 1]
                 ELSE NextMessage(run[r], m))
    /\ UNCHANGED <<conn, mailbox, intakes, overlapped, events>>

\* A stored mail is marked as read, if that does not fail.
Mark(r, m) ==
    /\ m \in Newest(run[r].todo) /\ run[r].at = "mark"
    /\ \/ unread' = unread \ {m} /\ UNCHANGED events
       \/ Event /\ UNCHANGED unread
    /\ Goto(r, NextMessage(run[r], m))
    /\ UNCHANGED <<conn, arrived, intakes, overlapped>>

-----------------------------------------------------------------------------
(* A run ends *)

\* The next connector of the tick, or nothing.
NextConnector(r) ==
    IF run[r].rest = {} THEN Goto(r, Idle) /\ UNCHANGED overlapped
    ELSE \E c \in run[r].rest :
           TurnTo(r, [Idle EXCEPT !.at = "list", !.via = c, !.rest = run[r].rest \ {c}])

\* runConnector records the run and keeps an error of the synchronisation to itself:
\* the tick sees a success unless the record cannot be written.
Record(r) ==
    /\ run[r].at = "record"
    /\ \/ /\ run[r].how = "env"
          /\ Goto(r, Idle) /\ UNCHANGED events
       \/ /\ run[r].how # "env" /\ conn[run[r].via].is = "there"
          /\ Goto(r, [run[r] EXCEPT !.at = "health", !.err = FALSE]) /\ UNCHANGED events
       \/ /\ run[r].how # "env"
          /\ IF conn[run[r].via].is = "there" THEN Event ELSE UNCHANGED events
          /\ Goto(r, [run[r] EXCEPT !.at = "health", !.err = TRUE])
    /\ UNCHANGED <<conn, mailbox, intakes, overlapped>>

\* updateHealth: a failure is counted, a success clears the count. A connector that
\* was deleted makes it throw, out of the tick and past the connectors left.
Health(r) ==
    /\ run[r].at = "health"
    /\ LET c == run[r].via
           n == IF conn[c].fails < Threshold THEN conn[c].fails + 1 ELSE Threshold
       IN  IF conn[c].is # "there" THEN Goto(r, Idle) /\ UNCHANGED <<conn, overlapped>>
           ELSE /\ conn' = [conn EXCEPT ![c].fails = IF run[r].err THEN n ELSE 0]
                /\ IF run[r].err /\ n = Threshold
                     THEN Goto(r, [run[r] EXCEPT !.at = "disable"]) /\ UNCHANGED overlapped
                     ELSE NextConnector(r)
    /\ UNCHANGED <<mailbox, intakes, events>>

Disable(r) ==
    /\ run[r].at = "disable"
    /\ IF conn[run[r].via].is # "there" THEN Goto(r, Idle) /\ UNCHANGED <<conn, overlapped>>
       ELSE /\ conn' = [conn EXCEPT ![run[r].via].on = FALSE]
            /\ NextConnector(r)
    /\ UNCHANGED <<mailbox, intakes, events>>

-----------------------------------------------------------------------------
(* The registry, and the world *)

NewRow == [is |-> "there", on |-> TRUE, fails |-> 0]
Edit(c, row) == /\ Event
                /\ conn' = [conn EXCEPT ![c] = row]
                /\ UNCHANGED <<mailbox, run, overlapped>>

Create(c) == conn[c].is = "new" /\ Edit(c, NewRow) /\ UNCHANGED intakes

\* update: switched on or off as asked; new credentials clear the failures.
Update(c, on, credentials) ==
    /\ conn[c].is = "there"
    /\ Edit(c, [conn[c] EXCEPT !.on = on, !.fails = IF credentials THEN 0 ELSE @])
    /\ UNCHANGED intakes

\* The OAuth2 callback renews the connector of the type that is there.
Authorise(c) == conn[c].is = "there" /\ Edit(c, NewRow) /\ UNCHANGED intakes

\* remove: the intakes of the connector lose their connectorId.
Remove(c) ==
    /\ conn[c].is = "there"
    /\ Edit(c, [conn[c] EXCEPT !.is = "gone"])
    /\ intakes' = [x \in Refs |-> IF intakes[x].via = c
                                    THEN [intakes[x] EXCEPT !.via = "none"] ELSE intakes[x]]

Arrive(m) ==
    /\ m \in Mail \ arrived
    /\ \A n \in BoxOf(m) : n < m => n \in arrived
    /\ arrived' = arrived \cup {m} /\ unread' = unread \cup {m}
    /\ UNCHANGED <<conn, intakes, run, overlapped, events>>

\* onModuleInit: with credentials in the environment, a start that finds no connector
\* of the type creates one, for the mailbox they open.
Bootstraps(rows) ==
    {C \in {Gmail, Outlook} : /\ (IF C = Gmail THEN "gmail" ELSE "outlook") \in Configured
                              /\ \A c \in C : rows[c].is # "there"}
Candidates(C, rows) ==
    {c \in C : rows[c].is = "new" /\ (C = Gmail => Box[c] = Box["env"])}
Booted(rows) ==
    {[c \in Connector |-> IF c \in Made THEN NewRow ELSE rows[c]] :
        Made \in {M \in SUBSET UNION {Candidates(C, rows) : C \in Bootstraps(rows)} :
                    \A C \in Bootstraps(rows) :
                        Candidates(C, rows) # {} => Cardinality(M \cap C) = 1}}

\* The process dies with its runs, and starts again.
Restart ==
    /\ Event
    /\ run' = [r \in Run |-> Idle]
    /\ conn' \in Booted(conn)
    /\ UNCHANGED <<mailbox, intakes, overlapped>>

-----------------------------------------------------------------------------
(* Specification *)

Init ==
    /\ conn \in Booted([c \in Connector |-> [is |-> "new", on |-> TRUE, fails |-> 0]])
    /\ arrived = {} /\ unread = {} /\ intakes = [x \in {} |-> 0]
    /\ run = [r \in Run |-> Idle]
    /\ overlapped = FALSE /\ events = 0

RunStep(r) ==
    \/ List(r) \/ Done(r) \/ Count(r) \/ Record(r) \/ Health(r) \/ Disable(r)
    \/ \E m \in Msg : \/ Look(r, m) \/ Thread(r, m) \/ Insert(r, m)
                       \/ InsertFails(r, m) \/ Mark(r, m)

Next ==
    \/ \E r \in Run : \/ TickGmail(r) \/ TickOutlook(r) \/ SyncLegacy(r)
                      \/ RunStep(r) \/ ListFails(r)
                      \/ \E c \in Connector : SyncNow(r, c)
                      \/ \E m \in Pushed, c \in Connector \cup {"none"} : Push(r, m, c)
    \/ \E c \in Connector : \/ Create(c) \/ Authorise(c) \/ Remove(c)
                            \/ \E on, creds \in BOOLEAN : Update(c, on, creds)
    \/ \E m \in Mail : Arrive(m)
    \/ Restart

Spec == Init /\ [][Next]_vars

\* Handlers go on until they end, and the cron ticks every hour: no run keeps it from
\* doing so, the bound on runs at once is the model's.
Fairness == /\ \A r \in Run : WF_vars(RunStep(r))
            /\ SF_vars(\E r \in Run : TickGmail(r))

FairSpec == Spec /\ Fairness

-----------------------------------------------------------------------------
(* What the connectors promise *)

\* The log of IntakeLog: the rows in the order of their references.
EntryOf(row) ==
    [msg |-> row.msg, answers |-> IF row.reply = 0 THEN 0 ELSE row.reply - 1000,
     file |-> row.file]
Entries == [i \in {x - 1000 : x \in Refs} |-> EntryOf(intakes[i + 1000])]

Journal == INSTANCE IntakeLog
    WITH Boxes <- Source,
         Once <- {m \in Msg : Keyed(m)},
         File <- {"none", "saved", "missing"},
         received <- arrived, log <- Entries

-----------------------------------------------------------------------------
(* Properties *)

\* Types of the variables: the rows of the registry, the mailboxes, the stored
\* messages and the runs at work are what the code can hold.
TypeOK ==
    /\ conn \in [Connector -> Row]
    /\ arrived \subseteq Msg /\ unread \subseteq arrived \cap Mail
    /\ Refs \subseteq Nat /\ IsFiniteSet(Refs) /\ intakes \in [Refs -> Intake]
    /\ run \in [Run -> Step] /\ overlapped \in BOOLEAN
    /\ events \in 0..MaxEvents

\* However intakes race for the count, retry, give up or die, the references in use
\* have no gap and no repetition: a later count always leads to a free one, so a
\* collision never outlives the race that caused it.
ReferencesAreDense == Refs = 1001..(1000 + Cardinality(Refs))

\* One message is one RFQ: never two for a Gmail mail or a pushed message with an id,
\* and two for an Outlook mail only through two connectors, or two runs of one at once (Outlook's
\* message id has no unique key).
StoredOnce ==
    \A x, y \in Refs :
        intakes[x].msg = intakes[y].msg /\ x # y =>
            /\ ~Keyed(intakes[x].msg)
            /\ intakes[x].msg \in Pushed \/ intakes[x].via # intakes[y].via \/ overlapped \/ intakes[x].via = "none"

\* The messages of one conversation are joined: each but the first stored answers one
\* stored before it, and only runs that overlapped make two of them open an RFQ.
ThreadsAreJoined ==
    \A x \in Refs :
        /\ intakes[x].reply # 0 =>
             /\ intakes[x].reply \in Refs /\ intakes[x].reply < x
             /\ BoxOf(intakes[intakes[x].reply].msg) = BoxOf(intakes[x].msg)
        /\ intakes[x].reply = 0 /\ intakes[x].msg \in Mail =>
             \A y \in Refs : \/ y >= x \/ overlapped
                             \/ BoxOf(intakes[y].msg) # BoxOf(intakes[x].msg)
                             \/ intakes[y].msg = intakes[x].msg

\* A conversation becomes one RFQ: its messages are stored once, and joined.
OneRfqPerConversation == StoredOnce /\ ThreadsAreJoined

\* However runs race, retry, give up and die, and whatever staff does to the registry, the
\* RFQs are a log that only grows at its end: each received message is written under the
\* next reference, with an earlier message of its own mailbox as the one it answers;
\* no row is rewritten or lost; and only what is written is marked as read
\* (rfq-intake.service.ts:176-289, gmail.service.ts:118-160).
ImplementsLog == Journal!Spec

\* A mail that the program has marked as read is stored: no crash, failed insert or
\* deleted connector loses a request.
ReadMeansStored == \A m \in (arrived \cap Mail) \ unread : Stored(m)

\* Mail that stays unread for good fills the listing of a mailbox: without a sender, or
\* stored with its marking lost, since a mail that is skipped is never marked.
Clogged(B) ==
    MaxResults <= Cardinality({m \in unread \cap B :
        \/ Kind[m] = "other"
        \/ Stored(m) /\ \A r \in Run : run[r].at = "mark" => m \notin Newest(run[r].todo)})

\* While some connector of its mailbox is switched on, every mail that arrives at Gmail is
\* stored in the end: no crash, failed listing, refused mail, deleted connector or other
\* mailbox of the same tick holds it up for good. Only mail that stays unread can, when
\* it fills the listing (scheduler.service.ts:22-45, gmail.service.ts:88-160).
MailGetsStored ==
    \A m \in GmailMail :
        <>[](\E c \in Enabled(Gmail) : m \in Box[c]) =>
            ((m \in arrived /\ Kind[m] # "other") ~> (Stored(m) \/ Clogged(BoxOf(m))))
=============================================================================
