------------------------- MODULE ConnectorSyncProofs -------------------------
(***************************************************************************)
(* Proofs about ConnectorSync. What a run knows of the rows is of two      *)
(* kinds: what it has stored, counted or answers stays true whoever stores *)
(* what (Knows), what it has not found stays true only while no other run  *)
(* reads its source (Fresh, Alone). The references are dense because a     *)
(* count is never ahead of the rows and an insert needs a free key.        *)
(***************************************************************************)
EXTENDS ConnectorSync, FiniteSetTheorems, SequenceTheorems, TLAPS

\* Only the slot of r changes.
Others(r) == \A q \in Run \ {r} : run'[q] = run[q]

\* The empty slot is a step, of no run.
LEMMA IdleStep == /\ Idle \in Step /\ Idle.at = "idle"
                  /\ Idle.todo = {} /\ Idle.rest = {}
  BY BoundsAssumption DEF Idle, Step, Where

\* A run that goes on to another place changes nothing else.
LEMMA AtStep ==
    ASSUME NEW s \in Step, NEW at \in Where
    PROVE  /\ [s EXCEPT !.at = at] \in Step
           /\ [s EXCEPT !.at = at].at = at
           /\ [s EXCEPT !.at = at].todo = s.todo /\ [s EXCEPT !.at = at].via = s.via
           /\ [s EXCEPT !.at = at].how = s.how /\ [s EXCEPT !.at = at].rest = s.rest
  BY DEF Step

\* The values a slot is cleared with.
LEMMA Zeros == /\ 0 \in 0..MaxRetries /\ 0 \in Nat /\ MaxRetries \in Nat
               /\ {"look", "mark", "list", "thread", "count", "insert"} \subseteq Where
  BY BoundsAssumption DEF Where

\* After a message a pushed one's run is over; the others look at the next.
LEMMA NextMessageStep ==
    ASSUME NEW s \in Step, NEW m \in Msg
    PROVE  /\ NextMessage(s, m) \in Step
           /\ s.how = "push" => NextMessage(s, m) = Idle
           /\ s.how # "push" => /\ NextMessage(s, m).at = "look"
                                /\ NextMessage(s, m).how = s.how
                                /\ NextMessage(s, m).via = s.via
                                /\ NextMessage(s, m).rest = s.rest
                                /\ NextMessage(s, m).todo = s.todo \ {m}
  <1>1. CASE s.how = "push"
    BY <1>1, IdleStep DEF NextMessage
  <1>2. CASE s.how # "push"
    <2> DEFINE n == [s EXCEPT !.at = "look", !.todo = @ \ {m}, !.seen = 0, !.reply = 0,
                              !.file = "none", !.tries = 0]
    <2>1. NextMessage(s, m) = n
      BY <1>2 DEF NextMessage
    <2>2. n \in Step
      BY Zeros DEF Step
    <2>3. /\ n.at = "look" /\ n.how = s.how /\ n.via = s.via /\ n.rest = s.rest
          /\ n.todo = s.todo \ {m}
      BY DEF Step
    <2> HIDE DEF n
    <2> QED  BY <1>2, <2>1, <2>2, <2>3
  <1> QED  BY <1>1, <1>2

\* After its message is stored a pushed one's run is over; the others mark it.
LEMMA AfterInsertStep ==
    ASSUME NEW s \in Step
    PROVE  /\ AfterInsert(s) \in Step
           /\ s.how = "push" => AfterInsert(s) = Idle
           /\ s.how # "push" => /\ AfterInsert(s).at = "mark"
                                /\ AfterInsert(s).how = s.how
                                /\ AfterInsert(s).via = s.via
                                /\ AfterInsert(s).rest = s.rest
                                /\ AfterInsert(s).todo = s.todo
  <1>1. CASE s.how = "push"
    BY <1>1, IdleStep DEF AfterInsert
  <1>2. CASE s.how # "push"
    <2> DEFINE n == [s EXCEPT !.at = "mark", !.seen = 0, !.reply = 0,
                              !.file = "none", !.tries = 0]
    <2>1. AfterInsert(s) = n
      BY <1>2 DEF AfterInsert
    <2>2. n \in Step
      BY Zeros DEF Step
    <2>3. /\ n.at = "mark" /\ n.how = s.how /\ n.via = s.via /\ n.rest = s.rest
          /\ n.todo = s.todo
      BY DEF Step
    <2> HIDE DEF n
    <2> QED  BY <1>2, <2>1, <2>2, <2>3
  <1> QED  BY <1>1, <1>2

\* A step of a run fills its slot and no other.
LEMMA GotoStep ==
    ASSUME TypeOK, NEW r \in Run, NEW s \in Step, Goto(r, s)
    PROVE  run' \in [Run -> Step] /\ run'[r] = s /\ Others(r)
  BY DEF TypeOK, Goto, Others

-----------------------------------------------------------------------------
(* What the steps of a run leave in its slot *)

\* A run begins in an empty slot; unless that is observed, alone with its source.
LEMMA BeginStep ==
    ASSUME TypeOK, NEW r \in Run, NEW s \in Step, Begin(r, s)
    PROVE  /\ run' \in [Run -> Step] /\ run'[r] = s /\ Others(r)
           /\ run[r] = Idle /\ overlapped' \in BOOLEAN
           /\ ~overlapped' => /\ ~overlapped
                              /\ \A q \in Run : run[q] = Idle \/ BoxOfRun(run[q]) # BoxOfRun(s)
  BY GotoStep DEF Begin, TurnTo, TypeOK

\* A tick begins with the listing of its first connector.
TickSlot(c, rest) == [Idle EXCEPT !.at = "list", !.via = c, !.rest = rest]

\* That slot, by its fields.
LEMMA TickListing ==
    ASSUME NEW c \in Connector, NEW rest \in SUBSET Connector
    PROVE  /\ TickSlot(c, rest) \in Step
           /\ TickSlot(c, rest).at = "list" /\ TickSlot(c, rest).how = "cron"
           /\ TickSlot(c, rest).via = c /\ TickSlot(c, rest).rest = rest
           /\ TickSlot(c, rest).todo = {}
  BY Zeros DEF TickSlot, Idle, Step

\* A synchronisation by hand, with that of its connector.
LEMMA NowListing ==
    ASSUME NEW c \in Connector
    PROVE  LET s == [Idle EXCEPT !.at = "list", !.how = "now", !.via = c]
           IN  /\ s \in Step /\ s.at = "list" /\ s.how = "now" /\ s.via = c
               /\ s.rest = {} /\ s.todo = {}
  BY Zeros DEF Idle, Step

\* A poll on the environment's credentials has no connector.
LEMMA EnvListing ==
    LET s == [Idle EXCEPT !.at = "list", !.how = "env"]
    IN  /\ s \in Step /\ s.at = "list" /\ s.how = "env" /\ s.via = "none"
        /\ s.rest = {} /\ s.todo = {}
  BY Zeros DEF Idle, Step

\* How the runs that poll begin.
Polls(s) == /\ s.at = "list" /\ s.todo = {} /\ s.how # "push"

\* A poll begins with the listing of one mailbox.
LEMMA PollStep ==
    ASSUME NEW r \in Run,
           \/ TickGmail(r) \/ TickOutlook(r) \/ SyncLegacy(r)
           \/ \E c \in Connector : SyncNow(r, c)
    PROVE  \E s \in Step : Begin(r, s) /\ Polls(s)
  <1>1. ASSUME NEW c \in Enabled(Gmail),
               Begin(r, [Idle EXCEPT !.at = "list", !.via = c, !.rest = Enabled(Gmail) \ {c}])
        PROVE  \E s \in Step : Begin(r, s) /\ Polls(s)
    <2> DEFINE s == TickSlot(c, Enabled(Gmail) \ {c})
    <2>1. /\ c \in Connector /\ c \notin Outlook
          /\ Enabled(Gmail) \ {c} \subseteq Gmail /\ Enabled(Gmail) \ {c} \in SUBSET Connector
      BY MessagesAssumption DEF Enabled, Connector
    <2>2. /\ s \in Step /\ s.at = "list" /\ s.how = "cron" /\ s.via = c
          /\ s.rest = Enabled(Gmail) \ {c} /\ s.todo = {}
      BY <2>1, TickListing
    <2> HIDE DEF s
    <2>3. Polls(s)
      BY <2>1, <2>2 DEF Polls
    <2> QED  BY <1>1, <2>2, <2>3 DEF s, TickSlot
  <1>2. ASSUME NEW c \in Enabled(Outlook),
               Begin(r, [Idle EXCEPT !.at = "list", !.via = c, !.rest = Enabled(Outlook) \ {c}])
        PROVE  \E s \in Step : Begin(r, s) /\ Polls(s)
    <2> DEFINE s == TickSlot(c, Enabled(Outlook) \ {c})
    <2>1. /\ c \in Connector /\ c \in Outlook
          /\ Enabled(Outlook) \ {c} \subseteq Outlook /\ Enabled(Outlook) \ {c} \in SUBSET Connector
      BY DEF Enabled, Connector
    <2>2. /\ s \in Step /\ s.at = "list" /\ s.how = "cron" /\ s.via = c
          /\ s.rest = Enabled(Outlook) \ {c} /\ s.todo = {}
      BY <2>1, TickListing
    <2> HIDE DEF s
    <2>3. Polls(s)
      BY <2>1, <2>2 DEF Polls
    <2> QED  BY <1>2, <2>2, <2>3 DEF s, TickSlot
  <1>3. ASSUME Begin(r, [Idle EXCEPT !.at = "list", !.how = "env"])
        PROVE  \E s \in Step : Begin(r, s) /\ Polls(s)
    <2> DEFINE s == [Idle EXCEPT !.at = "list", !.how = "env"]
    <2>1. /\ s \in Step /\ s.at = "list" /\ s.how = "env" /\ s.via = "none"
          /\ s.rest = {} /\ s.todo = {}
      BY EnvListing
    <2> HIDE DEF s
    <2>2. Polls(s)
      BY <2>1 DEF Polls
    <2> QED  BY <1>3, <2>1, <2>2 DEF s
  <1>4. ASSUME NEW c \in Connector, SyncNow(r, c)
        PROVE  \E s \in Step : Begin(r, s) /\ Polls(s)
    <2> DEFINE s == [Idle EXCEPT !.at = "list", !.how = "now", !.via = c]
    <2>1. /\ s \in Step /\ s.at = "list" /\ s.how = "now" /\ s.via = c
          /\ s.rest = {} /\ s.todo = {}
      BY NowListing
    <2>2. Begin(r, s)
      BY <1>4 DEF SyncNow
    <2> HIDE DEF s
    <2>3. Polls(s)
      BY <2>1 DEF Polls
    <2> QED  BY <2>1, <2>2, <2>3
  <1> QED  BY <1>1, <1>2, <1>3, <1>4 DEF TickGmail, TickOutlook, SyncLegacy

\* A pushed message is looked up at once.
LEMMA PushStep ==
    ASSUME NEW r \in Run, NEW m \in Pushed, NEW c \in Connector \cup {"none"}, Push(r, m, c)
    PROVE  \E s \in Step : /\ Begin(r, s)
                           /\ s.at = "look" /\ s.how = "push" /\ s.todo = {m} /\ s.rest = {}
                           /\ s.via = c
  <1> DEFINE s == [Idle EXCEPT !.at = "look", !.how = "push", !.via = c, !.todo = {m}]
  <1>1. s \in Step
    BY Zeros DEF Idle, Step, Msg
  <1>2. s.at = "look" /\ s.how = "push" /\ s.todo = {m} /\ s.rest = {} /\ s.via = c
    BY DEF Idle
  <1>3. Begin(r, s)
    BY DEF Push
  <1> HIDE DEF s
  <1> QED  BY <1>1, <1>2, <1>3

\* A run that goes on with what it reads keeps its source.
SameSource(r) == /\ run'[r].how = run[r].how /\ run'[r].via = run[r].via
                 /\ run'[r].rest = run[r].rest

\* A listing holds unread messages of the run's source.
LEMMA ListStep ==
    ASSUME TypeOK, NEW r \in Run, List(r)
    PROVE  /\ run' \in [Run -> Step] /\ Others(r) /\ SameSource(r)
           /\ run'[r].at = "look" /\ run'[r].todo \subseteq BoxOfRun(run[r])
           /\ run'[r].todo \subseteq unread
  <1> DEFINE s == [run[r] EXCEPT !.at = "look", !.todo = Listing(BoxOfRun(run[r]))]
  <1>1. run[r] \in Step
    BY DEF TypeOK
  <1>2. /\ Listing(BoxOfRun(run[r])) \subseteq Msg
        /\ Listing(BoxOfRun(run[r])) \subseteq BoxOfRun(run[r])
        /\ Listing(BoxOfRun(run[r])) \subseteq unread
    BY DEF Listing, TypeOK, Msg, Mail
  <1>3. s \in Step
    BY <1>1, <1>2, Zeros DEF Step
  <1>4. /\ s.how = run[r].how /\ s.via = run[r].via /\ s.rest = run[r].rest
        /\ s.at = "look" /\ s.todo = Listing(BoxOfRun(run[r]))
    BY <1>1 DEF Step
  <1>5. Goto(r, s)
    BY DEF List
  <1> HIDE DEF s
  <1> QED  BY <1>2, <1>3, <1>4, <1>5, GotoStep DEF SameSource

\* After its messages, or without a listing, a run turns to its bookkeeping.
LEMMA AfterListing ==
    ASSUME TypeOK, NEW r \in Run, ListFails(r) \/ Done(r)
    PROVE  /\ run' \in [Run -> Step] /\ Others(r) /\ SameSource(r)
           /\ run'[r].at \in {"health", "record"} /\ run'[r].todo = run[r].todo
  <1> DEFINE at == IF run[r].how = "now" THEN "health" ELSE "record"
             s == [run[r] EXCEPT !.at = at, !.err = run[r].via \notin Outlook]
             d == [run[r] EXCEPT !.at = at]
  <1>1. run[r] \in Step /\ at \in {"health", "record"} /\ at \in Where
    BY DEF TypeOK, Where
  <1> HIDE DEF at
  <1>2. s \in Step /\ d \in Step
    BY <1>1 DEF Step
  <1>3. /\ s.how = run[r].how /\ s.via = run[r].via /\ s.rest = run[r].rest
        /\ s.at = at /\ s.todo = run[r].todo
        /\ d.how = run[r].how /\ d.via = run[r].via /\ d.rest = run[r].rest
        /\ d.at = at /\ d.todo = run[r].todo
    BY <1>1 DEF Step
  <1>4. Goto(r, s) \/ Goto(r, d)
    BY DEF ListFails, Done, at
  <1> HIDE DEF s, d
  <1> QED  BY <1>1, <1>2, <1>3, <1>4, GotoStep DEF SameSource

\* A run that is on its way with the same messages of the same source.
GoesOn(r, at) == /\ run' \in [Run -> Step] /\ Others(r) /\ SameSource(r)
                 /\ run'[r].at = at /\ run'[r].todo = run[r].todo

\* A run that is through with a message.
Passes(r, m) == run' \in [Run -> Step] /\ Others(r) /\ run'[r] = NextMessage(run[r], m)

\* A message is passed over, or is not stored yet as far as the run can see.
LEMMA LookStep ==
    ASSUME TypeOK, NEW r \in Run, NEW m \in Msg, Look(r, m)
    PROVE  \/ Passes(r, m)
           \/ GoesOn(r, "thread") /\ ~Known(m, run[r].via)
  <1>1. run[r] \in Step
    BY DEF TypeOK
  <1>2. CASE Goto(r, NextMessage(run[r], m))
    BY <1>1, <1>2, NextMessageStep, GotoStep DEF Passes
  <1>3. ASSUME NEW f \in {"none", "saved", "missing"}, ~Known(m, run[r].via),
               Goto(r, [run[r] EXCEPT !.at = "thread", !.file = f])
        PROVE  GoesOn(r, "thread")
    <2> DEFINE s == [run[r] EXCEPT !.at = "thread", !.file = f]
    <2>1. s \in Step
      BY <1>1, Zeros DEF Step
    <2>2. /\ s.how = run[r].how /\ s.via = run[r].via /\ s.rest = run[r].rest
          /\ s.at = "thread" /\ s.todo = run[r].todo
      BY <1>1 DEF Step
    <2> HIDE DEF s
    <2> QED  BY <1>3, <2>1, <2>2, GotoStep DEF GoesOn, SameSource, s
  <1>4. Reads(m) \subseteq {"none", "saved", "missing", "drop"}
    BY DEF Reads, GmailReads, OutlookReads, EmailReads, SlackReads, WhatsAppReads,
           TelegramReads, ZaloReads
  <1> QED  BY <1>2, <1>3, <1>4 DEF Look

\* A message answers an intake of its conversation, or there is none.
LEMMA ThreadStep ==
    ASSUME TypeOK, NEW r \in Run, NEW m \in Msg, Thread(r, m)
    PROVE  /\ GoesOn(r, "count")
           /\ \/ run'[r].reply = 0 /\ (ThreadOf(m) = {})
              \/ run'[r].reply \in ThreadOf(m)
  <1>1. run[r] \in Step
    BY DEF TypeOK
  <1>2. PICK x \in Nat : /\ Goto(r, [run[r] EXCEPT !.at = "count", !.reply = x])
                         /\ (x = 0 /\ ThreadOf(m) = {}) \/ x \in ThreadOf(m)
    BY DEF Thread, ThreadOf, TypeOK
  <1> DEFINE s == [run[r] EXCEPT !.at = "count", !.reply = x]
  <1>3. s \in Step
    BY <1>1, <1>2, Zeros DEF Step
  <1>4. /\ s.how = run[r].how /\ s.via = run[r].via /\ s.rest = run[r].rest
        /\ s.at = "count" /\ s.todo = run[r].todo /\ s.reply = x
    BY <1>1 DEF Step
  <1> HIDE DEF s
  <1> QED  BY <1>2, <1>3, <1>4, GotoStep DEF GoesOn, SameSource, s

\* The count is of the rows in use, and nothing else of the run changes.
LEMMA CountStep ==
    ASSUME TypeOK, NEW r \in Run, Count(r)
    PROVE  /\ GoesOn(r, "insert")
           /\ run'[r].seen = Cardinality(Refs) /\ run'[r].reply = run[r].reply
  <1>1. run[r] \in Step /\ Cardinality(Refs) \in Nat
    BY FS_CardinalityType DEF TypeOK
  <1> DEFINE s == [run[r] EXCEPT !.at = "insert", !.seen = Cardinality(Refs)]
  <1>3. s \in Step
    BY <1>1, Zeros DEF Step
  <1>4. /\ s.how = run[r].how /\ s.via = run[r].via /\ s.rest = run[r].rest
        /\ s.at = "insert" /\ s.todo = run[r].todo /\ s.reply = run[r].reply
        /\ s.seen = Cardinality(Refs)
    BY <1>1 DEF Step
  <1>5. Goto(r, s)
    BY DEF Count
  <1> HIDE DEF s
  <1> QED  BY <1>1, <1>3, <1>4, <1>5, GotoStep DEF GoesOn, SameSource

\* The slot after a message is stored.
LEMMA InsertStep ==
    ASSUME TypeOK, NEW r \in Run, NEW m \in Msg, Insert(r, m)
    PROVE  /\ run' \in [Run -> Step] /\ Others(r)
           /\ run'[r] = AfterInsert(run[r])
  <1>1. run[r] \in Step
    BY DEF TypeOK
  <1> QED  BY <1>1, GotoStep, AfterInsertStep DEF Insert

\* A failed attempt is given up or made again, with what the run found.
LEMMA InsertFailsStep ==
    ASSUME TypeOK, NEW r \in Run, NEW m \in Msg, InsertFails(r, m)
    PROVE  \/ Passes(r, m)
           \/ GoesOn(r, "count") /\ run'[r].reply = run[r].reply
  <1>1. run[r] \in Step
    BY DEF TypeOK
  <1>2. CASE Goto(r, NextMessage(run[r], m))
    BY <1>1, <1>2, NextMessageStep, GotoStep DEF Passes
  <1> DEFINE s == [run[r] EXCEPT !.at = "count", !.seen = 0, !.tries = @ + 1]
  <1>3. CASE run[r].tries + 1 < MaxRetries /\ Goto(r, s)
    <2>1. run[r].tries + 1 \in 0..MaxRetries
      BY <1>1, <1>3, Zeros DEF Step
    <2>2. s \in Step
      BY <1>1, <2>1, Zeros DEF Step
    <2>3. /\ s.how = run[r].how /\ s.via = run[r].via /\ s.rest = run[r].rest
          /\ s.at = "count" /\ s.todo = run[r].todo /\ s.reply = run[r].reply
      BY <1>1 DEF Step
    <2> HIDE DEF s
    <2> QED  BY <1>3, <2>2, <2>3, GotoStep DEF GoesOn, SameSource
  <1> QED  BY <1>2, <1>3 DEF InsertFails

\* With the marking, or its failure, the run is through with the message.
LEMMA MarkStep ==
    ASSUME TypeOK, NEW r \in Run, NEW m \in Msg, Mark(r, m)
    PROVE  Passes(r, m)
  <1>1. run[r] \in Step
    BY DEF TypeOK
  <1> QED  BY <1>1, NextMessageStep, GotoStep DEF Passes, Mark

\* Two runs on one source are observed when the second turns to it.
Observed(r) == /\ overlapped' \in BOOLEAN
               /\ overlapped => overlapped'
               /\ ~overlapped' => \A q \in Run \ {r} :
                                    run[q] = Idle \/ BoxOfRun(run[q]) # BoxOfRun(run'[r])

\* A run that turns to its next connector, or ends.
TurnsTo(r) == /\ run' \in [Run -> Step] /\ Others(r)
              /\ \/ run'[r] = Idle /\ UNCHANGED overlapped
                 \/ /\ run'[r].at = "list" /\ run'[r].how = "cron" /\ run'[r].todo = {}
                    /\ Observed(r)

\* The next connector is one of those left.
LEMMA NextConnectorStep ==
    ASSUME TypeOK, NEW r \in Run, NextConnector(r)
    PROVE  TurnsTo(r)
  <1>1. CASE run[r].rest = {}
    <2>1. Goto(r, Idle) /\ UNCHANGED overlapped
      BY <1>1 DEF NextConnector
    <2> QED  BY <2>1, IdleStep, GotoStep DEF TurnsTo
  <1>2. CASE run[r].rest # {}
    <2>1. PICK c \in run[r].rest : TurnTo(r, TickSlot(c, run[r].rest \ {c}))
      BY <1>2 DEF NextConnector, TickSlot
    <2> DEFINE n == TickSlot(c, run[r].rest \ {c})
    <2>2. c \in Connector /\ run[r].rest \ {c} \in SUBSET Connector
      BY DEF TypeOK, Step
    <2>3. n \in Step /\ n.at = "list" /\ n.how = "cron" /\ n.todo = {}
      BY <2>2, TickListing
    <2> HIDE DEF n
    <2>4. /\ Goto(r, n)
          /\ overlapped' = (overlapped \/ \E q \in Run \ {r} : run[q] # Idle
                                               /\ BoxOfRun(run[q]) = BoxOfRun(n))
      BY <2>1 DEF TurnTo, n
    <2>5. run' \in [Run -> Step] /\ run'[r] = n /\ Others(r)
      BY <2>3, <2>4, GotoStep
    <2>6. Observed(r)
      BY <2>4, <2>5 DEF Observed, TypeOK
    <2> QED  BY <2>3, <2>5, <2>6 DEF TurnsTo
  <1> QED  BY <1>1, <1>2

\* A record, written or not, leads on to the health, or a run without connector ends.
LEMMA RecordStep ==
    ASSUME TypeOK, NEW r \in Run, Record(r)
    PROVE  GoesOn(r, "health") \/ TurnsTo(r)
  <1>1. run[r] \in Step
    BY DEF TypeOK
  <1>2. CASE Goto(r, Idle)
    BY <1>2, IdleStep, GotoStep DEF TurnsTo, Record
  <1>3. ASSUME NEW err \in BOOLEAN, Goto(r, [run[r] EXCEPT !.at = "health", !.err = err])
        PROVE  GoesOn(r, "health")
    <2> DEFINE s == [run[r] EXCEPT !.at = "health", !.err = err]
    <2>1. s \in Step
      BY <1>1 DEF Step, Where
    <2>2. /\ s.how = run[r].how /\ s.via = run[r].via /\ s.rest = run[r].rest
          /\ s.at = "health" /\ s.todo = run[r].todo
      BY <1>1 DEF Step
    <2> HIDE DEF s
    <2> QED  BY <1>3, <2>1, <2>2, GotoStep DEF GoesOn, SameSource, s
  <1> QED  BY <1>2, <1>3 DEF Record

\* The failures stay within the threshold, whatever row they are counted on.
LEMMA HealthStep ==
    ASSUME TypeOK, NEW r \in Run, Health(r)
    PROVE  /\ (GoesOn(r, "disable") /\ UNCHANGED overlapped) \/ TurnsTo(r)
           /\ conn' \in [Connector -> Row]
  <1>1. run[r] \in Step
    BY DEF TypeOK
  <1>2. ASSUME Goto(r, Idle), UNCHANGED overlapped PROVE TurnsTo(r)
    BY <1>2, IdleStep, GotoStep DEF TurnsTo
  <1>4. ASSUME Goto(r, [run[r] EXCEPT !.at = "disable"]) PROVE GoesOn(r, "disable")
    <2>1. "disable" \in Where
      BY DEF Where
    <2> DEFINE s == [run[r] EXCEPT !.at = "disable"]
    <2>2. s \in Step /\ s.at = "disable" /\ s.todo = run[r].todo /\ s.via = run[r].via
          /\ s.how = run[r].how /\ s.rest = run[r].rest
      BY <1>1, <2>1, AtStep
    <2> HIDE DEF s
    <2> QED  BY <1>4, <2>2, GotoStep DEF GoesOn, SameSource, s
  <1>5. (GoesOn(r, "disable") /\ UNCHANGED overlapped) \/ TurnsTo(r)
    BY <1>2, <1>4, NextConnectorStep DEF Health
  <1>6. conn' \in [Connector -> Row]
    <2> DEFINE c == run[r].via
               n == IF conn[c].fails < Threshold THEN conn[c].fails + 1 ELSE Threshold
               k == IF run[r].err THEN n ELSE 0
    <2>1. CASE c \in Connector
      <3>1. conn[c] \in Row /\ Threshold \in Nat
        BY <2>1, BoundsAssumption DEF TypeOK
      <3>2. k \in 0..Threshold
        BY <3>1 DEF Row
      <3> HIDE DEF k
      <3>3. [conn[c] EXCEPT !.fails = k] \in Row
        BY <3>1, <3>2 DEF Row
      <3>4. conn' = conn \/ conn' = [conn EXCEPT ![c].fails = k]
        BY DEF Health, k
      <3> QED  BY <2>1, <3>3, <3>4 DEF TypeOK
    <2>2. CASE c \notin Connector
      BY <2>2 DEF Health, TypeOK
    <2> QED  BY <2>1, <2>2
  <1> QED  BY <1>5, <1>6

\* A connector is switched off, and the run turns to its next one.
LEMMA DisableStep ==
    ASSUME TypeOK, NEW r \in Run, Disable(r)
    PROVE  TurnsTo(r) /\ conn' \in [Connector -> Row]
  <1>1. run[r] \in Step
    BY DEF TypeOK
  <1>2. ASSUME Goto(r, Idle), UNCHANGED overlapped PROVE TurnsTo(r)
    BY <1>2, IdleStep, GotoStep DEF TurnsTo
  <1>4. conn' \in [Connector -> Row]
    <2>1. CASE run[r].via \in Connector
      <3>1. conn[run[r].via] \in Row
        BY <2>1 DEF TypeOK
      <3>2. [conn[run[r].via] EXCEPT !.on = FALSE] \in Row
        BY <3>1 DEF Row
      <3> QED  BY <2>1, <3>2 DEF Disable, TypeOK
    <2>2. CASE run[r].via \notin Connector
      BY <2>2 DEF Disable, TypeOK
    <2> QED  BY <2>1, <2>2
  <1>5. TurnsTo(r)
    BY <1>2, NextConnectorStep DEF Disable
  <1> QED  BY <1>4, <1>5

\* What staff does to the registry, and what a start adds to it.
LEMMA RegistryStep ==
    ASSUME TypeOK, NEW c \in Connector,
           \/ Create(c) \/ Authorise(c) \/ Remove(c)
           \/ \E on, creds \in BOOLEAN : Update(c, on, creds)
    PROVE  conn' \in [Connector -> Row]
  <1>1. conn[c] \in Row /\ NewRow \in Row
    BY BoundsAssumption DEF TypeOK, NewRow, Row
  <1>2. [conn[c] EXCEPT !.is = "gone"] \in Row
    BY <1>1 DEF Row
  <1>3. ASSUME NEW on \in BOOLEAN, NEW fails \in 0..Threshold
        PROVE  [conn[c] EXCEPT !.on = on, !.fails = fails] \in Row
    BY <1>1 DEF Row
  <1>4. ASSUME NEW row \in Row, Edit(c, row) PROVE conn' \in [Connector -> Row]
    BY <1>4 DEF Edit, TypeOK
  <1>5. ASSUME NEW on \in BOOLEAN, NEW creds \in BOOLEAN, Update(c, on, creds)
        PROVE  conn' \in [Connector -> Row]
    <2> DEFINE fails == IF creds THEN 0 ELSE conn[c].fails
    <2>1. fails \in 0..Threshold
      BY <1>1, BoundsAssumption DEF Row
    <2>2. Edit(c, [conn[c] EXCEPT !.on = on, !.fails = fails])
      BY <1>5 DEF Update
    <2> HIDE DEF fails
    <2> QED  BY <1>3, <1>4, <2>1, <2>2
  <1> QED  BY <1>1, <1>2, <1>4, <1>5 DEF Create, Authorise, Remove

\* A start adds rows and changes none.
LEMMA BootedRows ==
    ASSUME NEW rows \in [Connector -> Row], NEW now \in Booted(rows)
    PROVE  now \in [Connector -> Row]
  <1>1. NewRow \in Row
    BY BoundsAssumption DEF NewRow, Row
  <1>2. PICK Made : now = [c \in Connector |-> IF c \in Made THEN NewRow ELSE rows[c]]
    BY DEF Booted
  <1> QED  BY <1>1, <1>2

-----------------------------------------------------------------------------
(* Types *)

\* A message is stored under the next reference: the other rows stay as they are.
Stores(r, m) == /\ run[r].seen \in Nat /\ Reference(run[r].seen) \notin Refs
                /\ Refs' = Refs \cup {Reference(run[r].seen)}
                /\ \A x \in Refs : intakes'[x] = intakes[x]
                /\ intakes'[Reference(run[r].seen)] = RowOf(run[r], m)

\* What Insert does to the rows: one more, under the reference counted to.
LEMMA InsertStores ==
    ASSUME TypeOK, NEW r \in Run, NEW m \in Msg, Insert(r, m)
    PROVE  Stores(r, m) /\ intakes' \in [Refs' -> Intake] /\ RowOf(run[r], m) \in Intake
  <1> DEFINE ref == Reference(run[r].seen)
             row == RowOf(run[r], m)
  <1>1. run[r] \in Step
    BY DEF TypeOK
  <1>2. row \in Intake
    BY <1>1 DEF RowOf, Intake, Step
  <1>3. ref \notin Refs
    BY DEF Insert, Taken
  <1>4. intakes' = [x \in Refs \cup {ref} |-> IF x \in Refs THEN intakes[x] ELSE row]
    BY DEF Insert
  <1>5. run[r].seen \in Nat
    BY <1>1 DEF Step
  <1> HIDE DEF ref, row
  <1>6. Refs' = Refs \cup {ref}
    BY <1>4 DEF Refs
  <1>7. intakes' \in [Refs \cup {ref} -> Intake]
    BY <1>2, <1>4 DEF TypeOK
  <1> QED  BY <1>2, <1>3, <1>4, <1>5, <1>6, <1>7 DEF Stores, ref, row

\* A deleted connector takes its name from the rows, and nothing else.
Unnames == /\ Refs' = Refs
           /\ \A x \in Refs : /\ intakes'[x].msg = intakes[x].msg
                               /\ intakes'[x].reply = intakes[x].reply
                               /\ intakes'[x].file = intakes[x].file
                               /\ intakes'[x].via \in {intakes[x].via, "none"}

\* What Remove does to the rows: no message or answer of theirs changes.
LEMMA RemoveUnnames ==
    ASSUME TypeOK, NEW c \in Connector, Remove(c)
    PROVE  Unnames /\ intakes' \in [Refs' -> Intake]
  <1>1. \A x \in Refs : intakes[x] \in Intake
    BY DEF TypeOK
  <1>2. ASSUME NEW x \in Refs
        PROVE  /\ [intakes[x] EXCEPT !.via = "none"] \in Intake
               /\ [intakes[x] EXCEPT !.via = "none"].msg = intakes[x].msg
               /\ [intakes[x] EXCEPT !.via = "none"].reply = intakes[x].reply
               /\ [intakes[x] EXCEPT !.via = "none"].file = intakes[x].file
               /\ [intakes[x] EXCEPT !.via = "none"].via = "none"
    BY <1>1 DEF Intake
  <1>3. intakes' = [x \in Refs |-> IF intakes[x].via = c
                                    THEN [intakes[x] EXCEPT !.via = "none"] ELSE intakes[x]]
    BY DEF Remove
  <1>4. Refs' = Refs
    BY <1>3 DEF Refs
  <1>5. intakes' \in [Refs -> Intake]
    BY <1>1, <1>2, <1>3
  <1> QED  BY <1>2, <1>3, <1>4, <1>5 DEF Unnames

\* At first there are no rows, and every slot is empty.
LEMMA InitType == Init => TypeOK /\ Refs = {}
  <1> SUFFICES ASSUME Init PROVE TypeOK /\ Refs = {}
    OBVIOUS
  <1> DEFINE rows == [c \in Connector |-> [is |-> "new", on |-> TRUE, fails |-> 0]]
  <1>1. rows \in [Connector -> Row]
    BY BoundsAssumption DEF Row
  <1>2. conn \in [Connector -> Row]
    BY <1>1, BootedRows DEF Init
  <1>3. Refs = {} /\ intakes \in [{} -> Intake]
    BY DEF Init, Refs
  <1>4. run \in [Run -> Step]
    BY IdleStep DEF Init
  <1>5. Refs \subseteq Nat /\ IsFiniteSet(Refs) /\ intakes \in [Refs -> Intake]
    BY <1>3, FS_EmptySet
  <1>6. /\ arrived \subseteq Msg /\ unread \subseteq arrived \cap Mail
        /\ overlapped \in BOOLEAN /\ events \in 0..MaxEvents
    <2>1. arrived = {} /\ unread = {} /\ overlapped = FALSE /\ events = 0
      BY DEF Init
    <2>2. events \in 0..MaxEvents
      BY <2>1, BoundsAssumption
    <2>3. arrived \subseteq Msg /\ unread \subseteq arrived \cap Mail
      BY <2>1
    <2>4. overlapped \in BOOLEAN
      BY <2>1
    <2> QED  BY <2>2, <2>3, <2>4
  <1> QED  BY <1>2, <1>3, <1>4, <1>5, <1>6 DEF TypeOK

\* An event is counted up to its bound.
LEMMA EventType ==
    ASSUME TypeOK, Event \/ UNCHANGED events
    PROVE  events' \in 0..MaxEvents
  BY BoundsAssumption DEF TypeOK, Event

\* The variables a step of a run other than Insert leaves typed.
LEMMA RunStepType ==
    ASSUME TypeOK, NEW r \in Run, RunStep(r) \/ ListFails(r)
    PROVE  TypeOK'
  <1>1. ASSUME List(r) PROVE TypeOK'
    BY <1>1, ListStep DEF List, mailbox, TypeOK, Refs
  <1>2. ASSUME Done(r) PROVE TypeOK'
    BY <1>2, AfterListing DEF Done, mailbox, TypeOK, Refs
  <1>3. ASSUME ListFails(r) PROVE TypeOK'
    BY <1>3, AfterListing, EventType DEF ListFails, mailbox, TypeOK, Refs
  <1>4. ASSUME Count(r) PROVE TypeOK'
    BY <1>4, CountStep DEF Count, GoesOn, mailbox, TypeOK, Refs
  <1>5. ASSUME Record(r) PROVE TypeOK'
    <2>1. Event \/ UNCHANGED events
      BY <1>5 DEF Record
    <2>2. UNCHANGED <<conn, mailbox, intakes, overlapped>>
      BY <1>5 DEF Record
    <2> QED  BY <1>5, <2>1, <2>2, RecordStep, EventType DEF GoesOn, TurnsTo, mailbox, TypeOK, Refs
  <1>6. ASSUME Health(r) PROVE TypeOK'
    <2>1. UNCHANGED <<mailbox, intakes, events>>
      BY <1>6 DEF Health
    <2>2. run' \in [Run -> Step] /\ conn' \in [Connector -> Row]
      BY <1>6, HealthStep DEF GoesOn, TurnsTo
    <2>3. overlapped' \in BOOLEAN
      BY <1>6, HealthStep DEF TurnsTo, Observed, TypeOK
    <2> QED  BY <2>1, <2>2, <2>3 DEF mailbox, TypeOK, Refs
  <1>7. ASSUME Disable(r) PROVE TypeOK'
    <2>1. UNCHANGED <<mailbox, intakes, events>>
      BY <1>7 DEF Disable
    <2>2. run' \in [Run -> Step] /\ conn' \in [Connector -> Row]
      BY <1>7, DisableStep DEF TurnsTo
    <2>3. overlapped' \in BOOLEAN
      BY <1>7, DisableStep DEF TurnsTo, Observed, TypeOK
    <2> QED  BY <2>1, <2>2, <2>3 DEF mailbox, TypeOK, Refs
  <1>8. ASSUME NEW m \in Msg, Look(r, m) PROVE TypeOK'
    BY <1>8, LookStep DEF Look, Passes, GoesOn, mailbox, TypeOK, Refs
  <1>9. ASSUME NEW m \in Msg, Thread(r, m) PROVE TypeOK'
    BY <1>9, ThreadStep DEF Thread, GoesOn, mailbox, TypeOK, Refs
  <1>10. ASSUME NEW m \in Msg, Insert(r, m) PROVE TypeOK'
    <2>1. UNCHANGED <<conn, mailbox, overlapped, events>>
      BY <1>10 DEF Insert
    <2>2. /\ Refs' = Refs \cup {Reference(run[r].seen)}
          /\ Reference(run[r].seen) \in Nat
          /\ intakes' \in [Refs' -> Intake]
      BY <1>10, InsertStores DEF Stores, Reference
    <2>3. IsFiniteSet(Refs')
      BY <2>2, FS_AddElement DEF TypeOK
    <2> QED  BY <1>10, <2>1, <2>2, <2>3, InsertStep DEF mailbox, TypeOK
  <1>11. ASSUME NEW m \in Msg, InsertFails(r, m) PROVE TypeOK'
    BY <1>11, InsertFailsStep DEF InsertFails, Passes, GoesOn, mailbox, TypeOK, Refs
  <1>12. ASSUME NEW m \in Msg, Mark(r, m) PROVE TypeOK'
    <2>1. Event \/ UNCHANGED events
      BY <1>12 DEF Mark
    <2>2. unread' \subseteq unread /\ UNCHANGED <<conn, arrived, intakes, overlapped>>
      BY <1>12 DEF Mark
    <2> QED  BY <1>12, <2>1, <2>2, MarkStep, EventType DEF Passes, TypeOK, Refs
  <1> QED  BY <1>1, <1>2, <1>3, <1>4, <1>5, <1>6, <1>7, <1>8, <1>9, <1>10, <1>11, <1>12
              DEF RunStep

\* What starts a run keeps the types.
LEMMA StartType ==
    ASSUME TypeOK, NEW r \in Run,
           \/ TickGmail(r) \/ TickOutlook(r) \/ SyncLegacy(r)
           \/ \E c \in Connector : SyncNow(r, c)
           \/ \E m \in Pushed, c \in Connector \cup {"none"} : Push(r, m, c)
    PROVE  TypeOK'
  <1>1. ASSUME NEW m \in Pushed, NEW c \in Connector \cup {"none"}, Push(r, m, c)
        PROVE  TypeOK'
    <2>1. PICK s \in Step : Begin(r, s)
      BY <1>1, PushStep
    <2>2. /\ arrived' = arrived \cup {m} /\ m \in Msg
          /\ UNCHANGED <<conn, unread, intakes, events>>
      BY <1>1 DEF Push, Msg
    <2> QED  BY <2>1, <2>2, BeginStep DEF TypeOK, Refs
  <1>2. ASSUME NEW s \in Step, Begin(r, s), UNCHANGED <<conn, mailbox, intakes, events>>
        PROVE  TypeOK'
    BY <1>2, BeginStep DEF mailbox, TypeOK, Refs
  <1>3. CASE TickGmail(r) \/ TickOutlook(r) \/ SyncLegacy(r) \/ \E c \in Connector : SyncNow(r, c)
    <2>1. UNCHANGED <<conn, mailbox, intakes, events>>
      BY <1>3 DEF TickGmail, TickOutlook, SyncLegacy, SyncNow
    <2> QED  BY <1>2, <1>3, <2>1, PollStep
  <1> QED  BY <1>1, <1>3

\* So do the registry, the arrival of mail and a restart.
LEMMA WorldType ==
    ASSUME TypeOK,
           \/ \E c \in Connector : \/ Create(c) \/ Authorise(c) \/ Remove(c)
                                  \/ \E on, creds \in BOOLEAN : Update(c, on, creds)
           \/ \E m \in Mail : Arrive(m)
           \/ Restart
    PROVE  TypeOK'
  <1>1. ASSUME NEW c \in Connector,
               \/ Create(c) \/ Authorise(c)
               \/ \E on, creds \in BOOLEAN : Update(c, on, creds)
        PROVE  TypeOK'
    <2>1. Event /\ UNCHANGED <<mailbox, run, overlapped, intakes>>
      BY <1>1 DEF Create, Authorise, Update, Edit
    <2> QED  BY <1>1, <2>1, RegistryStep, EventType DEF mailbox, TypeOK, Refs
  <1>2. ASSUME NEW c \in Connector, Remove(c) PROVE TypeOK'
    <2>1. Event /\ UNCHANGED <<mailbox, run, overlapped>>
      BY <1>2 DEF Remove, Edit
    <2> QED  BY <1>2, <2>1, RegistryStep, EventType, RemoveUnnames DEF Unnames, mailbox, TypeOK
  <1>3. ASSUME NEW m \in Mail, Arrive(m) PROVE TypeOK'
    BY <1>3 DEF Arrive, TypeOK, Refs, Msg
  <1>4. ASSUME Restart PROVE TypeOK'
    <2>1. run' \in [Run -> Step]
      BY <1>4, IdleStep DEF Restart
    <2>2. conn' \in [Connector -> Row]
      BY <1>4, BootedRows DEF Restart, TypeOK
    <2> QED  BY <1>4, <2>1, <2>2, EventType DEF Restart, mailbox, TypeOK, Refs
  <1> QED  BY <1>1, <1>2, <1>3, <1>4

\* So does a step that changes nothing.
LEMMA StutterType == TypeOK /\ UNCHANGED vars => TypeOK'
  BY DEF vars, mailbox, TypeOK, Refs

\* Every variable keeps its type: the failures of a connector stay within the threshold
\* (Health), the attempts of an insert within MaxRetries (InsertFails), and what is unread
\* in a mailbox has arrived there.
THEOREM Types == Spec => []TypeOK
  <1>1. Init => TypeOK
    BY InitType
  <1>2. TypeOK /\ [Next]_vars => TypeOK'
    <2> SUFFICES ASSUME TypeOK, Next PROVE TypeOK'
      BY StutterType
    <2> QED  BY RunStepType, StartType, WorldType DEF Next
  <1> QED  BY <1>1, <1>2, PTL DEF Spec

-----------------------------------------------------------------------------
(* What a run at work knows *)

\* A run has messages of its source only; a pushed message is stored or
\* given up before its run ends.
Sourced(r) ==
    /\ run[r].todo \subseteq BoxOfRun(run[r])
    /\ run[r].how = "push" => /\ run[r].at \in {"look", "thread", "count", "insert"}
                              /\ run[r].todo # {}

\* What a run has counted and found stays true of the rows while others store theirs.
Knows(r) ==
    /\ run[r].at = "mark" => \A m \in Newest(run[r].todo) : Stored(m)
    /\ run[r].at = "insert" => run[r].seen <= Cardinality(Refs)
    /\ run[r].at \in {"count", "insert"} /\ run[r].reply # 0 =>
         /\ run[r].reply \in Refs
         /\ \A m \in Newest(run[r].todo) : BoxOf(intakes[run[r].reply].msg) = BoxOf(m)

\* That a mail is not stored, and that nothing of its conversation is, stays true only
\* while no other run reads the same source.
Fresh(r) ==
    \A m \in Newest(run[r].todo) \cap Mail :
      /\ run[r].at \in {"thread", "count", "insert"} /\ run[r].via # "none" =>
           ~KnownMail(m, run[r].via)
      /\ run[r].at \in {"count", "insert"} /\ run[r].reply = 0 => ThreadOf(m) = {}

Alone == \A q, r \in Run : q # r /\ run[q] # Idle /\ run[r] # Idle =>
                              BoxOfRun(run[q]) # BoxOfRun(run[r])

\* The inductive invariant.
Inv == /\ TypeOK /\ ReferencesAreDense /\ ReadMeansStored
       /\ StoredOnce /\ ThreadsAreJoined
       /\ \A r \in Run : Sourced(r) /\ Knows(r)
       /\ ~overlapped => Alone /\ \A r \in Run : Fresh(r)

\* A message has one source, and two sources share none.
LEMMA OneBox ==
    ASSUME NEW A \in Source, NEW m \in A
    PROVE  /\ BoxOf(m) = A
           /\ \A B \in Source : m \in B => B = A
  <1>1. ASSUME NEW B \in Source, m \in B PROVE B = A
    <2>1. \A c \in DOMAIN Box : Box[c] \subseteq Mail
      BY MessagesAssumption DEF Mail, GmailMail, OutlookMail
    <2> QED  BY <1>1, <2>1, MessagesAssumption DEF Source
  <1>2. \E B \in Source : m \in B
    OBVIOUS
  <1> DEFINE b == CHOOSE B \in Source : m \in B
  <1>3. b \in Source /\ m \in b
    BY <1>2
  <1> HIDE DEF b
  <1>4. b = A
    BY <1>1, <1>3
  <1> QED  BY <1>1, <1>4 DEF b, BoxOf

\* Each message has one.
LEMMA EachHasBox ==
    ASSUME NEW m \in Msg
    PROVE  m \in BoxOf(m) /\ BoxOf(m) \in Source
  <1>1. \E B \in Source : m \in B
    BY MessagesAssumption DEF Msg, Mail, GmailMail, OutlookMail, Source
  <1> QED  BY <1>1, OneBox

\* The source of a run is one of them.
LEMMA BoxOfRunIsBox ==
    ASSUME NEW s \in Step
    PROVE  BoxOfRun(s) \in Source
  BY MessagesAssumption DEF BoxOfRun, Source

\* Messages are numbered.
LEMMA MessagesAreNumbers == Msg \subseteq Nat \ {0}
  <1>1. \A c \in Gmail \cup Outlook \cup {"env"} : Box[c] \subseteq Nat \ {0}
    BY MessagesAssumption
  <1>2. GmailMail \subseteq Nat \ {0} /\ OutlookMail \subseteq Nat \ {0}
    BY <1>1 DEF GmailMail, OutlookMail
  <1>3. Pushed \subseteq Nat \ {0}
    BY MessagesAssumption
  <1> QED  BY <1>2, <1>3 DEF Msg, Mail

\* There is one newest message.
LEMMA NewestIsOne ==
    ASSUME NEW S \in SUBSET Msg, NEW m \in Newest(S), NEW n \in Newest(S)
    PROVE  m = n
  <1>1. m \in Nat /\ n \in Nat /\ m <= n /\ n <= m
    BY MessagesAreNumbers DEF Newest
  <1> QED  BY <1>1

\* The newest of a set is in it.
LEMMA NewestIn == ASSUME NEW S, NEW m \in Newest(S) PROVE m \in S
  BY DEF Newest

\* At first no run has anything to know.
LEMMA NoRun ==
    ASSUME NEW r \in Run, run[r] = Idle
    PROVE  Sourced(r) /\ Knows(r) /\ Fresh(r)
  <1>1. run[r].at = "idle" /\ run[r].todo = {} /\ run[r].rest = {} /\ run[r].how = "cron"
    BY DEF Idle
  <1> QED  BY <1>1 DEF Sourced, Knows, Fresh

\* A run that turns to what neither reads rows nor stores one has nothing to know.
LEMMA NothingToKnow ==
    ASSUME NEW r \in Run, run'[r].at \notin {"thread", "count", "insert", "mark"}
    PROVE  Knows(r)' /\ Fresh(r)'
  BY DEF Knows, Fresh

\* Nor has a run that ends.
LEMMA RunOver ==
    ASSUME NEW r \in Run, run'[r] = Idle
    PROVE  Sourced(r)' /\ Knows(r)' /\ Fresh(r)'
  <1>1. run'[r].at = "idle" /\ run'[r].todo = {} /\ run'[r].rest = {} /\ run'[r].how = "cron"
    BY DEF Idle
  <1> QED  BY <1>1 DEF Sourced, Knows, Fresh

\* Rows that only lose their connector take nothing from what a run knows.
LEMMA KeptByUnnaming ==
    ASSUME TypeOK, Unnames, NEW r \in Run, run'[r] = run[r]
    PROVE  /\ Sourced(r) => Sourced(r)'
           /\ Knows(r) => Knows(r)'
           /\ Fresh(r) => Fresh(r)'
  <1>1. \A m : (Stored(m) <=> Stored(m)') /\ ThreadOf(m)' = ThreadOf(m)
    BY DEF Unnames, Stored, ThreadOf
  <1>2. \A m : run[r].via # "none" /\ KnownMail(m, run[r].via)' => KnownMail(m, run[r].via)
    BY DEF Unnames, KnownMail
  <1>3. Sourced(r) => Sourced(r)'
    BY DEF Sourced
  <1>4. Knows(r) => Knows(r)'
    BY <1>1 DEF Knows, Unnames
  <1>5. Fresh(r) => Fresh(r)'
    BY <1>1, <1>2 DEF Fresh
  <1> QED  BY <1>3, <1>4, <1>5

\* Rows that do not change lose nothing.
LEMMA KeptUnchanged == UNCHANGED intakes => Unnames
  BY DEF Unnames, Refs

-----------------------------------------------------------------------------
(* A message is stored *)

\* A count that is not ahead of the rows leads to the next reference or to a taken one.
LEMMA NextReference ==
    ASSUME TypeOK, ReferencesAreDense, NEW r \in Run, Knows(r), run[r].at = "insert",
           NEW m, Stores(r, m)
    PROVE  /\ Cardinality(Refs) \in Nat /\ Cardinality(Refs') = Cardinality(Refs) + 1
           /\ Reference(run[r].seen) = 1001 + Cardinality(Refs)
           /\ ReferencesAreDense'
           /\ \A x \in Refs : x \in Nat /\ x # 0 /\ x < Reference(run[r].seen)
  <1> DEFINE n == Cardinality(Refs)
             ref == Reference(run[r].seen)
  <1>1. n \in Nat /\ run[r].seen \in Nat /\ run[r].seen <= n
    BY FS_CardinalityType DEF TypeOK, Knows, Stores
  <1>2. Refs = 1001..(1000 + n) /\ ref \notin Refs
    BY DEF ReferencesAreDense, Stores
  <1>3. ref = 1001 + n
    BY <1>1, <1>2 DEF Reference
  <1>4. Refs' = Refs \cup {ref}
    BY DEF Stores
  <1>5. Cardinality(Refs') = n + 1
    <2>1. IsFiniteSet(Refs)
      BY DEF TypeOK
    <2> HIDE DEF ref
    <2>2. Cardinality(Refs \cup {ref}) = Cardinality(Refs) + 1
      <3>1. Cardinality(Refs \cup {ref}) =
              IF ref \in Refs THEN Cardinality(Refs) ELSE Cardinality(Refs) + 1
        BY <2>1, FS_AddElement
      <3>2. ref \notin Refs
        BY <1>2
      <3> QED  BY <3>1, <3>2
    <2> QED  BY <1>4, <2>2
  <1>6. Refs' = 1001..(1000 + Cardinality(Refs'))
    BY <1>1, <1>2, <1>3, <1>4, <1>5
  <1> HIDE DEF n, ref
  <1> QED  BY <1>1, <1>2, <1>3, <1>5, <1>6 DEF n, ref, ReferencesAreDense

\* What is stored stays stored, and one message joins it.
LEMMA StoredThen ==
    ASSUME NEW r \in Run, NEW m, Stores(r, m)
    PROVE  /\ \A n : Stored(n) => Stored(n)'
           /\ Stored(m)'
           /\ \A x \in Refs' :
                \/ x \in Refs /\ intakes'[x] = intakes[x]
                \/ x = Reference(run[r].seen) /\ intakes'[x] = RowOf(run[r], m)
  <1>1. RowOf(run[r], m).msg = m
    BY DEF RowOf
  <1> QED  BY <1>1 DEF Stores, Stored

\* A row more takes nothing from what another run knows, if it is not of its source.
LEMMA KeptByStoring ==
    ASSUME TypeOK, ReferencesAreDense, NEW q \in Run, Knows(q), run[q].at = "insert",
           NEW m \in Msg, Stores(q, m), NEW r \in Run, run'[r] = run[r], Sourced(r)
    PROVE  /\ Sourced(r)'
           /\ Knows(r) => Knows(r)'
           /\ Fresh(r) /\ m \notin BoxOfRun(run[r]) => Fresh(r)'
  <1>1. Sourced(r)'
    BY DEF Sourced
  <1>2. ASSUME Knows(r) PROVE Knows(r)'
    <2>1. run[r].seen <= Cardinality(Refs) => run[r].seen <= Cardinality(Refs')
      BY NextReference DEF TypeOK, Step
    <2>2. \A x \in Refs : x \in Refs' /\ intakes'[x] = intakes[x]
      BY DEF Stores
    <2> QED  BY <1>2, <2>1, <2>2, StoredThen DEF Knows
  <1>3. ASSUME Fresh(r), m \notin BoxOfRun(run[r]) PROVE Fresh(r)'
    <2>1. ASSUME NEW n \in Newest(run[r].todo) \cap Mail
          PROVE  /\ n \in BoxOfRun(run[r]) /\ n # m
                 /\ BoxOf(m) # BoxOf(n)
      <3>1. n \in BoxOfRun(run[r]) /\ BoxOfRun(run[r]) \in Source
        BY NewestIn, BoxOfRunIsBox DEF Sourced, TypeOK
      <3>2. PICK B \in Source : m \in B
        BY EachHasBox
      <3>3. BoxOf(n) = BoxOfRun(run[r]) /\ BoxOf(m) = B
        BY <3>1, <3>2, OneBox
      <3> QED  BY <1>3, <3>1, <3>2, <3>3
    <2>2. RowOf(run[q], m).msg = m
      BY DEF RowOf
    <2>3. ASSUME NEW n \in Newest(run[r].todo) \cap Mail
          PROVE  /\ KnownMail(n, run[r].via)' => KnownMail(n, run[r].via)
                 /\ ThreadOf(n) = {} => ThreadOf(n)' = {}
      <3>1. KnownMail(n, run[r].via)' => KnownMail(n, run[r].via)
        BY <2>1, <2>2, StoredThen DEF KnownMail
      <3>2. ASSUME ThreadOf(n) = {} PROVE ThreadOf(n)' = {}
        <4> SUFFICES ASSUME NEW x \in ThreadOf(n)' PROVE FALSE
          OBVIOUS
        <4>1. x \in Refs' /\ n \in Mail /\ intakes'[x].msg # n
              /\ BoxOf(intakes'[x].msg) = BoxOf(n)
          BY DEF ThreadOf, BoxOf
        <4>2. x \in Refs /\ intakes'[x] = intakes[x]
          BY <2>1, <2>2, <4>1, StoredThen
        <4>3. x \in ThreadOf(n)
          BY <4>1, <4>2 DEF ThreadOf
        <4> QED  BY <3>2, <4>3
      <3> QED  BY <3>1, <3>2
    <2> QED  BY <1>3, <2>3 DEF Fresh
  <1> QED  BY <1>1, <1>2, <1>3

\* The rows stay right: one for one message, each in its conversation.
LEMMA RowsThen ==
    ASSUME TypeOK, TypeOK', ReferencesAreDense, StoredOnce, ThreadsAreJoined,
           NEW r \in Run, NEW m \in Msg, Insert(r, m), Stores(r, m), Knows(r),
           overlapped \/ Fresh(r)
    PROVE  StoredOnce' /\ ThreadsAreJoined'
  <1> DEFINE ref == Reference(run[r].seen)
             row == RowOf(run[r], m)
  <1>1. /\ run[r].at = "insert" /\ m \in Newest(run[r].todo) /\ overlapped' = overlapped
        /\ ~(Keyed(m) /\ Stored(m))
    BY DEF Insert, Taken
  <1>2. row.msg = m /\ row.via = run[r].via /\ row.reply = run[r].reply
    BY DEF RowOf
  <1>3. /\ Refs' = Refs \cup {ref} /\ intakes'[ref] = row /\ ref \notin Refs
        /\ \A x \in Refs : intakes'[x] = intakes[x] /\ x \in Nat /\ x # 0 /\ x < ref
    <2>1. \A x \in Refs : x \in Nat /\ x # 0 /\ x < ref
      BY <1>1, NextReference
    <2> QED  BY <2>1 DEF Stores
  <1>4. ref \in Nat /\ run[r].reply \in Nat
    BY DEF TypeOK, Step, Stores, Reference
  <1>5. m \in Mail => \/ overlapped \/ run[r].via = "none" \/ ~KnownMail(m, run[r].via)
    BY <1>1 DEF Fresh
  <1>6. m \in Mail => \/ overlapped \/ run[r].reply # 0 \/ ThreadOf(m) = {}
    BY <1>1 DEF Fresh
  <1>7. run[r].reply # 0 => /\ run[r].reply \in Refs
                            /\ BoxOf(intakes[run[r].reply].msg) = BoxOf(m)
    BY <1>1 DEF Knows
  <1> HIDE DEF ref, row
  <1>8. StoredOnce'
    <2> SUFFICES ASSUME NEW x \in Refs', NEW y \in Refs',
                        intakes'[x].msg = intakes'[y].msg, x # y
                 PROVE  /\ ~Keyed(intakes'[x].msg)
                        /\ \/ intakes'[x].msg \in Pushed
                           \/ intakes'[x].via # intakes'[y].via
                           \/ overlapped' \/ intakes'[x].via = "none"
      BY DEF StoredOnce, Keyed
    <2>1. CASE x \in Refs /\ y \in Refs
      BY <1>1, <1>3, <2>1 DEF StoredOnce
    <2>2. ASSUME NEW z \in Refs, intakes[z].msg = m
          PROVE  /\ ~Keyed(m)
                 /\ m \in Pushed \/ intakes[z].via # run[r].via \/ overlapped
                    \/ run[r].via = "none"
      BY <1>1, <1>5, <2>2 DEF Stored, KnownMail, Msg
    <2>3. CASE x = ref
      BY <1>1, <1>2, <1>3, <2>2, <2>3
    <2>4. CASE y = ref
      BY <1>1, <1>2, <1>3, <2>2, <2>4
    <2> QED  BY <1>3, <2>1, <2>3, <2>4
  <1>9. ThreadsAreJoined'
    <2> DEFINE Joined(x) ==
          /\ intakes[x].reply # 0 =>
               /\ intakes[x].reply \in Refs /\ intakes[x].reply < x
               /\ BoxOf(intakes[intakes[x].reply].msg) = BoxOf(intakes[x].msg)
          /\ intakes[x].reply = 0 /\ intakes[x].msg \in Mail =>
               \A y \in Refs : \/ y >= x \/ overlapped
                               \/ BoxOf(intakes[y].msg) # BoxOf(intakes[x].msg)
                               \/ intakes[y].msg = intakes[x].msg
    <2>1. ASSUME NEW x \in Refs PROVE Joined(x)'
      <3>1. Joined(x)
        BY DEF ThreadsAreJoined
      <3>2. x \in Refs' /\ intakes'[x] = intakes[x]
        BY <1>3
      <3>3. intakes[x].reply # 0 =>
               /\ intakes[x].reply \in Refs' /\ intakes[x].reply < x
               /\ BoxOf(intakes'[intakes[x].reply].msg) = BoxOf(intakes[x].msg)
        BY <1>3, <3>1
      <3>4. intakes[x].reply = 0 /\ intakes[x].msg \in Mail =>
               \A y \in Refs' : \/ y >= x \/ overlapped
                               \/ BoxOf(intakes'[y].msg) # BoxOf(intakes[x].msg)
                               \/ intakes'[y].msg = intakes[x].msg
        BY <1>3, <1>4, <3>1
      <3> QED  BY <1>1, <3>2, <3>3, <3>4 DEF BoxOf
    <2>2. ASSUME NEW x \in Refs', x = ref PROVE Joined(x)'
      <3>1. row.reply # 0 =>
               /\ row.reply \in Refs' /\ row.reply < ref
               /\ BoxOf(intakes'[row.reply].msg) = BoxOf(row.msg)
        BY <1>2, <1>3, <1>7
      <3>2. ASSUME row.reply = 0, row.msg \in Mail, NEW y \in Refs, ~overlapped
            PROVE  BoxOf(intakes[y].msg) # BoxOf(m) \/ intakes[y].msg = m
        BY <1>2, <1>6, <3>2 DEF ThreadOf
      <3>3. row.reply = 0 /\ row.msg \in Mail =>
               \A y \in Refs' : \/ y >= ref \/ overlapped
                               \/ BoxOf(intakes'[y].msg) # BoxOf(row.msg)
                               \/ intakes'[y].msg = row.msg
        BY <1>2, <1>3, <1>4, <3>2
      <3>4. intakes'[x] = row
        BY <1>3, <2>2
      <3>5. intakes'[x].reply # 0 =>
              /\ intakes'[x].reply \in Refs' /\ intakes'[x].reply < x
              /\ BoxOf(intakes'[intakes'[x].reply].msg) = BoxOf(intakes'[x].msg)
        BY <2>2, <3>1, <3>4
      <3>6. intakes'[x].reply = 0 /\ intakes'[x].msg \in Mail =>
              \A y \in Refs' : \/ y >= x \/ overlapped'
                               \/ BoxOf(intakes'[y].msg) # BoxOf(intakes'[x].msg)
                               \/ intakes'[y].msg = intakes'[x].msg
        BY <1>1, <2>2, <3>3, <3>4
      <3> QED  BY <3>5, <3>6 DEF BoxOf
    <2>3. \A x \in Refs' : Joined(x)'
      BY <1>3, <2>1, <2>2
    <2> QED  BY <2>3 DEF ThreadsAreJoined, BoxOf
  <1> QED  BY <1>8, <1>9

-----------------------------------------------------------------------------
(* The steps *)

\* A run that goes on, or ends, with what it knows.
KeepsSource(r) == run'[r] = Idle \/ (run[r] # Idle /\ BoxOfRun(run'[r]) = BoxOfRun(run[r]))
MovesOn(r) == /\ Others(r) /\ KeepsSource(r) /\ Sourced(r)' /\ Knows(r)'
              /\ Fresh(r) => Fresh(r)'

\* Runs that were alone with their sources stay so.
LEMMA StillAlone ==
    ASSUME NEW r \in Run, Others(r), KeepsSource(r), Alone
    PROVE  Alone'
  BY DEF Others, KeepsSource, Alone

\* Rows that only lose their connector stay right.
LEMMA RowsStay ==
    ASSUME TypeOK, Unnames, overlapped => overlapped'
    PROVE  /\ ReferencesAreDense => ReferencesAreDense'
           /\ StoredOnce => StoredOnce'
           /\ ThreadsAreJoined => ThreadsAreJoined'
           /\ \A m : Stored(m) => Stored(m)'
  <1>1. ReferencesAreDense => ReferencesAreDense'
    BY DEF Unnames, ReferencesAreDense
  <1>2. ASSUME StoredOnce PROVE StoredOnce'
    <2> SUFFICES ASSUME NEW x \in Refs, NEW y \in Refs,
                        intakes'[x].msg = intakes'[y].msg, x # y
                 PROVE  /\ ~Keyed(intakes'[x].msg)
                        /\ \/ intakes'[x].msg \in Pushed
                           \/ intakes'[x].via # intakes'[y].via
                           \/ overlapped' \/ intakes'[x].via = "none"
      BY DEF StoredOnce, Keyed, Unnames
    <2>1. intakes[x].msg = intakes[y].msg /\ intakes'[x].msg = intakes[x].msg
      BY DEF Unnames
    <2>2. /\ ~Keyed(intakes[x].msg)
          /\ intakes[x].msg \in Pushed \/ intakes[x].via # intakes[y].via \/ overlapped
             \/ intakes[x].via = "none"
      BY <1>2, <2>1 DEF StoredOnce
    <2>3. /\ intakes'[x].via \in {intakes[x].via, "none"}
          /\ intakes'[y].via \in {intakes[y].via, "none"}
      BY DEF Unnames
    <2> QED  BY <2>1, <2>2, <2>3
  <1>3. ASSUME ThreadsAreJoined PROVE ThreadsAreJoined'
    <2>1. \A x \in Refs : /\ intakes'[x].msg = intakes[x].msg
                          /\ intakes'[x].reply = intakes[x].reply
      BY DEF Unnames
    <2>2. Refs' = Refs
      BY DEF Unnames
    <2>3. ASSUME NEW x \in Refs, intakes'[x].reply # 0
          PROVE  /\ intakes'[x].reply \in Refs /\ intakes'[x].reply < x
                 /\ BoxOf(intakes'[intakes'[x].reply].msg) = BoxOf(intakes'[x].msg)
      BY <1>3, <2>1, <2>3 DEF ThreadsAreJoined
    <2>4. ASSUME NEW x \in Refs, intakes'[x].reply = 0, intakes'[x].msg \in Mail, NEW y \in Refs
          PROVE  \/ y >= x \/ overlapped'
                 \/ BoxOf(intakes'[y].msg) # BoxOf(intakes'[x].msg)
                 \/ intakes'[y].msg = intakes'[x].msg
      BY <1>3, <2>1, <2>4 DEF ThreadsAreJoined
    <2> QED  BY <2>2, <2>3, <2>4 DEF ThreadsAreJoined, BoxOf
  <1>4. \A m : Stored(m) => Stored(m)'
    BY DEF Unnames, Stored
  <1> QED  BY <1>1, <1>2, <1>3, <1>4

\* A step of one run that stores nothing keeps the invariant.
LEMMA MoveKeeps ==
    ASSUME Inv, TypeOK', NEW r \in Run, MovesOn(r), Unnames, overlapped' = overlapped,
           ReadMeansStored'
    PROVE  Inv'
  <1>1. ReferencesAreDense' /\ StoredOnce' /\ ThreadsAreJoined'
    BY RowsStay DEF Inv
  <1>2. \A q \in Run : Sourced(q)' /\ Knows(q)'
    BY KeptByUnnaming DEF Inv, MovesOn, Others
  <1>3. ASSUME ~overlapped' PROVE Alone' /\ \A q \in Run : Fresh(q)'
    <2>1. Alone /\ \A q \in Run : Fresh(q)
      BY <1>3 DEF Inv
    <2>2. \A q \in Run : Fresh(q)'
      BY <2>1, KeptByUnnaming DEF Inv, MovesOn, Others
    <2> QED  BY <2>1, <2>2, StillAlone DEF MovesOn
  <1> QED  BY <1>1, <1>2, <1>3 DEF Inv

\* What is read is stored as long as nothing is marked.
LEMMA ReadStays ==
    ASSUME TypeOK, ReadMeansStored, UNCHANGED mailbox, \A m : Stored(m) => Stored(m)'
    PROVE  ReadMeansStored'
  BY DEF mailbox, ReadMeansStored

\* A run that begins is alone with its source, or observed.
LEMMA BeginKeeps ==
    ASSUME Inv, TypeOK', NEW r \in Run, NEW s \in Step, Begin(r, s), UNCHANGED intakes,
           s.at \in {"list", "look"}, Sourced(r)', ReadMeansStored'
    PROVE  Inv'
  <1>1. /\ run'[r] = s /\ Others(r) /\ run[r] = Idle
        /\ ~overlapped' => /\ ~overlapped
                           /\ \A q \in Run : run[q] = Idle \/ BoxOfRun(run[q]) # BoxOfRun(s)
    BY BeginStep DEF Inv
  <1>2. overlapped => overlapped'
    BY DEF Begin, TurnTo
  <1>3. ReferencesAreDense' /\ StoredOnce' /\ ThreadsAreJoined'
    BY <1>2, RowsStay, KeptUnchanged DEF Inv
  <1>4. Knows(r)' /\ Fresh(r)'
    BY <1>1, NothingToKnow
  <1>5. \A q \in Run : Sourced(q)' /\ Knows(q)'
    BY <1>1, <1>4, KeptByUnnaming, KeptUnchanged DEF Inv, Others
  <1>6. ASSUME ~overlapped' PROVE Alone' /\ \A q \in Run : Fresh(q)'
    <2>1. \A q \in Run : Fresh(q)'
      BY <1>1, <1>4, <1>6, KeptByUnnaming, KeptUnchanged DEF Inv, Others
    <2>2. Alone'
      BY <1>1, <1>6 DEF Inv, Alone, Others
    <2> QED  BY <2>1, <2>2
  <1> QED  BY <1>3, <1>5, <1>6 DEF Inv

\* A run on its way keeps its source.
LEMMA SameSourceKeeps ==
    ASSUME Inv, NEW r \in Run, run[r].at # "idle", Others(r), SameSource(r),
           run'[r].todo \subseteq BoxOfRun(run[r]),
           run[r].how = "push" => /\ run'[r].at \in {"look", "thread", "count", "insert"}
                                  /\ run'[r].todo # {}
    PROVE  KeepsSource(r) /\ Sourced(r)'
  <1>1. run[r] # Idle
    BY IdleStep
  <1>2. BoxOfRun(run'[r]) = BoxOfRun(run[r])
    BY DEF SameSource, BoxOfRun
  <1>3. Sourced(r)
    BY DEF Inv
  <1> QED  BY <1>1, <1>2, <1>3 DEF KeepsSource, Sourced, SameSource, BoxOfRun

\* A run that is through with a message has nothing to know of the next.
LEMMA PassKeeps ==
    ASSUME Inv, NEW r \in Run, run[r].at # "idle", NEW m \in Msg, Passes(r, m)
    PROVE  MovesOn(r)
  <1>1. run[r] \in Step /\ Sourced(r)
    BY DEF Inv, TypeOK
  <1>2. CASE run[r].how = "push"
    <2>1. run'[r] = Idle /\ Others(r)
      BY <1>1, <1>2, NextMessageStep DEF Passes
    <2> QED  BY <2>1, RunOver DEF MovesOn, KeepsSource
  <1>3. CASE run[r].how # "push"
    <2>1. /\ Others(r) /\ SameSource(r) /\ run'[r].at = "look"
          /\ run'[r].todo = run[r].todo \ {m}
      BY <1>1, <1>3, NextMessageStep DEF Passes, SameSource
    <2>2. run'[r].todo \subseteq BoxOfRun(run[r])
      BY <1>1, <2>1 DEF Sourced
    <2> QED  BY <1>3, <2>1, <2>2, SameSourceKeeps, NothingToKnow DEF MovesOn
  <1> QED  BY <1>2, <1>3

\* A run that goes on with its messages keeps what it holds of its source.
LEMMA GoOnKeeps ==
    ASSUME Inv, NEW r \in Run, run[r].at # "idle", NEW at, GoesOn(r, at),
           at \in {"look", "thread", "count", "insert"} \/ run[r].how # "push"
    PROVE  Others(r) /\ KeepsSource(r) /\ Sourced(r)'
  <1>1. /\ Others(r) /\ SameSource(r) /\ run'[r].at = at /\ run'[r].todo = run[r].todo
        /\ Sourced(r)
    BY DEF GoesOn, Inv
  <1> QED  BY <1>1, SameSourceKeeps DEF Sourced

\* A run that turns to its next connector is alone with its source, or observed.
LEMMA TurnKeeps ==
    ASSUME Inv, TypeOK', NEW r \in Run, TurnsTo(r), UNCHANGED <<mailbox, intakes>>
    PROVE  Inv'
  <1>1. Unnames /\ (overlapped => overlapped') /\ Others(r)
    <2>1. Unnames
      BY KeptUnchanged
    <2>2. Others(r) /\ (UNCHANGED overlapped \/ Observed(r))
      BY DEF TurnsTo
    <2>3. overlapped => overlapped'
      BY <2>2 DEF Observed
    <2> QED  BY <2>1, <2>2, <2>3
  <1>2. ReferencesAreDense' /\ StoredOnce' /\ ThreadsAreJoined' /\ ReadMeansStored'
    BY <1>1, RowsStay, ReadStays DEF Inv
  <1>3. Sourced(r)' /\ Knows(r)' /\ Fresh(r)'
    <2>1. CASE run'[r] = Idle
      BY <2>1, RunOver
    <2>2. CASE run'[r].at = "list" /\ run'[r].how = "cron" /\ run'[r].todo = {}
      BY <2>2, NothingToKnow DEF Sourced
    <2> QED  BY <2>1, <2>2 DEF TurnsTo
  <1>4. \A q \in Run : Sourced(q)' /\ Knows(q)'
    BY <1>1, <1>3, KeptByUnnaming DEF Inv, Others
  <1>5. ASSUME ~overlapped' PROVE Alone' /\ \A q \in Run : Fresh(q)'
    <2>1. Alone /\ \A q \in Run : Fresh(q)
      BY <1>1, <1>5 DEF Inv
    <2>2. \A q \in Run : Fresh(q)'
      BY <1>1, <1>3, <2>1, KeptByUnnaming DEF Inv, Others
    <2>3. CASE run'[r] = Idle
      <3>1. KeepsSource(r)
        BY <2>3 DEF KeepsSource
      <3> QED  BY <1>1, <2>1, <2>2, <3>1, StillAlone
    <2>4. CASE Observed(r)
      <3>1. \A q \in Run \ {r} : run[q] = Idle \/ BoxOfRun(run[q]) # BoxOfRun(run'[r])
        BY <1>5, <2>4 DEF Observed
      <3>2. \A q \in Run \ {r} : run'[q] = run[q]
        BY <1>1 DEF Others
      <3>3. Alone'
        BY <2>1, <3>1, <3>2 DEF Alone
      <3> QED  BY <2>2, <3>3
    <2> QED  BY <2>2, <2>3, <2>4 DEF TurnsTo
  <1> QED  BY <1>2, <1>4, <1>5 DEF Inv

\* What is found about a message is true of it.
LEMMA LookMoves ==
    ASSUME Inv, NEW r \in Run, NEW m \in Msg, Look(r, m)
    PROVE  MovesOn(r)
  <1>1. run[r].at = "look" /\ m \in Newest(run[r].todo) /\ UNCHANGED intakes
    BY DEF Look
  <1>2. CASE Passes(r, m)
    BY <1>1, <1>2, PassKeeps
  <1>3. CASE GoesOn(r, "thread") /\ ~Known(m, run[r].via)
    <2>1. Others(r) /\ KeepsSource(r) /\ Sourced(r)'
      BY <1>1, <1>3, GoOnKeeps
    <2>2. /\ run'[r].at = "thread" /\ run'[r].todo = run[r].todo /\ run'[r].via = run[r].via
      BY <1>3 DEF GoesOn, SameSource
    <2>3. Knows(r)'
      BY <2>2 DEF Knows
    <2>4. \A n \in Newest(run[r].todo) : n = m
      BY <1>1, NewestIsOne DEF Inv, TypeOK, Step
    <2>5. m \in Mail => ~KnownMail(m, run[r].via)'
      BY <1>1, <1>3, <2>2 DEF Known, KnownMail, Refs
    <2>6. Fresh(r)'
      BY <2>2, <2>4, <2>5 DEF Fresh, KnownMail, Refs
    <2> QED  BY <2>1, <2>3, <2>6 DEF MovesOn
  <1> QED  BY <1>2, <1>3, LookStep DEF Inv

\* What a message answers is of its conversation.
LEMMA ThreadMoves ==
    ASSUME Inv, NEW r \in Run, NEW m \in Msg, Thread(r, m)
    PROVE  MovesOn(r)
  <1>1. run[r].at = "thread" /\ m \in Newest(run[r].todo) /\ UNCHANGED intakes
    BY DEF Thread
  <1>2. GoesOn(r, "count") /\ \/ run'[r].reply = 0 /\ ThreadOf(m) = {}
                              \/ run'[r].reply \in ThreadOf(m)
    BY ThreadStep DEF Inv
  <1>3. Others(r) /\ KeepsSource(r) /\ Sourced(r)'
    BY <1>1, <1>2, GoOnKeeps
  <1>4. /\ run'[r].at = "count" /\ run'[r].todo = run[r].todo /\ run'[r].via = run[r].via
    BY <1>2 DEF GoesOn, SameSource
  <1>5. \A n \in Newest(run[r].todo) : n = m
    BY <1>1, NewestIsOne DEF Inv, TypeOK, Step
  <1>6. run'[r].reply # 0 => /\ run'[r].reply \in Refs
                             /\ BoxOf(intakes[run'[r].reply].msg) = BoxOf(m)
    BY <1>2 DEF ThreadOf
  <1>7. run'[r].reply = 0 => ThreadOf(m) = {}
    <2>1. 0 \notin Refs
      BY FS_CardinalityType DEF Inv, TypeOK, ReferencesAreDense
    <2> QED  BY <1>2, <2>1 DEF ThreadOf
  <1>8. Knows(r)'
    <2>1. Refs' = Refs /\ intakes' = intakes
      BY <1>1 DEF Refs
    <2>2. run'[r].reply # 0 =>
            /\ run'[r].reply \in Refs'
            /\ \A n \in Newest(run'[r].todo) : BoxOf(intakes'[run'[r].reply].msg) = BoxOf(n)
      BY <1>4, <1>5, <1>6, <2>1
    <2> QED  BY <1>4, <2>2 DEF Knows, BoxOf
  <1>9. ASSUME Fresh(r) PROVE Fresh(r)'
    BY <1>1, <1>4, <1>5, <1>7, <1>9 DEF Fresh, KnownMail, ThreadOf, Refs
  <1> QED  BY <1>3, <1>8, <1>9 DEF MovesOn

\* A count is of the rows that are there.
LEMMA CountMoves ==
    ASSUME Inv, NEW r \in Run, Count(r)
    PROVE  MovesOn(r)
  <1>1. run[r].at = "count" /\ UNCHANGED intakes
    BY DEF Count
  <1>2. /\ GoesOn(r, "insert") /\ run'[r].seen = Cardinality(Refs)
        /\ run'[r].reply = run[r].reply
    BY CountStep DEF Inv
  <1>3. Others(r) /\ KeepsSource(r) /\ Sourced(r)'
    BY <1>1, <1>2, GoOnKeeps
  <1>4. /\ run'[r].at = "insert" /\ run'[r].todo = run[r].todo /\ run'[r].via = run[r].via
    BY <1>2 DEF GoesOn, SameSource
  <1>5. run'[r].seen <= Cardinality(Refs')
    <2>1. Cardinality(Refs) \in Nat /\ Refs' = Refs
      BY <1>1, FS_CardinalityType DEF Inv, TypeOK, Refs
    <2> QED  BY <1>2, <2>1
  <1>6. Knows(r)
    BY DEF Inv
  <1>7. Knows(r)'
    BY <1>1, <1>2, <1>4, <1>5, <1>6 DEF Knows, Refs, BoxOf
  <1>8. ASSUME Fresh(r) PROVE Fresh(r)'
    BY <1>1, <1>2, <1>4, <1>8 DEF Fresh, KnownMail, ThreadOf, Refs
  <1> QED  BY <1>3, <1>7, <1>8 DEF MovesOn

\* An attempt that failed leaves what was found, without the count.
LEMMA InsertFailsMoves ==
    ASSUME Inv, NEW r \in Run, NEW m \in Msg, InsertFails(r, m)
    PROVE  MovesOn(r)
  <1>1. run[r].at = "insert" /\ UNCHANGED intakes
    BY DEF InsertFails
  <1>2. CASE Passes(r, m)
    BY <1>1, <1>2, PassKeeps
  <1>3. CASE GoesOn(r, "count") /\ run'[r].reply = run[r].reply
    <2>1. Others(r) /\ KeepsSource(r) /\ Sourced(r)'
      BY <1>1, <1>3, GoOnKeeps
    <2>2. /\ run'[r].at = "count" /\ run'[r].todo = run[r].todo /\ run'[r].via = run[r].via
      BY <1>3 DEF GoesOn, SameSource
    <2>3. Knows(r)
      BY DEF Inv
    <2>4. Knows(r)'
      BY <1>1, <1>3, <2>2, <2>3 DEF Knows, Refs, BoxOf
    <2>5. ASSUME Fresh(r) PROVE Fresh(r)'
      BY <1>1, <1>3, <2>2, <2>5 DEF Fresh, KnownMail, ThreadOf, Refs
    <2> QED  BY <2>1, <2>4, <2>5 DEF MovesOn
  <1> QED  BY <1>2, <1>3, InsertFailsStep DEF Inv

\* Every step of a run keeps the invariant.
LEMMA RunStepKeeps ==
    ASSUME Inv, TypeOK', NEW r \in Run, RunStep(r) \/ ListFails(r)
    PROVE  Inv'
  <1>1. ASSUME MovesOn(r), UNCHANGED <<mailbox, intakes, overlapped>> PROVE Inv'
    <2>1. Unnames /\ overlapped' = overlapped
      BY <1>1, KeptUnchanged
    <2>2. ReadMeansStored'
      BY <1>1, <2>1, RowsStay, ReadStays DEF Inv
    <2> QED  BY <1>1, <2>1, <2>2, MoveKeeps
  <1>2. ASSUME List(r) PROVE Inv'
    <2>1. /\ run[r].at = "list" /\ UNCHANGED <<mailbox, intakes, overlapped>>
      BY <1>2 DEF List
    <2>2. /\ Others(r) /\ SameSource(r) /\ run'[r].at = "look"
          /\ run'[r].todo \subseteq BoxOfRun(run[r])
      BY <1>2, ListStep DEF Inv
    <2>3. run[r].how # "push"
      BY <2>1 DEF Inv, Sourced
    <2> QED  BY <1>1, <2>1, <2>2, <2>3, SameSourceKeeps, NothingToKnow DEF MovesOn
  <1>3. ASSUME ListFails(r) \/ Done(r) PROVE Inv'
    <2>1. /\ run[r].at = "list" \/ (run[r].at = "look" /\ run[r].todo = {})
          /\ UNCHANGED <<mailbox, intakes, overlapped>>
      BY <1>3 DEF ListFails, Done
    <2>2. /\ Others(r) /\ SameSource(r) /\ run'[r].at \in {"health", "record"}
          /\ run'[r].todo = run[r].todo
      BY <1>3, AfterListing DEF Inv
    <2>3. run[r].how # "push" /\ run'[r].todo \subseteq BoxOfRun(run[r])
      BY <2>1, <2>2 DEF Inv, Sourced
    <2> QED  BY <1>1, <2>1, <2>2, <2>3, SameSourceKeeps, NothingToKnow DEF MovesOn
  <1>4. ASSUME Count(r) PROVE Inv'
    BY <1>1, <1>4, CountMoves DEF Count
  <1>5. ASSUME run[r].at \in {"record", "health"}, NEW at \in {"health", "disable"},
               GoesOn(r, at)
        PROVE  MovesOn(r)
    <2>1. run[r].how # "push"
      BY <1>5 DEF Inv, Sourced
    <2>2. run'[r].at = at
      BY <1>5 DEF GoesOn
    <2> QED  BY <1>5, <2>1, <2>2, GoOnKeeps, NothingToKnow DEF MovesOn
  <1>6. ASSUME Record(r) PROVE Inv'
    <2>1. run[r].at = "record" /\ UNCHANGED <<mailbox, intakes, overlapped>>
      BY <1>6 DEF Record
    <2> QED  BY <1>1, <1>5, <1>6, <2>1, RecordStep, TurnKeeps DEF Inv
  <1>7. ASSUME Health(r) PROVE Inv'
    <2>1. run[r].at = "health" /\ UNCHANGED <<mailbox, intakes>>
      BY <1>7 DEF Health
    <2> QED  BY <1>1, <1>5, <1>7, <2>1, HealthStep, TurnKeeps DEF Inv
  <1>8. ASSUME Disable(r) PROVE Inv'
    <2>1. UNCHANGED <<mailbox, intakes>>
      BY <1>8 DEF Disable
    <2> QED  BY <1>8, <2>1, DisableStep, TurnKeeps DEF Inv
  <1>9. ASSUME NEW m \in Msg, Look(r, m) PROVE Inv'
    BY <1>1, <1>9, LookMoves DEF Look
  <1>10. ASSUME NEW m \in Msg, Thread(r, m) PROVE Inv'
    BY <1>1, <1>10, ThreadMoves DEF Thread
  <1>11. ASSUME NEW m \in Msg, InsertFails(r, m) PROVE Inv'
    BY <1>1, <1>11, InsertFailsMoves DEF InsertFails
  <1>12. ASSUME NEW m \in Msg, Mark(r, m) PROVE Inv'
    <2>1. /\ run[r].at = "mark" /\ m \in Newest(run[r].todo)
          /\ UNCHANGED <<arrived, intakes, overlapped>>
          /\ unread' = unread \/ unread' = unread \ {m}
      BY <1>12 DEF Mark
    <2>2. MovesOn(r)
      BY <1>12, <2>1, MarkStep, PassKeeps DEF Inv
    <2>3. Stored(m)
      BY <2>1 DEF Inv, Knows
    <2>4. ReadMeansStored'
      BY <2>1, <2>3 DEF Inv, ReadMeansStored, Stored, Refs
    <2> QED  BY <2>1, <2>2, <2>4, KeptUnchanged, MoveKeeps
  <1>13. ASSUME NEW m \in Msg, Insert(r, m) PROVE Inv'
    <2>1. /\ run[r].at = "insert" /\ m \in Newest(run[r].todo)
          /\ UNCHANGED <<mailbox, overlapped>>
      BY <1>13 DEF Insert
    <2>2. /\ Stores(r, m) /\ run[r] \in Step /\ Knows(r) /\ Sourced(r)
          /\ Others(r) /\ run'[r] = AfterInsert(run[r])
      BY <1>13, InsertStores, InsertStep DEF Inv, TypeOK
    <2>3. ReferencesAreDense'
      BY <2>1, <2>2, NextReference DEF Inv
    <2>4. StoredOnce' /\ ThreadsAreJoined'
      BY <1>13, <2>2, RowsThen DEF Inv
    <2>5. (\A n : Stored(n) => Stored(n)') /\ Stored(m)'
      BY <2>2, StoredThen
    <2>6. ReadMeansStored'
      BY <2>1, <2>5, ReadStays DEF Inv
    <2>7. KeepsSource(r) /\ Sourced(r)' /\ Knows(r)' /\ Fresh(r)'
      <3>1. CASE run[r].how = "push"
        <4>1. run'[r] = Idle
          BY <2>2, <3>1, AfterInsertStep
        <4> QED  BY <4>1, RunOver DEF KeepsSource
      <3>2. CASE run[r].how # "push"
        <4>1. /\ SameSource(r) /\ run'[r].at = "mark" /\ run'[r].todo = run[r].todo
          BY <2>2, <3>2, AfterInsertStep DEF SameSource
        <4>2. KeepsSource(r) /\ Sourced(r)'
          BY <2>1, <2>2, <3>2, <4>1, SameSourceKeeps DEF Sourced
        <4>3. \A n \in Newest(run[r].todo) : n = m
          BY <2>1, <2>2, NewestIsOne DEF Step
        <4>4. Knows(r)'
          BY <2>5, <4>1, <4>3 DEF Knows
        <4>5. Fresh(r)'
          BY <4>1 DEF Fresh
        <4> QED  BY <4>2, <4>4, <4>5
      <3> QED  BY <3>1, <3>2
    <2>8. ASSUME NEW q \in Run, q # r
          PROVE  /\ Sourced(q)' /\ Knows(q)'
                 /\ Fresh(q) /\ m \notin BoxOfRun(run[q]) => Fresh(q)'
      <3>1. run'[q] = run[q] /\ Sourced(q) /\ Knows(q)
        BY <2>2, <2>8 DEF Inv, Others
      <3> QED  BY <2>1, <2>2, <3>1, KeptByStoring DEF Inv
    <2>9. ASSUME ~overlapped' PROVE Alone' /\ \A q \in Run : Fresh(q)'
      <3>1. Alone /\ \A q \in Run : Fresh(q)
        BY <2>1, <2>9 DEF Inv
      <3>2. ASSUME NEW q \in Run, q # r PROVE Fresh(q)'
        <4>1. CASE run[q] = Idle
          <5>1. run'[q] = Idle
            BY <2>2, <3>2, <4>1 DEF Others
          <5> QED  BY <5>1, RunOver
        <4>2. CASE run[q] # Idle
          <5>1. run[r] # Idle
            BY <2>1, IdleStep
          <5>2. BoxOfRun(run[q]) # BoxOfRun(run[r])
            BY <3>1, <3>2, <4>2, <5>1 DEF Alone
          <5>3. m \in BoxOfRun(run[r])
            BY <2>1, <2>2, NewestIn DEF Sourced
          <5>4. run[q] \in Step
            BY DEF Inv, TypeOK
          <5>5. m \notin BoxOfRun(run[q])
            BY <2>2, <5>2, <5>3, <5>4, BoxOfRunIsBox, OneBox
          <5> QED  BY <2>8, <3>1, <3>2, <5>5
        <4> QED  BY <4>1, <4>2
      <3> QED  BY <2>2, <2>7, <3>1, <3>2, StillAlone
    <2> QED  BY <2>3, <2>4, <2>6, <2>7, <2>8, <2>9 DEF Inv
  <1> QED  BY <1>2, <1>3, <1>4, <1>6, <1>7, <1>8, <1>9, <1>10, <1>11, <1>12, <1>13
              DEF RunStep

\* So does what starts one.
LEMMA StartKeeps ==
    ASSUME Inv, TypeOK', NEW r \in Run,
           \/ TickGmail(r) \/ TickOutlook(r) \/ SyncLegacy(r)
           \/ \E c \in Connector : SyncNow(r, c)
           \/ \E m \in Pushed, c \in Connector \cup {"none"} : Push(r, m, c)
    PROVE  Inv'
  <1>1. ASSUME NEW m \in Pushed, NEW c \in Connector \cup {"none"}, Push(r, m, c)
        PROVE  Inv'
    <2>1. PICK s \in Step : /\ Begin(r, s) /\ s.at = "look" /\ s.how = "push"
                            /\ s.todo = {m} /\ s.rest = {} /\ s.via = c
      BY <1>1, PushStep
    <2>2. arrived' = arrived \cup {m} /\ UNCHANGED <<unread, intakes>>
      BY <1>1 DEF Push
    <2>3. run'[r] = s
      BY <2>1, BeginStep DEF Inv
    <2>4. Sourced(r)'
      BY <2>1, <2>3 DEF Sourced, BoxOfRun
    <2>5. m \notin Mail
      BY MessagesAssumption
    <2>6. ReadMeansStored'
      BY <2>2, <2>5 DEF Inv, ReadMeansStored, Stored, Refs
    <2> QED  BY <2>1, <2>2, <2>4, <2>6, BeginKeeps
  <1>2. CASE TickGmail(r) \/ TickOutlook(r) \/ SyncLegacy(r) \/ \E c \in Connector : SyncNow(r, c)
    <2>1. UNCHANGED <<mailbox, intakes>>
      BY <1>2 DEF TickGmail, TickOutlook, SyncLegacy, SyncNow
    <2>2. PICK s \in Step : Begin(r, s) /\ Polls(s)
      BY <1>2, PollStep
    <2>3. run'[r] = s
      BY <2>2, BeginStep DEF Inv
    <2>4. Sourced(r)'
      BY <2>2, <2>3 DEF Sourced, Polls
    <2>5. ReadMeansStored'
      BY <2>1, ReadStays DEF Inv, Stored, Refs
    <2> QED  BY <2>1, <2>2, <2>4, <2>5, BeginKeeps DEF Polls
  <1> QED  BY <1>1, <1>2

\* What the world does reads no row and stores none: the runs are as they were, or gone.
LEMMA WorldKeeps ==
    ASSUME Inv, TypeOK',
           \/ \E c \in Connector : \/ Create(c) \/ Authorise(c) \/ Remove(c)
                                  \/ \E on, creds \in BOOLEAN : Update(c, on, creds)
           \/ \E m \in Mail : Arrive(m)
           \/ Restart
    PROVE  Inv'
  <1>1. ASSUME UNCHANGED <<run, overlapped>>, Unnames, ReadMeansStored'
        PROVE  Inv'
    <2>1. ReferencesAreDense' /\ StoredOnce' /\ ThreadsAreJoined'
      BY <1>1, RowsStay DEF Inv
    <2>2. \A q \in Run : Sourced(q)' /\ Knows(q)'
      BY <1>1, KeptByUnnaming DEF Inv
    <2>3. ASSUME ~overlapped' PROVE Alone' /\ \A q \in Run : Fresh(q)'
      BY <1>1, <2>3, KeptByUnnaming DEF Inv, Alone
    <2> QED  BY <1>1, <2>1, <2>2, <2>3 DEF Inv
  <1>2. ASSUME NEW c \in Connector,
               \/ Create(c) \/ Authorise(c)
               \/ \E on, creds \in BOOLEAN : Update(c, on, creds)
        PROVE  Inv'
    <2>1. UNCHANGED <<mailbox, run, overlapped, intakes>>
      BY <1>2 DEF Create, Authorise, Update, Edit
    <2>2. ReadMeansStored'
      BY <2>1, ReadStays DEF Inv, Stored, Refs
    <2> QED  BY <1>1, <2>1, <2>2, KeptUnchanged
  <1>3. ASSUME NEW c \in Connector, Remove(c) PROVE Inv'
    <2>1. UNCHANGED <<mailbox, run, overlapped>> /\ Unnames
      BY <1>3, RemoveUnnames DEF Remove, Edit, Inv
    <2>2. ReadMeansStored'
      BY <2>1, RowsStay, ReadStays DEF Inv
    <2> QED  BY <1>1, <2>1, <2>2
  <1>4. ASSUME NEW m \in Mail, Arrive(m) PROVE Inv'
    <2>1. /\ arrived' = arrived \cup {m} /\ unread' = unread \cup {m}
          /\ UNCHANGED <<intakes, run, overlapped>>
      BY <1>4 DEF Arrive
    <2>2. ReadMeansStored'
      BY <2>1 DEF Inv, ReadMeansStored, Stored, Refs
    <2> QED  BY <1>1, <2>1, <2>2, KeptUnchanged
  <1>5. ASSUME Restart PROVE Inv'
    <2>1. \A q \in Run : run'[q] = Idle
      BY <1>5 DEF Restart
    <2>2. UNCHANGED <<mailbox, intakes, overlapped>>
      BY <1>5 DEF Restart
    <2>3. ReferencesAreDense' /\ StoredOnce' /\ ThreadsAreJoined' /\ ReadMeansStored'
      BY <2>2, RowsStay, ReadStays, KeptUnchanged DEF Inv
    <2>4. \A q \in Run : Sourced(q)' /\ Knows(q)' /\ Fresh(q)'
      BY <2>1, RunOver
    <2>5. Alone'
      BY <2>1 DEF Alone
    <2> QED  BY <2>3, <2>4, <2>5 DEF Inv
  <1> QED  BY <1>2, <1>3, <1>4, <1>5

\* It holds at first.
LEMMA InitInv == Init => Inv
  <1> SUFFICES ASSUME Init PROVE Inv
    OBVIOUS
  <1>1. TypeOK /\ Refs = {}
    BY InitType
  <1>2. arrived = {} /\ \A r \in Run : run[r] = Idle
    BY DEF Init
  <1>3. ReferencesAreDense
    <2>1. Cardinality({}) = 0
      BY FS_EmptySet
    <2> QED  BY <1>1, <2>1 DEF ReferencesAreDense
  <1>4. ReadMeansStored /\ StoredOnce /\ ThreadsAreJoined
    BY <1>1, <1>2 DEF ReadMeansStored, StoredOnce, ThreadsAreJoined
  <1>5. \A r \in Run : Sourced(r) /\ Knows(r) /\ Fresh(r)
    BY <1>2, NoRun
  <1>6. Alone
    BY <1>2 DEF Alone
  <1> QED  BY <1>1, <1>3, <1>4, <1>5, <1>6 DEF Inv

\* A step that changes nothing keeps it.
LEMMA StutterInv ==
    ASSUME Inv, UNCHANGED vars
    PROVE  Inv'
  <1>1. UNCHANGED <<run, overlapped, mailbox, intakes>>
    BY DEF vars
  <1>2. TypeOK'
    BY StutterType DEF Inv
  <1>3. ReferencesAreDense' /\ StoredOnce' /\ ThreadsAreJoined' /\ ReadMeansStored'
    BY <1>1, RowsStay, ReadStays, KeptUnchanged DEF Inv
  <1>4. \A q \in Run : Sourced(q)' /\ Knows(q)'
    BY <1>1, KeptByUnnaming, KeptUnchanged DEF Inv
  <1>5. ASSUME ~overlapped' PROVE Alone' /\ \A q \in Run : Fresh(q)'
    BY <1>1, <1>5, KeptByUnnaming, KeptUnchanged DEF Inv, Alone
  <1> QED  BY <1>2, <1>3, <1>4, <1>5 DEF Inv

\* What holds in every state: the rows are right, and what each run has counted and found
\* is true of them, for good or as long as no other run reads the same source.
THEOREM Invariant == Spec => []Inv
  <1>1. Inv /\ [Next]_vars => Inv'
    <2> SUFFICES ASSUME Inv, Next PROVE Inv'
      BY StutterInv
    <2>1. TypeOK'
      BY RunStepType, StartType, WorldType DEF Next, Inv
    <2> QED  BY <2>1, RunStepKeeps, StartKeeps, WorldKeeps DEF Next
  <1> QED  BY <1>1, InitInv, PTL DEF Spec

\* References have no gap and no repetition, however many intakes race for the count of
\* createRfqFromIntake, retry, give up or die in between.
THEOREM DenseReferences == Spec => []ReferencesAreDense
  <1>1. Inv => ReferencesAreDense
    BY DEF Inv
  <1> QED  BY <1>1, Invariant, PTL

\* A mail is stored once for a connector and the mails of a conversation are joined, except
\* where runs on one source overlapped or the connector is unnamed; what has a unique id is
\* stored once without exception.
THEOREM OneConversationOneRfq == Spec => []OneRfqPerConversation
  <1>1. Inv => OneRfqPerConversation
    BY DEF Inv, OneRfqPerConversation
  <1> QED  BY <1>1, Invariant, PTL

\* A mail that is marked as read is stored, through crashes, failed inserts and deleted
\* connectors: the marking comes after the commit in every run.
THEOREM NoRequestIsLost == Spec => []ReadMeansStored
  <1>1. Inv => ReadMeansStored
    BY DEF Inv
  <1> QED  BY <1>1, Invariant, PTL

-----------------------------------------------------------------------------
(* The log *)

\* A run has messages that were received.
Fetched == \A r \in Run : run[r].todo \subseteq arrived

\* A run gets no messages but from a listing of what is unread, or pushed.
LEMMA FetchedStep ==
    ASSUME Inv, Fetched, [Next]_vars
    PROVE  Fetched'
  <1>1. unread \subseteq arrived
    BY DEF Inv, TypeOK
  <1>2. ASSUME NEW r \in Run, Others(r), run'[r].todo \subseteq run[r].todo \cup unread,
               arrived' = arrived
        PROVE  Fetched'
    BY <1>1, <1>2 DEF Fetched, Others
  <1>3. ASSUME NEW r \in Run, NEW at, GoesOn(r, at), arrived' = arrived PROVE Fetched'
    BY <1>2, <1>3 DEF GoesOn
  <1>4. ASSUME NEW r \in Run, TurnsTo(r), arrived' = arrived PROVE Fetched'
    BY <1>2, <1>4, IdleStep DEF TurnsTo
  <1>5. ASSUME NEW r \in Run, NEW m \in Msg, Passes(r, m), arrived' = arrived PROVE Fetched'
    <2>1. run'[r].todo \subseteq run[r].todo
      BY <1>5, NextMessageStep, IdleStep DEF Passes, Inv, TypeOK
    <2> QED  BY <1>2, <1>5, <2>1 DEF Passes
  <1>6. ASSUME NEW r \in Run, RunStep(r) \/ ListFails(r) PROVE Fetched'
    <2>1. arrived' = arrived
      BY <1>6 DEF RunStep, ListFails, List, Done, Count, Record, Health, Disable, Look,
         Thread, Insert, InsertFails, Mark, mailbox
    <2>2. ASSUME NEW m \in Msg, Insert(r, m) PROVE Fetched'
      <3>1. run'[r].todo \subseteq run[r].todo /\ Others(r)
        BY <2>2, InsertStep, AfterInsertStep, IdleStep DEF Inv, TypeOK
      <3> QED  BY <1>2, <2>1, <3>1
    <2>3. ASSUME List(r) \/ ListFails(r) \/ Done(r) PROVE Fetched'
      BY <1>2, <2>1, <2>3, ListStep, AfterListing DEF Inv
    <2>4. ASSUME Record(r) \/ Health(r) \/ Disable(r) \/ Count(r) PROVE Fetched'
      BY <1>3, <1>4, <2>1, <2>4, RecordStep, HealthStep, DisableStep, CountStep DEF Inv
    <2>5. ASSUME NEW m \in Msg, Look(r, m) \/ Thread(r, m) \/ InsertFails(r, m) \/ Mark(r, m)
          PROVE  Fetched'
      BY <1>3, <1>5, <2>1, <2>5, LookStep, ThreadStep, InsertFailsStep, MarkStep DEF Inv
    <2> QED  BY <1>6, <2>2, <2>3, <2>4, <2>5 DEF RunStep
  <1>7. ASSUME NEW r \in Run, NEW m \in Pushed, NEW c \in Connector \cup {"none"}, Push(r, m, c)
        PROVE  Fetched'
    <2>1. PICK s \in Step : Begin(r, s) /\ s.todo = {m}
      BY <1>7, PushStep
    <2>2. run'[r] = s /\ Others(r) /\ arrived' = arrived \cup {m}
      BY <1>7, <2>1, BeginStep DEF Push, Inv
    <2> QED  BY <2>1, <2>2 DEF Fetched, Others
  <1>8. ASSUME NEW r \in Run,
               \/ TickGmail(r) \/ TickOutlook(r) \/ SyncLegacy(r)
               \/ \E c \in Connector : SyncNow(r, c)
        PROVE  Fetched'
    <2>1. PICK s \in Step : Begin(r, s) /\ Polls(s)
      BY <1>8, PollStep
    <2>2. run'[r] = s /\ Others(r) /\ s.todo = {}
      BY <2>1, BeginStep DEF Inv, Polls
    <2>3. arrived' = arrived
      BY <1>8 DEF TickGmail, TickOutlook, SyncLegacy, SyncNow, mailbox
    <2> QED  BY <1>2, <2>2, <2>3
  <1>9. ASSUME \/ \E c \in Connector : \/ Create(c) \/ Authorise(c) \/ Remove(c)
                                       \/ \E on, creds \in BOOLEAN : Update(c, on, creds)
               \/ \E m \in Mail : Arrive(m)
               \/ Restart \/ UNCHANGED vars
        PROVE  Fetched'
    <2>1. arrived \subseteq arrived'
      BY <1>9 DEF Create, Authorise, Remove, Update, Edit, Arrive, Restart, vars, mailbox
    <2>2. \A q \in Run : run'[q] = run[q] \/ run'[q] = Idle
      BY <1>9 DEF Create, Authorise, Remove, Update, Edit, Arrive, Restart, vars
    <2> QED  BY <2>1, <2>2, IdleStep DEF Fetched
  <1> QED  BY <1>6, <1>7, <1>8, <1>9 DEF Next

\* What an entry of the log holds.
EntrySet == [msg : Msg, answers : Nat, file : {"none", "saved", "missing"}]

\* The rows, by their references, are a sequence: entry i is the row of reference 1000 + i.
InOrder ==
    /\ Entries \in Seq(EntrySet) /\ Len(Entries) = Cardinality(Refs)
    /\ Cardinality(Refs) \in Nat /\ DOMAIN Entries = 1..Cardinality(Refs)
    /\ \A x \in Refs : x - 1000 \in DOMAIN Entries /\ Entries[x - 1000] = EntryOf(intakes[x])
    /\ \A i \in DOMAIN Entries : i + 1000 \in Refs /\ Entries[i] = EntryOf(intakes[i + 1000])

\* They are, when the references are dense.
LEMMA EntriesAreRows ==
    ASSUME TypeOK, ReferencesAreDense, ThreadsAreJoined
    PROVE  InOrder
  <1> DEFINE n == Cardinality(Refs)
  <1>1. n \in Nat
    BY FS_CardinalityType DEF TypeOK
  <1>2. Refs = 1001..(1000 + n)
    BY DEF ReferencesAreDense
  <1> HIDE DEF n
  <1>3. {x - 1000 : x \in Refs} = 1..n
    <2>1. \A i \in 1..n : i + 1000 \in Refs /\ i = (i + 1000) - 1000
      BY <1>1, <1>2
    <2>2. \A x \in Refs : x - 1000 \in 1..n
      BY <1>1, <1>2
    <2> QED  BY <2>1, <2>2
  <1>4. \A x \in Refs : EntryOf(intakes[x]) \in EntrySet
    <2>1. ASSUME NEW x \in Refs PROVE EntryOf(intakes[x]) \in EntrySet
      <3>1. intakes[x] \in Intake
        BY DEF TypeOK
      <3>2. intakes[x].reply # 0 => intakes[x].reply - 1000 \in Nat
        BY <1>1, <1>2 DEF ThreadsAreJoined
      <3> QED  BY <3>1, <3>2 DEF EntryOf, EntrySet, Intake
    <2> QED  BY <2>1
  <1>5. \A i \in 1..n : i + 1000 \in Refs
    BY <1>1, <1>2
  <1>6. Entries \in [1..n -> EntrySet] /\ \A i \in 1..n : Entries[i] = EntryOf(intakes[i + 1000])
    BY <1>3, <1>4, <1>5 DEF Entries
  <1>7. Entries \in Seq(EntrySet) /\ Len(Entries) = n
    BY <1>1, <1>6
  <1>8. \A x \in Refs : x - 1000 \in 1..n /\ (x - 1000) + 1000 = x
    BY <1>1, <1>2
  <1>9. DOMAIN Entries = 1..n
    BY <1>6
  <1>10. \A x \in Refs : Entries[x - 1000] = EntryOf(intakes[x])
    <2> SUFFICES ASSUME NEW x \in Refs PROVE Entries[x - 1000] = EntryOf(intakes[x])
      OBVIOUS
    <2>1. (x - 1000) + 1000 = x /\ x - 1000 \in 1..n
      BY <1>8
    <2>2. Entries[x - 1000] = EntryOf(intakes[(x - 1000) + 1000])
      BY <1>6, <2>1
    <2> QED  BY <2>1, <2>2
  <1> QED  BY <1>1, <1>5, <1>6, <1>7, <1>8, <1>9, <1>10 DEF n, InOrder

\* So they are in the next state.
LEMMA EntriesAreRowsThen == (TypeOK /\ ReferencesAreDense /\ ThreadsAreJoined => InOrder)'
  <1>1. TypeOK /\ ReferencesAreDense /\ ThreadsAreJoined => InOrder
    BY EntriesAreRows
  <1> QED  BY <1>1, PTL

\* A message is in the log when it is stored.
LEMMA LoggedIsStored ==
    ASSUME TypeOK, ReferencesAreDense, ThreadsAreJoined, NEW m
    PROVE  Journal!Logged(m) <=> Stored(m)
  <1>1. \A x \in Refs : EntryOf(intakes[x]).msg = intakes[x].msg
    BY DEF EntryOf
  <1> QED  BY <1>1, EntriesAreRows DEF InOrder, Journal!Logged, Stored

\* Rows that only lose their connector leave the log as it is.
LEMMA LogStays ==
    ASSUME TypeOK, ReferencesAreDense, ThreadsAreJoined, Unnames
    PROVE  Entries' = Entries
  <1>1. \A x \in Refs : EntryOf(intakes'[x]) = EntryOf(intakes[x])
    BY DEF Unnames, EntryOf
  <1>2. \A i \in {x - 1000 : x \in Refs} : i + 1000 \in Refs
    BY DEF TypeOK
  <1>3. Refs' = Refs
    BY DEF Unnames
  <1> QED  BY <1>1, <1>2, <1>3 DEF Entries

\* A message that is stored is the next entry.
LEMMA LogGrows ==
    ASSUME TypeOK, TypeOK', ReferencesAreDense, ThreadsAreJoined, ThreadsAreJoined',
           NEW r \in Run, Knows(r), run[r].at = "insert", NEW m \in Msg, Stores(r, m)
    PROVE  Entries' = Append(Entries, EntryOf(RowOf(run[r], m)))
  <1> DEFINE n == Cardinality(Refs)
             ref == Reference(run[r].seen)
             e == EntryOf(RowOf(run[r], m))
  <1>1. /\ n \in Nat /\ Cardinality(Refs') = n + 1 /\ ref = 1001 + n /\ ReferencesAreDense'
    BY NextReference
  <1>2. /\ Entries \in Seq(EntrySet) /\ Len(Entries) = n
        /\ \A i \in 1..n : i + 1000 \in Refs /\ Entries[i] = EntryOf(intakes[i + 1000])
    BY EntriesAreRows DEF InOrder
  <1>3. /\ Entries' \in Seq(EntrySet) /\ Len(Entries') = n + 1
        /\ \A i \in 1..(n + 1) : Entries'[i] = EntryOf(intakes'[i + 1000])
    <2>1. InOrder'
      BY <1>1, EntriesAreRowsThen
    <2>2. Cardinality(Refs') = n + 1
      BY <1>1
    <2> HIDE DEF n
    <2> QED  BY <2>1, <2>2 DEF InOrder, EntryOf
  <1>4. /\ \A x \in Refs : intakes'[x] = intakes[x]
        /\ intakes'[ref] = RowOf(run[r], m)
    BY DEF Stores
  <1> HIDE DEF n, ref
  <1>5. Entries'[n + 1] = e
    <2>1. n + 1 \in 1..(n + 1) /\ (n + 1) + 1000 = ref
      BY <1>1
    <2> QED  BY <1>3, <1>4, <2>1
  <1>6. \A i \in 1..n : Entries'[i] = Entries[i]
    <2> SUFFICES ASSUME NEW i \in 1..n PROVE Entries'[i] = Entries[i]
      OBVIOUS
    <2>1. i \in 1..(n + 1)
      BY <1>1
    <2> QED  BY <1>2, <1>3, <1>4, <2>1
  <1>7. e \in EntrySet
    <2>1. n + 1 \in 1..(n + 1)
      BY <1>1
    <2> QED  BY <1>3, <1>5, <2>1, ElementOfSeq
  <1> HIDE DEF e
  <1>8. /\ Append(Entries, e) \in Seq(EntrySet) /\ Len(Append(Entries, e)) = n + 1
        /\ \A i \in 1..n : Append(Entries, e)[i] = Entries[i]
        /\ Append(Entries, e)[n + 1] = e
    BY <1>2, <1>7, AppendProperties
  <1>9. \A i \in 1..(n + 1) : Entries'[i] = Append(Entries, e)[i]
    <2>1. \A i \in 1..(n + 1) : i \in 1..n \/ i = n + 1
      BY <1>1
    <2> QED  BY <1>5, <1>6, <1>8, <2>1
  <1> QED  BY <1>3, <1>8, <1>9, SeqEqual DEF e

\* What the log shows.
Shown == <<arrived, unread, Entries>>

\* A step that leaves mailboxes and log alone is none of the log's.
LEMMA Unseen ==
    ASSUME Inv, UNCHANGED mailbox, Unnames
    PROVE  UNCHANGED Shown
  BY LogStays DEF Inv, mailbox, Shown

\* A message arrives that was not received, or nothing is seen of it.
LEMMA LogReceives ==
    ASSUME Inv, NEW m \in Msg, arrived' = arrived \cup {m},
           unread' = unread \cup ({m} \cap Mail), UNCHANGED intakes
    PROVE  /\ m \in arrived /\ unread' = unread => UNCHANGED Shown
           /\ m \notin arrived => Journal!Receive(m)
  <1>1. Entries' = Entries
    BY LogStays, KeptUnchanged DEF Inv
  <1> QED  BY <1>1 DEF Journal!Receive, Shown

\* An insert writes the next entry.
LEMMA LogWrites ==
    ASSUME Inv, Inv', Fetched, NEW r \in Run, NEW m \in Msg, Insert(r, m)
    PROVE  Journal!Next
  <1> DEFINE row == RowOf(run[r], m)
             a == EntryOf(row).answers
             f == run[r].file
  <1>1. /\ run[r].at = "insert" /\ m \in Newest(run[r].todo)
        /\ ~(Keyed(m) /\ Stored(m)) /\ UNCHANGED mailbox
    BY DEF Insert, Taken
  <1>2. Stores(r, m) /\ Knows(r) /\ row \in Intake /\ run[r] \in Step
    BY InsertStores DEF Inv, TypeOK
  <1>3. Entries' = Append(Entries, EntryOf(row))
    BY <1>1, <1>2, LogGrows DEF Inv
  <1>4. EntryOf(row) = Journal!Entry(m, a, f)
    BY DEF EntryOf, RowOf, Journal!Entry
  <1>5. f \in {"none", "saved", "missing"}
    BY <1>2 DEF Step
  <1>6. m \in arrived
    BY <1>1, NewestIn DEF Fetched
  <1>7. m \in {n \in Msg : Keyed(n)} => ~Journal!Logged(m)
    BY <1>1, LoggedIsStored DEF Inv
  <1>8. \/ a = 0
        \/ /\ a \in DOMAIN Entries
           /\ \E B \in Source : {m, Entries[a].msg} \subseteq B
    <2>1. CASE run[r].reply = 0
      BY <2>1 DEF EntryOf, RowOf
    <2>2. CASE run[r].reply # 0
      <3>1. /\ run[r].reply \in Refs /\ a = run[r].reply - 1000
            /\ BoxOf(intakes[run[r].reply].msg) = BoxOf(m)
        BY <1>1, <1>2, <2>2 DEF Knows, EntryOf, RowOf
      <3>2. a \in DOMAIN Entries /\ Entries[a].msg = intakes[run[r].reply].msg
        <4>1. InOrder
          BY EntriesAreRows DEF Inv
        <4>2. a \in DOMAIN Entries /\ Entries[a] = EntryOf(intakes[run[r].reply])
          BY <3>1, <4>1 DEF InOrder
        <4> QED  BY <4>2 DEF EntryOf
      <3>3. intakes[run[r].reply].msg \in Msg
        <4>1. intakes[run[r].reply] \in Intake
          BY <3>1 DEF Inv, TypeOK
        <4> QED  BY <4>1 DEF Intake
      <3>4. \A n \in Msg : n \in BoxOf(n) /\ BoxOf(n) \in Source
        BY EachHasBox
      <3> QED  BY <3>1, <3>2, <3>3, <3>4
    <2> QED  BY <2>1, <2>2
  <1> HIDE DEF a, f
  <1>9. Journal!Write(m, a, f)
    BY <1>1, <1>3, <1>4, <1>6, <1>7, <1>8 DEF Journal!Write, mailbox
  <1>10. Entries' # Entries
    <2>1. Entries \in Seq(EntrySet) /\ Entries' \in Seq(EntrySet)
      BY EntriesAreRows, EntriesAreRowsThen DEF Inv, InOrder
    <2>2. Len(Entries) \in Nat /\ Len(Entries') = Len(Entries) + 1
      BY <1>1, <1>2, EntriesAreRows, EntriesAreRowsThen, NextReference DEF Inv, InOrder
    <2> QED  BY <2>2
  <1> QED  BY <1>5, <1>8, <1>9, <1>10 DEF Journal!Next, Msg

\* A mail that is marked as read is in the log.
LEMMA LogMarks ==
    ASSUME Inv, NEW r \in Run, NEW m \in Msg, Mark(r, m)
    PROVE  Journal!Next \/ UNCHANGED Shown
  <1>1. /\ run[r].at = "mark" /\ m \in Newest(run[r].todo) /\ UNCHANGED <<arrived, intakes>>
        /\ unread' = unread \/ unread' = unread \ {m}
    BY DEF Mark
  <1>2. Entries' = Entries
    BY <1>1, LogStays, KeptUnchanged DEF Inv
  <1>3. Journal!Logged(m)
    BY <1>1, LoggedIsStored DEF Inv, Knows
  <1>4. CASE m \in unread /\ unread' = unread \ {m}
    <2>1. Journal!MarkRead(m)
      BY <1>1, <1>2, <1>3, <1>4 DEF Journal!MarkRead
    <2> QED  BY <2>1 DEF Journal!Next, Msg
  <1>5. CASE unread' = unread
    BY <1>1, <1>2, <1>5 DEF Shown
  <1> QED  BY <1>1, <1>4, <1>5

\* Every step is one of the log's, or is not seen in it.
LEMMA LogStep ==
    ASSUME Inv, Inv', Fetched, [Next]_vars
    PROVE  [Journal!Next]_Shown
  <1>1. ASSUME UNCHANGED <<mailbox, intakes>> PROVE UNCHANGED Shown
    BY <1>1, Unseen, KeptUnchanged
  <1>2. ASSUME NEW r \in Run, RunStep(r) \/ ListFails(r) PROVE [Journal!Next]_Shown
    <2>1. \/ UNCHANGED <<mailbox, intakes>>
          \/ \E m \in Msg : Insert(r, m) \/ Mark(r, m)
      BY <1>2 DEF RunStep, ListFails, List, Done, Count, Record, Health, Disable, Look,
         Thread, InsertFails
    <2> QED  BY <1>1, <2>1, LogWrites, LogMarks
  <1>3. ASSUME NEW r \in Run, NEW m \in Pushed, NEW c \in Connector \cup {"none"}, Push(r, m, c)
        PROVE  [Journal!Next]_Shown
    <2>1. arrived' = arrived \cup {m} /\ UNCHANGED <<unread, intakes>>
      BY <1>3 DEF Push
    <2>2. m \in Msg /\ unread' = unread \cup ({m} \cap Mail)
      BY <2>1, MessagesAssumption DEF Msg
    <2>3. m \notin arrived => Journal!Receive(m)
      BY <2>1, <2>2, LogReceives
    <2>4. m \in arrived => UNCHANGED Shown
      BY <2>1, <2>2, LogReceives
    <2> QED  BY <2>3, <2>4 DEF Journal!Next
  <1>4. ASSUME NEW r \in Run,
               \/ TickGmail(r) \/ TickOutlook(r) \/ SyncLegacy(r)
               \/ \E c \in Connector : SyncNow(r, c)
        PROVE  [Journal!Next]_Shown
    BY <1>1, <1>4 DEF TickGmail, TickOutlook, SyncLegacy, SyncNow
  <1>5. ASSUME NEW m \in Mail, Arrive(m) PROVE [Journal!Next]_Shown
    <2>1. /\ m \notin arrived /\ arrived' = arrived \cup {m}
          /\ unread' = unread \cup ({m} \cap Mail) /\ UNCHANGED intakes
      BY <1>5 DEF Arrive
    <2>2. Journal!Receive(m)
      BY <2>1, LogReceives DEF Msg
    <2> QED  BY <2>2 DEF Journal!Next
  <1>6. ASSUME NEW c \in Connector,
               \/ Create(c) \/ Authorise(c)
               \/ \E on, creds \in BOOLEAN : Update(c, on, creds)
        PROVE  [Journal!Next]_Shown
    BY <1>1, <1>6 DEF Create, Authorise, Update, Edit
  <1>7. ASSUME NEW c \in Connector, Remove(c) PROVE [Journal!Next]_Shown
    <2>1. Unnames /\ UNCHANGED mailbox
      BY <1>7, RemoveUnnames DEF Remove, Edit, Inv
    <2> QED  BY <2>1, Unseen
  <1>8. ASSUME Restart \/ UNCHANGED vars PROVE [Journal!Next]_Shown
    BY <1>1, <1>8 DEF Restart, vars
  <1> QED  BY <1>2, <1>3, <1>4, <1>5, <1>6, <1>7, <1>8 DEF Next

\* The RFQs are a log: whatever runs, retries, staff and crashes do, a received message is
\* written under the next reference and once if it has an id of its own, answers an earlier
\* one of its mailbox, is never rewritten, and is marked as read only when it is written
\* (rfq-intake.service.ts:176-289, gmail.service.ts:118-160).
THEOREM SyncImplementsLog == Spec => ImplementsLog
  <1>1. Init => Journal!Init
    <2> SUFFICES ASSUME Init PROVE Journal!Init
      OBVIOUS
    <2>1. arrived = {} /\ unread = {}
      BY DEF Init
    <2>2. Inv /\ Refs = {}
      BY InitInv, InitType
    <2>3. Entries \in Seq(EntrySet) /\ Len(Entries) = 0
      BY <2>2, EntriesAreRows, FS_EmptySet DEF Inv, InOrder
    <2>4. Entries = <<>>
      BY <2>3, EmptySeq
    <2> QED  BY <2>1, <2>4 DEF Journal!Init
  <1>2. Init => Fetched
    BY IdleStep DEF Init, Fetched
  <1>3. Inv /\ Fetched /\ [Next]_vars => Fetched'
    BY FetchedStep
  <1>4. Inv /\ Inv' /\ Fetched /\ [Next]_vars => [Journal!Next]_Shown
    BY LogStep
  <1> QED  BY <1>1, <1>2, <1>3, <1>4, Invariant, PTL
           DEF Spec, ImplementsLog, Journal!Spec, Journal!intake, Shown
=============================================================================
