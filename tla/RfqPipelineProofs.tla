-------------------------- MODULE RfqPipelineProofs --------------------------
(***************************************************************************)
(* What holds of RfqPipeline for any number of attachments, handlers at    *)
(* work, attempts, reruns and faults: the types, that extraction waits for *)
(* the attachments, that serial matchings store candidates once, that an   *)
(* RFQ at rest is complete, and that an accepted match is not replaced.    *)
(***************************************************************************)
EXTENDS RfqPipeline, TLAPS

\* The case split of every proof below.
LEMMA NextCases ==
    ASSUME [Next]_vars
    PROVE  \/ StoreIntake \/ (\E Lost \in SUBSET Att : QueueJobs(Lost))
           \/ NothingToMatch \/ AcceptMatch
           \/ (\E s \in {"classified", "elsewhere"} : SetPipeline(s))
           \/ LookForExtract \/ EnqueueAgain \/ Crash
           \/ \E w \in Worker, a \in Att :
                \/ StartParse(w, a) \/ ParseThrows(w, a)
                \/ \E outcome \in {"done", "failed"} : ParseReturns(w, a, outcome)
                \/ Collect(w, a) \/ Store(w, a) \/ EnqueueExtract(w, a)
           \/ \E w \in Worker :
                \/ StartExtract(w) \/ CheckPending(w) \/ ExtractFails(w)
                \/ \E any \in BOOLEAN : StoreItems(w, any)
                \/ ReadStatus(w) \/ SetReady(w) \/ EnqueueMatch(w)
                \/ StartMatch(w) \/ CountMatches(w) \/ CreateMatches(w)
                \/ CreateMatchesFails(w)
           \/ UNCHANGED vars
  BY DEF Next, StartJob, HandlerStep, Staff

-----------------------------------------------------------------------------
(* Types *)

\* An idle worker has its type.
LEMMA IdleType == Idle \in Work
  BY DEF Idle, Work, Next3

\* Worker w goes on with a step of the right type.
LEMMA GotoTypes ==
    ASSUME TypeOK, NEW w \in Worker, NEW step \in Work, Goto(w, step)
    PROVE  work' \in [Worker -> Work]
  BY DEF TypeOK, Goto

\* A worker that only changes its place, what it read or what follows stays typed.
LEMMA StepTypes ==
    ASSUME NEW r \in Work
    PROVE  /\ \A at \in {"idle"} \cup ParseAt \cup ExtractAt \cup MatchAt :
                [r EXCEPT !.at = at] \in Work
           /\ \A at \in {"idle"} \cup ParseAt \cup ExtractAt \cup MatchAt,
                 then \in Next3 : [r EXCEPT !.at = at, !.then = then] \in Work
           /\ \A at \in {"idle"} \cup ParseAt \cup ExtractAt \cup MatchAt,
                 seen \in SUBSET Att : [r EXCEPT !.at = at, !.seen = seen] \in Work
           /\ \A at \in {"idle"} \cup ParseAt \cup ExtractAt \cup MatchAt,
                 att \in SUBSET Att, then \in Next3 :
                   [r EXCEPT !.at = at, !.att = att, !.then = then] \in Work
           /\ \A alive \in BOOLEAN : [r EXCEPT !.alive = alive] \in Work
  BY DEF Work

\* Counting a job keeps the count within its bound.
LEMMA OneMoreTypes ==
    ASSUME NEW n \in 0 .. MaxOpen
    PROVE  OneMore(n) \in 0 .. MaxOpen
  BY BoundsAssumption DEF OneMore

\* A parse job that ends keeps the types of the jobs.
LEMMA CloseTypes ==
    ASSUME TypeOK, NEW a \in Att, NEW threw \in BOOLEAN, Close(a, threw)
    PROVE  job' \in [Att -> JobState] /\ tries' \in [Att -> 0 .. MaxAttempts]
  BY MaxAttemptsAssumption DEF TypeOK, Close, JobState

\* So does whatever follows an aggregation.
LEMMA AfterCollectTypes ==
    ASSUME TypeOK, NEW w \in Worker, NEW a \in Att, NEW written \in BOOLEAN,
           AfterCollect(w, a, written)
    PROVE  /\ job' \in [Att -> JobState] /\ tries' \in [Att -> 0 .. MaxAttempts]
           /\ work' \in [Worker -> Work]
  <1>1. work[w] \in Work
    BY DEF TypeOK
  <1>2. CASE work[w].then = "again"
    BY <1>1, <1>2, StepTypes, GotoTypes DEF AfterCollect, TypeOK, ParseAt, Next3
  <1>3. CASE work[w].then = "enqueue" /\ written
    BY <1>1, <1>3, StepTypes, GotoTypes DEF AfterCollect, TypeOK, ParseAt
  <1>4. CASE work[w].then # "again" /\ ~(work[w].then = "enqueue" /\ written)
    <2>1. Stop(w) /\ Close(a, work[w].then = "throw")
      BY <1>4 DEF AfterCollect
    <2> QED
      BY <2>1, IdleType, GotoTypes, CloseTypes DEF Stop
  <1> QED
    BY <1>2, <1>3, <1>4

\* The initial state has its types.
LEMMA TypeInit == Init => TypeOK
  <1> SUFFICES ASSUME Init PROVE TypeOK
    OBVIOUS
  <1>1. items \in [any : BOOLEAN, from : SUBSET Att] /\ accepted \in BOOLEAN
    BY DEF Init
  <1>2. tried \in BOOLEAN /\ blank \in BOOLEAN /\ overlapped \in BOOLEAN
    BY DEF Init
  <1>3. work \in [Worker -> Work]
    BY IdleType DEF Init
  <1>4. /\ parse \in [Att -> ParseStatus] /\ job \in [Att -> JobState]
        /\ tries \in [Att -> 0 .. MaxAttempts]
    BY MaxAttemptsAssumption DEF Init, ParseStatus, JobState
  <1>5. /\ content \subseteq Att /\ unread \subseteq Att
        /\ extracts \in 0 .. MaxOpen /\ matchJobs \in 0 .. MaxOpen /\ copies \in 0 .. 2
        /\ moves \in 0 .. MaxMoves /\ reruns \in 0 .. MaxReruns
        /\ faults \in 0 .. MaxFaults
    BY BoundsAssumption DEF Init
  <1>6. /\ intake \in {"none", "stored", "queued"}
        /\ pipeline \in {"classified", "ready_for_quote", "elsewhere"}
        /\ reclass \in {"idle", "check", "enqueue"}
    BY DEF Init
  <1> QED
    BY <1>1, <1>2, <1>3, <1>4, <1>5, <1>6 DEF TypeOK

\* The steps of a parse handler keep the types.
LEMMA ParseTypes ==
    ASSUME TypeOK, NEW w \in Worker, NEW a \in Att,
           \/ StartParse(w, a) \/ ParseThrows(w, a)
           \/ \E outcome \in {"done", "failed"} : ParseReturns(w, a, outcome)
           \/ Collect(w, a) \/ Store(w, a) \/ EnqueueExtract(w, a)
    PROVE  TypeOK'
  <1> USE DEF files, found, open, staff, marks
  <1>0. work[w] \in Work /\ work[w].seen \subseteq Att
    BY DEF TypeOK, Work
  <1>1. CASE StartParse(w, a)
    <2> DEFINE at == IF parse[a] = "done" THEN "collect" ELSE "parse"
    <2>1. [Idle EXCEPT !.at = at, !.att = {a}, !.then = "enqueue"] \in Work
      BY IdleType, StepTypes DEF ParseAt, Next3
    <2>2. work' \in [Worker -> Work] /\ overlapped' \in BOOLEAN
      BY <1>1, <2>1, GotoTypes DEF StartParse, Begin, TypeOK
    <2> QED
      BY <1>1, <2>2, BoundsAssumption DEF StartParse, TypeOK, JobState, Rerun
  <1>2. CASE ParseThrows(w, a)
    <2>1. work' \in [Worker -> Work]
      BY <1>0, <1>2, StepTypes, GotoTypes DEF ParseThrows, ParseAt, Next3
    <2> QED
      BY <1>2, <2>1 DEF ParseThrows, TypeOK, ParseStatus
  <1>3. ASSUME NEW outcome \in {"done", "failed"}, ParseReturns(w, a, outcome)
        PROVE  TypeOK'
    <2>1. work' \in [Worker -> Work]
      BY <1>0, <1>3, StepTypes, GotoTypes DEF ParseReturns, ParseAt, Next3
    <2> QED
      BY <1>3, <2>1 DEF ParseReturns, TypeOK, ParseStatus
  <1>4. CASE Collect(w, a)
    <2>1. /\ work' \in [Worker -> Work] /\ job' \in [Att -> JobState]
          /\ tries' \in [Att -> 0 .. MaxAttempts]
      <3>1. Parsed \in SUBSET Att
        BY DEF Parsed
      <3>2. CASE Settled
        BY <1>0, <1>4, <3>1, <3>2, StepTypes, GotoTypes DEF Collect, TypeOK, ParseAt
      <3>3. CASE ~Settled
        BY <1>4, <3>3, AfterCollectTypes DEF Collect
      <3> QED
        BY <3>2, <3>3
    <2> QED
      BY <1>4, <2>1 DEF Collect, TypeOK
  <1>5. CASE Store(w, a)
    <2>1. /\ work' \in [Worker -> Work] /\ job' \in [Att -> JobState]
          /\ tries' \in [Att -> 0 .. MaxAttempts]
      BY <1>5, AfterCollectTypes DEF Store
    <2> QED
      BY <1>0, <1>5, <2>1 DEF Store, TypeOK
  <1>6. CASE EnqueueExtract(w, a)
    <2>1. /\ work' \in [Worker -> Work] /\ job' \in [Att -> JobState]
          /\ tries' \in [Att -> 0 .. MaxAttempts]
      BY <1>6, IdleType, GotoTypes, CloseTypes DEF EnqueueExtract, Stop
    <2>2. extracts' \in 0 .. MaxOpen
      BY <1>6, OneMoreTypes DEF EnqueueExtract, TypeOK
    <2> QED
      BY <1>6, <2>1, <2>2 DEF EnqueueExtract, TypeOK
  <1> QED
    BY <1>1, <1>2, <1>3, <1>4, <1>5, <1>6

\* The steps of an extraction keep the types.
LEMMA ExtractTypes ==
    ASSUME TypeOK, NEW w \in Worker,
           \/ StartExtract(w) \/ CheckPending(w) \/ ExtractFails(w)
           \/ \E any \in BOOLEAN : StoreItems(w, any)
           \/ ReadStatus(w) \/ SetReady(w) \/ EnqueueMatch(w)
    PROVE  TypeOK'
  <1> USE DEF files, found, open, staff, marks
  <1>0. work[w] \in Work /\ work[w].seen \subseteq Att
    BY DEF TypeOK, Work
  <1>1. CASE StartExtract(w)
    <2>1. [Idle EXCEPT !.at = "x_count", !.seen = content] \in Work
      BY IdleType, StepTypes DEF ExtractAt, TypeOK
    <2>2. work' \in [Worker -> Work] /\ overlapped' \in BOOLEAN
      BY <1>1, <2>1, GotoTypes DEF StartExtract, Begin, TypeOK
    <2> QED
      BY <1>1, <2>2, BoundsAssumption DEF StartExtract, TypeOK, Rerun
  <1>2. CASE CheckPending(w)
    <2>1. work' \in [Worker -> Work]
      BY <1>0, <1>2, IdleType, StepTypes, GotoTypes DEF CheckPending, Stop, ExtractAt
    <2> QED
      BY <1>2, <2>1 DEF CheckPending, TypeOK
  <1>3. CASE ExtractFails(w)
    <2>1. work' \in [Worker -> Work]
      BY <1>3, IdleType, GotoTypes DEF ExtractFails, Stop
    <2> QED
      BY <1>3, <2>1 DEF ExtractFails, TypeOK
  <1>4. ASSUME NEW any \in BOOLEAN, StoreItems(w, any) PROVE TypeOK'
    <2>1. ASSUME NEW u \in Worker PROVE work'[u] \in Work
      <3>1. work[u] \in Work /\ (work[u].alive /\ work[u].at \notin MatchAt) \in BOOLEAN
        BY DEF TypeOK, Work
      <3>2. CASE u # w
        <4>1. work'[u] = [work[u] EXCEPT !.alive = work[u].alive /\ work[u].at \notin MatchAt]
          BY <1>4, <3>2 DEF StoreItems
        <4> QED
          BY <4>1, <3>1, StepTypes
      <3>3. CASE u = w
        BY <1>0, <1>4, <3>3, IdleType, StepTypes DEF StoreItems, ExtractAt
      <3> QED
        BY <3>2, <3>3
    <2>2. work' \in [Worker -> Work]
      BY <1>4, <2>1 DEF StoreItems
    <2>3. items' \in [any : BOOLEAN, from : SUBSET Att]
      BY <1>0, <1>4 DEF StoreItems
    <2>4. accepted' \in BOOLEAN
      BY <1>4, Zenon DEF StoreItems
    <2>5. copies' \in 0 .. 2
      <3>1. copies' = 0
        BY <1>4, Zenon DEF StoreItems
      <3> QED
        BY <3>1
    <2>6. UNCHANGED <<intake, files, open, staff, marks>>
      BY <1>4 DEF StoreItems
    <2> QED
      BY <2>2, <2>3, <2>4, <2>5, <2>6 DEF TypeOK
  <1>5. CASE ReadStatus(w)
    <2>1. work' \in [Worker -> Work]
      BY <1>0, <1>5, StepTypes, GotoTypes DEF ReadStatus, ExtractAt
    <2> QED
      BY <1>5, <2>1 DEF ReadStatus, TypeOK
  <1>6. CASE SetReady(w)
    <2>1. work' \in [Worker -> Work]
      BY <1>0, <1>6, StepTypes, GotoTypes DEF SetReady, ExtractAt
    <2> QED
      BY <1>6, <2>1 DEF SetReady, TypeOK
  <1>7. CASE EnqueueMatch(w)
    <2>1. work' \in [Worker -> Work]
      BY <1>7, IdleType, GotoTypes DEF EnqueueMatch, Stop
    <2>2. matchJobs' \in 0 .. MaxOpen
      BY <1>7, OneMoreTypes DEF EnqueueMatch, TypeOK
    <2> QED
      BY <1>7, <2>1, <2>2 DEF EnqueueMatch, TypeOK
  <1> QED
    BY <1>1, <1>2, <1>3, <1>4, <1>5, <1>6, <1>7

\* The steps of a matching keep the types.
LEMMA MatchTypes ==
    ASSUME TypeOK, NEW w \in Worker,
           \/ StartMatch(w) \/ CountMatches(w) \/ CreateMatches(w) \/ CreateMatchesFails(w)
    PROVE  TypeOK'
  <1> USE DEF files, found, open, staff, marks
  <1>0. work[w] \in Work
    BY DEF TypeOK
  <1>1. CASE StartMatch(w)
    <2>1. [Idle EXCEPT !.at = "m_count"] \in Work
      BY IdleType, StepTypes DEF MatchAt
    <2>2. work' \in [Worker -> Work] /\ overlapped' \in BOOLEAN
      BY <1>1, <2>1, GotoTypes DEF StartMatch, Begin, TypeOK
    <2> QED
      BY <1>1, <2>2, BoundsAssumption DEF StartMatch, TypeOK, Rerun
  <1>2. CASE CountMatches(w)
    <2>1. work' \in [Worker -> Work]
      BY <1>0, <1>2, IdleType, StepTypes, GotoTypes DEF CountMatches, Stop, MatchAt
    <2> QED
      BY <1>2, <2>1 DEF CountMatches, TypeOK
  <1>3. CASE CreateMatches(w)
    <2>1. work' \in [Worker -> Work]
      BY <1>3, IdleType, GotoTypes DEF CreateMatches, Stop
    <2> QED
      BY <1>3, <2>1 DEF CreateMatches, TypeOK
  <1>4. CASE CreateMatchesFails(w)
    <2>1. work' \in [Worker -> Work]
      BY <1>4, IdleType, GotoTypes DEF CreateMatchesFails, Stop
    <2>2. matchJobs' \in 0 .. MaxOpen
      BY <1>4, OneMoreTypes DEF CreateMatchesFails, TypeOK
    <2> QED
      BY <1>4, <2>1, <2>2 DEF CreateMatchesFails, TypeOK
  <1> QED
    BY <1>1, <1>2, <1>3, <1>4

\* Every step keeps the types.
LEMMA TypeStep == TypeOK /\ [Next]_vars => TypeOK'
  <1> SUFFICES ASSUME TypeOK, [Next]_vars PROVE TypeOK'
    OBVIOUS
  <1> USE DEF files, found, open, staff, marks
  <1>1. CASE StoreIntake
    BY <1>1 DEF StoreIntake, TypeOK
  <1>2. ASSUME NEW Lost \in SUBSET Att, QueueJobs(Lost) PROVE TypeOK'
    <2>1. extracts' \in 0 .. MaxOpen /\ faults' \in 0 .. MaxFaults
      BY <1>2, OneMoreTypes, BoundsAssumption DEF QueueJobs, Fault, TypeOK
    <2> QED
      BY <1>2, <2>1 DEF QueueJobs, TypeOK, JobState
  <1>3. CASE NothingToMatch
    BY <1>3, BoundsAssumption DEF NothingToMatch, TypeOK
  <1>4. CASE AcceptMatch
    BY <1>4 DEF AcceptMatch, TypeOK
  <1>5. ASSUME NEW s \in {"classified", "elsewhere"}, SetPipeline(s) PROVE TypeOK'
    BY <1>5, BoundsAssumption DEF SetPipeline, TypeOK
  <1>6. CASE LookForExtract
    BY <1>6 DEF LookForExtract, TypeOK
  <1>7. CASE EnqueueAgain
    BY <1>7, OneMoreTypes DEF EnqueueAgain, TypeOK
  <1>8. CASE Crash
    <2>1. work' \in [Worker -> Work]
      BY <1>8, IdleType DEF Crash
    <2>2. extracts' \in 0 .. MaxOpen /\ matchJobs' \in 0 .. MaxOpen
      BY <1>8, OneMoreTypes DEF Crash, TypeOK
    <2>3. job' \in [Att -> JobState] /\ tries' \in [Att -> 0 .. MaxAttempts]
      BY <1>8, MaxAttemptsAssumption DEF Crash, TypeOK, JobState
    <2> QED
      BY <1>8, <2>1, <2>2, <2>3, BoundsAssumption DEF Crash, Fault, TypeOK
  <1>9. CASE UNCHANGED vars
    BY <1>9 DEF vars, TypeOK
  <1> QED
    BY NextCases, <1>1, <1>2, <1>3, <1>4, <1>5, <1>6, <1>7, <1>8, <1>9, ParseTypes,
       ExtractTypes, MatchTypes

\* The type invariant the runs check.
THEOREM TypesHold == Spec => []TypeOK
  BY TypeInit, TypeStep, PTL DEF Spec

-----------------------------------------------------------------------------
(* Extraction waits for the attachments *)

\* An extraction past its guard has seen all attachments settled.
PastGuard == \A w \in Worker : work[w].at = "x_store" => Settled

WaitInv == ItemsOnlyAfterParse /\ PastGuard

\* An attachment is never pending again.
LEMMA StaysSettled == [Next]_vars /\ TypeOK /\ Settled => Settled'
  <1> SUFFICES ASSUME [Next]_vars, TypeOK, Settled PROVE Settled'
    OBVIOUS
  <1>1. ASSUME NEW w \in Worker, NEW a \in Att,
               \/ ParseThrows(w, a)
               \/ \E outcome \in {"done", "failed"} : ParseReturns(w, a, outcome)
        PROVE  Settled'
    BY <1>1 DEF ParseThrows, ParseReturns, Settled, TypeOK
  <1>2. CASE UNCHANGED parse
    BY <1>2 DEF Settled
  <1>3. \/ UNCHANGED parse
        \/ \E w \in Worker, a \in Att :
             \/ ParseThrows(w, a)
             \/ \E outcome \in {"done", "failed"} : ParseReturns(w, a, outcome)
    BY NextCases DEF StoreIntake, QueueJobs, NothingToMatch, AcceptMatch, SetPipeline,
       LookForExtract, EnqueueAgain, Crash, StartParse, Collect, Store, EnqueueExtract,
       StartExtract, CheckPending, ExtractFails, StoreItems, ReadStatus, SetReady,
       EnqueueMatch, StartMatch, CountMatches, CreateMatches, CreateMatchesFails,
       files, vars
  <1> QED
    BY <1>1, <1>2, <1>3

\* Worker w, and no other, moves to one of the places of S.
Moves(w, S) == /\ \A u \in Worker \ {w} : work'[u] = work[u]
               /\ work'[w].at \in S

\* What a step of worker w leaves of the others.
LEMMA Others ==
    ASSUME TypeOK, NEW w \in Worker, NEW step, Goto(w, step)
    PROVE  /\ \A u \in Worker \ {w} : work'[u] = work[u]
           /\ work'[w] = step
  BY DEF Goto, TypeOK

\* A worker that goes on with a step of S moves to S.
LEMMA MovesTo ==
    ASSUME TypeOK, NEW w \in Worker, NEW S, NEW step, Goto(w, step), step.at \in S
    PROVE  Moves(w, S)
  BY Others DEF Moves

\* A handler ends.
LEMMA StopMoves ==
    ASSUME TypeOK, NEW w \in Worker, NEW S, Stop(w), "idle" \in S
    PROVE  Moves(w, S)
  <1>1. Idle.at = "idle"
    BY DEF Idle
  <1> QED
    BY <1>1, MovesTo DEF Stop

\* What follows an aggregation stays with parsing.
LEMMA AfterCollectMoves ==
    ASSUME TypeOK, NEW w \in Worker, NEW a, NEW written, AfterCollect(w, a, written)
    PROVE  Moves(w, {"idle", "collect", "enqueue"})
  <1>0. work[w] \in Work
    BY DEF TypeOK
  <1>1. CASE work[w].then = "again"
    <2>1. Goto(w, [work[w] EXCEPT !.at = "collect", !.then = "enqueue"])
      BY <1>1 DEF AfterCollect
    <2>2. [work[w] EXCEPT !.at = "collect", !.then = "enqueue"].at = "collect"
      BY <1>0 DEF Work
    <2> QED
      BY <2>1, <2>2, MovesTo
  <1>2. CASE work[w].then # "again" /\ work[w].then = "enqueue" /\ written
    <2>1. Goto(w, [work[w] EXCEPT !.at = "enqueue"])
      BY <1>2 DEF AfterCollect
    <2>2. [work[w] EXCEPT !.at = "enqueue"].at = "enqueue"
      BY <1>0 DEF Work
    <2> QED
      BY <2>1, <2>2, MovesTo
  <1>3. CASE work[w].then # "again" /\ ~(work[w].then = "enqueue" /\ written)
    <2>1. Stop(w)
      BY <1>3 DEF AfterCollect
    <2> QED
      BY <2>1, StopMoves
  <1> QED
    BY <1>1, <1>2, <1>3

\* The steps of a parse handler stay with parsing.
LEMMA ParseMoves ==
    ASSUME TypeOK, NEW w \in Worker, NEW a \in Att,
           \/ StartParse(w, a) \/ ParseThrows(w, a)
           \/ (\E outcome \in {"done", "failed"} : ParseReturns(w, a, outcome))
           \/ Collect(w, a) \/ Store(w, a) \/ EnqueueExtract(w, a)
    PROVE  Moves(w, {"idle"} \cup ParseAt)
  <1>0. work[w] \in Work
    BY DEF TypeOK
  <1>1. CASE StartParse(w, a)
    <2> DEFINE at == IF parse[a] = "done" THEN "collect" ELSE "parse"
    <2>1. Goto(w, [Idle EXCEPT !.at = at, !.att = {a}, !.then = "enqueue"])
      BY <1>1 DEF StartParse, Begin
    <2>2. [Idle EXCEPT !.at = at, !.att = {a}, !.then = "enqueue"].at = at
      BY DEF Idle
    <2>3. at \in {"idle"} \cup ParseAt
      BY DEF ParseAt
    <2> HIDE DEF at
    <2> QED
      BY <2>1, <2>2, <2>3, MovesTo
  <1>2. CASE ParseThrows(w, a)
    <2>1. Goto(w, [work[w] EXCEPT !.at = "collect", !.then = "throw"])
      BY <1>2 DEF ParseThrows
    <2>2. [work[w] EXCEPT !.at = "collect", !.then = "throw"].at = "collect"
      BY <1>0 DEF Work
    <2> QED
      BY <2>1, <2>2, MovesTo DEF ParseAt
  <1>3. CASE \E outcome \in {"done", "failed"} : ParseReturns(w, a, outcome)
    <2>1. Goto(w, [work[w] EXCEPT !.at = "collect", !.then = "again"])
      BY <1>3 DEF ParseReturns
    <2>2. [work[w] EXCEPT !.at = "collect", !.then = "again"].at = "collect"
      BY <1>0 DEF Work
    <2> QED
      BY <2>1, <2>2, MovesTo DEF ParseAt
  <1>4. CASE Collect(w, a) /\ Settled
    <2>1. Goto(w, [work[w] EXCEPT !.at = "store", !.seen = Parsed])
      BY <1>4 DEF Collect
    <2>2. [work[w] EXCEPT !.at = "store", !.seen = Parsed].at = "store"
      BY <1>0 DEF Work
    <2> QED
      BY <2>1, <2>2, MovesTo DEF ParseAt
  <1>5. CASE (Collect(w, a) /\ ~Settled) \/ Store(w, a)
    <2>1. \E written \in BOOLEAN : AfterCollect(w, a, written)
      BY <1>5 DEF Collect, Store
    <2>2. Moves(w, {"idle", "collect", "enqueue"})
      BY <2>1, AfterCollectMoves
    <2> QED
      BY <2>2 DEF Moves, ParseAt
  <1>6. CASE EnqueueExtract(w, a)
    <2>1. Stop(w)
      BY <1>6 DEF EnqueueExtract
    <2> QED
      BY <2>1, StopMoves
  <1> QED
    BY <1>1, <1>2, <1>3, <1>4, <1>5, <1>6

\* Extraction goes on without its guard, and never to a matching.
LEMMA ExtractMoves ==
    ASSUME TypeOK, NEW w \in Worker,
           \/ StartExtract(w) \/ ExtractFails(w) \/ ReadStatus(w) \/ SetReady(w)
           \/ EnqueueMatch(w)
    PROVE  Moves(w, {"idle", "x_count", "x_ready", "x_enqueue"})
  <1>0. work[w] \in Work
    BY DEF TypeOK
  <1>1. CASE StartExtract(w)
    <2>1. Goto(w, [Idle EXCEPT !.at = "x_count", !.seen = content])
      BY <1>1 DEF StartExtract, Begin
    <2>2. [Idle EXCEPT !.at = "x_count", !.seen = content].at = "x_count"
      BY DEF Idle
    <2> QED
      BY <2>1, <2>2, MovesTo
  <1>2. CASE ExtractFails(w) \/ EnqueueMatch(w)
    <2>1. Stop(w)
      BY <1>2 DEF ExtractFails, EnqueueMatch
    <2> QED
      BY <2>1, StopMoves
  <1>3. CASE ReadStatus(w)
    <2> DEFINE at == IF pipeline = "classified" THEN "x_ready" ELSE "x_enqueue"
    <2>1. Goto(w, [work[w] EXCEPT !.at = at])
      BY <1>3 DEF ReadStatus
    <2>2. [work[w] EXCEPT !.at = at].at = at
      BY <1>0 DEF Work
    <2>3. at \in {"idle", "x_count", "x_ready", "x_enqueue"}
      OBVIOUS
    <2> HIDE DEF at
    <2> QED
      BY <2>1, <2>2, <2>3, MovesTo
  <1>4. CASE SetReady(w)
    <2>1. Goto(w, [work[w] EXCEPT !.at = "x_enqueue"])
      BY <1>4 DEF SetReady
    <2>2. [work[w] EXCEPT !.at = "x_enqueue"].at = "x_enqueue"
      BY <1>0 DEF Work
    <2> QED
      BY <2>1, <2>2, MovesTo
  <1> QED
    BY <1>1, <1>2, <1>3, <1>4

\* The guard leads on to the extraction, when all attachments are settled, or back.
LEMMA GuardMoves ==
    ASSUME TypeOK, NEW w \in Worker, CheckPending(w)
    PROVE  Moves(w, {"idle", "x_store"}) /\ (~Settled => Moves(w, {"idle"}))
  <1>0. work[w] \in Work
    BY DEF TypeOK
  <1>1. CASE Settled
    <2>1. Goto(w, [work[w] EXCEPT !.at = "x_store"])
      BY <1>1 DEF CheckPending
    <2>2. [work[w] EXCEPT !.at = "x_store"].at = "x_store"
      BY <1>0 DEF Work
    <2>3. Moves(w, {"idle", "x_store"})
      BY <2>1, <2>2, MovesTo
    <2> QED
      BY <1>1, <2>3
  <1>2. CASE ~Settled
    <2>1. Stop(w)
      BY <1>2 DEF CheckPending
    <2>2. Moves(w, {"idle"}) /\ Moves(w, {"idle", "x_store"})
      BY <2>1, StopMoves
    <2> QED
      BY <2>2
  <1> QED
    BY <1>1, <1>2

\* A matching starts by counting.
LEMMA StartMatchMoves ==
    ASSUME TypeOK, NEW w \in Worker, StartMatch(w)
    PROVE  Moves(w, {"m_count"})
  <1>1. Goto(w, [Idle EXCEPT !.at = "m_count"])
    BY DEF StartMatch, Begin
  <1>2. [Idle EXCEPT !.at = "m_count"].at = "m_count"
    BY DEF Idle
  <1> QED
    BY <1>1, <1>2, MovesTo

\* It ends when there are candidates already, and else goes on to create them.
LEMMA CountMatchesMoves ==
    ASSUME TypeOK, NEW w \in Worker, CountMatches(w)
    PROVE  /\ work[w].alive /\ copies > 0 => Moves(w, {"idle"})
           /\ ~(work[w].alive /\ copies > 0) =>
                 Moves(w, {"m_create"}) /\ work'[w].alive = work[w].alive
  <1>0. work[w] \in Work
    BY DEF TypeOK
  <1>1. CASE work[w].alive /\ copies > 0
    <2>1. Stop(w)
      BY <1>1 DEF CountMatches
    <2> QED
      BY <1>1, <2>1, StopMoves
  <1>2. CASE ~(work[w].alive /\ copies > 0)
    <2> DEFINE step == [work[w] EXCEPT !.at = "m_create"]
    <2>1. Goto(w, step)
      BY <1>2 DEF CountMatches
    <2>2. step.at = "m_create" /\ step.alive = work[w].alive
      BY <1>0 DEF Work
    <2>3. work'[w] = step
      BY <2>1, Others
    <2> HIDE DEF step
    <2>4. Moves(w, {"m_create"})
      BY <2>1, <2>2, MovesTo
    <2> QED
      BY <1>2, <2>2, <2>3, <2>4
  <1> QED
    BY <1>1, <1>2

\* Creating candidates, or failing to, ends it.
LEMMA CreateMatchesMoves ==
    ASSUME TypeOK, NEW w \in Worker, CreateMatches(w) \/ CreateMatchesFails(w)
    PROVE  Moves(w, {"idle"})
  <1>1. Stop(w)
    BY DEF CreateMatches, CreateMatchesFails
  <1> QED
    BY <1>1, StopMoves

\* A crash leaves every worker idle.
LEMMA CrashIdles ==
    ASSUME Crash, NEW u \in Worker
    PROVE  work'[u].at = "idle"
  BY DEF Crash, Idle

\* A worker comes to x_store only through the guard.
LEMMA GuardStep ==
    ASSUME TypeOK, [Next]_vars, NEW u \in Worker, work'[u].at = "x_store"
    PROVE  work[u].at = "x_store" \/ Settled
  <1>1. CASE UNCHANGED work
    BY <1>1
  <1>2. ASSUME NEW w \in Worker, NEW S, Moves(w, S), "x_store" \notin S
        PROVE  work[u].at = "x_store"
    BY <1>2 DEF Moves
  <1>3. Idle.at = "idle"
    BY DEF Idle
  <1>4. ASSUME NEW w \in Worker, NEW a \in Att,
               \/ StartParse(w, a) \/ ParseThrows(w, a)
               \/ (\E outcome \in {"done", "failed"} : ParseReturns(w, a, outcome))
               \/ Collect(w, a) \/ Store(w, a) \/ EnqueueExtract(w, a)
        PROVE  work[u].at = "x_store"
    BY <1>2, <1>4, ParseMoves DEF ParseAt
  <1>5. ASSUME NEW w \in Worker,
               \/ StartExtract(w) \/ ExtractFails(w) \/ ReadStatus(w) \/ SetReady(w)
               \/ EnqueueMatch(w)
        PROVE  work[u].at = "x_store"
    BY <1>2, <1>5, ExtractMoves
  <1>6. ASSUME NEW w \in Worker,
               \/ StartMatch(w) \/ CountMatches(w) \/ CreateMatches(w)
               \/ CreateMatchesFails(w)
        PROVE  work[u].at = "x_store"
    BY <1>2, <1>6, StartMatchMoves, CountMatchesMoves, CreateMatchesMoves
  <1>7. ASSUME NEW w \in Worker, CheckPending(w)
        PROVE  work[u].at = "x_store" \/ Settled
    <2>1. CASE ~Settled
      BY <1>2, <1>7, <2>1, GuardMoves
    <2> QED
      BY <2>1
  <1>8. ASSUME NEW w \in Worker, NEW any \in BOOLEAN, StoreItems(w, any)
        PROVE  work[u].at = "x_store"
    <2>1. work[u] \in Work /\ work[w] \in Work
      BY DEF TypeOK
    <2> QED
      BY <1>3, <1>8, <2>1 DEF StoreItems, Work
  <1>9. CASE Crash
    BY <1>9, CrashIdles
  <1>10. CASE \/ StoreIntake \/ NothingToMatch \/ AcceptMatch \/ LookForExtract
              \/ EnqueueAgain \/ UNCHANGED vars
              \/ (\E Lost \in SUBSET Att : QueueJobs(Lost))
              \/ (\E s \in {"classified", "elsewhere"} : SetPipeline(s))
    BY <1>1, <1>10 DEF StoreIntake, NothingToMatch, AcceptMatch, LookForExtract,
       EnqueueAgain, vars, QueueJobs, SetPipeline
  <1> QED
    BY NextCases, <1>4, <1>5, <1>6, <1>7, <1>8, <1>9, <1>10

\* Every step keeps the items, and those about to be stored, behind the guard.
LEMMA WaitStep == TypeOK /\ WaitInv /\ [Next]_vars => WaitInv'
  <1> SUFFICES ASSUME TypeOK, WaitInv, [Next]_vars PROVE WaitInv'
    OBVIOUS
  <1>1. PastGuard'
    BY GuardStep, StaysSettled DEF WaitInv, PastGuard
  <1>2. UNCHANGED items \/ \E w \in Worker : work[w].at = "x_store"
    BY NextCases DEF StoreIntake, QueueJobs, NothingToMatch, AcceptMatch, SetPipeline,
       LookForExtract, EnqueueAgain, Crash, StartParse, ParseThrows, ParseReturns,
       Collect, Store, EnqueueExtract, StartExtract, CheckPending, ExtractFails,
       StoreItems, ReadStatus, SetReady, EnqueueMatch, StartMatch, CountMatches,
       CreateMatches, CreateMatchesFails, found, vars
  <1>3. ItemsOnlyAfterParse'
    BY <1>2, StaysSettled DEF WaitInv, PastGuard, ItemsOnlyAfterParse
  <1> QED
    BY <1>1, <1>3 DEF WaitInv

\* Items are only ever extracted from a message whose attachments have all been
\* parsed or refused, whoever asked for the extraction and however often, and
\* whatever was lost on the way (rfq-extraction.service.ts:50-60).
THEOREM ExtractionWaits == Spec => []ItemsOnlyAfterParse
  <1>1. Init => WaitInv
    BY DEF Init, WaitInv, ItemsOnlyAfterParse, PastGuard, Idle
  <1> QED
    BY <1>1, WaitStep, TypesHold, PTL DEF Spec, WaitInv

-----------------------------------------------------------------------------
(* Serial matchings store candidates once *)

\* While no two handlers of a kind have overlapped, one matching is at work, and if
\* its items are still there it only goes on to store candidates when there are none.
MatchInv ==
    ~overlapped =>
      /\ copies <= 1
      /\ \A u, w \in Worker : work[u].at \in MatchAt /\ work[w].at \in MatchAt => u = w
      /\ \A w \in Worker : work[w].at = "m_create" /\ work[w].alive => copies = 0

\* A step that starts and advances no matching and adds no candidates.
LEMMA NoMatching ==
    ASSUME MatchInv, copies' \in {0, copies},
           overlapped => overlapped',
           \A u \in Worker : work'[u].at \in MatchAt =>
             work'[u].at = work[u].at /\ (work'[u].alive => work[u].alive)
    PROVE  MatchInv'
  BY DEF MatchInv, MatchAt

\* Every step keeps it.
LEMMA MatchStep == TypeOK /\ MatchInv /\ [Next]_vars => MatchInv'
  <1> SUFFICES ASSUME TypeOK, MatchInv, [Next]_vars PROVE MatchInv'
    OBVIOUS
  <1> USE DEF marks, found
  <1>1. ASSUME NEW w \in Worker, NEW S, Moves(w, S), S \cap MatchAt = {},
               UNCHANGED copies, overlapped => overlapped'
        PROVE  MatchInv'
    <2>1. ASSUME NEW u \in Worker, work'[u].at \in MatchAt
          PROVE  work'[u].at = work[u].at /\ (work'[u].alive => work[u].alive)
      BY <1>1, <2>1 DEF Moves
    <2> QED
      BY <1>1, <2>1, NoMatching
  <1>2. Idle.at = "idle" /\ Idle.alive = TRUE
    BY DEF Idle
  <1>3. ASSUME NEW w \in Worker, NEW a \in Att,
               \/ StartParse(w, a) \/ ParseThrows(w, a)
               \/ (\E outcome \in {"done", "failed"} : ParseReturns(w, a, outcome))
               \/ Collect(w, a) \/ Store(w, a) \/ EnqueueExtract(w, a)
        PROVE  MatchInv'
    <2>1. UNCHANGED copies /\ (overlapped => overlapped')
      <3>1. CASE StartParse(w, a)
        BY <3>1 DEF StartParse, Begin
      <3>2. CASE ParseThrows(w, a)
        BY <3>2 DEF ParseThrows
      <3>3. CASE \E outcome \in {"done", "failed"} : ParseReturns(w, a, outcome)
        BY <3>3 DEF ParseReturns
      <3>4. CASE Collect(w, a)
        BY <3>4 DEF Collect
      <3>5. CASE Store(w, a)
        BY <3>5 DEF Store
      <3>6. CASE EnqueueExtract(w, a)
        BY <3>6 DEF EnqueueExtract
      <3> QED
        BY <1>3, <3>1, <3>2, <3>3, <3>4, <3>5, <3>6
    <2>2. Moves(w, {"idle"} \cup ParseAt)
      BY <1>3, ParseMoves
    <2>3. ({"idle"} \cup ParseAt) \cap MatchAt = {}
      BY DEF ParseAt, MatchAt
    <2> QED
      BY <1>1, <2>1, <2>2, <2>3
  <1>4. ASSUME NEW w \in Worker,
               \/ StartExtract(w) \/ CheckPending(w) \/ ExtractFails(w)
               \/ ReadStatus(w) \/ SetReady(w) \/ EnqueueMatch(w)
        PROVE  MatchInv'
    <2>1. UNCHANGED copies /\ (overlapped => overlapped')
      <3>1. CASE StartExtract(w)
        BY <3>1 DEF StartExtract, Begin
      <3>2. CASE CheckPending(w)
        BY <3>2 DEF CheckPending
      <3>3. CASE ExtractFails(w) \/ ReadStatus(w)
        BY <3>3 DEF ExtractFails, ReadStatus
      <3>4. CASE SetReady(w) \/ EnqueueMatch(w)
        BY <3>4 DEF SetReady, EnqueueMatch
      <3> QED
        BY <1>4, <3>1, <3>2, <3>3, <3>4
    <2>2. CASE CheckPending(w)
      <3>1. Moves(w, {"idle", "x_store"})
        BY <2>2, GuardMoves
      <3>2. {"idle", "x_store"} \cap MatchAt = {}
        BY DEF MatchAt
      <3> QED
        BY <1>1, <2>1, <3>1, <3>2
    <2>3. CASE ~CheckPending(w)
      <3>1. Moves(w, {"idle", "x_count", "x_ready", "x_enqueue"})
        BY <1>4, <2>3, ExtractMoves
      <3>2. {"idle", "x_count", "x_ready", "x_enqueue"} \cap MatchAt = {}
        BY DEF MatchAt
      <3> QED
        BY <1>1, <2>1, <3>1, <3>2
    <2> QED
      BY <2>2, <2>3
  <1>5. ASSUME NEW w \in Worker, NEW any \in BOOLEAN, StoreItems(w, any)
        PROVE  MatchInv'
    <2>1. work[w] \in Work
      BY DEF TypeOK
    <2>2. ASSUME NEW u \in Worker, work'[u].at \in MatchAt
          PROVE  work'[u].at = work[u].at /\ (work'[u].alive => work[u].alive)
      <3>1. work[u] \in Work
        BY DEF TypeOK
      <3>2. u # w
        BY <1>2, <1>5, <2>1, <2>2 DEF StoreItems, Work, MatchAt
      <3> QED
        BY <1>5, <3>1, <3>2 DEF StoreItems, Work
    <2>3. copies' = 0 /\ overlapped' = overlapped
      BY <1>5 DEF StoreItems
    <2> QED
      BY <2>2, <2>3, NoMatching
  <1>6. ASSUME NEW w \in Worker, StartMatch(w) PROVE MatchInv'
    <2>1. /\ \A u \in Worker \ {w} : work'[u] = work[u]
          /\ work'[w].at = "m_count"
      BY <1>6, StartMatchMoves DEF Moves
    <2>2. /\ overlapped => overlapped'
          /\ ~overlapped' => \A u \in Worker \ {w} : work[u].at \notin MatchAt
      <3>1. [Idle EXCEPT !.at = "m_count"].at \in MatchAt /\ MatchAt \in Kinds
        BY DEF Idle, MatchAt, Kinds
      <3> QED
        BY <1>6, <3>1 DEF StartMatch, Begin
    <2>3. UNCHANGED copies
      BY <1>6 DEF StartMatch
    <2> QED
      BY <2>1, <2>2, <2>3 DEF MatchInv
  <1>7. ASSUME NEW w \in Worker, CountMatches(w) PROVE MatchInv'
    <2>1. copies \in 0 .. 2 /\ work[w] \in Work
      BY DEF TypeOK
    <2>2. CASE work[w].alive /\ copies > 0
      <3>1. Moves(w, {"idle"}) /\ UNCHANGED <<copies, overlapped>>
        BY <1>7, <2>2, CountMatchesMoves DEF CountMatches
      <3>2. {"idle"} \cap MatchAt = {}
        BY DEF MatchAt
      <3> QED
        BY <1>1, <3>1, <3>2
    <2>3. CASE ~(work[w].alive /\ copies > 0)
      <3>1. /\ \A u \in Worker \ {w} : work'[u] = work[u]
            /\ work'[w].at = "m_create" /\ work'[w].alive = work[w].alive
        BY <1>7, <2>3, CountMatchesMoves DEF Moves
      <3>2. UNCHANGED <<copies, overlapped>> /\ work[w].at \in MatchAt
        BY <1>7 DEF CountMatches, MatchAt
      <3>3. work[w].alive => copies = 0
        BY <2>1, <2>3
      <3> QED
        BY <3>1, <3>2, <3>3 DEF MatchInv, MatchAt
    <2> QED
      BY <2>2, <2>3
  <1>8. ASSUME NEW w \in Worker, CreateMatches(w) PROVE MatchInv'
    <2>1. copies \in 0 .. 2
      BY DEF TypeOK
    <2>2. /\ \A u \in Worker \ {w} : work'[u] = work[u]
          /\ work'[w].at = "idle"
      BY <1>8, CreateMatchesMoves DEF Moves
    <2>3. /\ work[w].at = "m_create" /\ work[w].alive
          /\ overlapped' = overlapped
          /\ copies' = IF copies < 2 THEN copies + 1 ELSE copies
      BY <1>8 DEF CreateMatches
    <2>4. ~overlapped => copies' = 1
      BY <2>1, <2>3 DEF MatchInv
    <2>5. ~overlapped => \A u \in Worker : work'[u].at \notin MatchAt
      BY <2>2, <2>3 DEF MatchInv, MatchAt
    <2> QED
      BY <2>3, <2>4, <2>5 DEF MatchInv, MatchAt
  <1>9. ASSUME NEW w \in Worker, CreateMatchesFails(w) PROVE MatchInv'
    <2>1. Moves(w, {"idle"}) /\ UNCHANGED <<copies, overlapped>>
      BY <1>9, CreateMatchesMoves DEF CreateMatchesFails
    <2>2. {"idle"} \cap MatchAt = {}
      BY DEF MatchAt
    <2> QED
      BY <1>1, <2>1, <2>2
  <1>10. CASE Crash
    <2>1. \A u \in Worker : work'[u].at \notin MatchAt
      BY <1>10, CrashIdles DEF MatchAt
    <2>2. UNCHANGED <<copies, overlapped>>
      BY <1>10 DEF Crash
    <2> QED
      BY <2>1, <2>2, NoMatching
  <1>11. CASE \/ StoreIntake \/ NothingToMatch \/ AcceptMatch \/ LookForExtract
              \/ EnqueueAgain \/ UNCHANGED vars
              \/ (\E Lost \in SUBSET Att : QueueJobs(Lost))
              \/ (\E s \in {"classified", "elsewhere"} : SetPipeline(s))
    <2>1. UNCHANGED <<work, copies, overlapped>>
      BY <1>11 DEF StoreIntake, NothingToMatch, AcceptMatch, LookForExtract,
         EnqueueAgain, vars, QueueJobs, SetPipeline
    <2> QED
      BY <2>1, NoMatching
  <1> QED
    BY NextCases, <1>3, <1>4, <1>5, <1>6, <1>7, <1>8, <1>9, <1>10, <1>11

\* While no two handlers of a kind have overlapped, the candidates of an item are
\* stored once, however often its job is run and whatever crashes
\* (item-matching.service.ts:115-118).
THEOREM SerialMatchesAreStoredOnce == Spec => []MatchedOnce
  <1>1. Init => MatchInv
    BY DEF Init, MatchInv, MatchAt, Idle
  <1>2. MatchInv => MatchedOnce
    BY DEF MatchInv, MatchedOnce
  <1> QED
    BY <1>1, <1>2, MatchStep, TypesHold, PTL DEF Spec

-----------------------------------------------------------------------------
(***************************************************************************)
(* An RFQ at rest is complete.                                             *)
(*                                                                         *)
(* The argument: while nothing was lost and no two handlers of a kind have *)
(* overlapped, whatever is still missing is owed by somebody. Texts that   *)
(* are not aggregated yet are in the hands of a parse handler (Collected); *)
(* items that do not come from all the texts are owed by a handler that    *)
(* will ask for an extraction, by an open job, or by an extraction that    *)
(* has read all the texts (Due); matches that are missing are owed by an   *)
(* extraction about to ask, an open job, or a matching whose items are     *)
(* still there (MatchDue). At rest nobody owes anything.                   *)
(***************************************************************************)

(* Items that were found have matches *)

\* A handler that will see to the matches.
Matching(c) == c.at \in {"x_status", "x_ready", "x_enqueue"} \/ (c.at \in MatchAt /\ c.alive)
MatchDue == (items.any /\ copies = 0 /\ faults = 0) =>
                matchJobs > 0 \/ \E w \in Worker : Matching(work[w])

\* One more job is a job.
LEMMA OneMoreIsSome ==
    ASSUME NEW n \in 0 .. MaxOpen
    PROVE  OneMore(n) > 0
  BY BoundsAssumption DEF OneMore

\* A step that neither finds items nor loses anything that sees to them.
LEMMA MatchDueStays ==
    ASSUME MatchDue, faults' = 0 => faults = 0, UNCHANGED <<items, copies>>,
           matchJobs > 0 => matchJobs' > 0,
           \A u \in Worker : Matching(work[u]) => Matching(work'[u])
    PROVE  MatchDue'
  BY DEF MatchDue

\* A worker that moves between places that do not see to matches.
LEMMA MatchDueMoves ==
    ASSUME MatchDue, faults' = 0 => faults = 0, UNCHANGED <<items, copies, matchJobs>>,
           NEW w \in Worker, NEW S, Moves(w, S), ~Matching(work[w])
    PROVE  MatchDue'
  <1>1. \A u \in Worker : Matching(work[u]) => Matching(work'[u])
    BY DEF Moves
  <1> QED
    BY <1>1, MatchDueStays

\* Every step keeps it.
LEMMA MatchDueStep == TypeOK /\ MatchDue /\ [Next]_vars => MatchDue'
  <1> SUFFICES ASSUME TypeOK, MatchDue, [Next]_vars PROVE MatchDue'
    OBVIOUS
  <1> USE DEF marks, found, open, files
  <1>0. matchJobs \in 0 .. MaxOpen /\ copies \in 0 .. 2 /\ faults \in Nat /\ MaxOpen \in Nat \ {0}
    BY BoundsAssumption DEF TypeOK
  <1>1. Idle.at = "idle" /\ Idle.alive = TRUE
    BY DEF Idle
  <1>2. \A u \in Worker : work[u].at = "idle" \/ work[u].at \in ParseAt => ~Matching(work[u])
    BY DEF Matching, ParseAt, MatchAt
  <1>3. ASSUME NEW w \in Worker, NEW a \in Att,
               \/ StartParse(w, a) \/ ParseThrows(w, a)
               \/ (\E outcome \in {"done", "failed"} : ParseReturns(w, a, outcome))
               \/ Collect(w, a) \/ Store(w, a) \/ EnqueueExtract(w, a)
        PROVE  MatchDue'
    <2>1. UNCHANGED <<items, copies, matchJobs, faults>> /\ ~Matching(work[w])
      <3>1. CASE StartParse(w, a)
        BY <1>1, <1>2, <3>1 DEF StartParse, Begin
      <3>2. CASE ParseThrows(w, a)
        BY <1>2, <3>2 DEF ParseThrows, ParseAt
      <3>3. CASE \E outcome \in {"done", "failed"} : ParseReturns(w, a, outcome)
        BY <1>2, <3>3 DEF ParseReturns, ParseAt
      <3>4. CASE Collect(w, a)
        BY <1>2, <3>4 DEF Collect, ParseAt
      <3>5. CASE Store(w, a)
        BY <1>2, <3>5 DEF Store, ParseAt
      <3>6. CASE EnqueueExtract(w, a)
        BY <1>2, <3>6 DEF EnqueueExtract, ParseAt
      <3> QED
        BY <1>3, <3>1, <3>2, <3>3, <3>4, <3>5, <3>6
    <2> QED
      BY <1>3, <2>1, ParseMoves, MatchDueMoves
  <1>4. ASSUME NEW w \in Worker, StartExtract(w) \/ CheckPending(w) \/ ExtractFails(w)
        PROVE  MatchDue'
    <2>1. UNCHANGED <<items, copies, matchJobs, faults>>
      BY <1>4 DEF StartExtract, CheckPending, ExtractFails
    <2>2. ~Matching(work[w])
      BY <1>1, <1>4 DEF StartExtract, Begin, CheckPending, ExtractFails, Matching, MatchAt
    <2>3. \E S : Moves(w, S)
      BY <1>4, ExtractMoves, GuardMoves
    <2> QED
      BY <2>1, <2>2, <2>3, MatchDueMoves
  <1>5. ASSUME NEW w \in Worker, NEW any \in BOOLEAN, StoreItems(w, any) PROVE MatchDue'
    <2>1. items'.any = any /\ faults' = faults
      BY <1>5 DEF StoreItems
    <2>2. CASE any
      <3>1. work'[w].at = "x_status"
        BY <1>5, <2>2 DEF StoreItems, TypeOK, Work
      <3> QED
        BY <3>1 DEF MatchDue, Matching
    <2> QED
      BY <2>1, <2>2 DEF MatchDue
  <1>6. ASSUME NEW w \in Worker, ReadStatus(w) PROVE MatchDue'
    <2>1. Moves(w, {"x_ready", "x_enqueue"})
      <3> DEFINE at == IF pipeline = "classified" THEN "x_ready" ELSE "x_enqueue"
      <3>1. Goto(w, [work[w] EXCEPT !.at = at])
        BY <1>6 DEF ReadStatus
      <3>2. [work[w] EXCEPT !.at = at].at = at /\ at \in {"x_ready", "x_enqueue"}
        BY DEF TypeOK, Work
      <3> HIDE DEF at
      <3> QED
        BY <3>1, <3>2, MovesTo
    <2>2. \A u \in Worker : Matching(work[u]) => Matching(work'[u])
      BY <2>1 DEF Moves, Matching
    <2>3. UNCHANGED <<items, copies, matchJobs, faults>>
      BY <1>6 DEF ReadStatus
    <2> QED
      BY <2>2, <2>3, MatchDueStays
  <1>7. ASSUME NEW w \in Worker, SetReady(w) PROVE MatchDue'
    <2>1. Moves(w, {"x_enqueue"})
      <3>1. Goto(w, [work[w] EXCEPT !.at = "x_enqueue"])
        BY <1>7 DEF SetReady
      <3>2. [work[w] EXCEPT !.at = "x_enqueue"].at = "x_enqueue"
        BY DEF TypeOK, Work
      <3> QED
        BY <3>1, <3>2, MovesTo
    <2>2. \A u \in Worker : Matching(work[u]) => Matching(work'[u])
      BY <2>1 DEF Moves, Matching
    <2>3. UNCHANGED <<items, copies, matchJobs, faults>>
      BY <1>7 DEF SetReady
    <2> QED
      BY <2>2, <2>3, MatchDueStays
  <1>8. ASSUME NEW w \in Worker, EnqueueMatch(w) PROVE MatchDue'
    BY <1>0, <1>8, OneMoreIsSome DEF EnqueueMatch, MatchDue
  <1>9. ASSUME NEW w \in Worker, StartMatch(w) PROVE MatchDue'
    <2>1. work'[w] = [Idle EXCEPT !.at = "m_count"]
      BY <1>9, Others DEF StartMatch, Begin
    <2>2. Matching(work'[w])
      BY <2>1 DEF Idle, Matching, MatchAt
    <2> QED
      BY <2>2 DEF MatchDue
  <1>10. CASE NothingToMatch
    BY <1>10 DEF NothingToMatch, MatchDue
  <1>11. ASSUME NEW w \in Worker, CountMatches(w) PROVE MatchDue'
    <2>1. UNCHANGED <<items, copies, matchJobs, faults>>
      BY <1>11 DEF CountMatches
    <2>2. CASE copies > 0
      BY <1>0, <2>1, <2>2 DEF MatchDue
    <2>3. CASE ~(copies > 0)
      <3>1. Moves(w, {"m_create"}) /\ work'[w].alive = work[w].alive
        BY <1>11, <2>3, CountMatchesMoves
      <3>2. \A u \in Worker : Matching(work[u]) => Matching(work'[u])
        BY <1>11, <3>1 DEF Moves, Matching, MatchAt, CountMatches
      <3> QED
        BY <2>1, <3>2, MatchDueStays
    <2> QED
      BY <2>2, <2>3
  <1>12. ASSUME NEW w \in Worker, CreateMatches(w) PROVE MatchDue'
    <2>1. copies' # 0
      BY <1>0, <1>12 DEF CreateMatches
    <2> QED
      BY <2>1 DEF MatchDue
  <1>13. ASSUME NEW w \in Worker, CreateMatchesFails(w) PROVE MatchDue'
    <2>1. ~Matching(work[w]) /\ Moves(w, {"idle"})
      BY <1>13, CreateMatchesMoves DEF CreateMatchesFails, Matching, MatchAt
    <2>2. \A u \in Worker : Matching(work[u]) => Matching(work'[u])
      BY <2>1 DEF Moves
    <2>3. (matchJobs > 0) => (matchJobs' > 0)
      BY <1>0, <1>13, OneMoreIsSome DEF CreateMatchesFails
    <2>4. UNCHANGED <<items, copies, faults>>
      BY <1>13 DEF CreateMatchesFails
    <2> QED
      BY <2>2, <2>3, <2>4, MatchDueStays
  <1>14. CASE Crash
    BY <1>0, <1>14 DEF Crash, Fault, MatchDue
  <1>15. CASE \/ StoreIntake \/ AcceptMatch \/ LookForExtract \/ EnqueueAgain \/ UNCHANGED vars
              \/ (\E s \in {"classified", "elsewhere"} : SetPipeline(s))
    <2>1. UNCHANGED <<work, items, copies, matchJobs, faults>>
      BY <1>15 DEF StoreIntake, AcceptMatch, LookForExtract, EnqueueAgain, vars, SetPipeline
    <2> QED
      BY <2>1, MatchDueStays
  <1>16. ASSUME NEW Lost \in SUBSET Att, QueueJobs(Lost) PROVE MatchDue'
    <2>1. UNCHANGED <<work, items, copies, matchJobs>> /\ (faults' = 0 => faults = 0)
      BY <1>0, <1>16 DEF QueueJobs, Fault
    <2> QED
      BY <2>1, MatchDueStays
  <1> QED
    BY NextCases, <1>3, <1>4, <1>5, <1>6, <1>7, <1>8, <1>9, <1>10, <1>11, <1>12, <1>13, <1>14,
       <1>15, <1>16

-----------------------------------------------------------------------------
(* The items come from all the texts *)

\* Nothing was lost, no two handlers of a kind have overlapped, and every
\* extraction had a result.
Calm == faults = 0 /\ ~overlapped /\ ~blank

\* One handler of a kind is at work, on one attachment, which it has parsed before
\* it aggregates; a job is closed after that.
Serial == \A u, w \in Worker : /\ work[u].at \in ParseAt /\ work[w].at \in ParseAt => u = w
                               /\ work[u].at \in ExtractAt /\ work[w].at \in ExtractAt => u = w
AttOf == \A w \in Worker : work[w].at \in ParseAt => \E a \in Att : work[w].att = {a}
AfterParse == \A w \in Worker : work[w].at \in {"collect", "store", "enqueue"} =>
                  \A a \in work[w].att : parse[a] # "pending"
ClosedIsParsed == \A a \in Att : job[a] = "closed" => parse[a] # "pending"
NotYet == intake # "queued" =>
              /\ \A a \in Att : parse[a] = "pending" /\ job[a] = "none"
              /\ \A w \in Worker : work[w].at \notin ParseAt
StoreIsTried == \A w \in Worker : work[w].at = "x_store" => tried
ThrowIsUnread == \A w \in Worker :
    work[w].at \in {"collect", "store"} /\ work[w].then = "throw" => unread # {}
StoresParsed == \A w \in Worker : work[w].at = "store" => work[w].seen = Parsed
Collected == Settled => content = Parsed \/ \E w \in Worker : work[w].at \in {"collect", "store"}

\* A handler that will ask for an extraction, an extraction that has not stored its
\* items yet, and what stands for the items of all the texts.
Chain(c) == (c.at \in {"collect", "store"} /\ c.then # "throw") \/ c.at = "enqueue"
Reading(c) == c.at \in {"x_count", "x_store"}
Owed == extracts > 0 \/ \E w \in Worker : Chain(work[w])
Good == /\ \A w \in Worker : Reading(work[w]) => work[w].seen = Parsed
        /\ (\E w \in Worker : Reading(work[w])) \/ (tried /\ items.from = Parsed)
Due == intake = "queued" /\ Settled /\ unread = {} => Owed \/ Good

Chained == /\ Serial /\ AttOf /\ AfterParse /\ ClosedIsParsed /\ NotYet
           /\ StoreIsTried /\ ThrowIsUnread /\ StoresParsed /\ Collected /\ Due
CalmInv == Calm => Chained

\* Two handlers look alike to parsing and extraction.
Alike(c, d) == \/ c.at = d.at /\ c.att = d.att /\ c.seen = d.seen /\ c.then = d.then
               \/ /\ c.at \notin ParseAt /\ d.at \notin ParseAt
                  /\ ~Reading(c) /\ ~Reading(d)
                  /\ d.at \in ExtractAt => c.at \in ExtractAt

\* What such a step keeps.
LEMMA ChainedStays ==
    ASSUME TypeOK, Chained,
           UNCHANGED <<parse, job, unread, content, items, tried>>,
           intake' = "queued" <=> intake = "queued",
           extracts > 0 => extracts' > 0,
           \A u \in Worker : Alike(work[u], work'[u])
    PROVE  Chained'
  <1> USE DEF Chained
  <1>1. Parsed' = Parsed /\ Settled' = Settled
    BY DEF Parsed, Settled
  <1>2. \A u \in Worker : /\ work'[u].at \in ParseAt <=> work[u].at \in ParseAt
                          /\ work'[u].at \in ExtractAt => work[u].at \in ExtractAt
                          /\ Reading(work'[u]) <=> Reading(work[u])
                          /\ work'[u].at \in ParseAt \/ Reading(work'[u]) =>
                                /\ work'[u].at = work[u].at /\ work'[u].att = work[u].att
                                /\ work'[u].seen = work[u].seen /\ work'[u].then = work[u].then
    BY DEF Alike, Reading, ParseAt
  <1>3. Serial'
    BY <1>2 DEF Serial
  <1>4. AttOf' /\ AfterParse' /\ ClosedIsParsed' /\ NotYet'
    BY <1>2 DEF AttOf, AfterParse, ClosedIsParsed, NotYet, ParseAt
  <1>5. StoreIsTried' /\ ThrowIsUnread' /\ StoresParsed'
    BY <1>1, <1>2 DEF StoreIsTried, ThrowIsUnread, StoresParsed, ParseAt, Reading
  <1>6. Collected'
    BY <1>1, <1>2 DEF Collected, ParseAt
  <1>7. Owed => Owed'
    BY <1>2 DEF Owed, Chain, ParseAt
  <1>8. Good => Good'
    BY <1>1, <1>2 DEF Good
  <1>9. Due'
    BY <1>1, <1>7, <1>8 DEF Due
  <1> QED
    BY <1>3, <1>4, <1>5, <1>6, <1>9

\* What a parse handler alone at work keeps, wherever it goes.
LEMMA ParsesAlone ==
    ASSUME TypeOK, Chained, UNCHANGED tried, NEW w \in Worker,
           \A u \in Worker \ {w} : work'[u] = work[u] /\ work[u].at \notin ParseAt,
           work[w].at \in {"idle"} \cup ParseAt, work'[w].at \in {"idle"} \cup ParseAt
    PROVE  /\ Serial' /\ StoreIsTried'
           /\ \A u \in Worker : Reading(work'[u]) <=> Reading(work[u])
           /\ \A u \in Worker : Reading(work[u]) => work'[u] = work[u]
  <1>1. work[w].at \notin ExtractAt /\ work'[w].at \notin ExtractAt
    BY DEF ParseAt, ExtractAt
  <1>2. ~Reading(work[w]) /\ ~Reading(work'[w])
    BY DEF Reading, ParseAt
  <1>3. Serial'
    BY <1>1 DEF Chained, Serial
  <1> QED
    BY <1>2, <1>3 DEF Chained, StoreIsTried, Reading

\* A parse handler that starts, while none is at work.
LEMMA StartParseKeeps ==
    ASSUME TypeOK, Chained, NEW w \in Worker, NEW a \in Att, StartParse(w, a), ~overlapped'
    PROVE  Chained'
  <1> USE DEF Chained
  <1> DEFINE at == IF parse[a] = "done" THEN "collect" ELSE "parse"
             step == [Idle EXCEPT !.at = at, !.att = {a}, !.then = "enqueue"]
  <1>1. step.at = at /\ step.att = {a} /\ step.then = "enqueue"
    BY DEF Idle
  <1>2. at \in ParseAt /\ ParseAt \in Kinds
    BY DEF ParseAt, Kinds
  <1>3. work[w] = Idle /\ Goto(w, step)
    BY DEF StartParse, Begin
  <1>4. \A u \in Worker \ {w} : work[u].at \notin ParseAt
    BY <1>1, <1>2 DEF StartParse, Begin
  <1> HIDE DEF step
  <1>5. /\ \A u \in Worker \ {w} : work'[u] = work[u]
        /\ work'[w] = step
    BY <1>3, Others
  <1>6. /\ UNCHANGED <<intake, parse, content, unread, items, extracts, tried>>
        /\ job' = [job EXCEPT ![a] = "taken"] /\ job[a] # "none"
    BY DEF StartParse, found, open
  <1>7. work[w].at = "idle"
    BY <1>3 DEF Idle
  <1>8. Parsed' = Parsed /\ Settled' = Settled
    BY <1>6 DEF Parsed, Settled
  <1>9. /\ Serial' /\ StoreIsTried'
        /\ \A u \in Worker : Reading(work'[u]) <=> Reading(work[u])
        /\ \A u \in Worker : Reading(work[u]) => work'[u] = work[u]
    BY <1>1, <1>2, <1>4, <1>5, <1>6, <1>7, ParsesAlone
  <1>10. AttOf' /\ AfterParse'
    BY <1>1, <1>4, <1>5, <1>6 DEF AttOf, AfterParse, ParseAt
  <1>11. ClosedIsParsed' /\ NotYet'
    BY <1>6 DEF ClosedIsParsed, NotYet, TypeOK
  <1>12. ThrowIsUnread' /\ StoresParsed'
    BY <1>1, <1>4, <1>5 DEF ThrowIsUnread, StoresParsed, ParseAt
  <1>13. Collected'
    BY <1>4, <1>5, <1>6, <1>7, <1>8 DEF Collected, ParseAt
  <1>14. Owed => Owed'
    BY <1>4, <1>5, <1>6, <1>7 DEF Owed, Chain, ParseAt
  <1>15. Good => Good'
    BY <1>6, <1>8, <1>9 DEF Good
  <1>16. Due'
    BY <1>6, <1>8, <1>14, <1>15 DEF Due
  <1> QED
    BY <1>9, <1>10, <1>11, <1>12, <1>13, <1>16

\* The parser returns, or throws: the handler goes on to aggregate.
LEMMA ParsingKeeps ==
    ASSUME TypeOK, Chained, NEW w \in Worker, NEW a \in Att, NEW outcome \in {"done", "failed"},
           ParseReturns(w, a, outcome) \/ ParseThrows(w, a)
    PROVE  Chained'
  <1> USE DEF Chained
  <1>0. work[w] \in Work /\ work[w].at = "parse" /\ a \in work[w].att
    BY DEF ParseReturns, ParseThrows, TypeOK
  <1>1. \A u \in Worker \ {w} : work[u].at \notin ParseAt
    BY <1>0 DEF Serial, ParseAt
  <1>2. /\ \A u \in Worker \ {w} : work'[u] = work[u]
        /\ work'[w].at = "collect" /\ work'[w].att = work[w].att
        /\ \/ work'[w].then = "again" /\ unread' = unread \ {a}
           \/ work'[w].then = "throw" /\ unread' = unread \cup {a}
    <2>1. CASE ParseReturns(w, a, outcome)
      <3>1. Goto(w, [work[w] EXCEPT !.at = "collect", !.then = "again"])
        BY <2>1 DEF ParseReturns
      <3>2. /\ \A u \in Worker \ {w} : work'[u] = work[u]
            /\ work'[w] = [work[w] EXCEPT !.at = "collect", !.then = "again"]
        BY <3>1, Others
      <3> QED
        BY <1>0, <2>1, <3>2 DEF ParseReturns, Work
    <2>2. CASE ParseThrows(w, a)
      <3>1. Goto(w, [work[w] EXCEPT !.at = "collect", !.then = "throw"])
        BY <2>2 DEF ParseThrows
      <3>2. /\ \A u \in Worker \ {w} : work'[u] = work[u]
            /\ work'[w] = [work[w] EXCEPT !.at = "collect", !.then = "throw"]
        BY <3>1, Others
      <3> QED
        BY <1>0, <2>2, <3>2 DEF ParseThrows, Work
    <2> QED
      BY <2>1, <2>2
  <1>3. /\ UNCHANGED <<intake, job, content, items, extracts, tried>>
        /\ \E st \in {"done", "failed"} : parse' = [parse EXCEPT ![a] = st]
    BY DEF ParseReturns, ParseThrows, found, open, marks
  <1>4. /\ parse'[a] # "pending"
        /\ \A b \in Att \ {a} : parse'[b] = parse[b]
    BY <1>3 DEF TypeOK
  <1>5. intake = "queued"
    BY <1>0 DEF NotYet, ParseAt
  <1>6. work'[w].at \in ParseAt
    BY <1>2 DEF ParseAt
  <1>7. Serial' /\ StoreIsTried'
    BY <1>0, <1>1, <1>2, <1>3, <1>6, ParsesAlone DEF ParseAt
  <1>8. \A b \in work[w].att : b = a
    BY <1>0 DEF AttOf, ParseAt
  <1>9. AttOf'
    BY <1>0, <1>1, <1>2 DEF AttOf, ParseAt
  <1>10. AfterParse'
    BY <1>1, <1>2, <1>4, <1>8 DEF AfterParse, ParseAt
  <1>11. ClosedIsParsed' /\ NotYet'
    BY <1>3, <1>4, <1>5 DEF ClosedIsParsed, NotYet
  <1>12. ThrowIsUnread'
    BY <1>1, <1>2 DEF ThrowIsUnread, ParseAt
  <1>13. StoresParsed' /\ Collected'
    BY <1>1, <1>2 DEF StoresParsed, Collected, ParseAt
  <1>14. Due'
    BY <1>2 DEF Due, Owed, Chain
  <1> QED
    BY <1>7, <1>9, <1>10, <1>11, <1>12, <1>13, <1>14

\* What follows an aggregation: the handler goes on, or its job has been parsed.
LEMMA AfterCollectKeeps ==
    ASSUME TypeOK, Chained, NEW w \in Worker, NEW a \in Att, NEW written \in BOOLEAN,
           AfterCollect(w, a, written), work[w].at \in {"collect", "store"}, a \in work[w].att
    PROVE  /\ \A u \in Worker \ {w} : work'[u] = work[u] /\ work[u].at \notin ParseAt
           /\ work'[w].at \in {"idle", "collect", "enqueue"}
           /\ work'[w].at # "idle" => work'[w].att = work[w].att
           /\ work'[w].then = "throw" => work'[w].at = "idle"
           /\ written /\ work[w].then # "throw" => Chain(work'[w])
           /\ \A b \in Att : job'[b] \in {job[b], "open"} \/ (job'[b] = "closed" /\ b = a)
           /\ \A b \in Att : job'[b] # job[b] => b = a
  <1>0. work[w] \in Work
    BY DEF TypeOK
  <1>1. \A u \in Worker \ {w} : work[u].at \notin ParseAt
    BY DEF Chained, Serial, ParseAt
  <1>2. CASE work[w].then = "again"
    <2>1. Goto(w, [work[w] EXCEPT !.at = "collect", !.then = "enqueue"]) /\ job' = job
      BY <1>2 DEF AfterCollect
    <2>2. /\ \A u \in Worker \ {w} : work'[u] = work[u]
          /\ work'[w] = [work[w] EXCEPT !.at = "collect", !.then = "enqueue"]
      BY <2>1, Others
    <2> QED
      BY <1>0, <1>1, <2>1, <2>2 DEF Work, Chain
  <1>3. CASE work[w].then # "again" /\ work[w].then = "enqueue" /\ written
    <2>1. Goto(w, [work[w] EXCEPT !.at = "enqueue"]) /\ job' = job
      BY <1>3 DEF AfterCollect
    <2>2. /\ \A u \in Worker \ {w} : work'[u] = work[u]
          /\ work'[w] = [work[w] EXCEPT !.at = "enqueue"]
      BY <2>1, Others
    <2> QED
      BY <1>0, <1>1, <1>3, <2>1, <2>2 DEF Work, Chain
  <1>4. CASE work[w].then # "again" /\ ~(work[w].then = "enqueue" /\ written)
    <2>1. Stop(w) /\ Close(a, work[w].then = "throw")
      BY <1>4 DEF AfterCollect
    <2>2. /\ \A u \in Worker \ {w} : work'[u] = work[u]
          /\ work'[w] = Idle
      BY <2>1, Others DEF Stop
    <2>3. \E st \in {"open", "closed"} : job' = [job EXCEPT ![a] = st]
      BY <2>1 DEF Close
    <2>4. Idle.at = "idle"
      BY DEF Idle
    <2>5. \A b \in Att \ {a} : job'[b] = job[b]
      BY <2>3 DEF TypeOK
    <2>6. job'[a] \in {"open", "closed"}
      BY <2>3 DEF TypeOK
    <2>7. written => work[w].then = "throw"
      BY <1>0, <1>4 DEF Work, Next3
    <2> QED
      BY <1>1, <2>2, <2>4, <2>5, <2>6, <2>7
  <1> QED
    BY <1>2, <1>3, <1>4

\* The handler aggregates.
LEMMA CollectKeeps ==
    ASSUME TypeOK, Chained, NEW w \in Worker, NEW a \in Att, Collect(w, a)
    PROVE  Chained'
  <1> USE DEF Chained
  <1>0. work[w] \in Work /\ work[w].at = "collect" /\ a \in work[w].att
    BY DEF Collect, TypeOK
  <1>1. UNCHANGED <<intake, parse, content, unread, items, extracts, tried>>
    BY DEF Collect, found, open, marks
  <1>2. Parsed' = Parsed /\ Settled' = Settled
    BY <1>1 DEF Parsed, Settled
  <1>3. intake = "queued"
    BY <1>0 DEF NotYet, ParseAt
  <1>4. CASE Settled
    <2>1. Goto(w, [work[w] EXCEPT !.at = "store", !.seen = Parsed]) /\ job' = job
      BY <1>4 DEF Collect
    <2>2. /\ \A u \in Worker \ {w} : work'[u] = work[u]
          /\ work'[w] = [work[w] EXCEPT !.at = "store", !.seen = Parsed]
      BY <2>1, Others
    <2>3. /\ work'[w].at = "store" /\ work'[w].seen = Parsed
          /\ work'[w].att = work[w].att /\ work'[w].then = work[w].then
      BY <1>0, <2>2 DEF Work
    <2>4. \A u \in Worker \ {w} : work[u].at \notin ParseAt
      BY <1>0 DEF Serial, ParseAt
    <2>5. /\ Serial' /\ StoreIsTried'
          /\ \A u \in Worker : Reading(work'[u]) <=> Reading(work[u])
          /\ \A u \in Worker : Reading(work[u]) => work'[u] = work[u]
      BY <1>0, <1>1, <2>2, <2>3, <2>4, ParsesAlone DEF ParseAt
    <2>6. AttOf' /\ AfterParse'
      <3>1. AttOf'
        BY <1>0, <2>2, <2>3, <2>4 DEF AttOf, ParseAt
      <3>2. ASSUME NEW u \in Worker, work'[u].at \in {"collect", "store", "enqueue"}
            PROVE  work'[u].att = work[u].att /\ work[u].at \in {"collect", "store", "enqueue"}
        BY <1>0, <2>2, <2>3, <3>2
      <3>3. AfterParse'
        BY <1>1, <3>2 DEF AfterParse
      <3> QED
        BY <3>1, <3>3
    <2>7. ClosedIsParsed' /\ NotYet'
      BY <1>1, <1>3, <2>1 DEF ClosedIsParsed, NotYet
    <2>8. ThrowIsUnread'
      BY <1>0, <1>1, <2>2, <2>3 DEF ThrowIsUnread
    <2>9. StoresParsed' /\ Collected'
      BY <1>2, <2>2, <2>3 DEF StoresParsed, Collected
    <2>10. Owed => Owed'
      BY <1>0, <1>1, <2>2, <2>3 DEF Owed, Chain
    <2>11. Good => Good'
      BY <1>1, <1>2, <2>5 DEF Good
    <2>12. Due'
      BY <1>1, <1>2, <2>10, <2>11 DEF Due
    <2> QED
      BY <2>5, <2>6, <2>7, <2>8, <2>9, <2>12
  <1>5. CASE ~Settled
    <2>1. AfterCollect(w, a, FALSE)
      BY <1>5 DEF Collect
    <2>2. /\ \A u \in Worker \ {w} : work'[u] = work[u] /\ work[u].at \notin ParseAt
          /\ work'[w].at \in {"idle", "collect", "enqueue"}
          /\ work'[w].at # "idle" => work'[w].att = work[w].att
          /\ work'[w].then = "throw" => work'[w].at = "idle"
          /\ \A b \in Att : job'[b] \in {job[b], "open"} \/ (job'[b] = "closed" /\ b = a)
      BY <1>0, <2>1, AfterCollectKeeps
    <2>3. Serial' /\ StoreIsTried'
      <3>1. work[w].at \in {"idle"} \cup ParseAt /\ work'[w].at \in {"idle"} \cup ParseAt
        BY <1>0, <2>2 DEF ParseAt
      <3> QED
        BY <1>1, <2>2, <3>1, ParsesAlone
    <2>4. AttOf' /\ AfterParse'
      <3>1. AttOf'
        BY <1>0, <2>2 DEF AttOf, ParseAt
      <3>2. AfterParse'
        BY <1>0, <1>1, <2>2 DEF AfterParse, ParseAt
      <3> QED
        BY <3>1, <3>2
    <2>5. parse[a] # "pending"
      BY <1>0 DEF AfterParse
    <2>6. ClosedIsParsed' /\ NotYet'
      BY <1>1, <1>3, <2>2, <2>5 DEF ClosedIsParsed, NotYet
    <2>7. ThrowIsUnread' /\ StoresParsed'
      BY <2>2 DEF ThrowIsUnread, StoresParsed, ParseAt
    <2>8. Collected' /\ Due'
      BY <1>2, <1>5 DEF Collected, Due
    <2> QED
      BY <2>3, <2>4, <2>6, <2>7, <2>8
  <1> QED
    BY <1>4, <1>5

\* It writes what it has read.
LEMMA StoreKeeps ==
    ASSUME TypeOK, Chained, NEW w \in Worker, NEW a \in Att, Store(w, a)
    PROVE  Chained'
  <1> USE DEF Chained
  <1>0. work[w] \in Work /\ work[w].at = "store" /\ a \in work[w].att
    BY DEF Store, TypeOK
  <1>1. UNCHANGED <<intake, parse, unread, items, extracts, tried>> /\ content' = work[w].seen
    BY DEF Store, found, open, marks
  <1>2. Parsed' = Parsed /\ Settled' = Settled
    BY <1>1 DEF Parsed, Settled
  <1>3. intake = "queued"
    BY <1>0 DEF NotYet, ParseAt
  <1>4. /\ \A u \in Worker \ {w} : work'[u] = work[u] /\ work[u].at \notin ParseAt
        /\ work'[w].at \in {"idle", "collect", "enqueue"}
        /\ work'[w].at # "idle" => work'[w].att = work[w].att
        /\ work'[w].then = "throw" => work'[w].at = "idle"
        /\ work[w].then # "throw" => Chain(work'[w])
        /\ \A b \in Att : job'[b] \in {job[b], "open"} \/ (job'[b] = "closed" /\ b = a)
    <2>1. AfterCollect(w, a, TRUE)
      BY DEF Store
    <2> QED
      BY <1>0, <2>1, AfterCollectKeeps
  <1>5. /\ Serial' /\ StoreIsTried'
        /\ \A u \in Worker : Reading(work'[u]) <=> Reading(work[u])
        /\ \A u \in Worker : Reading(work[u]) => work'[u] = work[u]
    <2>1. work[w].at \in {"idle"} \cup ParseAt /\ work'[w].at \in {"idle"} \cup ParseAt
      BY <1>0, <1>4 DEF ParseAt
    <2> QED
      BY <1>1, <1>4, <2>1, ParsesAlone
  <1>6. AttOf' /\ AfterParse'
    BY <1>0, <1>1, <1>4 DEF AttOf, AfterParse, ParseAt
  <1>7. parse[a] # "pending"
    BY <1>0 DEF AfterParse
  <1>8. ClosedIsParsed' /\ NotYet'
    BY <1>1, <1>3, <1>4, <1>7 DEF ClosedIsParsed, NotYet
  <1>9. ThrowIsUnread' /\ StoresParsed'
    BY <1>4 DEF ThrowIsUnread, StoresParsed, ParseAt
  <1>10. Collected'
    BY <1>0, <1>1, <1>2 DEF Collected, StoresParsed
  <1>11. Owed => Owed'
    BY <1>0, <1>1, <1>4 DEF Owed, Chain
  <1>12. Good => Good'
    BY <1>1, <1>2, <1>5 DEF Good
  <1>13. Due'
    BY <1>1, <1>2, <1>11, <1>12 DEF Due
  <1> QED
    BY <1>5, <1>6, <1>8, <1>9, <1>10, <1>13

\* It asks for the extraction.
LEMMA EnqueueExtractKeeps ==
    ASSUME TypeOK, Chained, NEW w \in Worker, NEW a \in Att, EnqueueExtract(w, a)
    PROVE  Chained'
  <1> USE DEF Chained
  <1>0. work[w] \in Work /\ work[w].at = "enqueue" /\ a \in work[w].att
    BY DEF EnqueueExtract, TypeOK
  <1>1. UNCHANGED <<intake, parse, content, unread, items, tried>>
    BY DEF EnqueueExtract, found, marks
  <1>2. Parsed' = Parsed /\ Settled' = Settled
    BY <1>1 DEF Parsed, Settled
  <1>3. intake = "queued"
    BY <1>0 DEF NotYet, ParseAt
  <1>4. /\ \A u \in Worker \ {w} : work'[u] = work[u] /\ work[u].at \notin ParseAt
        /\ work'[w].at = "idle"
    <2>1. Stop(w)
      BY DEF EnqueueExtract
    <2>2. Moves(w, {"idle"})
      BY <2>1, StopMoves
    <2> QED
      BY <1>0, <2>2 DEF Moves, Serial, ParseAt
  <1>5. Serial' /\ StoreIsTried'
    <2>1. work[w].at \in {"idle"} \cup ParseAt /\ work'[w].at \in {"idle"} \cup ParseAt
      BY <1>0, <1>4 DEF ParseAt
    <2> QED
      BY <1>1, <1>4, <2>1, ParsesAlone
  <1>6. AttOf' /\ AfterParse'
    BY <1>1, <1>4 DEF AttOf, AfterParse, ParseAt
  <1>7. \E st \in JobState : job' = [job EXCEPT ![a] = st]
    BY DEF EnqueueExtract, Close, JobState
  <1>8. parse[a] # "pending"
    BY <1>0 DEF AfterParse
  <1>9. ClosedIsParsed' /\ NotYet'
    BY <1>1, <1>3, <1>7, <1>8 DEF ClosedIsParsed, NotYet, TypeOK
  <1>10. ThrowIsUnread' /\ StoresParsed'
    BY <1>4 DEF ThrowIsUnread, StoresParsed, ParseAt
  <1>11. Collected'
    BY <1>0, <1>1, <1>2, <1>4 DEF Collected, ParseAt
  <1>12. extracts' > 0
    BY OneMoreIsSome DEF EnqueueExtract, TypeOK
  <1>13. Due'
    BY <1>12 DEF Due, Owed
  <1> QED
    BY <1>5, <1>6, <1>9, <1>10, <1>11, <1>13

\* An extraction starts, while none is at work: it has read all the texts, or the
\* handler that has the rest in hand will ask for another one.
LEMMA StartExtractKeeps ==
    ASSUME TypeOK, Chained, NEW w \in Worker, StartExtract(w), ~overlapped'
    PROVE  Chained'
  <1> USE DEF Chained
  <1> DEFINE step == [Idle EXCEPT !.at = "x_count", !.seen = content]
  <1>1. step.at = "x_count" /\ step.seen = content
    BY DEF Idle
  <1>2. work[w] = Idle /\ Goto(w, step)
    BY DEF StartExtract, Begin
  <1>3. \A u \in Worker \ {w} : work[u].at \notin ExtractAt
    <2>1. "x_count" \in ExtractAt /\ ExtractAt \in Kinds
      BY DEF ExtractAt, Kinds
    <2> QED
      BY <1>1, <2>1 DEF StartExtract, Begin
  <1> HIDE DEF step
  <1>4. /\ \A u \in Worker \ {w} : work'[u] = work[u]
        /\ work'[w] = step
    BY <1>2, Others
  <1>5. UNCHANGED <<intake, parse, job, content, unread, items, tried>>
    BY DEF StartExtract, files, found
  <1>6. work[w].at = "idle"
    BY <1>2 DEF Idle
  <1>7. Parsed' = Parsed /\ Settled' = Settled
    BY <1>5 DEF Parsed, Settled
  <1>8. \A u \in Worker : work'[u].at \in ParseAt => u # w /\ work'[u] = work[u]
    BY <1>1, <1>4 DEF ParseAt
  <1>9. Serial'
    <2>1. \A u \in Worker : work'[u].at \in ExtractAt => u = w
      BY <1>3, <1>4
    <2> QED
      BY <1>8, <2>1 DEF Serial
  <1>10. AttOf' /\ AfterParse'
    BY <1>5, <1>8 DEF AttOf, AfterParse, ParseAt
  <1>11. ClosedIsParsed' /\ NotYet'
    BY <1>5, <1>8 DEF ClosedIsParsed, NotYet
  <1>12. StoreIsTried' /\ ThrowIsUnread' /\ StoresParsed'
    BY <1>1, <1>4, <1>5, <1>7 DEF StoreIsTried, ThrowIsUnread, StoresParsed
  <1>13. Collected'
    BY <1>4, <1>5, <1>6, <1>7 DEF Collected
  <1>14. ASSUME intake = "queued", Settled, unread = {} PROVE Owed' \/ Good'
    <2>1. CASE \E u \in Worker : Chain(work[u])
      BY <1>4, <1>6, <2>1 DEF Owed, Chain
    <2>2. CASE content = Parsed
      <3>1. \A u \in Worker \ {w} : ~Reading(work'[u])
        BY <1>3, <1>4 DEF Reading, ExtractAt
      <3>2. Reading(work'[w]) /\ work'[w].seen = Parsed'
        BY <1>1, <1>4, <1>7, <2>2 DEF Reading
      <3> QED
        BY <3>1, <3>2 DEF Good
    <2> QED
      BY <1>14, <2>1, <2>2 DEF Collected, ThrowIsUnread, Chain
  <1>15. Due'
    BY <1>5, <1>7, <1>14 DEF Due
  <1> QED
    BY <1>9, <1>10, <1>11, <1>12, <1>13, <1>15

\* It passes its guard, or leaves the extraction to the attachments still to come.
LEMMA CheckPendingKeeps ==
    ASSUME TypeOK, Chained, NEW w \in Worker, CheckPending(w)
    PROVE  Chained'
  <1> USE DEF Chained
  <1>0. work[w] \in Work /\ work[w].at = "x_count"
    BY DEF CheckPending, TypeOK
  <1>1. UNCHANGED <<intake, parse, job, content, unread, items, extracts>>
    BY DEF CheckPending, files, found, open
  <1>2. Parsed' = Parsed /\ Settled' = Settled
    BY <1>1 DEF Parsed, Settled
  <1>3. /\ \A u \in Worker \ {w} : work'[u] = work[u]
        /\ \/ /\ Settled /\ tried' /\ work'[w].at = "x_store" /\ work'[w].seen = work[w].seen
           \/ /\ ~Settled /\ tried' = tried /\ work'[w].at = "idle"
    <2>1. CASE Settled
      <3>1. Goto(w, [work[w] EXCEPT !.at = "x_store"]) /\ tried'
        BY <2>1 DEF CheckPending
      <3>2. /\ \A u \in Worker \ {w} : work'[u] = work[u]
            /\ work'[w] = [work[w] EXCEPT !.at = "x_store"]
        BY <3>1, Others
      <3> QED
        BY <1>0, <2>1, <3>1, <3>2 DEF Work
    <2>2. CASE ~Settled
      <3>1. Moves(w, {"idle"})
        BY <2>2, GuardMoves
      <3> QED
        BY <2>2, <3>1 DEF Moves, CheckPending
    <2> QED
      BY <2>1, <2>2
  <1>4. \A u \in Worker : /\ work'[u].at \in ParseAt <=> work[u].at \in ParseAt
                          /\ work[u].at \in ParseAt => work'[u] = work[u]
    BY <1>0, <1>3 DEF ParseAt
  <1>5. Serial'
    <2>1. \A u \in Worker : work'[u].at \in ExtractAt => work[u].at \in ExtractAt
      BY <1>0, <1>3 DEF ExtractAt
    <2> QED
      BY <1>4, <2>1 DEF Serial
  <1>6. AttOf' /\ AfterParse'
    BY <1>1, <1>4 DEF AttOf, AfterParse, ParseAt
  <1>7. ClosedIsParsed' /\ NotYet'
    BY <1>1, <1>4 DEF ClosedIsParsed, NotYet
  <1>8. StoreIsTried'
    BY <1>3 DEF StoreIsTried
  <1>9. ThrowIsUnread' /\ StoresParsed'
    BY <1>1, <1>2, <1>4 DEF ThrowIsUnread, StoresParsed, ParseAt
  <1>10. Collected'
    BY <1>1, <1>2, <1>4 DEF Collected, ParseAt
  <1>11. Owed => Owed'
    BY <1>1, <1>4 DEF Owed, Chain, ParseAt
  <1>12. Settled /\ Good => Good'
    BY <1>0, <1>1, <1>2, <1>3 DEF Good, Reading
  <1>13. Due'
    BY <1>1, <1>2, <1>11, <1>12 DEF Due
  <1> QED
    BY <1>5, <1>6, <1>7, <1>8, <1>9, <1>10, <1>13

\* The items are stored: they come from all the texts, or somebody still owes them.
LEMMA StoreItemsKeeps ==
    ASSUME TypeOK, Chained, NEW w \in Worker, NEW any \in BOOLEAN, StoreItems(w, any)
    PROVE  Chained'
  <1> USE DEF Chained
  <1>0. work[w] \in Work /\ work[w].at = "x_store" /\ tried
    BY DEF StoreItems, TypeOK, StoreIsTried
  <1>1. /\ UNCHANGED <<intake, parse, job, content, unread, extracts, tried>>
        /\ items'.from = work[w].seen
    BY DEF StoreItems, files, open, marks
  <1>2. Parsed' = Parsed /\ Settled' = Settled
    BY <1>1 DEF Parsed, Settled
  <1>3. /\ \A u \in Worker \ {w} : /\ work'[u].at = work[u].at /\ work'[u].att = work[u].att
                                   /\ work'[u].seen = work[u].seen /\ work'[u].then = work[u].then
        /\ work'[w].at \in {"x_status", "idle"}
    <2>1. \A u \in Worker : work[u] \in Work
      BY DEF TypeOK
    <2>2. Idle.at = "idle"
      BY DEF Idle
    <2> QED
      BY <1>0, <2>1, <2>2 DEF StoreItems, Work
  <1>4. \A u \in Worker : /\ work'[u].at \in ParseAt <=> work[u].at \in ParseAt
                          /\ work[u].at \in ParseAt =>
                                /\ work'[u].at = work[u].at /\ work'[u].att = work[u].att
                                /\ work'[u].seen = work[u].seen /\ work'[u].then = work[u].then
    BY <1>0, <1>3 DEF ParseAt
  <1>5. Serial'
    <2>1. \A u \in Worker : work'[u].at \in ExtractAt => work[u].at \in ExtractAt
      BY <1>0, <1>3 DEF ExtractAt
    <2> QED
      BY <1>4, <2>1 DEF Serial
  <1>6. AttOf' /\ AfterParse'
    BY <1>1, <1>4 DEF AttOf, AfterParse, ParseAt
  <1>7. ClosedIsParsed' /\ NotYet'
    BY <1>1, <1>4 DEF ClosedIsParsed, NotYet
  <1>8. StoreIsTried'
    BY <1>0, <1>1 DEF StoreIsTried
  <1>9. ThrowIsUnread' /\ StoresParsed'
    BY <1>1, <1>2, <1>4 DEF ThrowIsUnread, StoresParsed, ParseAt
  <1>10. Collected'
    BY <1>1, <1>2, <1>4 DEF Collected, ParseAt
  <1>11. Owed => Owed'
    BY <1>1, <1>4 DEF Owed, Chain, ParseAt
  <1>12. Good => Good'
    <2>1. \A u \in Worker : ~Reading(work'[u])
      BY <1>0, <1>3 DEF Serial, Reading, ExtractAt
    <2>2. Reading(work[w])
      BY <1>0 DEF Reading
    <2> QED
      BY <1>0, <1>1, <1>2, <2>1, <2>2 DEF Good
  <1>13. Due'
    BY <1>1, <1>2, <1>11, <1>12 DEF Due
  <1> QED
    BY <1>5, <1>6, <1>7, <1>8, <1>9, <1>10, <1>13

\* The jobs are asked for, and no call is lost.
LEMMA QueueJobsKeeps ==
    ASSUME TypeOK, Chained, QueueJobs({})
    PROVE  Chained'
  <1> USE DEF Chained
  <1>1. /\ UNCHANGED <<work, parse, content, unread, items, tried>>
        /\ intake = "stored" /\ job' = [a \in Att |-> "open"]
    BY DEF QueueJobs, found
  <1>2. Parsed' = Parsed /\ Settled' = Settled
    BY <1>1 DEF Parsed, Settled
  <1>3. Serial' /\ AttOf' /\ AfterParse' /\ ClosedIsParsed'
    BY <1>1 DEF Serial, AttOf, AfterParse, ClosedIsParsed
  <1>4. StoreIsTried' /\ ThrowIsUnread' /\ StoresParsed' /\ Collected'
    BY <1>1, <1>2 DEF StoreIsTried, ThrowIsUnread, StoresParsed, Collected
  <1>5. NotYet'
    BY DEF QueueJobs, NotYet
  <1>6. Due'
    <2>1. CASE Att = {}
      <3>1. extracts' > 0
        BY <2>1, OneMoreIsSome DEF QueueJobs, TypeOK
      <3> QED
        BY <3>1 DEF Due, Owed
    <2>2. CASE Att # {}
      <3>1. ~Settled
        BY <1>1, <2>2 DEF NotYet, Settled
      <3> QED
        BY <1>2, <3>1 DEF Due
    <2> QED
      BY <2>1, <2>2
  <1> QED
    BY <1>3, <1>4, <1>5, <1>6

\* Calm is not regained.
LEMMA CalmBefore == TypeOK /\ [Next]_vars /\ Calm' => Calm
  <1> SUFFICES ASSUME TypeOK, [Next]_vars, Calm' PROVE Calm
    OBVIOUS
  <1>0. faults \in Nat
    BY BoundsAssumption DEF TypeOK
  <1>1. ASSUME UNCHANGED <<blank, faults>>, overlapped => overlapped' PROVE Calm
    BY <1>1 DEF Calm
  <1>2. ASSUME NEW w \in Worker, NEW a \in Att, StartParse(w, a) PROVE Calm
    BY <1>1, <1>2 DEF StartParse, Begin, marks
  <1>3. ASSUME NEW w \in Worker, NEW a \in Att, ParseThrows(w, a) PROVE Calm
    BY <1>1, <1>3 DEF ParseThrows, marks
  <1>4. ASSUME NEW w \in Worker, NEW a \in Att, NEW outcome \in {"done", "failed"}, ParseReturns(w, a, outcome) PROVE Calm
    BY <1>1, <1>4 DEF ParseReturns, marks
  <1>5. ASSUME NEW w \in Worker, NEW a \in Att, Collect(w, a) \/ Store(w, a) \/ EnqueueExtract(w, a) PROVE Calm
    BY <1>1, <1>5 DEF Collect, Store, EnqueueExtract, marks
  <1>6. ASSUME NEW w \in Worker, StartExtract(w) PROVE Calm
    BY <1>1, <1>6 DEF StartExtract, Begin, marks
  <1>7. ASSUME NEW w \in Worker, CheckPending(w) PROVE Calm
    BY <1>1, <1>7 DEF CheckPending, marks
  <1>8. ASSUME NEW w \in Worker, NEW any \in BOOLEAN, StoreItems(w, any) PROVE Calm
    BY <1>1, <1>8 DEF StoreItems, marks
  <1>9. ASSUME NEW w \in Worker, ReadStatus(w) \/ SetReady(w) \/ EnqueueMatch(w) PROVE Calm
    BY <1>1, <1>9 DEF ReadStatus, SetReady, EnqueueMatch, marks
  <1>10. ASSUME NEW w \in Worker, StartMatch(w) PROVE Calm
    BY <1>1, <1>10 DEF StartMatch, Begin, marks
  <1>11. ASSUME NEW w \in Worker, CountMatches(w) \/ CreateMatches(w) \/ CreateMatchesFails(w) PROVE Calm
    BY <1>1, <1>11 DEF CountMatches, CreateMatches, CreateMatchesFails, marks
  <1>12. ASSUME NEW w \in Worker, ExtractFails(w) PROVE Calm
    BY <1>12 DEF ExtractFails, Calm
  <1>13. CASE Crash
    BY <1>0, <1>13 DEF Crash, Fault, Calm
  <1>14. ASSUME NEW Lost \in SUBSET Att, QueueJobs(Lost) PROVE Calm
    BY <1>0, <1>14 DEF QueueJobs, Fault, Calm
  <1>15. CASE \/ StoreIntake \/ NothingToMatch \/ AcceptMatch \/ LookForExtract
             \/ EnqueueAgain \/ UNCHANGED vars
             \/ (\E s \in {"classified", "elsewhere"} : SetPipeline(s))
    BY <1>1, <1>15 DEF StoreIntake, NothingToMatch, AcceptMatch, LookForExtract, EnqueueAgain,
       vars, SetPipeline, marks
  <1> QED
    BY NextCases, <1>2, <1>3, <1>4, <1>5, <1>6, <1>7, <1>8, <1>9,
       <1>10, <1>11, <1>12, <1>13, <1>14, <1>15

\* Every step keeps the chain of what is owed, while it is calm.
LEMMA CalmStep == TypeOK /\ CalmInv /\ [Next]_vars => CalmInv'
  <1> SUFFICES ASSUME TypeOK, CalmInv, [Next]_vars, Calm' PROVE Chained'
    BY DEF CalmInv
  <1>0. Chained /\ ~overlapped' /\ ~blank' /\ faults' = 0 /\ faults = 0
    BY CalmBefore DEF CalmInv, Calm
  <1> USE DEF files, found, open, staff, marks
  <1>1. ASSUME NEW w \in Worker, NEW a \in Att,
               \/ StartParse(w, a) \/ ParseThrows(w, a)
               \/ \E outcome \in {"done", "failed"} : ParseReturns(w, a, outcome)
               \/ Collect(w, a) \/ Store(w, a) \/ EnqueueExtract(w, a)
        PROVE  Chained'
    BY <1>0, <1>1, StartParseKeeps, ParsingKeeps, CollectKeeps, StoreKeeps, EnqueueExtractKeeps
  <1>2. ASSUME NEW w \in Worker,
               \/ StartExtract(w) \/ CheckPending(w)
               \/ \E any \in BOOLEAN : StoreItems(w, any)
        PROVE  Chained'
    BY <1>0, <1>2, StartExtractKeeps, CheckPendingKeeps, StoreItemsKeeps
  <1>3. ASSUME NEW w \in Worker, ExtractFails(w) PROVE Chained'
    BY <1>0, <1>3 DEF ExtractFails
  <1>4. ASSUME NEW w \in Worker, NEW S, Moves(w, S), S \cap (ParseAt \cup ExtractAt) = {},
               work[w].at \notin ParseAt, ~Reading(work[w]),
               UNCHANGED <<intake, parse, job, unread, content, items, tried, extracts>>
        PROVE  Chained'
    <2>1. \A u \in Worker : Alike(work[u], work'[u])
      BY <1>4 DEF Moves, Alike, Reading, ExtractAt
    <2> QED
      BY <1>0, <1>4, <2>1, ChainedStays
  <1>5. ASSUME NEW w \in Worker, ReadStatus(w) \/ SetReady(w) \/ EnqueueMatch(w) PROVE Chained'
    <2>1. UNCHANGED <<intake, parse, job, unread, content, items, tried, extracts>>
      BY <1>5 DEF ReadStatus, SetReady, EnqueueMatch
    <2>2. /\ \A u \in Worker \ {w} : work'[u] = work[u]
          /\ work'[w].at \in {"idle", "x_count", "x_ready", "x_enqueue"}
      BY <1>5, ExtractMoves DEF Moves
    <2>3. work[w].at \in {"x_status", "x_ready", "x_enqueue"} /\ work'[w].at # "x_count"
      <3>1. CASE ReadStatus(w)
        <4>1. Goto(w, [work[w] EXCEPT !.at = IF pipeline = "classified" THEN "x_ready" ELSE "x_enqueue"])
          BY <3>1 DEF ReadStatus
        <4>2. work'[w] = [work[w] EXCEPT !.at = IF pipeline = "classified" THEN "x_ready" ELSE "x_enqueue"]
          BY <4>1, Others
        <4> QED
          BY <3>1, <4>2 DEF ReadStatus, TypeOK, Work
      <3>2. CASE SetReady(w)
        <4>1. Goto(w, [work[w] EXCEPT !.at = "x_enqueue"])
          BY <3>2 DEF SetReady
        <4>2. work'[w] = [work[w] EXCEPT !.at = "x_enqueue"]
          BY <4>1, Others
        <4> QED
          BY <3>2, <4>2 DEF SetReady, TypeOK, Work
      <3>3. CASE EnqueueMatch(w)
        <4>1. Moves(w, {"idle"})
          BY <3>3, StopMoves DEF EnqueueMatch
        <4> QED
          BY <3>3, <4>1 DEF EnqueueMatch, Moves
      <3> QED
        BY <1>5, <3>1, <3>2, <3>3
    <2>4. \A u \in Worker : Alike(work[u], work'[u])
      BY <2>2, <2>3 DEF Alike, Reading, ParseAt, ExtractAt
    <2> QED
      BY <1>0, <2>1, <2>4, ChainedStays
  <1>6. ASSUME NEW w \in Worker,
               \/ StartMatch(w) \/ CountMatches(w) \/ CreateMatches(w) \/ CreateMatchesFails(w)
        PROVE  Chained'
    <2>1. UNCHANGED <<intake, parse, job, unread, content, items, tried, extracts>>
      BY <1>6 DEF StartMatch, CountMatches, CreateMatches, CreateMatchesFails
    <2>2. work[w].at \notin ParseAt /\ ~Reading(work[w])
      <3>1. work[w].at \in {"idle", "m_count", "m_create"}
        BY <1>6 DEF StartMatch, Begin, CountMatches, CreateMatches, CreateMatchesFails, Idle
      <3> QED
        BY <3>1 DEF ParseAt, Reading
    <2>3. \E S \in {{"idle"}, {"m_count"}, {"m_create"}} : Moves(w, S)
      BY <1>6, StartMatchMoves, CountMatchesMoves, CreateMatchesMoves
    <2>4. \A S \in {{"idle"}, {"m_count"}, {"m_create"}} : S \cap (ParseAt \cup ExtractAt) = {}
      BY DEF ParseAt, ExtractAt
    <2> QED
      BY <1>4, <2>1, <2>2, <2>3, <2>4
  <1>7. CASE Crash
    BY <1>0, <1>7 DEF Crash, Fault
  <1>8. ASSUME NEW Lost \in SUBSET Att, QueueJobs(Lost) PROVE Chained'
    <2>1. Lost = {}
      BY <1>0, <1>8 DEF QueueJobs, Fault
    <2> QED
      BY <1>0, <1>8, <2>1, QueueJobsKeeps
  <1>9. ASSUME UNCHANGED <<work, parse, job, unread, content, items, tried>>,
               intake' = "queued" <=> intake = "queued", extracts > 0 => extracts' > 0
        PROVE  Chained'
    <2>1. \A u \in Worker : Alike(work[u], work'[u])
      BY <1>9 DEF Alike
    <2> QED
      BY <1>0, <1>9, <2>1, ChainedStays
  <1>10. CASE EnqueueAgain
    <2>1. extracts' > 0
      BY <1>10, OneMoreIsSome DEF EnqueueAgain, TypeOK
    <2> QED
      BY <1>9, <1>10, <2>1 DEF EnqueueAgain
  <1>11. CASE \/ StoreIntake \/ NothingToMatch \/ AcceptMatch \/ LookForExtract \/ UNCHANGED vars
              \/ (\E s \in {"classified", "elsewhere"} : SetPipeline(s))
    BY <1>9, <1>11 DEF StoreIntake, NothingToMatch, AcceptMatch, LookForExtract, vars, SetPipeline
  <1> QED
    BY NextCases, <1>1, <1>2, <1>3, <1>5, <1>6, <1>7, <1>8, <1>10, <1>11

-----------------------------------------------------------------------------
(* The theorem. *)

\* Before the intake nobody owes anything.
LEMMA QuietInit == Init => MatchDue /\ CalmInv
  <1> SUFFICES ASSUME Init PROVE MatchDue /\ CalmInv
    OBVIOUS
  <1>1. \A w \in Worker : work[w].at = "idle"
    BY DEF Init, Idle
  <1>2. MatchDue
    BY DEF Init, MatchDue
  <1>3. Serial /\ AttOf /\ AfterParse /\ ClosedIsParsed
    BY <1>1 DEF Init, Serial, AttOf, AfterParse, ClosedIsParsed, ParseAt, ExtractAt
  <1>4. NotYet /\ StoreIsTried /\ ThrowIsUnread /\ StoresParsed
    BY <1>1 DEF Init, NotYet, StoreIsTried, ThrowIsUnread, StoresParsed, ParseAt
  <1>5. Collected /\ Due
    BY DEF Init, Collected, Due, Parsed, Settled
  <1> QED
    BY <1>2, <1>3, <1>4, <1>5 DEF CalmInv, Chained

\* When all the work for an RFQ is done and nothing was lost, its items were
\* extracted from all the texts that could be read, unless handlers of a kind
\* overlapped, an extraction had no result or an attachment could not be read, and
\* items that were found have matches (jobs.service.ts:40-49,
\* rfq-extraction.service.ts:50-60 and 160-181, item-matching.service.ts:115-150).
THEOREM RestIsComplete == Spec => []QuietMeansComplete
  <1>1. TypeOK /\ MatchDue /\ CalmInv => QuietMeansComplete
    <2> SUFFICES ASSUME TypeOK, MatchDue, CalmInv, Quiet, faults = 0 PROVE QuietMeansComplete
      BY DEF QuietMeansComplete, QuietMeansExtracted, QuietMeansMatched
    <2>1. \A w \in Worker : work[w].at = "idle"
      BY DEF Quiet, Idle
    <2>2. copies > 0 \/ ~items.any
      <3>1. \A w \in Worker : ~Matching(work[w])
        BY <2>1 DEF Matching, MatchAt
      <3>2. ~(matchJobs > 0) /\ copies \in 0 .. 2
        BY DEF Quiet, TypeOK
      <3> QED
        BY <3>1, <3>2 DEF MatchDue
    <2>3. ASSUME ~overlapped, ~blank, unread = {} PROVE tried /\ items.from = Parsed
      <3>1. Settled /\ intake = "queued"
        BY <2>3 DEF CalmInv, Calm, Chained, ClosedIsParsed, Quiet, Settled
      <3>2. ~Owed
        BY <2>1 DEF Owed, Chain, Quiet
      <3>3. \A w \in Worker : ~Reading(work[w])
        BY <2>1 DEF Reading
      <3>4. Good
        BY <2>3, <3>1, <3>2 DEF CalmInv, Calm, Chained, Due
      <3> QED
        BY <3>3, <3>4 DEF Good
    <2> QED
      BY <2>2, <2>3 DEF QuietMeansComplete, QuietMeansExtracted, QuietMeansMatched
  <1> QED
    BY <1>1, QuietInit, MatchDueStep, CalmStep, TypesHold, PTL DEF Spec

-----------------------------------------------------------------------------
(***************************************************************************)
(* An accepted match stays.                                                *)
(*                                                                         *)
(* The argument: as long as nothing has disturbed the RFQ (Undisturbed),   *)
(* each attachment is parsed by one run of one job, and a run that finds   *)
(* everything settled is the last one, because an attachment that is       *)
(* parsed and whose job has not ended is in that run's hands (InHand).     *)
(* So extraction is asked for once, after all jobs but that one have ended *)
(* (AskedLast), and items are stored where there are none (AskedOnce),     *)
(* while an accepted match has its item (Behind).                          *)
(***************************************************************************)

\* Candidates, an accepted one, and a matching whose items are still there all have
\* items behind them.
Behind == /\ copies > 0 \/ accepted => items.any
          /\ \A w \in Worker : work[w].at \in MatchAt /\ work[w].alive => items.any

\* No overlap, no rerun, nobody has set the status, nothing was lost, no second try.
Undisturbed == /\ ~overlapped /\ reruns = 0 /\ moves = 0 /\ faults = 0
               /\ \A a \in Att : tries[a] <= 1

HoldsJob == \A w \in Worker : work[w].at \in ParseAt =>
                \E a \in Att : work[w].att = {a} /\ job[a] = "taken"
OpenHasTries == \A a \in Att : job[a] \in {"open", "taken"} => tries[a] < MaxAttempts
JobsAsked == intake # "queued" => \A a \in Att : job[a] = "none" /\ tries[a] = 0
InHand == \A a \in Att : parse[a] # "pending" /\ tries[a] = 0 =>
              \E w \in Worker : /\ work[w].at \in {"collect", "store", "enqueue"}
                                /\ a \in work[w].att
StoresSettled == \A w \in Worker : work[w].at \in {"store", "enqueue"} => Settled

Extracting == \E w \in Worker : work[w].at \in ExtractAt
AskedLast == extracts > 0 \/ Extracting \/ items.any =>
                 intake = "queued" /\ \A a \in Att : tries[a] >= 1
AskedOnce == /\ extracts > 0 => extracts = 1 /\ ~Extracting /\ ~items.any
             /\ \A w \in Worker : Reading(work[w]) => ~items.any

FirstOnly == /\ reclass = "idle"
             /\ Serial /\ HoldsJob /\ OpenHasTries /\ JobsAsked /\ InHand
             /\ StoresSettled /\ AskedLast /\ AskedOnce
OnceInv == Behind /\ (Undisturbed => FirstOnly)

\* A handler that goes on without parsing anything, or asking for an extraction, or
\* starting one.
Aside(c, d) == \/ c.at = d.at /\ c.att = d.att
               \/ /\ c.at \notin ParseAt /\ d.at \notin ParseAt
                  /\ d.at \in ExtractAt => c.at \in ExtractAt
                  /\ Reading(d) => Reading(c)

\* What such a step keeps.
LEMMA FirstStays ==
    ASSUME TypeOK, FirstOnly,
           UNCHANGED <<parse, job, tries, extracts, items, reclass>>,
           intake' = "queued" <=> intake = "queued",
           \A u \in Worker : Aside(work[u], work'[u])
    PROVE  FirstOnly'
  <1> USE DEF FirstOnly
  <1>1. Settled' = Settled
    BY DEF Settled
  <1>2. \A u \in Worker : /\ work'[u].at \in ParseAt <=> work[u].at \in ParseAt
                          /\ work'[u].at \in ExtractAt => work[u].at \in ExtractAt
                          /\ Reading(work'[u]) => Reading(work[u])
                          /\ work'[u].at \in ParseAt =>
                                work'[u].at = work[u].at /\ work'[u].att = work[u].att
    BY DEF Aside, Reading
  <1>3. Serial' /\ HoldsJob' /\ OpenHasTries' /\ JobsAsked'
    BY <1>2 DEF Serial, HoldsJob, OpenHasTries, JobsAsked
  <1>4. StoresSettled' /\ InHand'
    BY <1>1, <1>2 DEF StoresSettled, InHand, ParseAt
  <1>5. Extracting' => Extracting
    BY <1>2 DEF Extracting
  <1>6. AskedLast' /\ AskedOnce'
    BY <1>2, <1>5 DEF AskedLast, AskedOnce
  <1> QED
    BY <1>3, <1>4, <1>6

\* A parse handler that goes on or ends leaves extraction alone.
LEMMA ParserAlone ==
    ASSUME TypeOK, FirstOnly, NEW w \in Worker,
           \A u \in Worker \ {w} : work'[u] = work[u] /\ work[u].at \notin ParseAt,
           work[w].at \in {"idle"} \cup ParseAt, work'[w].at \in {"idle"} \cup ParseAt
    PROVE  /\ Serial' /\ Extracting' = Extracting
           /\ \A u \in Worker : Reading(work'[u]) => Reading(work[u])
  <1>1. /\ work[w].at \notin ExtractAt /\ work'[w].at \notin ExtractAt
        /\ ~Reading(work[w]) /\ ~Reading(work'[w])
    BY DEF ParseAt, ExtractAt, Reading
  <1>2. Serial'
    BY <1>1 DEF FirstOnly, Serial
  <1> QED
    BY <1>1, <1>2 DEF Extracting

\* The job of an attachment that had a try left ends.
LEMMA CloseCounts ==
    ASSUME TypeOK, NEW a \in Att, NEW threw \in BOOLEAN, Close(a, threw),
           tries[a] < MaxAttempts
    PROVE  /\ tries'[a] = tries[a] + 1 /\ tries'[a] >= 1 /\ job'[a] # "taken"
           /\ job'[a] = "open" => tries'[a] < MaxAttempts
           /\ \A b \in Att \ {a} : tries'[b] = tries[b] /\ job'[b] = job[b]
  <1>1. tries[a] \in Nat
    BY MaxAttemptsAssumption DEF TypeOK
  <1>2. /\ tries' = [tries EXCEPT ![a] = tries[a] + 1]
        /\ job' = [job EXCEPT ![a] = IF threw /\ tries[a] + 1 < MaxAttempts
                                       THEN "open" ELSE "closed"]
    BY DEF Close
  <1> QED
    BY <1>1, <1>2 DEF TypeOK

\* A parse handler starts on an open job, while none is at work.
LEMMA StartParseFirst ==
    ASSUME TypeOK, FirstOnly, NEW w \in Worker, NEW a \in Att, StartParse(w, a),
           ~overlapped', job[a] = "open"
    PROVE  FirstOnly'
  <1> USE DEF FirstOnly
  <1> DEFINE at == IF parse[a] = "done" THEN "collect" ELSE "parse"
             step == [Idle EXCEPT !.at = at, !.att = {a}, !.then = "enqueue"]
  <1>1. step.at = at /\ step.att = {a}
    BY DEF Idle
  <1>2. at \in ParseAt /\ at \notin {"store", "enqueue"} /\ ParseAt \in Kinds
    BY DEF ParseAt, Kinds
  <1>3. work[w] = Idle /\ Goto(w, step)
    BY DEF StartParse, Begin
  <1>4. \A u \in Worker \ {w} : work[u].at \notin ParseAt
    BY <1>1, <1>2 DEF StartParse, Begin
  <1> HIDE DEF step, at
  <1>5. /\ \A u \in Worker \ {w} : work'[u] = work[u]
        /\ work'[w] = step
    BY <1>3, Others
  <1>6. /\ UNCHANGED <<intake, parse, items, extracts, tries, reclass>>
        /\ job' = [job EXCEPT ![a] = "taken"]
    BY DEF StartParse, found, open, staff
  <1>7. work[w].at = "idle"
    BY <1>3 DEF Idle
  <1>8. Settled' = Settled
    BY <1>6 DEF Settled
  <1>9. /\ Serial' /\ Extracting' = Extracting
        /\ \A u \in Worker : Reading(work'[u]) => Reading(work[u])
    BY <1>1, <1>2, <1>4, <1>5, <1>7, ParserAlone
  <1>10. job'[a] = "taken" /\ \A b \in Att \ {a} : job'[b] = job[b]
    BY <1>6 DEF TypeOK
  <1>11. HoldsJob'
    BY <1>1, <1>4, <1>5, <1>10 DEF HoldsJob
  <1>12. OpenHasTries' /\ JobsAsked'
    BY <1>6, <1>10 DEF OpenHasTries, JobsAsked
  <1>13. \A u \in Worker : work[u].at \notin {"collect", "store", "enqueue"}
    BY <1>4, <1>7 DEF ParseAt
  <1>14. InHand' /\ StoresSettled'
    BY <1>1, <1>2, <1>5, <1>6, <1>8, <1>13 DEF InHand, StoresSettled
  <1>15. AskedLast' /\ AskedOnce'
    BY <1>6, <1>9 DEF AskedLast, AskedOnce
  <1> QED
    BY <1>6, <1>9, <1>11, <1>12, <1>14, <1>15

\* The text of the attachment is stored, or refused, or the parser throws.
LEMMA ParsingFirst ==
    ASSUME TypeOK, FirstOnly, NEW w \in Worker, NEW a \in Att,
           ParseThrows(w, a) \/ \E outcome \in {"done", "failed"} : ParseReturns(w, a, outcome)
    PROVE  FirstOnly'
  <1> USE DEF FirstOnly
  <1>0. work[w] \in Work /\ work[w].at = "parse" /\ a \in work[w].att
    BY DEF ParseReturns, ParseThrows, TypeOK
  <1>1. \A u \in Worker \ {w} : work[u].at \notin ParseAt
    BY <1>0 DEF Serial, ParseAt
  <1>2. \E then \in {"again", "throw"} :
          Goto(w, [work[w] EXCEPT !.at = "collect", !.then = then])
    BY DEF ParseReturns, ParseThrows
  <1>3. /\ \A u \in Worker \ {w} : work'[u] = work[u]
        /\ work'[w].at = "collect" /\ work'[w].att = work[w].att
    <2>1. PICK then \in {"again", "throw"} :
            Goto(w, [work[w] EXCEPT !.at = "collect", !.then = then])
      BY <1>2
    <2>2. /\ \A u \in Worker \ {w} : work'[u] = work[u]
          /\ work'[w] = [work[w] EXCEPT !.at = "collect", !.then = then]
      BY <2>1, Others
    <2> QED
      BY <1>0, <2>2 DEF Work
  <1>4. /\ UNCHANGED <<intake, job, tries, items, extracts, reclass>>
        /\ \E st \in {"done", "failed"} : parse' = [parse EXCEPT ![a] = st]
    BY DEF ParseReturns, ParseThrows, found, open, staff
  <1>5. \A b \in Att \ {a} : parse'[b] = parse[b]
    BY <1>4 DEF TypeOK
  <1>6. /\ Serial' /\ Extracting' = Extracting
        /\ \A u \in Worker : Reading(work'[u]) => Reading(work[u])
    <2>1. work[w].at \in {"idle"} \cup ParseAt /\ work'[w].at \in {"idle"} \cup ParseAt
      BY <1>0, <1>3 DEF ParseAt
    <2> QED
      BY <1>1, <1>3, <2>1, ParserAlone
  <1>7. HoldsJob'
    BY <1>0, <1>1, <1>3, <1>4 DEF HoldsJob, ParseAt
  <1>8. \A u \in Worker : work[u].at \notin {"collect", "store", "enqueue"}
    BY <1>0, <1>1 DEF ParseAt
  <1>9. InHand'
    BY <1>0, <1>3, <1>4, <1>5, <1>8 DEF InHand
  <1>10. StoresSettled'
    BY <1>3, <1>8 DEF StoresSettled
  <1>11. OpenHasTries' /\ JobsAsked' /\ AskedLast' /\ AskedOnce'
    BY <1>4, <1>6 DEF OpenHasTries, JobsAsked, AskedLast, AskedOnce
  <1> QED
    BY <1>4, <1>6, <1>7, <1>9, <1>10, <1>11

\* A parse handler in hand of attachment a: no other is at work, and the job of a is
\* the one it was started for.
LEMMA InItsHands ==
    ASSUME TypeOK, FirstOnly, NEW w \in Worker, NEW a \in Att,
           work[w].at \in ParseAt, a \in work[w].att
    PROVE  /\ \A u \in Worker \ {w} : work[u].at \notin ParseAt
           /\ work[w].att = {a} /\ job[a] = "taken" /\ tries[a] < MaxAttempts
           /\ intake = "queued"
           /\ \A b \in Att \ {a} : parse[b] # "pending" => tries[b] # 0
  <1>1. \A u \in Worker \ {w} : work[u].at \notin ParseAt
    BY DEF FirstOnly, Serial
  <1>2. work[w].att = {a} /\ job[a] = "taken"
    BY DEF FirstOnly, HoldsJob
  <1>3. tries[a] < MaxAttempts /\ intake = "queued"
    BY <1>2 DEF FirstOnly, OpenHasTries, JobsAsked
  <1>4. \A b \in Att \ {a} : parse[b] # "pending" => tries[b] # 0
    BY <1>1, <1>2 DEF FirstOnly, InHand, ParseAt
  <1> QED
    BY <1>1, <1>2, <1>3, <1>4

\* What follows an aggregation.
LEMMA AfterCollectFirst ==
    ASSUME TypeOK, FirstOnly, NEW w \in Worker, NEW a \in Att, NEW written \in BOOLEAN,
           AfterCollect(w, a, written), work[w].at \in {"collect", "store"},
           a \in work[w].att, written => Settled,
           UNCHANGED <<intake, parse, items, extracts, reclass>>
    PROVE  FirstOnly'
  <1> USE DEF FirstOnly
  <1>0. work[w] \in Work /\ work[w].at \in ParseAt
    BY DEF TypeOK, ParseAt
  <1>1. /\ \A u \in Worker \ {w} : work[u].at \notin ParseAt
        /\ work[w].att = {a} /\ job[a] = "taken" /\ tries[a] < MaxAttempts
        /\ intake = "queued"
        /\ \A b \in Att \ {a} : parse[b] # "pending" => tries[b] # 0
    BY <1>0, InItsHands
  <1>2. Settled' = Settled
    BY DEF Settled
  <1>3. Moves(w, {"idle", "collect", "enqueue"})
    BY AfterCollectMoves
  <1>4. \A u \in Worker \ {w} : work'[u] = work[u]
    BY <1>3 DEF Moves
  <1>5. /\ Serial' /\ Extracting' = Extracting
        /\ \A u \in Worker : Reading(work'[u]) => Reading(work[u])
    <2>1. work'[w].at \in {"idle"} \cup ParseAt
      BY <1>3 DEF Moves, ParseAt
    <2> QED
      BY <1>0, <1>1, <1>4, <2>1, ParserAlone
  <1>6. AskedOnce'
    BY <1>5 DEF AskedOnce
  <1>7. ASSUME NEW at \in {"collect", "enqueue"}, UNCHANGED <<job, tries>>,
               work'[w].at = at, work'[w].att = work[w].att, at = "enqueue" => Settled
        PROVE  FirstOnly'
    <2>1. HoldsJob'
      BY <1>1, <1>4, <1>7 DEF HoldsJob
    <2>2. InHand'
      BY <1>1, <1>4, <1>7 DEF InHand
    <2>3. StoresSettled'
      BY <1>1, <1>2, <1>4, <1>7 DEF StoresSettled, ParseAt
    <2>4. OpenHasTries' /\ JobsAsked' /\ AskedLast'
      BY <1>5, <1>7 DEF OpenHasTries, JobsAsked, AskedLast
    <2> QED
      BY <1>5, <1>6, <2>1, <2>2, <2>3, <2>4
  <1>8. CASE work[w].then = "again"
    <2>1. Goto(w, [work[w] EXCEPT !.at = "collect", !.then = "enqueue"])
          /\ UNCHANGED <<job, tries>>
      BY <1>8 DEF AfterCollect
    <2>2. work'[w] = [work[w] EXCEPT !.at = "collect", !.then = "enqueue"]
      BY <2>1, Others
    <2>3. work'[w].at = "collect" /\ work'[w].att = work[w].att
      BY <1>0, <2>2 DEF Work
    <2> QED
      BY <1>7, <2>1, <2>3
  <1>9. CASE work[w].then # "again" /\ work[w].then = "enqueue" /\ written
    <2>1. Goto(w, [work[w] EXCEPT !.at = "enqueue"]) /\ UNCHANGED <<job, tries>>
      BY <1>9 DEF AfterCollect
    <2>2. work'[w] = [work[w] EXCEPT !.at = "enqueue"]
      BY <2>1, Others
    <2>3. work'[w].at = "enqueue" /\ work'[w].att = work[w].att
      BY <1>0, <2>2 DEF Work
    <2> QED
      BY <1>7, <1>9, <2>1, <2>3
  <1>10. CASE work[w].then # "again" /\ ~(work[w].then = "enqueue" /\ written)
    <2>1. Stop(w) /\ Close(a, work[w].then = "throw")
      BY <1>10 DEF AfterCollect
    <2>2. work'[w].at = "idle"
      BY <2>1, Others DEF Stop, Idle
    <2>3. /\ tries'[a] = tries[a] + 1 /\ tries'[a] >= 1 /\ job'[a] # "taken"
          /\ job'[a] = "open" => tries'[a] < MaxAttempts
          /\ \A b \in Att \ {a} : tries'[b] = tries[b] /\ job'[b] = job[b]
      <3>1. (work[w].then = "throw") \in BOOLEAN
        OBVIOUS
      <3> QED
        BY <1>1, <2>1, <3>1, CloseCounts
    <2>4. HoldsJob' /\ StoresSettled'
      BY <1>1, <1>4, <2>2 DEF HoldsJob, StoresSettled, ParseAt
    <2>5. OpenHasTries' /\ JobsAsked'
      BY <1>1, <2>3 DEF OpenHasTries, JobsAsked
    <2>6. tries'[a] # 0
      <3>1. tries[a] \in Nat
        BY MaxAttemptsAssumption DEF TypeOK
      <3> QED
        BY <2>3, <3>1
    <2>7. InHand'
      BY <1>1, <2>3, <2>6 DEF InHand
    <2>8. AskedLast'
      BY <1>5, <2>3 DEF AskedLast
    <2> QED
      BY <1>5, <1>6, <2>4, <2>5, <2>7, <2>8
  <1> QED
    BY <1>8, <1>9, <1>10

\* The handler reads the attachments.
LEMMA CollectFirst ==
    ASSUME TypeOK, FirstOnly, NEW w \in Worker, NEW a \in Att, Collect(w, a)
    PROVE  FirstOnly'
  <1> USE DEF FirstOnly
  <1>0. /\ work[w] \in Work /\ work[w].at = "collect" /\ a \in work[w].att
        /\ UNCHANGED <<intake, parse, items, extracts, reclass>>
    BY DEF Collect, TypeOK, found, open, staff
  <1>1. CASE ~Settled
    <2>1. AfterCollect(w, a, FALSE)
      BY <1>1 DEF Collect
    <2> QED
      BY <1>0, <2>1, AfterCollectFirst
  <1>2. CASE Settled
    <2>1. Goto(w, [work[w] EXCEPT !.at = "store", !.seen = Parsed])
          /\ UNCHANGED <<job, tries>>
      BY <1>2 DEF Collect
    <2>2. /\ \A u \in Worker \ {w} : work'[u] = work[u]
          /\ work'[w] = [work[w] EXCEPT !.at = "store", !.seen = Parsed]
      BY <2>1, Others
    <2>3. work'[w].at = "store" /\ work'[w].att = work[w].att
      BY <1>0, <2>2 DEF Work
    <2>4. /\ \A u \in Worker \ {w} : work[u].at \notin ParseAt
          /\ work[w].att = {a} /\ job[a] = "taken"
      <3>1. work[w].at \in ParseAt
        BY <1>0 DEF ParseAt
      <3> QED
        BY <1>0, <3>1, InItsHands
    <2>5. /\ Serial' /\ Extracting' = Extracting
          /\ \A u \in Worker : Reading(work'[u]) => Reading(work[u])
      <3>1. work[w].at \in {"idle"} \cup ParseAt /\ work'[w].at \in {"idle"} \cup ParseAt
        BY <1>0, <2>3 DEF ParseAt
      <3> QED
        BY <2>2, <2>4, <3>1, ParserAlone
    <2>6. Settled'
      BY <1>0, <1>2 DEF Settled
    <2>7. HoldsJob'
      BY <2>1, <2>2, <2>3, <2>4 DEF HoldsJob
    <2>8. InHand' /\ StoresSettled'
      BY <1>0, <2>1, <2>2, <2>3, <2>6 DEF InHand, StoresSettled
    <2>9. OpenHasTries' /\ JobsAsked' /\ AskedLast' /\ AskedOnce'
      BY <1>0, <2>1, <2>5 DEF OpenHasTries, JobsAsked, AskedLast, AskedOnce
    <2> QED
      BY <1>0, <2>5, <2>7, <2>8, <2>9
  <1> QED
    BY <1>1, <1>2

\* It writes what it has read.
LEMMA StoreFirst ==
    ASSUME TypeOK, FirstOnly, NEW w \in Worker, NEW a \in Att, Store(w, a)
    PROVE  FirstOnly'
  <1>1. /\ work[w].at = "store" /\ a \in work[w].att /\ AfterCollect(w, a, TRUE)
        /\ UNCHANGED <<intake, parse, items, extracts, reclass>>
    BY DEF Store, found, open, staff
  <1>2. Settled
    BY <1>1 DEF FirstOnly, StoresSettled
  <1> QED
    BY <1>1, <1>2, AfterCollectFirst

\* It asks for the extraction: it is the first to do so, and the last that could.
LEMMA EnqueueExtractFirst ==
    ASSUME TypeOK, FirstOnly, NEW w \in Worker, NEW a \in Att, EnqueueExtract(w, a),
           Undisturbed'
    PROVE  FirstOnly'
  <1> USE DEF FirstOnly
  <1>0. /\ work[w].at = "enqueue" /\ a \in work[w].att /\ work[w].at \in ParseAt
        /\ UNCHANGED <<intake, parse, items, reclass>>
        /\ Stop(w) /\ Close(a, FALSE) /\ extracts' = OneMore(extracts)
    BY DEF EnqueueExtract, found, staff, ParseAt
  <1>1. /\ \A u \in Worker \ {w} : work[u].at \notin ParseAt
        /\ work[w].att = {a} /\ job[a] = "taken" /\ tries[a] < MaxAttempts
        /\ intake = "queued"
        /\ \A b \in Att \ {a} : parse[b] # "pending" => tries[b] # 0
    BY <1>0, InItsHands
  <1>2. \A b \in Att : tries[b] \in Nat
    BY MaxAttemptsAssumption DEF TypeOK
  <1>3. /\ tries'[a] = tries[a] + 1 /\ tries'[a] >= 1 /\ job'[a] # "taken"
        /\ job'[a] = "open" => tries'[a] < MaxAttempts
        /\ \A b \in Att \ {a} : tries'[b] = tries[b] /\ job'[b] = job[b]
    <2>1. FALSE \in BOOLEAN
      OBVIOUS
    <2> QED
      BY <1>0, <1>1, <2>1, CloseCounts
  <1>4. tries[a] = 0
    <2>1. tries'[a] <= 1
      BY DEF Undisturbed
    <2> QED
      BY <1>2, <1>3, <2>1
  <1>5. ~(extracts > 0) /\ ~Extracting /\ ~items.any
    <2>1. ~(tries[a] >= 1)
      BY <1>4
    <2> QED
      BY <2>1 DEF AskedLast
  <1>6. extracts' = 1
    <2>1. extracts = 0
      BY <1>5, BoundsAssumption DEF TypeOK
    <2> QED
      BY <1>0, <2>1, BoundsAssumption DEF OneMore
  <1>7. Settled /\ Settled' = Settled
    BY <1>0 DEF StoresSettled, Settled
  <1>8. \A b \in Att : tries'[b] >= 1
    <2>1. \A b \in Att \ {a} : tries[b] # 0
      BY <1>1, <1>7 DEF Settled
    <2> QED
      BY <1>2, <1>3, <2>1
  <1>9. /\ \A u \in Worker \ {w} : work'[u] = work[u]
        /\ work'[w].at = "idle"
    <2>1. Moves(w, {"idle"})
      BY <1>0, StopMoves
    <2> QED
      BY <2>1 DEF Moves
  <1>10. /\ Serial' /\ Extracting' = Extracting
         /\ \A u \in Worker : Reading(work'[u]) => Reading(work[u])
    BY <1>0, <1>1, <1>9, ParserAlone
  <1>11. HoldsJob' /\ StoresSettled'
    BY <1>1, <1>9 DEF HoldsJob, StoresSettled, ParseAt
  <1>12. OpenHasTries' /\ JobsAsked'
    BY <1>0, <1>1, <1>3 DEF OpenHasTries, JobsAsked
  <1>13. InHand'
    BY <1>8 DEF InHand
  <1>14. AskedLast' /\ AskedOnce'
    BY <1>0, <1>1, <1>5, <1>6, <1>8, <1>10 DEF AskedLast, AskedOnce
  <1> QED
    BY <1>0, <1>10, <1>11, <1>12, <1>13, <1>14

\* The one extraction that was asked for starts.
LEMMA StartExtractFirst ==
    ASSUME TypeOK, FirstOnly, NEW w \in Worker, StartExtract(w), ~overlapped', extracts > 0,
           extracts' = extracts - 1
    PROVE  FirstOnly'
  <1> USE DEF FirstOnly
  <1>0. /\ UNCHANGED <<intake, parse, job, tries, items, reclass>>
        /\ work[w] = Idle /\ Goto(w, [Idle EXCEPT !.at = "x_count", !.seen = content])
    BY DEF StartExtract, Begin, files, found, staff
  <1>1. work[w].at = "idle" /\ [Idle EXCEPT !.at = "x_count", !.seen = content].at = "x_count"
    BY <1>0 DEF Idle
  <1>2. Moves(w, {"x_count"})
    BY <1>0, <1>1, MovesTo
  <1>3. /\ \A u \in Worker \ {w} : work'[u] = work[u]
        /\ work'[w].at = "x_count"
    BY <1>2 DEF Moves
  <1>4. extracts = 1 /\ extracts' = 0 /\ ~Extracting /\ ~items.any
    BY DEF AskedOnce
  <1>5. Serial'
    BY <1>3, <1>4 DEF Serial, Extracting, ParseAt
  <1>6. Settled' = Settled
    BY <1>0 DEF Settled
  <1>7. \A u \in Worker : work'[u].at \in ParseAt \/ work[u].at \in ParseAt =>
                              work'[u] = work[u]
    BY <1>1, <1>3 DEF ParseAt
  <1>8. HoldsJob' /\ OpenHasTries' /\ JobsAsked'
    BY <1>0, <1>7 DEF HoldsJob, OpenHasTries, JobsAsked
  <1>9. InHand' /\ StoresSettled'
    BY <1>0, <1>6, <1>7 DEF InHand, StoresSettled, ParseAt
  <1>10. AskedLast' /\ AskedOnce'
    BY <1>0, <1>4 DEF AskedLast, AskedOnce
  <1> QED
    BY <1>0, <1>5, <1>8, <1>9, <1>10

\* The items are stored: a worker at work on anything else is where it was.
LEMMA StoreItemsPlaces ==
    ASSUME TypeOK, NEW w \in Worker, NEW any \in BOOLEAN, StoreItems(w, any)
    PROVE  /\ \A u \in Worker \ {w} : work'[u].at = work[u].at /\ work'[u].att = work[u].att
           /\ \A u \in Worker \ {w} : work'[u].at \in MatchAt => ~work'[u].alive
           /\ work'[w].at \in {"idle", "x_status"}
  <1>1. work[w] \in Work
    BY DEF TypeOK
  <1>2. ASSUME NEW u \in Worker \ {w}
        PROVE  /\ work'[u].at = work[u].at /\ work'[u].att = work[u].att
               /\ work'[u].at \in MatchAt => ~work'[u].alive
    <2>1. work[u] \in Work
      BY DEF TypeOK
    <2>2. work'[u] = [work[u] EXCEPT !.alive = @ /\ work[u].at \notin MatchAt]
      BY DEF StoreItems
    <2> QED
      BY <2>1, <2>2 DEF Work
  <1>3. work'[w] = IF any THEN [work[w] EXCEPT !.at = "x_status"] ELSE Idle
    BY DEF StoreItems
  <1>4. work'[w].at \in {"idle", "x_status"}
    BY <1>1, <1>3 DEF Work, Idle
  <1> QED
    BY <1>2, <1>4

\* The first items.
LEMMA StoreItemsFirst ==
    ASSUME TypeOK, FirstOnly, NEW w \in Worker, NEW any \in BOOLEAN, StoreItems(w, any)
    PROVE  FirstOnly'
  <1> USE DEF FirstOnly
  <1>0. /\ UNCHANGED <<intake, parse, job, tries, extracts, reclass>>
        /\ work[w].at = "x_store" /\ work[w].at \in ExtractAt
    BY DEF StoreItems, files, open, staff, ExtractAt
  <1>1. /\ \A u \in Worker \ {w} : work'[u].at = work[u].at /\ work'[u].att = work[u].att
        /\ work'[w].at \in {"idle", "x_status"}
    BY StoreItemsPlaces
  <1>2. Extracting
    BY <1>0 DEF Extracting
  <1>3. ~(extracts > 0) /\ intake = "queued" /\ \A a \in Att : tries[a] >= 1
    BY <1>2 DEF AskedOnce, AskedLast
  <1>4. \A u \in Worker \ {w} : ~Reading(work[u])
    BY <1>0 DEF Serial, Reading, ExtractAt
  <1>5. \A u \in Worker : ~Reading(work'[u])
    BY <1>1, <1>4 DEF Reading
  <1>6. Serial'
    BY <1>0, <1>1 DEF Serial, ParseAt, ExtractAt
  <1>7. Settled' = Settled
    BY <1>0 DEF Settled
  <1>8. \A u \in Worker : work'[u].at \in ParseAt \/ work[u].at \in ParseAt =>
                              work'[u].at = work[u].at /\ work'[u].att = work[u].att
    BY <1>0, <1>1 DEF ParseAt
  <1>9. HoldsJob' /\ OpenHasTries' /\ JobsAsked'
    BY <1>0, <1>8 DEF HoldsJob, OpenHasTries, JobsAsked
  <1>10. InHand' /\ StoresSettled'
    BY <1>0, <1>7, <1>8 DEF InHand, StoresSettled, ParseAt
  <1>11. AskedLast' /\ AskedOnce'
    BY <1>0, <1>3, <1>5 DEF AskedLast, AskedOnce
  <1> QED
    BY <1>0, <1>6, <1>9, <1>10, <1>11

\* The jobs are asked for, and all of them are.
LEMMA QueueJobsFirst ==
    ASSUME TypeOK, FirstOnly, NEW Lost \in SUBSET Att, QueueJobs(Lost)
    PROVE  FirstOnly'
  <1> USE DEF FirstOnly
  <1>0. /\ UNCHANGED <<parse, tries, items, reclass, work>>
        /\ intake = "stored" /\ intake' = "queued"
        /\ job' = [a \in Att |-> IF a \in Lost THEN "none" ELSE "open"]
        /\ extracts' = IF Att = {} THEN OneMore(extracts) ELSE extracts
    BY DEF QueueJobs, found, staff
  <1>1. \A a \in Att : job[a] = "none" /\ tries[a] = 0
    BY <1>0 DEF JobsAsked
  <1>2. ~(extracts > 0) /\ ~Extracting /\ ~items.any
    BY <1>0 DEF AskedLast
  <1>3. extracts' > 0 => Att = {} /\ extracts' = 1
    <2>1. extracts = 0
      BY <1>2, BoundsAssumption DEF TypeOK
    <2> QED
      BY <1>0, <2>1, BoundsAssumption DEF OneMore
  <1>4. \A w \in Worker : work[w].at \notin ParseAt
    BY <1>1 DEF HoldsJob
  <1>5. Serial' /\ HoldsJob' /\ JobsAsked'
    BY <1>0, <1>4 DEF Serial, HoldsJob, JobsAsked
  <1>6. OpenHasTries'
    BY <1>0, <1>1, MaxAttemptsAssumption DEF OpenHasTries
  <1>7. InHand' /\ StoresSettled'
    BY <1>0 DEF InHand, StoresSettled, Settled
  <1>8. Extracting' = Extracting
    BY <1>0 DEF Extracting
  <1>9. AskedLast' /\ AskedOnce'
    BY <1>0, <1>2, <1>3, <1>8 DEF AskedLast, AskedOnce, Reading
  <1> QED
    BY <1>0, <1>5, <1>6, <1>7, <1>9

\* Tries are only ever used up.
LEMMA TriesGrow == TypeOK /\ [Next]_vars => \A b \in Att : tries'[b] >= tries[b]
  <1> SUFFICES ASSUME TypeOK, [Next]_vars, NEW b \in Att PROVE tries'[b] >= tries[b]
    OBVIOUS
  <1>0. tries[b] \in Nat /\ tries \in [Att -> 0 .. MaxAttempts]
    BY MaxAttemptsAssumption DEF TypeOK
  <1>1. CASE UNCHANGED tries
    BY <1>0, <1>1
  <1>2. ASSUME NEW a \in Att, NEW threw \in BOOLEAN, Close(a, threw) PROVE tries'[b] >= tries[b]
    BY <1>0, <1>2 DEF Close
  <1>3. CASE Crash
    BY <1>0, <1>3 DEF Crash
  <1>4. ASSUME NEW w \in Worker, NEW a \in Att, NEW written \in BOOLEAN,
               AfterCollect(w, a, written)
        PROVE  tries'[b] >= tries[b]
    <2>1. (work[w].then = "throw") \in BOOLEAN
      OBVIOUS
    <2>2. UNCHANGED tries \/ Close(a, work[w].then = "throw")
      BY <1>4 DEF AfterCollect
    <2> QED
      BY <1>1, <1>2, <2>1, <2>2
  <1>5. ASSUME NEW w \in Worker, NEW a \in Att, Collect(w, a) \/ Store(w, a)
        PROVE  tries'[b] >= tries[b]
    <2>1. UNCHANGED tries \/ \E written \in BOOLEAN : AfterCollect(w, a, written)
      BY <1>5 DEF Collect, Store
    <2> QED
      BY <1>1, <1>4, <2>1
  <1>6. ASSUME NEW w \in Worker, NEW a \in Att, EnqueueExtract(w, a)
        PROVE  tries'[b] >= tries[b]
    <2>1. Close(a, FALSE)
      BY <1>6 DEF EnqueueExtract
    <2> QED
      BY <1>2, <2>1
  <1>7. \/ UNCHANGED tries \/ Crash
        \/ \E w \in Worker, a \in Att : Collect(w, a) \/ Store(w, a) \/ EnqueueExtract(w, a)
    BY NextCases DEF StoreIntake, QueueJobs, NothingToMatch, AcceptMatch, SetPipeline,
       LookForExtract, EnqueueAgain, StartParse, ParseThrows, ParseReturns,
       StartExtract, CheckPending, ExtractFails, StoreItems, ReadStatus, SetReady,
       EnqueueMatch, StartMatch, CountMatches, CreateMatches, CreateMatchesFails,
       files, vars
  <1> QED
    BY <1>1, <1>3, <1>5, <1>6, <1>7

\* What has been disturbed stays so, and an undisturbed step disturbs nothing.
LEMMA UndisturbedBefore ==
    ASSUME TypeOK, [Next]_vars, Undisturbed'
    PROVE  Undisturbed /\ UNCHANGED <<reruns, moves, faults>>
  <1>1. reruns \in Nat /\ moves \in Nat /\ faults \in Nat
    BY BoundsAssumption DEF TypeOK
  <1>2. \A a \in Att : tries[a] <= 1
    <2>1. tries \in [Att -> 0 .. MaxAttempts] /\ tries' \in [Att -> 0 .. MaxAttempts]
      BY TypeStep DEF TypeOK
    <2> QED
      BY <2>1, TriesGrow, MaxAttemptsAssumption DEF Undisturbed
  <1>3. overlapped => overlapped'
    BY NextCases DEF StoreIntake, QueueJobs, NothingToMatch, AcceptMatch, SetPipeline,
       LookForExtract, EnqueueAgain, Crash, StartParse, ParseThrows, ParseReturns,
       Collect, Store, EnqueueExtract, StartExtract, CheckPending, ExtractFails,
       StoreItems, ReadStatus, SetReady, EnqueueMatch, StartMatch, CountMatches,
       CreateMatches, CreateMatchesFails, marks, vars, Begin
  <1>4. UNCHANGED reruns \/ reruns' = reruns + 1
    BY NextCases DEF StoreIntake, QueueJobs, NothingToMatch, AcceptMatch, SetPipeline,
       LookForExtract, EnqueueAgain, Crash, StartParse, ParseThrows, ParseReturns,
       Collect, Store, EnqueueExtract, StartExtract, CheckPending, ExtractFails,
       StoreItems, ReadStatus, SetReady, EnqueueMatch, StartMatch, CountMatches,
       CreateMatches, CreateMatchesFails, marks, vars, Rerun
  <1>5. UNCHANGED moves \/ moves' = moves + 1
    BY NextCases DEF StoreIntake, QueueJobs, NothingToMatch, AcceptMatch, SetPipeline,
       LookForExtract, EnqueueAgain, Crash, StartParse, ParseThrows, ParseReturns,
       Collect, Store, EnqueueExtract, StartExtract, CheckPending, ExtractFails,
       StoreItems, ReadStatus, SetReady, EnqueueMatch, StartMatch, CountMatches,
       CreateMatches, CreateMatchesFails, staff, vars
  <1>6. UNCHANGED faults \/ faults' = faults + 1
    BY NextCases DEF StoreIntake, QueueJobs, NothingToMatch, AcceptMatch, SetPipeline,
       LookForExtract, EnqueueAgain, Crash, StartParse, ParseThrows, ParseReturns,
       Collect, Store, EnqueueExtract, StartExtract, CheckPending, ExtractFails,
       StoreItems, ReadStatus, SetReady, EnqueueMatch, StartMatch, CountMatches,
       CreateMatches, CreateMatchesFails, marks, vars, Fault
  <1>7. /\ reruns = 0 /\ reruns' = 0 /\ moves = 0 /\ moves' = 0
        /\ faults = 0 /\ faults' = 0
    BY <1>1, <1>4, <1>5, <1>6 DEF Undisturbed
  <1> QED
    BY <1>2, <1>3, <1>7 DEF Undisturbed

\* Every step keeps the items behind what was made of them.
LEMMA BehindStep == TypeOK /\ Behind /\ [Next]_vars => Behind'
  <1> SUFFICES ASSUME TypeOK, Behind, [Next]_vars PROVE Behind'
    OBVIOUS
  <1>0. copies \in 0 .. 2
    BY DEF TypeOK
  <1>1. ASSUME UNCHANGED <<items, copies>>, accepted' => accepted \/ copies > 0,
               NEW w \in Worker, NEW S, Moves(w, S), S \cap MatchAt = {}
        PROVE  Behind'
    BY <1>1 DEF Behind, Moves
  <1>2. ASSUME UNCHANGED <<items, copies, work>>, accepted' => accepted \/ copies > 0
        PROVE  Behind'
    BY <1>2 DEF Behind
  <1>3. ASSUME NEW w \in Worker, NEW a \in Att,
               \/ StartParse(w, a) \/ ParseThrows(w, a)
               \/ (\E outcome \in {"done", "failed"} : ParseReturns(w, a, outcome))
               \/ Collect(w, a) \/ Store(w, a) \/ EnqueueExtract(w, a)
        PROVE  Behind'
    <2>1. UNCHANGED <<items, copies, accepted>>
      BY <1>3 DEF StartParse, ParseThrows, ParseReturns, Collect, Store, EnqueueExtract, found
    <2>2. Moves(w, {"idle"} \cup ParseAt)
      BY <1>3, ParseMoves
    <2>3. ({"idle"} \cup ParseAt) \cap MatchAt = {}
      BY DEF ParseAt, MatchAt
    <2> QED
      BY <1>1, <2>1, <2>2, <2>3
  <1>4. ASSUME NEW w \in Worker,
               \/ StartExtract(w) \/ ExtractFails(w) \/ ReadStatus(w) \/ SetReady(w)
               \/ EnqueueMatch(w)
        PROVE  Behind'
    <2>1. UNCHANGED <<items, copies, accepted>>
      BY <1>4 DEF StartExtract, ExtractFails, ReadStatus, SetReady, EnqueueMatch, found
    <2>2. Moves(w, {"idle", "x_count", "x_ready", "x_enqueue"})
      BY <1>4, ExtractMoves
    <2>3. {"idle", "x_count", "x_ready", "x_enqueue"} \cap MatchAt = {}
      BY DEF MatchAt
    <2> QED
      BY <1>1, <2>1, <2>2, <2>3
  <1>5. ASSUME NEW w \in Worker, CheckPending(w) PROVE Behind'
    <2>1. UNCHANGED <<items, copies, accepted>> /\ Moves(w, {"idle", "x_store"})
      BY <1>5, GuardMoves DEF CheckPending, found
    <2>2. {"idle", "x_store"} \cap MatchAt = {}
      BY DEF MatchAt
    <2> QED
      BY <1>1, <2>1, <2>2
  <1>6. ASSUME NEW w \in Worker, NEW any \in BOOLEAN, StoreItems(w, any) PROVE Behind'
    <2>1. copies' = 0 /\ ~accepted'
      BY <1>6 DEF StoreItems
    <2>2. \A u \in Worker : work'[u].at \in MatchAt => ~work'[u].alive
      BY <1>6, StoreItemsPlaces DEF MatchAt
    <2> QED
      BY <2>1, <2>2 DEF Behind
  <1>7. ASSUME NEW w \in Worker, StartMatch(w) PROVE Behind'
    <2>1. items.any /\ items' = items
      BY <1>7 DEF StartMatch, found
    <2> QED
      BY <2>1 DEF Behind
  <1>8. ASSUME NEW w \in Worker, CountMatches(w) PROVE Behind'
    <2>1. UNCHANGED <<items, copies, accepted>>
      BY <1>8 DEF CountMatches, found
    <2>2. CASE work[w].alive /\ copies > 0
      BY <2>1, <2>2 DEF Behind
    <2>3. CASE ~(work[w].alive /\ copies > 0)
      <3>1. Moves(w, {"m_create"}) /\ work'[w].alive = work[w].alive
        BY <1>8, <2>3, CountMatchesMoves
      <3>2. work[w].at \in MatchAt
        BY <1>8 DEF CountMatches, MatchAt
      <3> QED
        BY <2>1, <3>1, <3>2 DEF Behind, Moves
    <2> QED
      BY <2>2, <2>3
  <1>9. ASSUME NEW w \in Worker, CreateMatches(w) PROVE Behind'
    <2>1. items' = items /\ work[w].at \in MatchAt /\ work[w].alive
      BY <1>9 DEF CreateMatches, MatchAt
    <2> QED
      BY <2>1 DEF Behind
  <1>10. ASSUME NEW w \in Worker, CreateMatchesFails(w) PROVE Behind'
    <2>1. UNCHANGED <<items, copies, accepted>> /\ Moves(w, {"idle"})
      BY <1>10, CreateMatchesMoves DEF CreateMatchesFails, found
    <2>2. {"idle"} \cap MatchAt = {}
      BY DEF MatchAt
    <2> QED
      BY <1>1, <2>1, <2>2
  <1>11. CASE Crash
    <2>1. UNCHANGED <<items, copies, accepted>>
      BY <1>11 DEF Crash, found
    <2>2. \A u \in Worker : work'[u].at \notin MatchAt
      BY <1>11, CrashIdles DEF MatchAt
    <2> QED
      BY <2>1, <2>2 DEF Behind
  <1>12. CASE \/ StoreIntake \/ NothingToMatch \/ AcceptMatch \/ LookForExtract
              \/ EnqueueAgain \/ UNCHANGED vars
              \/ (\E Lost \in SUBSET Att : QueueJobs(Lost))
              \/ (\E s \in {"classified", "elsewhere"} : SetPipeline(s))
    BY <1>2, <1>12 DEF StoreIntake, NothingToMatch, AcceptMatch, LookForExtract,
       EnqueueAgain, vars, QueueJobs, SetPipeline, found
  <1> QED
    BY NextCases, <1>3, <1>4, <1>5, <1>6, <1>7, <1>8, <1>9, <1>10, <1>11, <1>12

\* Every undisturbed step keeps the first extraction the only one.
LEMMA FirstStep ==
    ASSUME TypeOK, Undisturbed => FirstOnly, [Next]_vars, Undisturbed'
    PROVE  FirstOnly'
  <1>0. FirstOnly /\ UNCHANGED <<reruns, moves, faults>> /\ ~overlapped'
    BY UndisturbedBefore DEF Undisturbed
  <1>1. reruns \in Nat /\ moves \in Nat /\ faults \in Nat /\ reruns = 0
    BY BoundsAssumption, UndisturbedBefore DEF TypeOK, Undisturbed
  <1>2. ~Rerun /\ ~Fault
    BY <1>0, <1>1 DEF Rerun, Fault
  <1>3. ASSUME NEW w \in Worker, NEW S, Moves(w, S), work[w].at \notin ParseAt,
               S \cap ParseAt = {},
               \A at \in S : at \in ExtractAt => work[w].at \in ExtractAt,
               \A at \in S : at \in {"x_count", "x_store"} =>
                                work[w].at \in {"x_count", "x_store"},
               UNCHANGED <<parse, job, tries, extracts, items, reclass, intake>>
        PROVE  FirstOnly'
    <2>1. \A u \in Worker : Aside(work[u], work'[u])
      BY <1>3 DEF Moves, Aside, Reading
    <2> QED
      BY <1>0, <1>3, <2>1, FirstStays
  <1>4. ASSUME NEW w \in Worker, NEW a \in Att, StartParse(w, a) PROVE FirstOnly'
    BY <1>0, <1>2, <1>4, StartParseFirst DEF StartParse
  <1>5. ASSUME NEW w \in Worker, NEW a \in Att,
               ParseThrows(w, a) \/ \E outcome \in {"done", "failed"} : ParseReturns(w, a, outcome)
        PROVE  FirstOnly'
    BY <1>0, <1>5, ParsingFirst
  <1>6. ASSUME NEW w \in Worker, NEW a \in Att,
               Collect(w, a) \/ Store(w, a) \/ EnqueueExtract(w, a)
        PROVE  FirstOnly'
    BY <1>0, <1>6, CollectFirst, StoreFirst, EnqueueExtractFirst
  <1>7. ASSUME NEW w \in Worker, StartExtract(w) PROVE FirstOnly'
    <2>1. extracts > 0 /\ extracts' = extracts - 1
      BY <1>2, <1>7 DEF StartExtract
    <2> QED
      BY <1>0, <1>7, <2>1, StartExtractFirst
  <1>8. ASSUME NEW w \in Worker, CheckPending(w) PROVE FirstOnly'
    <2>1. Moves(w, {"idle", "x_store"}) /\ work[w].at = "x_count"
      BY <1>8, GuardMoves DEF CheckPending
    <2>2. UNCHANGED <<parse, job, tries, extracts, items, reclass, intake>>
      BY <1>8 DEF CheckPending, files, found, open, staff
    <2> QED
      BY <1>3, <2>1, <2>2 DEF ParseAt, ExtractAt
  <1>9. ASSUME NEW w \in Worker, ExtractFails(w) PROVE FirstOnly'
    <2>1. Stop(w) /\ work[w].at = "x_store"
      BY <1>9 DEF ExtractFails
    <2>2. Moves(w, {"idle"})
      BY <2>1, StopMoves
    <2>3. UNCHANGED <<parse, job, tries, extracts, items, reclass, intake>>
      BY <1>9 DEF ExtractFails, files, found, open, staff
    <2> QED
      BY <1>3, <2>1, <2>2, <2>3 DEF ParseAt, ExtractAt
  <1>10. ASSUME NEW w \in Worker, NEW any \in BOOLEAN, StoreItems(w, any) PROVE FirstOnly'
    BY <1>0, <1>10, StoreItemsFirst
  <1>11. ASSUME NEW w \in Worker, ReadStatus(w) PROVE FirstOnly'
    <2> DEFINE at == IF pipeline = "classified" THEN "x_ready" ELSE "x_enqueue"
    <2>1. Goto(w, [work[w] EXCEPT !.at = at]) /\ work[w].at = "x_status"
      BY <1>11 DEF ReadStatus
    <2>2. [work[w] EXCEPT !.at = at].at = at /\ at \in {"x_ready", "x_enqueue"}
      BY DEF TypeOK, Work
    <2> HIDE DEF at
    <2>3. Moves(w, {"x_ready", "x_enqueue"})
      BY <2>1, <2>2, MovesTo
    <2>4. UNCHANGED <<parse, job, tries, extracts, items, reclass, intake>>
      BY <1>11 DEF ReadStatus, files, found, open, staff
    <2> QED
      BY <1>3, <2>1, <2>3, <2>4 DEF ParseAt, ExtractAt
  <1>12. ASSUME NEW w \in Worker, SetReady(w) PROVE FirstOnly'
    <2>1. Goto(w, [work[w] EXCEPT !.at = "x_enqueue"]) /\ work[w].at = "x_ready"
      BY <1>12 DEF SetReady
    <2>2. [work[w] EXCEPT !.at = "x_enqueue"].at = "x_enqueue"
      BY DEF TypeOK, Work
    <2>3. Moves(w, {"x_enqueue"})
      BY <2>1, <2>2, MovesTo
    <2>4. UNCHANGED <<parse, job, tries, extracts, items, reclass, intake>>
      BY <1>12 DEF SetReady, files, found, open
    <2> QED
      BY <1>3, <2>1, <2>3, <2>4 DEF ParseAt, ExtractAt
  <1>13. ASSUME NEW w \in Worker, EnqueueMatch(w) PROVE FirstOnly'
    <2>1. Stop(w) /\ work[w].at = "x_enqueue"
      BY <1>13 DEF EnqueueMatch
    <2>2. Moves(w, {"idle"})
      BY <2>1, StopMoves
    <2>3. UNCHANGED <<parse, job, tries, extracts, items, reclass, intake>>
      BY <1>13 DEF EnqueueMatch, files, found, staff
    <2> QED
      BY <1>3, <2>1, <2>2, <2>3 DEF ParseAt, ExtractAt
  <1>14. ASSUME NEW w \in Worker,
                \/ StartMatch(w) \/ CountMatches(w) \/ CreateMatches(w)
                \/ CreateMatchesFails(w)
         PROVE  FirstOnly'
    <2>1. \E S \in SUBSET {"idle", "m_count", "m_create"} : Moves(w, S)
      BY <1>14, StartMatchMoves, CountMatchesMoves, CreateMatchesMoves
    <2>2. Moves(w, {"idle", "m_count", "m_create"})
      BY <2>1 DEF Moves
    <2>3. work[w].at \in {"idle", "m_count", "m_create"}
      BY <1>14 DEF StartMatch, Begin, Idle, CountMatches, CreateMatches, CreateMatchesFails
    <2>4. UNCHANGED <<parse, job, tries, extracts, items, reclass, intake>>
      BY <1>14 DEF StartMatch, CountMatches, CreateMatches, CreateMatchesFails, files,
         found, open, staff
    <2> QED
      BY <1>3, <2>2, <2>3, <2>4 DEF ParseAt, ExtractAt
  <1>15. CASE NothingToMatch \/ AcceptMatch \/ StoreIntake \/ UNCHANGED vars
    <2>1. /\ UNCHANGED <<parse, job, tries, extracts, items, reclass, work>>
          /\ intake' = "queued" <=> intake = "queued"
      BY <1>15 DEF NothingToMatch, AcceptMatch, StoreIntake, vars, files, found, open, staff
    <2>2. \A u \in Worker : Aside(work[u], work'[u])
      BY <2>1 DEF Aside
    <2> QED
      BY <1>0, <2>1, <2>2, FirstStays
  <1>16. ASSUME NEW Lost \in SUBSET Att, QueueJobs(Lost) PROVE FirstOnly'
    BY <1>0, <1>16, QueueJobsFirst
  <1>17. ~Crash /\ ~LookForExtract /\ ~EnqueueAgain
    BY <1>0, <1>2 DEF Crash, LookForExtract, EnqueueAgain, FirstOnly
  <1>18. ~\E s \in {"classified", "elsewhere"} : SetPipeline(s)
    BY <1>0, <1>1 DEF SetPipeline
  <1> QED
    BY NextCases, <1>4, <1>5, <1>6, <1>7, <1>8, <1>9, <1>10, <1>11, <1>12, <1>13, <1>14,
       <1>15, <1>16, <1>17, <1>18

\* It holds at the start.
LEMMA OnceInit == Init => OnceInv
  <1> SUFFICES ASSUME Init PROVE OnceInv
    OBVIOUS
  <1>1. \A w \in Worker : work[w].at = "idle"
    BY DEF Init, Idle
  <1>2. Behind
    BY <1>1 DEF Init, Behind, MatchAt
  <1>3. Serial /\ HoldsJob /\ OpenHasTries /\ JobsAsked
    BY <1>1 DEF Init, Serial, HoldsJob, OpenHasTries, JobsAsked, ParseAt, ExtractAt
  <1>4. InHand /\ StoresSettled /\ AskedLast /\ AskedOnce
    BY <1>1 DEF Init, InHand, StoresSettled, AskedLast, AskedOnce, Extracting, Reading, ExtractAt
  <1> QED
    BY <1>2, <1>3, <1>4 DEF OnceInv, FirstOnly, Init

\* Every step keeps it.
LEMMA OnceStep == TypeOK /\ OnceInv /\ [Next]_vars => OnceInv'
  BY BehindStep, FirstStep DEF OnceInv

\* A match that was accepted is only ever lost to a second extraction, and that one
\* takes two handlers of a kind at work at once, a job that is run again, a status set
\* by hand, a lost call or crash, or an attachment that took more than one try
\* (rfq-extraction.service.ts:131 deletes the items, and their matches cascade).
THEOREM AcceptedMatchIsNotReplaced == Spec => AcceptedMatchStays
  <1> DEFINE Kept == (accepted /\ ~accepted') =>
                       \/ overlapped \/ reruns > 0 \/ moves > 0 \/ faults > 0
                       \/ \E a \in Att : tries[a] > 1
  <1>1. TypeOK /\ OnceInv /\ [Next]_vars => [Kept]_vars
    <2> SUFFICES ASSUME TypeOK, OnceInv, [Next]_vars, accepted, ~accepted',
                        ~overlapped, ~(reruns > 0), ~(moves > 0), ~(faults > 0),
                        ~\E a \in Att : tries[a] > 1
                 PROVE  FALSE
      OBVIOUS
    <2>1. Undisturbed
      <3>1. reruns \in Nat /\ moves \in Nat /\ faults \in Nat
        BY BoundsAssumption DEF TypeOK
      <3>2. \A a \in Att : tries[a] \in Nat
        BY MaxAttemptsAssumption DEF TypeOK
      <3> QED
        BY <3>1, <3>2 DEF Undisturbed
    <2>2. items.any
      BY DEF OnceInv, Behind
    <2>3. \A w \in Worker : ~Reading(work[w])
      BY <2>1, <2>2 DEF OnceInv, FirstOnly, AskedOnce
    <2>4. \E w \in Worker, any \in BOOLEAN : StoreItems(w, any)
      BY NextCases DEF StoreIntake, QueueJobs, NothingToMatch, AcceptMatch, SetPipeline,
         LookForExtract, EnqueueAgain, Crash, StartParse, ParseThrows, ParseReturns,
         Collect, Store, EnqueueExtract, StartExtract, CheckPending, ExtractFails,
         ReadStatus, SetReady, EnqueueMatch, StartMatch, CountMatches, CreateMatches,
         CreateMatchesFails, found, vars
    <2> QED
      BY <2>3, <2>4 DEF StoreItems, Reading
  <1>2. [](TypeOK /\ OnceInv) /\ [][Next]_vars => [][Kept]_vars
    BY <1>1, PTL
  <1> QED
    BY <1>2, OnceInit, OnceStep, TypesHold, PTL DEF Spec, AcceptedMatchStays
=============================================================================
