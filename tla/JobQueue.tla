------------------------------- MODULE JobQueue -------------------------------
(***************************************************************************)
(* The BackgroundJob table and the cron that drains it, JobsService of     *)
(* apps/api/src/jobs/jobs.service.ts.                                      *)
(*                                                                         *)
(* processPendingJobs fires every five seconds and does not wait for its   *)
(* previous invocation, so several ticks can be in flight in the one       *)
(* process, each working from the rows it read when it started. Every      *)
(* await of a tick is a step of the model; each query is atomic.           *)
(*                                                                         *)
(* Rows are numbered in the order of their createdAt, so that "the oldest  *)
(* of a set of rows" is the smallest number. The clock is abstracted to    *)
(* two facts about a row: its nextRunAt is still to come (waiting), or its *)
(* updatedAt is more than five minutes old (stale).                        *)
(***************************************************************************)
EXTENDS Naturals, FiniteSets

CONSTANTS
    NJobs,        \* bound: rows that may ever be enqueued
    Tick,         \* bound: invocations of processPendingJobs that may overlap
    MaxAttempts,  \* BackgroundJob.maxAttempts, 3 for every caller of enqueue
    BatchSize,    \* rows one tick reads, 20 in the code
    Unrunnable,   \* rows whose type has no registered handler
    MaxFaults     \* bound: crashes of the process and failed database calls

Job == 1 .. NJobs

ASSUME NJobsAssumption == NJobs \in Nat
ASSUME MaxAttemptsAssumption == MaxAttempts \in Nat \ {0}
ASSUME BatchSizeAssumption == BatchSize \in Nat \ {0}
ASSUME UnrunnableAssumption == Unrunnable \subseteq 1 .. NJobs
ASSUME MaxFaultsAssumption == MaxFaults \in Nat

VARIABLES
    status,      \* [Job -> Status]: the status column; "absent" is no row yet
    attempts,    \* [Job -> 0..MaxAttempts]: the attempts column
    waiting,     \* rows whose nextRunAt lies in the future
    stale,       \* running rows not updated for five minutes
    pc,          \* [Tick -> Step]: where each invocation stands
    held,        \* [Tick -> SUBSET Job]: rows the tick has read and not finished
    snap,        \* [Tick -> [Job -> 0..MaxAttempts]]: attempts as the tick read them
    succeeded,   \* observer: jobs whose handler completed at least once
    runs,        \* observer: times a handler was entered, saturating above MaxAttempts
    overlapped,  \* observer: a tick has started while another was in flight
    faults       \* faults so far

rows == <<status, attempts, waiting, stale>>
ticks == <<pc, held, snap>>
observers == <<succeeded, runs, overlapped, faults>>
vars == <<rows, ticks, observers>>

Status == {"absent", "pending", "running", "done", "failed"}
Settled == {"done", "failed"}
Step == {"idle", "fetch", "claim", "no_handler", "handler", "ok", "threw"}

\* Steps at which the tick has the oldest of its rows in hand.
Working == {"no_handler", "handler", "ok", "threw"}

Init ==
    /\ status = [j \in Job |-> "absent"]
    /\ attempts = [j \in Job |-> 0]
    /\ waiting = {} /\ stale = {}
    /\ pc = [t \in Tick |-> "idle"]
    /\ held = [t \in Tick |-> {}]
    /\ snap = [t \in Tick |-> [j \in Job |-> 0]]
    /\ succeeded = {}
    /\ runs = [j \in Job |-> 0]
    /\ overlapped = FALSE
    /\ faults = 0

-----------------------------------------------------------------------------
(* Helpers *)

\* Row j is the one the for loop of tick t is at.
AtHead(t, j) == j \in held[t] /\ \A i \in held[t] : j <= i

\* update(...): writes the status; @updatedAt makes the row fresh again.
Write(j, s) == /\ status' = [status EXCEPT ![j] = s]
               /\ stale' = stale \ {j}

\* The next iteration of the for loop, or the end of the tick.
Advance(t, j) == /\ held' = [held EXCEPT ![t] = @ \ {j}]
                 /\ snap' = [snap EXCEPT ![t] = [@ EXCEPT ![j] = 0]]
                 /\ pc' = [pc EXCEPT ![t] = IF held[t] = {j} THEN "idle" ELSE "claim"]

Goto(t, step) == /\ pc' = [pc EXCEPT ![t] = step]
                 /\ UNCHANGED <<held, snap>>

\* Mutant of Due: the poll also picks up rows it had given up on.
Due_IncludesFailed ==
    {j \in Job : status[j] \in {"pending", "failed"} /\ j \notin waiting}

\* Rows findMany returns: pending and due, the BatchSize oldest of them.
Due == {j \in Job : status[j] = "pending" /\ j \notin waiting}
Batch == {j \in Due : Cardinality({i \in Due : i < j}) < BatchSize}

-----------------------------------------------------------------------------
(* Callers of enqueue *)

Enqueue(j) ==
    /\ status[j] = "absent"
    /\ \A i \in Job : i < j => status[i] # "absent"
    /\ status' = [status EXCEPT ![j] = "pending"]
    /\ UNCHANGED <<attempts, waiting, stale, ticks, observers>>

-----------------------------------------------------------------------------
(* One invocation of processPendingJobs *)

\* The cron fires: every stale running row goes back to pending.
Recover(t) ==
    /\ pc[t] = "idle"
    /\ status' = [j \in Job |-> IF status[j] = "running" /\ j \in stale
                                  THEN "pending" ELSE status[j]]
    /\ stale' = {}
    /\ overlapped' = (overlapped \/ \E u \in Tick \ {t} : pc[u] # "idle")
    /\ Goto(t, "fetch")
    /\ UNCHANGED <<attempts, waiting, succeeded, runs, faults>>

\* Mutant of Fetch: the filter on attempts lets the last value through.
Fetch_FilterOffByOne(t) ==
    /\ pc[t] = "fetch"
    /\ LET eligible == {j \in Batch : attempts[j] <= MaxAttempts}
       IN  /\ held' = [held EXCEPT ![t] = eligible]
           /\ snap' = [snap EXCEPT ![t] =
                         [j \in Job |-> IF j \in eligible THEN attempts[j] ELSE 0]]
           /\ pc' = [pc EXCEPT ![t] = IF eligible = {} THEN "idle" ELSE "claim"]
    /\ UNCHANGED <<rows, observers>>

\* Read the batch, then drop the rows whose attempts are used up.
Fetch(t) ==
    /\ pc[t] = "fetch"
    /\ LET eligible == {j \in Batch : attempts[j] < MaxAttempts}
       IN  /\ held' = [held EXCEPT ![t] = eligible]
           /\ snap' = [snap EXCEPT ![t] =
                         [j \in Job |-> IF j \in eligible THEN attempts[j] ELSE 0]]
           /\ pc' = [pc EXCEPT ![t] = IF eligible = {} THEN "idle" ELSE "claim"]
    /\ UNCHANGED <<rows, observers>>

\* Mark the row running and count the attempt from what the tick read, whatever
\* the row says by now; then look the handler up and enter it.
Claim(t, j) ==
    /\ pc[t] = "claim" /\ AtHead(t, j)
    /\ Write(j, "running")
    /\ attempts' = [attempts EXCEPT ![j] = snap[t][j] + 1]
    /\ IF j \in Unrunnable
         THEN Goto(t, "no_handler") /\ UNCHANGED runs
         ELSE /\ Goto(t, "handler")
              /\ runs' = [runs EXCEPT ![j] = IF @ > MaxAttempts THEN @ ELSE @ + 1]
    /\ UNCHANGED <<waiting, succeeded, overlapped, faults>>

\* Mutant of FailUnrunnable: the loop continues without settling the row.
FailUnrunnable_Skips(t, j) ==
    /\ pc[t] = "no_handler" /\ AtHead(t, j)
    /\ Advance(t, j)
    /\ UNCHANGED <<rows, observers>>

FailUnrunnable(t, j) ==
    /\ pc[t] = "no_handler" /\ AtHead(t, j)
    /\ Write(j, "failed")
    /\ Advance(t, j)
    /\ UNCHANGED <<attempts, waiting, observers>>

HandlerSucceeds(t, j) ==
    /\ pc[t] = "handler" /\ AtHead(t, j)
    /\ succeeded' = succeeded \cup {j}
    /\ Goto(t, "ok")
    /\ UNCHANGED <<rows, runs, overlapped, faults>>

\* Mutant of HandlerThrows: the exception is swallowed.
HandlerThrows_Swallowed(t, j) ==
    /\ pc[t] = "handler" /\ AtHead(t, j)
    /\ Goto(t, "ok")
    /\ UNCHANGED <<rows, observers>>

HandlerThrows(t, j) ==
    /\ pc[t] = "handler" /\ AtHead(t, j)
    /\ Goto(t, "threw")
    /\ UNCHANGED <<rows, observers>>

\* Mutant of MarkDone: the row is left as the claim wrote it.
MarkDone_Forgotten(t, j) ==
    /\ pc[t] = "ok" /\ AtHead(t, j)
    /\ Advance(t, j)
    /\ UNCHANGED <<rows, observers>>

MarkDone(t, j) ==
    /\ pc[t] = "ok" /\ AtHead(t, j)
    /\ Write(j, "done")
    /\ Advance(t, j)
    /\ UNCHANGED <<attempts, waiting, observers>>

\* The catch block; the retry decision counts from what the tick read.
Retry(t, j) ==
    /\ pc[t] = "threw" /\ AtHead(t, j)
    /\ snap[t][j] + 1 < MaxAttempts
    /\ Write(j, "pending")
    /\ waiting' = waiting \cup {j}
    /\ Advance(t, j)
    /\ UNCHANGED <<attempts, observers>>

\* Mutant of GiveUp: one attempt too early.
GiveUp_TooEarly(t, j) ==
    /\ pc[t] = "threw" /\ AtHead(t, j)
    /\ snap[t][j] + 2 >= MaxAttempts
    /\ Write(j, "failed")
    /\ Advance(t, j)
    /\ UNCHANGED <<attempts, waiting, observers>>

GiveUp(t, j) ==
    /\ pc[t] = "threw" /\ AtHead(t, j)
    /\ snap[t][j] + 1 >= MaxAttempts
    /\ Write(j, "failed")
    /\ Advance(t, j)
    /\ UNCHANGED <<attempts, waiting, observers>>

-----------------------------------------------------------------------------
(* Faults, and the clock *)

\* update({status: "done"}) is inside the try, so its failure is handled as a
\* failure of the handler.
MarkDoneFails(t, j) ==
    /\ pc[t] = "ok" /\ AtHead(t, j)
    /\ faults < MaxFaults /\ faults' = faults + 1
    /\ Goto(t, "threw")
    /\ UNCHANGED <<rows, succeeded, runs, overlapped>>

\* Any other query of the tick fails: the exception leaves processPendingJobs
\* and the rows the tick had read are dropped.
QueryFails(t) ==
    /\ pc[t] \in {"fetch", "claim", "no_handler", "threw"}
    /\ faults < MaxFaults /\ faults' = faults + 1
    /\ pc' = [pc EXCEPT ![t] = "idle"]
    /\ held' = [held EXCEPT ![t] = {}]
    /\ snap' = [snap EXCEPT ![t] = [j \in Job |-> 0]]
    /\ UNCHANGED <<rows, succeeded, runs, overlapped>>

\* The process dies and restarts: the table survives, the ticks do not.
Crash ==
    /\ \E t \in Tick : pc[t] # "idle"
    /\ faults < MaxFaults /\ faults' = faults + 1
    /\ pc' = [t \in Tick |-> "idle"]
    /\ held' = [t \in Tick |-> {}]
    /\ snap' = [t \in Tick |-> [j \in Job |-> 0]]
    /\ UNCHANGED <<rows, succeeded, runs, overlapped>>

\* The row's nextRunAt is reached.
BackoffElapses(j) ==
    /\ j \in waiting
    /\ waiting' = waiting \ {j}
    /\ UNCHANGED <<status, attempts, stale, ticks, observers>>

\* Five minutes without an update of a running row, its handler at work or not.
GoesStale(j) ==
    /\ status[j] = "running" /\ j \notin stale
    /\ stale' = stale \cup {j}
    /\ UNCHANGED <<status, attempts, waiting, ticks, observers>>

-----------------------------------------------------------------------------
Body(t, j) == \/ Claim(t, j) \/ FailUnrunnable(t, j)
              \/ HandlerSucceeds(t, j) \/ HandlerThrows(t, j)
              \/ MarkDone(t, j) \/ Retry(t, j) \/ GiveUp(t, j)

Next == \/ \E j \in Job : Enqueue(j) \/ BackoffElapses(j) \/ GoesStale(j)
        \/ \E t \in Tick : Recover(t) \/ Fetch(t) \/ QueryFails(t)
        \/ \E t \in Tick, j \in Job : Body(t, j) \/ MarkDoneFails(t, j)
        \/ Crash

Spec == Init /\ [][Next]_vars

\* The cron keeps firing, an await that can resume does, a handler returns or
\* throws, and time passes. Nobody has to enqueue anything and nothing has to fail.
Fairness ==
    /\ \A t \in Tick : /\ WF_vars(Recover(t) \/ Fetch(t))
                       /\ WF_vars(\E j \in Job : Body(t, j))
    /\ \A j \in Job : WF_vars(BackoffElapses(j)) /\ WF_vars(GoesStale(j))

FairSpec == Spec /\ Fairness

-----------------------------------------------------------------------------
(* Properties *)

\* Every variable keeps its type; in particular the attempts column never exceeds
\* maxAttempts, whichever snapshot a tick writes it from (jobs.service.ts:169-174).
TypeOK ==
    /\ status \in [Job -> Status]
    /\ attempts \in [Job -> 0 .. MaxAttempts]
    /\ waiting \subseteq Job
    /\ stale \subseteq Job
    /\ pc \in [Tick -> Step]
    /\ held \in [Tick -> SUBSET Job]
    /\ snap \in [Tick -> [Job -> 0 .. MaxAttempts]]
    /\ succeeded \subseteq Job
    /\ runs \in [Job -> 0 .. MaxAttempts + 1]
    /\ overlapped \in BOOLEAN
    /\ faults \in 0 .. MaxFaults

\* No tick ever works on a row whose attempts it read as used up, so the counter
\* stays within maxAttempts although each tick writes it from its own snapshot
\* (jobs.service.ts:167-174).
SnapshotsHaveAttemptsLeft ==
    \A t \in Tick : \A j \in held[t] : snap[t][j] < MaxAttempts

\* While no call has failed, a row that says running is in the hands of a tick
\* that will settle it, however many ticks claimed and settled it before: only a
\* fault leaves a row for the five-minute recovery (jobs.service.ts:143-152).
RunningHasRunner ==
    faults = 0 =>
      \A j \in Job : status[j] = "running" =>
        \E t \in Tick : pc[t] \in Working /\ AtHead(t, j)

\* A row is only ever reported done after its handler has completed once
\* (jobs.service.ts:197-202), and an unrunnable row never is.
DoneOnlyAfterSuccess ==
    \A j \in Job : status[j] = "done" => j \in succeeded \ Unrunnable

\* As long as no two ticks overlap, the handler of a job is entered at most
\* maxAttempts times, crashes and recoveries included, because the attempt is
\* persisted before the handler is entered (jobs.service.ts:169-174).
RunsWithinAttempts ==
    ~overlapped => \A j \in Job : runs[j] <= attempts[j]

\* As long as no two ticks overlap, a runnable job is given up on only when all
\* of its attempts have been used (jobs.service.ts:215-235).
FailedMeansExhausted ==
    ~overlapped => \A j \in Job \ Unrunnable :
                     status[j] = "failed" => attempts[j] = MaxAttempts

\* The attempts column can be relied on: the three facts above, which all rest on the
\* filter being applied to the very attempts that the claim writes back
\* (jobs.service.ts:167-174, 215-235).
AttemptsAreHonoured ==
    SnapshotsHaveAttemptsLeft /\ RunsWithinAttempts /\ FailedMeansExhausted

-----------------------------------------------------------------------------
(* The promise to the callers *)

InFlight(j) == \E t \in Tick : j \in held[t]

\* A settled row is closed once no tick that read it before is still in flight:
\* such a tick claims it again and may change its outcome.
Phase == [j \in Job |-> IF status[j] = "absent" THEN "absent"
                        ELSE IF status[j] \in Settled /\ ~InFlight(j) THEN status[j]
                        ELSE "open"]

Ledger == INSTANCE JobLedger WITH phase <- Phase, executed <- succeeded

\* The queue implements the ledger: a job is accepted once, and a closed job
\* keeps its outcome, under overlapping ticks, failed queries and crashes.
ImplementsLedger == Ledger!Spec

\* Every job reaches a final outcome, unless a fault interrupts the service or
\* ticks overlap: a tick that retries from an old snapshot can put a row whose
\* attempts are used up back to pending (jobs.service.ts:215-235), for good.
EveryJobCloses ==
    \A j \in Job : status[j] # "absent" ~>
                      (Phase[j] \in Settled \/ faults > 0 \/ overlapped)

=============================================================================
