---------------------------- MODULE JobQueueProofs ----------------------------
(***************************************************************************)
(* What holds of JobQueue for every number of rows, overlapping ticks,     *)
(* attempts and faults, and for every batch size.                          *)
(*                                                                         *)
(* Invariants, each inductive given the ones before it:                    *)
(*   TypeInv    the types, and every snapshot has attempts left            *)
(*   RunningHasRunner                                                      *)
(*   DoneInv    what a tick knows about the row it has in hand             *)
(*   SerialInv  while no two ticks overlap, a snapshot is the row          *)
(***************************************************************************)
EXTENDS JobQueue, TLAPS

TypeInv == TypeOK /\ SnapshotsHaveAttemptsLeft

\* The steps of a tick at row j, and the remaining actions, as one disjunction:
\* the case split of every proof below.
LEMMA NextCases ==
    ASSUME Next
    PROVE  \/ \E j \in Job : Enqueue(j) \/ BackoffElapses(j) \/ GoesStale(j)
           \/ \E t \in Tick : Recover(t) \/ Fetch(t) \/ QueryFails(t)
           \/ \E t \in Tick, j \in Job :
                \/ Claim(t, j) \/ FailUnrunnable(t, j) \/ HandlerSucceeds(t, j)
                \/ HandlerThrows(t, j) \/ MarkDone(t, j) \/ MarkDoneFails(t, j)
                \/ Retry(t, j) \/ GiveUp(t, j)
           \/ Crash
  BY DEF Next, Body

-----------------------------------------------------------------------------
(* Types *)

\* An empty table and idle ticks have their types.
LEMMA TypeInit == Init => TypeInv
  <1> SUFFICES ASSUME Init PROVE TypeInv
    OBVIOUS
  <1> USE MaxAttemptsAssumption, MaxFaultsAssumption DEF Init
  <1>1. /\ status \in [Job -> Status] /\ pc \in [Tick -> Step]
        /\ attempts \in [Job -> 0 .. MaxAttempts]
        /\ runs \in [Job -> 0 .. MaxAttempts + 1]
    BY DEF Status, Step
  <1>2. held \in [Tick -> SUBSET Job]
    OBVIOUS
  <1>5. snap \in [Tick -> [Job -> 0 .. MaxAttempts]]
    <2>1. [j \in Job |-> 0] \in [Job -> 0 .. MaxAttempts]
      OBVIOUS
    <2> QED
      BY <2>1
  <1>3. /\ waiting \subseteq Job /\ stale \subseteq Job /\ succeeded \subseteq Job
        /\ faults \in 0 .. MaxFaults
    OBVIOUS
  <1>6. overlapped \in BOOLEAN
    OBVIOUS
  <1>4. SnapshotsHaveAttemptsLeft
    BY DEF SnapshotsHaveAttemptsLeft
  <1> QED
    BY <1>1, <1>2, <1>3, <1>4, <1>5, <1>6 DEF TypeInv, TypeOK

\* A tick that leaves row j, writing status s, keeps the types.
LEMMA SettleTypes ==
    ASSUME TypeInv, NEW t \in Tick, NEW j \in Job, NEW s \in Status,
           Write(j, s), Advance(t, j)
    PROVE  /\ status' \in [Job -> Status] /\ stale' \subseteq Job
           /\ pc' \in [Tick -> Step] /\ held' \in [Tick -> SUBSET Job]
           /\ snap' \in [Tick -> [Job -> 0 .. MaxAttempts]]
           /\ \A u \in Tick : \A i \in held'[u] : snap'[u][i] < MaxAttempts
  BY MaxAttemptsAssumption
  DEF TypeInv, TypeOK, SnapshotsHaveAttemptsLeft, Write, Advance, Step

\* Every step keeps the types, and with them the bound on attempts.
LEMMA TypeStep == TypeInv /\ [Next]_vars => TypeInv'
  <1> SUFFICES ASSUME TypeInv, [Next]_vars PROVE TypeInv'
    OBVIOUS
  <1> USE MaxAttemptsAssumption, MaxFaultsAssumption
      DEF TypeInv, TypeOK, SnapshotsHaveAttemptsLeft, rows, ticks, observers
  <1>1. ASSUME NEW j \in Job, Enqueue(j) \/ BackoffElapses(j) \/ GoesStale(j)
        PROVE  TypeInv'
    BY <1>1 DEF Enqueue, BackoffElapses, GoesStale, Status
  <1>2. ASSUME NEW t \in Tick, Recover(t) PROVE TypeInv'
    BY <1>2 DEF Recover, Goto, Status, Step
  <1>3. ASSUME NEW t \in Tick, Fetch(t) PROVE TypeInv'
    <2> DEFINE eligible == {j \in Batch : attempts[j] < MaxAttempts}
    <2>1. eligible \subseteq Job
      BY DEF Batch, Due
    <2>2. /\ held' = [held EXCEPT ![t] = eligible]
          /\ snap' = [snap EXCEPT ![t] =
                        [j \in Job |-> IF j \in eligible THEN attempts[j] ELSE 0]]
          /\ pc' = [pc EXCEPT ![t] = IF eligible = {} THEN "idle" ELSE "claim"]
          /\ UNCHANGED <<rows, observers>>
      BY <1>3 DEF Fetch
    <2>3. \A j \in eligible : attempts[j] < MaxAttempts
      OBVIOUS
    <2> HIDE DEF eligible
    <2> QED
      BY <2>1, <2>2, <2>3 DEF Step
  <1>4. ASSUME NEW t \in Tick, QueryFails(t) PROVE TypeInv'
    BY <1>4 DEF QueryFails, Step
  <1>5. ASSUME NEW t \in Tick, NEW j \in Job, Claim(t, j) PROVE TypeInv'
    <2>1. snap[t][j] + 1 \in 0 .. MaxAttempts
      BY <1>5 DEF Claim, AtHead
    <2>2. attempts' \in [Job -> 0 .. MaxAttempts]
      BY <1>5, <2>1 DEF Claim
    <2>3. runs' \in [Job -> 0 .. MaxAttempts + 1]
      BY <1>5 DEF Claim
    <2>4. /\ pc' \in [Tick -> Step] /\ UNCHANGED <<held, snap>>
      BY <1>5 DEF Claim, Goto, Step
    <2>5. status' \in [Job -> Status] /\ stale' \subseteq Job
      BY <1>5 DEF Claim, Write, Status
    <2>6. UNCHANGED <<waiting, succeeded, overlapped, faults>>
      BY <1>5 DEF Claim
    <2>7. SnapshotsHaveAttemptsLeft'
      BY <2>4
    <2> QED
      BY <2>2, <2>3, <2>4, <2>5, <2>6, <2>7
  <1>6. ASSUME NEW t \in Tick, NEW j \in Job,
               HandlerSucceeds(t, j) \/ HandlerThrows(t, j) \/ MarkDoneFails(t, j)
        PROVE  TypeInv'
    <2>1. pc' \in [Tick -> Step] /\ UNCHANGED <<held, snap>>
      BY <1>6 DEF HandlerSucceeds, HandlerThrows, MarkDoneFails, Goto, Step
    <2>2. succeeded' \subseteq Job /\ faults' \in 0 .. MaxFaults
      BY <1>6 DEF HandlerSucceeds, HandlerThrows, MarkDoneFails
    <2>3. UNCHANGED <<rows, runs, overlapped>>
      BY <1>6 DEF HandlerSucceeds, HandlerThrows, MarkDoneFails
    <2> QED
      BY <2>1, <2>2, <2>3
  <1>7. ASSUME NEW t \in Tick, NEW j \in Job,
               \/ FailUnrunnable(t, j) \/ MarkDone(t, j)
               \/ Retry(t, j) \/ GiveUp(t, j)
        PROVE  TypeInv'
    <2>1. PICK s \in Status : Write(j, s) /\ Advance(t, j)
      BY <1>7 DEF FailUnrunnable, MarkDone, Retry, GiveUp, Status
    <2>2. UNCHANGED <<attempts, observers>> /\ waiting' \subseteq Job
      BY <1>7 DEF FailUnrunnable, MarkDone, Retry, GiveUp
    <2> QED
      BY <2>1, <2>2, SettleTypes
  <1>8. ASSUME Crash PROVE TypeInv'
    BY <1>8 DEF Crash, Step
  <1>9. CASE UNCHANGED vars
    BY <1>9 DEF vars
  <1> QED
    BY NextCases, <1>1, <1>2, <1>3, <1>4, <1>5, <1>6, <1>7, <1>8, <1>9

\* In every behaviour the variables keep their types and no tick holds a row
\* whose attempts it read as used up.
THEOREM TypeCorrect == Spec => []TypeInv
  BY TypeInit, TypeStep, PTL DEF Spec

\* The type invariant the runs check.
THEOREM TypesHold == Spec => []TypeOK
  BY TypeCorrect, PTL DEF TypeInv

\* Every snapshot a tick works from has an attempt left (jobs.service.ts:167),
\* which is what keeps the attempts column within maxAttempts under any overlap.
THEOREM AttemptsStayBounded == Spec => []SnapshotsHaveAttemptsLeft
  BY TypeCorrect, PTL DEF TypeInv

-----------------------------------------------------------------------------
(* Every running row has a runner *)

\* The for loop of a tick is at one row at a time.
LEMMA OneHead ==
    ASSUME TypeInv, NEW t \in Tick, NEW i \in Job, NEW j \in Job,
           AtHead(t, i), AtHead(t, j)
    PROVE  i = j
  BY NJobsAssumption DEF AtHead, Job

\* Every step keeps a fresh running row with a tick that works on it.
LEMMA RunnerStep == TypeInv /\ RunningHasRunner /\ [Next]_vars => RunningHasRunner'
  <1> SUFFICES ASSUME TypeInv, RunningHasRunner, [Next]_vars, faults' = 0,
                      NEW i \in Job, status'[i] = "running"
               PROVE  \E u \in Tick : pc'[u] \in Working /\ AtHead(u, i)'
    BY DEF RunningHasRunner
  <1> USE DEF TypeInv, TypeOK, rows, ticks, observers
  <1> DEFINE Runner(u) == pc[u] \in Working /\ AtHead(u, i)
  <1>0. ASSUME faults = 0, status[i] = "running" PROVE \E u \in Tick : Runner(u)
    BY <1>0 DEF RunningHasRunner
  <1>1. ASSUME NEW j \in Job, Enqueue(j) \/ BackoffElapses(j) \/ GoesStale(j)
        PROVE  \E u \in Tick : Runner(u)'
    <2>1. UNCHANGED <<pc, held, faults>> /\ status[i] = "running"
      BY <1>1 DEF Enqueue, BackoffElapses, GoesStale
    <2> QED
      BY <1>0, <2>1 DEF AtHead
  <1>2. ASSUME NEW t \in Tick, Recover(t) \/ Fetch(t)
        PROVE  \E u \in Tick : Runner(u)'
    <2>1. status[i] = "running" /\ UNCHANGED faults
      BY <1>2 DEF Recover, Fetch
    <2>2. PICK u \in Tick : Runner(u)
      BY <1>0, <2>1
    <2>3. u # t /\ pc'[u] = pc[u] /\ held'[u] = held[u]
      BY <1>2, <2>2 DEF Recover, Fetch, Goto, Working
    <2> QED
      BY <2>2, <2>3 DEF AtHead
  <1>3. ASSUME NEW t \in Tick, NEW j \in Job, Claim(t, j)
        PROVE  \E u \in Tick : Runner(u)'
    <2>1. CASE i = j
      <3>1. pc'[t] \in Working /\ held'[t] = held[t] /\ AtHead(t, j)
        BY <1>3 DEF Claim, Goto, Working
      <3> QED
        BY <2>1, <3>1 DEF AtHead
    <2>2. CASE i # j
      <3>1. status[i] = "running" /\ UNCHANGED faults
        BY <1>3, <2>2 DEF Claim, Write
      <3>2. PICK u \in Tick : Runner(u)
        BY <1>0, <3>1
      <3>3. u # t /\ pc'[u] = pc[u] /\ held'[u] = held[u]
        BY <1>3, <3>2 DEF Claim, Goto, Working
      <3> QED
        BY <3>2, <3>3 DEF AtHead
    <2> QED
      BY <2>1, <2>2
  <1>4. ASSUME NEW t \in Tick, NEW j \in Job,
               HandlerSucceeds(t, j) \/ HandlerThrows(t, j)
        PROVE  \E u \in Tick : Runner(u)'
    <2>1. UNCHANGED <<status, faults, held>>
      BY <1>4 DEF HandlerSucceeds, HandlerThrows, Goto
    <2>2. PICK u \in Tick : Runner(u)
      BY <1>0, <2>1
    <2>3. pc'[u] \in Working
      BY <1>4, <2>2 DEF HandlerSucceeds, HandlerThrows, Goto, Working
    <2> QED
      BY <2>1, <2>2, <2>3 DEF AtHead
  <1>5. ASSUME NEW t \in Tick, NEW j \in Job,
               \/ FailUnrunnable(t, j) \/ MarkDone(t, j)
               \/ Retry(t, j) \/ GiveUp(t, j)
        PROVE  \E u \in Tick : Runner(u)'
    <2>1. /\ AtHead(t, j) /\ Advance(t, j) /\ UNCHANGED faults
          /\ \E s \in Status \ {"running"} : Write(j, s)
      BY <1>5 DEF FailUnrunnable, MarkDone, Retry, GiveUp, Status
    <2>2. i # j /\ status[i] = "running"
      BY <2>1 DEF Write
    <2>3. PICK u \in Tick : Runner(u)
      BY <1>0, <2>1, <2>2
    <2>4. u # t
      BY <2>1, <2>2, <2>3, OneHead
    <2>5. pc'[u] = pc[u] /\ held'[u] = held[u]
      BY <2>1, <2>4 DEF Advance
    <2> QED
      BY <2>3, <2>5 DEF AtHead
  <1>6. ASSUME \/ Crash
               \/ \E t \in Tick : QueryFails(t)
               \/ \E t \in Tick, j \in Job : MarkDoneFails(t, j)
        PROVE  FALSE
    BY <1>6, MaxFaultsAssumption DEF Crash, QueryFails, MarkDoneFails
  <1>7. CASE UNCHANGED vars
    BY <1>0, <1>7 DEF vars, AtHead
  <1> QED
    BY NextCases, <1>1, <1>2, <1>3, <1>4, <1>5, <1>6, <1>7

\* Until a call fails, a running row is in the hands of a tick that will settle
\* it: overlapping ticks never orphan a row, only faults do
\* (jobs.service.ts:143-152 is the recovery from those).
THEOREM RunningRowsHaveRunners == Spec => []RunningHasRunner
  <1>1. Init => RunningHasRunner
    BY DEF Init, RunningHasRunner
  <1> QED
    BY <1>1, RunnerStep, TypeCorrect, PTL DEF Spec

-----------------------------------------------------------------------------
(* Done means the handler succeeded *)

\* What a tick knows about the row it has in hand, from where it stands.
HandInv ==
    \A t \in Tick, j \in Job : AtHead(t, j) =>
        /\ pc[t] = "no_handler" => j \in Unrunnable
        /\ pc[t] = "handler" => j \notin Unrunnable
        /\ pc[t] = "ok" => j \in succeeded \ Unrunnable

DoneInv == DoneOnlyAfterSuccess /\ HandInv

\* Every step keeps done rows, and rows about to be marked done, among the
\* executed ones.
LEMMA DoneStep == TypeInv /\ DoneInv /\ [Next]_vars => DoneInv'
  <1> SUFFICES ASSUME TypeInv, DoneInv, [Next]_vars PROVE DoneInv'
    OBVIOUS
  <1> USE DEF TypeInv, TypeOK, rows, ticks, observers, DoneInv
  <1>1. DoneOnlyAfterSuccess'
    <2> SUFFICES ASSUME NEW i \in Job, status'[i] = "done"
                 PROVE  i \in succeeded' \ Unrunnable
      BY DEF DoneOnlyAfterSuccess
    <2>1. succeeded \subseteq succeeded'
      BY NextCases DEF vars, Enqueue, BackoffElapses, GoesStale, Recover, Fetch,
           QueryFails, Claim, FailUnrunnable, HandlerSucceeds, HandlerThrows,
           MarkDone, MarkDoneFails, Retry, GiveUp, Crash
    <2>2. \/ status[i] = "done"
          \/ \E t \in Tick : MarkDone(t, i)
      BY NextCases DEF vars, Enqueue, BackoffElapses, GoesStale, Recover, Fetch,
           QueryFails, Claim, FailUnrunnable, HandlerSucceeds, HandlerThrows,
           MarkDone, MarkDoneFails, Retry, GiveUp, Crash, Write
    <2> QED
      BY <2>1, <2>2 DEF DoneOnlyAfterSuccess, HandInv, MarkDone
  <1>2. HandInv'
    <2> SUFFICES ASSUME NEW u \in Tick, NEW i \in Job, AtHead(u, i)'
                 PROVE  /\ pc'[u] = "no_handler" => i \in Unrunnable
                        /\ pc'[u] = "handler" => i \notin Unrunnable
                        /\ pc'[u] = "ok" => i \in succeeded' \ Unrunnable
      BY DEF HandInv
    <2> DEFINE Goal == /\ pc'[u] = "no_handler" => i \in Unrunnable
                       /\ pc'[u] = "handler" => i \notin Unrunnable
                       /\ pc'[u] = "ok" => i \in succeeded' \ Unrunnable
    <2>1. ASSUME pc'[u] = pc[u], held'[u] = held[u], succeeded \subseteq succeeded'
          PROVE  Goal
      BY <2>1 DEF HandInv, AtHead
    <2>2. ASSUME pc'[u] \notin {"no_handler", "handler", "ok"} PROVE Goal
      BY <2>2
    <2> HIDE DEF Goal
    <2>3. ASSUME NEW j \in Job, Enqueue(j) \/ BackoffElapses(j) \/ GoesStale(j)
          PROVE  Goal
      BY <2>1, <2>3 DEF Enqueue, BackoffElapses, GoesStale
    <2>4. ASSUME NEW t \in Tick, Recover(t) \/ Fetch(t) \/ QueryFails(t) PROVE Goal
      BY <2>1, <2>2, <2>4 DEF Recover, Fetch, QueryFails, Goto
    <2>5. ASSUME NEW t \in Tick, NEW j \in Job,
                 \/ FailUnrunnable(t, j) \/ MarkDone(t, j)
                 \/ Retry(t, j) \/ GiveUp(t, j)
          PROVE  Goal
      BY <2>1, <2>2, <2>5 DEF FailUnrunnable, MarkDone, Retry, GiveUp, Advance
    <2>6. ASSUME NEW t \in Tick, NEW j \in Job,
                 HandlerThrows(t, j) \/ MarkDoneFails(t, j)
          PROVE  Goal
      BY <2>1, <2>2, <2>6 DEF HandlerThrows, MarkDoneFails, Goto
    <2>7. ASSUME NEW t \in Tick, NEW j \in Job, Claim(t, j) PROVE Goal
      <3>1. CASE u # t
        BY <2>1, <2>7, <3>1 DEF Claim, Goto
      <3>2. CASE u = t
        <4>1. i = j
          BY <2>7, <3>2, OneHead DEF Claim, Goto, AtHead
        <4> QED
          BY <2>7, <3>2, <4>1 DEF Claim, Goto, Goal
      <3> QED
        BY <3>1, <3>2
    <2>8. ASSUME NEW t \in Tick, NEW j \in Job, HandlerSucceeds(t, j) PROVE Goal
      <3>1. CASE u # t
        BY <2>1, <2>8, <3>1 DEF HandlerSucceeds, Goto
      <3>2. CASE u = t
        <4>1. i = j
          BY <2>8, <3>2, OneHead DEF HandlerSucceeds, Goto, AtHead
        <4> QED
          BY <2>8, <3>2, <4>1 DEF HandlerSucceeds, Goto, HandInv, Goal
      <3> QED
        BY <3>1, <3>2
    <2>9. ASSUME Crash PROVE Goal
      BY <2>2, <2>9 DEF Crash
    <2>10. ASSUME UNCHANGED vars PROVE Goal
      BY <2>1, <2>10 DEF vars
    <2>11. Goal
      BY NextCases, <2>3, <2>4, <2>5, <2>6, <2>7, <2>8, <2>9, <2>10
    <2> QED
      BY <2>11 DEF Goal
  <1> QED
    BY <1>1, <1>2

\* The strengthened form of DoneOnlyAfterSuccess holds in every reachable state.
LEMMA DoneCorrect == Spec => []DoneInv
  <1>1. Init => DoneInv
    BY DEF Init, DoneInv, DoneOnlyAfterSuccess, HandInv, AtHead
  <1> QED
    BY <1>1, DoneStep, TypeCorrect, PTL DEF Spec

\* A row says done only after its handler has completed at least once, whatever
\* ticks overlapped, failed or crashed (jobs.service.ts:197-202).
THEOREM DoneIsEarned == Spec => []DoneOnlyAfterSuccess
  BY DoneCorrect, PTL DEF DoneInv

-----------------------------------------------------------------------------
(* While ticks do not overlap *)

\* A tick that is not in its loop holds no rows.
IdleHoldsNothing == \A t \in Tick : pc[t] \in {"idle", "fetch"} => held[t] = {}

\* At most one tick is in flight.
OneTick == \A t, u \in Tick : pc[t] # "idle" /\ pc[u] # "idle" => t = u

\* What a tick read is what the rows still say, but for the row in hand, whose
\* attempt it has just counted.
SnapshotsFresh ==
    \A t \in Tick, j \in Job : j \in held[t] =>
        attempts[j] = IF pc[t] \in Working /\ AtHead(t, j)
                        THEN snap[t][j] + 1 ELSE snap[t][j]

Bounded == \A j \in Job : runs[j] <= attempts[j]
Exhausted == \A j \in Job \ Unrunnable : status[j] = "failed" => attempts[j] = MaxAttempts

SerialInv ==
    /\ IdleHoldsNothing
    /\ ~overlapped => OneTick /\ SnapshotsFresh /\ Bounded /\ Exhausted

\* A tick that is idle or about to fetch holds no row: every step keeps it so.
LEMMA IdleStep == TypeInv /\ IdleHoldsNothing /\ [Next]_vars => IdleHoldsNothing'
  <1> SUFFICES ASSUME TypeInv, IdleHoldsNothing, [Next]_vars,
                      NEW u \in Tick, pc'[u] \in {"idle", "fetch"}
               PROVE  held'[u] = {}
    BY DEF IdleHoldsNothing
  <1> USE DEF TypeInv, TypeOK, IdleHoldsNothing, rows, ticks, observers
  <1>1. ASSUME NEW j \in Job, Enqueue(j) \/ BackoffElapses(j) \/ GoesStale(j)
        PROVE  held'[u] = {}
    BY <1>1 DEF Enqueue, BackoffElapses, GoesStale
  <1>2. ASSUME NEW t \in Tick, Recover(t) \/ Fetch(t) \/ QueryFails(t)
        PROVE  held'[u] = {}
    BY <1>2 DEF Recover, Fetch, QueryFails, Goto
  <1>3. ASSUME NEW t \in Tick, NEW j \in Job,
               \/ Claim(t, j) \/ HandlerSucceeds(t, j)
               \/ HandlerThrows(t, j) \/ MarkDoneFails(t, j)
        PROVE  held'[u] = {}
    BY <1>3 DEF Claim, HandlerSucceeds, HandlerThrows, MarkDoneFails, Goto
  <1>4. ASSUME NEW t \in Tick, NEW j \in Job, Advance(t, j) PROVE held'[u] = {}
    BY <1>4 DEF Advance
  <1>5. ASSUME Crash \/ UNCHANGED vars PROVE held'[u] = {}
    BY <1>5 DEF Crash, vars
  <1> QED
    BY NextCases, <1>1, <1>2, <1>3, <1>4, <1>5
    DEF FailUnrunnable, MarkDone, Retry, GiveUp

\* A step of another tick is impossible, so a tick in flight sees its rows change
\* only by its own steps.
LEMMA SerialStep ==
    ASSUME TypeInv, DoneInv, SerialInv, [Next]_vars, ~overlapped'
    PROVE  OneTick' /\ SnapshotsFresh' /\ Bounded' /\ Exhausted'
  <1> USE DEF TypeInv, TypeOK, rows, ticks, observers
  <1> DEFINE Good == OneTick /\ SnapshotsFresh /\ Bounded /\ Exhausted
  <1>0. ~overlapped
    BY NextCases DEF vars, Enqueue, BackoffElapses, GoesStale, Recover, Fetch,
       QueryFails, Claim, FailUnrunnable, HandlerSucceeds, HandlerThrows,
       MarkDone, MarkDoneFails, Retry, GiveUp, Crash
  <1>00. Good /\ IdleHoldsNothing
    BY <1>0 DEF SerialInv
  <1>1. ASSUME NEW j \in Job, Enqueue(j) \/ BackoffElapses(j) \/ GoesStale(j)
        PROVE  Good'
    <2>1. UNCHANGED <<pc, held, snap, attempts, runs>>
      BY <1>1 DEF Enqueue, BackoffElapses, GoesStale
    <2>2. \A i \in Job : status'[i] = "failed" => status[i] = "failed"
      BY <1>1 DEF Enqueue, BackoffElapses, GoesStale
    <2> QED
      BY <1>00, <2>1, <2>2 DEF OneTick, SnapshotsFresh, AtHead, Bounded, Exhausted
  <1>2. ASSUME NEW t \in Tick, Recover(t) PROVE Good'
    <2>1. \A u \in Tick \ {t} : pc[u] = "idle"
      BY <1>2 DEF Recover
    <2>2. /\ pc' = [pc EXCEPT ![t] = "fetch"]
          /\ UNCHANGED <<held, snap, attempts, runs>>
      BY <1>2 DEF Recover, Goto
    <2>3. OneTick'
      BY <2>1, <2>2 DEF OneTick
    <2>4. SnapshotsFresh'
      <3>1. \A u \in Tick : held[u] = {}
        BY <1>2, <1>00, <2>1 DEF Recover, IdleHoldsNothing
      <3> QED
        BY <2>2, <3>1 DEF SnapshotsFresh
    <2>5. Exhausted'
      BY <1>2, <1>00 DEF Recover, Exhausted
    <2> QED
      BY <1>00, <2>2, <2>3, <2>4, <2>5 DEF Bounded
  <1>3. ASSUME NEW t \in Tick, Fetch(t) PROVE Good'
    <2> DEFINE eligible == {j \in Batch : attempts[j] < MaxAttempts}
    <2>1. /\ held' = [held EXCEPT ![t] = eligible]
          /\ snap' = [snap EXCEPT ![t] =
                        [j \in Job |-> IF j \in eligible THEN attempts[j] ELSE 0]]
          /\ pc' = [pc EXCEPT ![t] = IF eligible = {} THEN "idle" ELSE "claim"]
          /\ UNCHANGED <<rows, observers>>
          /\ pc[t] = "fetch"
      BY <1>3 DEF Fetch
    <2> HIDE DEF eligible
    <2>2. \A u \in Tick \ {t} : pc[u] = "idle" /\ held[u] = {}
      BY <1>00, <2>1 DEF OneTick, IdleHoldsNothing
    <2>3. OneTick'
      BY <2>1, <2>2 DEF OneTick
    <2>4. SnapshotsFresh'
      BY <2>1, <2>2 DEF SnapshotsFresh, Working
    <2> QED
      BY <1>00, <2>1, <2>3, <2>4 DEF Bounded, Exhausted
  <1>4. ASSUME NEW t \in Tick, NEW j \in Job, Claim(t, j) PROVE Good'
    <2>1. \A u \in Tick \ {t} : pc[u] = "idle" /\ held[u] = {}
      BY <1>00, <1>4 DEF OneTick, IdleHoldsNothing, Claim
    <2>2. /\ attempts[j] = snap[t][j] /\ j \in held[t]
          /\ attempts' = [attempts EXCEPT ![j] = snap[t][j] + 1]
          /\ UNCHANGED <<held, snap>>
      BY <1>00, <1>4 DEF SnapshotsFresh, Claim, Working, AtHead, Goto
    <2>3. pc'[t] \in Working /\ \A u \in Tick \ {t} : pc'[u] = pc[u]
      BY <1>4 DEF Claim, Goto, Working
    <2>4. OneTick'
      BY <2>1, <2>3 DEF OneTick
    <2>5. SnapshotsFresh'
      <3>1. AtHead(t, j) /\ \A i \in Job \ {j} : ~AtHead(t, i)
        BY <1>4, OneHead DEF Claim
      <3> QED
        BY <1>00, <1>4, <2>1, <2>2, <2>3, <3>1 DEF SnapshotsFresh, AtHead, Claim, Working
    <2>6. Bounded'
      BY <1>00, <1>4, <2>2, MaxAttemptsAssumption DEF Bounded, Claim
    <2>7. Exhausted'
      BY <1>00, <1>4, <2>2 DEF Exhausted, Claim, Write
    <2> QED
      BY <2>4, <2>5, <2>6, <2>7
  <1>5. ASSUME NEW t \in Tick, NEW j \in Job,
               HandlerSucceeds(t, j) \/ HandlerThrows(t, j) \/ MarkDoneFails(t, j)
        PROVE  Good'
    <2>1. /\ UNCHANGED <<held, snap, attempts, runs, status>>
          /\ pc[t] \in Working /\ pc'[t] \in Working
          /\ \A u \in Tick \ {t} : pc'[u] = pc[u]
      BY <1>5 DEF HandlerSucceeds, HandlerThrows, MarkDoneFails, Goto, Working
    <2> QED
      BY <1>00, <2>1
      DEF OneTick, SnapshotsFresh, AtHead, Bounded, Exhausted, Working
  <1>6. ASSUME NEW t \in Tick, NEW j \in Job,
               \/ FailUnrunnable(t, j) \/ MarkDone(t, j)
               \/ Retry(t, j) \/ GiveUp(t, j)
        PROVE  Good'
    <2>1. /\ pc[t] \in Working /\ AtHead(t, j) /\ Advance(t, j)
          /\ UNCHANGED <<attempts, runs>>
      BY <1>6 DEF FailUnrunnable, MarkDone, Retry, GiveUp, Working
    <2>2. \A u \in Tick \ {t} : pc[u] = "idle" /\ held[u] = {}
      BY <1>00, <2>1 DEF OneTick, IdleHoldsNothing, Working
    <2>3. OneTick'
      BY <2>1, <2>2 DEF OneTick, Advance
    <2>4. SnapshotsFresh'
      <3> SUFFICES ASSUME NEW u \in Tick, NEW i \in Job, i \in held'[u]
                   PROVE  /\ attempts'[i] = snap'[u][i]
                          /\ pc'[u] \notin Working
        BY DEF SnapshotsFresh
      <3>1. u = t /\ i # j /\ i \in held[t] /\ snap'[u][i] = snap[t][i]
        BY <2>1, <2>2 DEF Advance
      <3>2. ~AtHead(t, i)
        BY <2>1, <3>1, OneHead
      <3>3. attempts[i] = snap[t][i]
        BY <1>00, <3>1, <3>2 DEF SnapshotsFresh
      <3> QED
        BY <2>1, <3>1, <3>3 DEF Advance, Working
    <2>5. Exhausted'
      <3>1. attempts[j] = snap[t][j] + 1 /\ snap[t][j] < MaxAttempts
        BY <1>00, <2>1 DEF SnapshotsFresh, AtHead, SnapshotsHaveAttemptsLeft
      <3>2. status'[j] = "failed" => j \in Unrunnable \/ snap[t][j] + 1 >= MaxAttempts
        <4>1. CASE FailUnrunnable(t, j)
          BY <4>1 DEF FailUnrunnable, DoneInv, HandInv
        <4> QED
          BY <1>6, <4>1 DEF MarkDone, Retry, GiveUp, Write
      <3>3. \A i \in Job \ {j} : status'[i] = status[i]
        BY <1>6 DEF FailUnrunnable, MarkDone, Retry, GiveUp, Write
      <3> QED
        BY <1>00, <2>1, <3>1, <3>2, <3>3, MaxAttemptsAssumption DEF Exhausted
    <2> QED
      BY <1>00, <2>1, <2>3, <2>4, <2>5 DEF Bounded
  <1>7. ASSUME NEW t \in Tick, QueryFails(t) PROVE Good'
    <2>1. \A u \in Tick \ {t} : pc[u] = "idle" /\ held[u] = {}
      BY <1>00, <1>7 DEF OneTick, IdleHoldsNothing, QueryFails
    <2> QED
      BY <1>00, <1>7, <2>1 DEF QueryFails, OneTick, SnapshotsFresh, Bounded, Exhausted
  <1>8. ASSUME Crash PROVE Good'
    BY <1>00, <1>8 DEF Crash, OneTick, SnapshotsFresh, Bounded, Exhausted
  <1>9. ASSUME UNCHANGED vars PROVE Good'
    BY <1>00, <1>9 DEF vars, OneTick, SnapshotsFresh, AtHead, Bounded, Exhausted
  <1> QED
    BY NextCases, <1>1, <1>2, <1>3, <1>4, <1>5, <1>6, <1>7, <1>8, <1>9

\* What holds of a queue whose ticks never overlapped.
LEMMA SerialCorrect == Spec => []SerialInv
  <1>1. Init => SerialInv
    BY DEF Init, SerialInv, IdleHoldsNothing, OneTick, SnapshotsFresh, Bounded, Exhausted
  <1>2. TypeInv /\ DoneInv /\ SerialInv /\ [Next]_vars => SerialInv'
    BY IdleStep, SerialStep DEF SerialInv
  <1> QED
    BY <1>1, <1>2, TypeCorrect, DoneCorrect, PTL DEF Spec

\* While no two ticks have overlapped, no handler is entered more than maxAttempts
\* times, crashes and recoveries of stale rows included: the attempt is persisted
\* before the handler is entered (jobs.service.ts:169-174).
THEOREM SerialRunsAreBounded == Spec => []RunsWithinAttempts
  <1>1. SerialInv => RunsWithinAttempts
    BY DEF SerialInv, Bounded, RunsWithinAttempts
  <1> QED
    BY <1>1, SerialCorrect, PTL

\* While no two ticks have overlapped, a runnable job is given up on only with all
\* of its attempts used (jobs.service.ts:215-235).
THEOREM SerialFailuresAreFinal == Spec => []FailedMeansExhausted
  <1>1. SerialInv => FailedMeansExhausted
    BY DEF SerialInv, Exhausted, FailedMeansExhausted
  <1> QED
    BY <1>1, SerialCorrect, PTL

\* The attempts column can be relied on: the conjunction the runs check
\* (jobs.service.ts:167-174, 215-235).
THEOREM AttemptsCount == Spec => []AttemptsAreHonoured
  BY AttemptsStayBounded, SerialRunsAreBounded, SerialFailuresAreFinal, PTL
  DEF AttemptsAreHonoured

-----------------------------------------------------------------------------
(* The queue implements the ledger *)

\* A row some tick holds exists.
HeldExist == \A t \in Tick, j \in Job : j \in held[t] => status[j] # "absent"

LedgerInv == TypeInv /\ DoneInv /\ IdleHoldsNothing /\ HeldExist

\* Rows are never deleted, so a row that was read goes on existing.
LEMMA HeldExistStep == TypeInv /\ HeldExist /\ [Next]_vars => HeldExist'
  <1> SUFFICES ASSUME TypeInv, HeldExist, [Next]_vars,
                      NEW u \in Tick, NEW i \in Job, i \in held'[u]
               PROVE  status'[i] # "absent"
    BY DEF HeldExist
  <1> USE DEF TypeInv, TypeOK, HeldExist, rows, ticks, observers
  <1>1. status[i] # "absent" => status'[i] # "absent"
    BY NextCases DEF vars, Enqueue, BackoffElapses, GoesStale, Recover, Fetch,
       QueryFails, Claim, FailUnrunnable, HandlerSucceeds, HandlerThrows,
       MarkDone, MarkDoneFails, Retry, GiveUp, Crash, Write
  <1>2. ASSUME NEW t \in Tick, Fetch(t) PROVE status[i] # "absent"
    BY <1>2 DEF Fetch, Batch, Due
  <1>3. ASSUME ~ \E t \in Tick : Fetch(t) PROVE i \in held[u]
    BY <1>3, NextCases DEF vars, Enqueue, BackoffElapses, GoesStale, Recover,
       QueryFails, Claim, FailUnrunnable, HandlerSucceeds, HandlerThrows,
       MarkDone, MarkDoneFails, Retry, GiveUp, Crash, Advance, Goto
  <1> QED
    BY <1>1, <1>2, <1>3

\* The invariant under which a step of the queue is a step of the ledger.
LEMMA LedgerInvCorrect == Spec => []LedgerInv
  <1>1. Init => HeldExist
    BY DEF Init, HeldExist
  <1>2. Spec => []HeldExist
    BY <1>1, HeldExistStep, TypeCorrect, PTL DEF Spec
  <1> QED
    BY <1>2, TypeCorrect, DoneCorrect, SerialCorrect, PTL DEF LedgerInv, SerialInv

\* The phase of one row.
LEMMA PhaseOf ==
    ASSUME NEW j \in Job
    PROVE  Phase[j] = IF status[j] = "absent" THEN "absent"
                      ELSE IF status[j] \in Settled /\ ~InFlight(j) THEN status[j]
                      ELSE "open"
  BY DEF Phase

\* The phase of one row in the next state.
LEMMA PhasePrimedOf ==
    ASSUME NEW j \in Job
    PROVE  Phase'[j] = IF status'[j] = "absent" THEN "absent"
                       ELSE IF status'[j] \in Settled /\ ~InFlight(j)' THEN status'[j]
                       ELSE "open"
  BY DEF Phase

\* Phase is a function on Job: equal row by row is equal.
LEMMA SamePhase ==
    ASSUME \A j \in Job : Phase'[j] = Phase[j]
    PROVE  Phase' = Phase
  BY DEF Phase

\* A step in which nothing is executed and rows at most go from open to closed is
\* a Close of the ledger, or a stutter.
LEMMA ClosingStep ==
    ASSUME DoneInv', UNCHANGED succeeded,
           \A j \in Job : \/ Phase'[j] = Phase[j]
                          \/ Phase[j] = "open" /\ Phase'[j] \in Settled
    PROVE  [Ledger!Next]_<<Phase, succeeded>>
  <1> DEFINE S == {j \in Job : Phase'[j] # Phase[j]}
             outcome == [j \in S |-> Phase'[j]]
  <1>1. CASE S = {}
    BY <1>1, SamePhase
  <1>2. CASE S # {}
    <2>1. /\ \A j \in S : Phase[j] = "open" /\ Phase'[j] \in Settled
          /\ S \in SUBSET Job
      OBVIOUS
    <2>2. \A j \in S : outcome[j] = "done" => j \in succeeded
      BY <2>1, PhasePrimedOf DEF DoneInv, DoneOnlyAfterSuccess
    <2>3. Phase' = [j \in Job |-> IF j \in S THEN outcome[j] ELSE Phase[j]]
      <3>1. Phase' = [j \in Job |-> Phase'[j]]
        BY DEF Phase
      <3>2. \A j \in Job : Phase'[j] = IF j \in S THEN outcome[j] ELSE Phase[j]
        OBVIOUS
      <3> QED
        BY <3>1, <3>2
    <2>4. outcome \in [S -> Ledger!Closed]
      BY <2>1 DEF Ledger!Closed, Settled
    <2>5. Ledger!Close(S)
      BY <1>2, <2>1, <2>2, <2>3, <2>4 DEF Ledger!Close
    <2> QED
      BY <2>1, <2>5 DEF Ledger!Next
  <1> QED
    BY <1>1, <1>2

\* Once closed, a row is left alone: whoever works on a row holds it or reads it
\* pending.
LEMMA LedgerStep ==
    ASSUME LedgerInv, LedgerInv', [Next]_vars
    PROVE  [Ledger!Next]_<<Phase, succeeded>>
  <1> USE DEF LedgerInv, TypeInv, TypeOK, rows, ticks, observers
  <1> DEFINE Goal == [Ledger!Next]_<<Phase, succeeded>>
  <1>1. ASSUME UNCHANGED <<status, held, succeeded>> PROVE Goal
    BY <1>1 DEF Phase, InFlight
  <1>2. ASSUME NEW j \in Job, Enqueue(j) PROVE Goal
    <2>1. Phase[j] = "absent" /\ Phase' = [Phase EXCEPT ![j] = "open"]
      BY <1>2 DEF Enqueue, Phase, InFlight, Settled
    <2>2. Ledger!Accept(j)
      BY <1>2, <2>1 DEF Ledger!Accept, Enqueue
    <2> QED
      BY <2>2 DEF Ledger!Next
  <1>3. ASSUME NEW t \in Tick, Recover(t) PROVE Goal
    <2>1. UNCHANGED <<held, succeeded>>
      BY <1>3 DEF Recover, Goto
    <2>2. \A i \in Job : Phase'[i] = Phase[i]
      BY <1>3, <2>1 DEF Recover, Phase, InFlight, Settled
    <2> QED
      BY <2>1, <2>2, SamePhase
  <1>4. ASSUME NEW t \in Tick, Fetch(t) PROVE Goal
    <2>1. UNCHANGED <<status, succeeded>> /\ held[t] = {}
      BY <1>4 DEF Fetch, IdleHoldsNothing
    <2>2. /\ \A u \in Tick \ {t} : held'[u] = held[u]
          /\ \A i \in held'[t] : status[i] = "pending"
      BY <1>4 DEF Fetch, Batch, Due
    <2>3. ASSUME NEW i \in Job PROVE Phase'[i] = Phase[i]
      <3>1. status[i] \in Settled => (InFlight(i)' <=> InFlight(i))
        BY <2>1, <2>2 DEF InFlight, Settled
      <3> QED
        BY <2>1, <3>1, PhaseOf, PhasePrimedOf
    <2> QED
      BY <2>1, <2>3, SamePhase
  <1>5. ASSUME NEW t \in Tick, NEW j \in Job, Claim(t, j) PROVE Goal
    <2>1. UNCHANGED <<held, succeeded>> /\ InFlight(j) /\ status[j] # "absent"
      BY <1>5 DEF Claim, Goto, AtHead, InFlight, HeldExist
    <2>2. ASSUME NEW i \in Job PROVE Phase'[i] = Phase[i]
      BY <1>5, <2>1, PhaseOf, PhasePrimedOf DEF Claim, Write, InFlight, Settled
    <2> QED
      BY <2>1, <2>2, SamePhase
  <1>6. ASSUME NEW t \in Tick, NEW j \in Job, HandlerSucceeds(t, j) PROVE Goal
    <2>1. Phase[j] = "open"
      BY <1>6, PhaseOf DEF HandlerSucceeds, AtHead, InFlight, HeldExist
    <2>2. Phase' = Phase /\ succeeded' = succeeded \cup {j}
      BY <1>6 DEF HandlerSucceeds, Goto, Phase, InFlight
    <2>3. Ledger!Execute(j)
      BY <2>1, <2>2 DEF Ledger!Execute
    <2> QED
      BY <2>3 DEF Ledger!Next
  <1>7. ASSUME NEW t \in Tick, NEW j \in Job,
               \/ FailUnrunnable(t, j) \/ MarkDone(t, j)
               \/ Retry(t, j) \/ GiveUp(t, j)
        PROVE  Goal
    <2>1. AtHead(t, j) /\ Advance(t, j) /\ UNCHANGED succeeded
      BY <1>7 DEF FailUnrunnable, MarkDone, Retry, GiveUp
    <2>2. /\ status'[j] # "absent"
          /\ \A i \in Job \ {j} : status'[i] = status[i]
      BY <1>7 DEF FailUnrunnable, MarkDone, Retry, GiveUp, Write
    <2>3. Phase[j] = "open"
      BY <2>1, PhaseOf DEF AtHead, InFlight, HeldExist
    <2>4. \A i \in Job \ {j} : InFlight(i)' <=> InFlight(i)
      BY <2>1 DEF Advance, InFlight
    <2>5. ASSUME NEW i \in Job
          PROVE  \/ Phase'[i] = Phase[i]
                 \/ Phase[i] = "open" /\ Phase'[i] \in Settled
      BY <2>2, <2>3, <2>4, PhaseOf, PhasePrimedOf
    <2> QED
      BY <2>1, <2>5, ClosingStep
  <1>8. ASSUME Crash \/ \E t \in Tick : QueryFails(t) PROVE Goal
    <2>1. UNCHANGED <<status, succeeded>>
      BY <1>8 DEF Crash, QueryFails
    <2>2. \A i \in Job : InFlight(i)' => InFlight(i)
      BY <1>8 DEF Crash, QueryFails, InFlight
    <2>3. ASSUME NEW i \in Job
          PROVE  \/ Phase'[i] = Phase[i]
                 \/ Phase[i] = "open" /\ Phase'[i] \in Settled
      BY <2>1, <2>2, PhaseOf, PhasePrimedOf
    <2> QED
      BY <2>1, <2>3, ClosingStep
  <1>9. ASSUME \/ \E j \in Job : BackoffElapses(j) \/ GoesStale(j)
               \/ \E t \in Tick, j \in Job : HandlerThrows(t, j) \/ MarkDoneFails(t, j)
               \/ UNCHANGED vars
        PROVE  Goal
    <2>1. UNCHANGED <<status, held, succeeded>>
      BY <1>9 DEF BackoffElapses, GoesStale, HandlerThrows, MarkDoneFails, Goto, vars
    <2> QED
      BY <1>1, <2>1
  <1> QED
    BY NextCases, <1>2, <1>3, <1>4, <1>5, <1>6, <1>7, <1>8, <1>9

\* The job table, read through Phase, implements the ledger: a job is accepted
\* once, reported done only when it has been executed, and a row that is settled
\* and in no tick's hands never changes again, under every interleaving of ticks,
\* failed queries, crashes and recoveries.
THEOREM QueueImplementsLedger == Spec => ImplementsLedger
  <1>1. Init => Ledger!Init
    BY DEF Init, Ledger!Init, Phase
  <1>2. LedgerInv /\ LedgerInv' /\ [Next]_vars => [Ledger!Next]_<<Phase, succeeded>>
    BY LedgerStep
  <1> QED
    BY <1>1, <1>2, LedgerInvCorrect, PTL
    DEF Spec, ImplementsLedger, Ledger!Spec, Ledger!ledger
=============================================================================
