----------------------------- MODULE OutboxProofs -----------------------------
(***************************************************************************)
(* Theorems about Outbox, for any number of endpoints, requests, workers   *)
(* and faults.                                                             *)
(*                                                                         *)
(* Two invariants beside the types. DoneInv follows a job: what a run of   *)
(* its handler has in hand is the job's kind and, once the endpoint has    *)
(* taken the POST, posted; a job that was executed has its effect on       *)
(* record or is one whose endpoint could not be looked up, and a removed   *)
(* endpoint stays removed. MailInv follows the mail: a send that neither   *)
(* ran beside an edit nor came before another approval carries the mail's  *)
(* text from the moment it has read it, and no edit is under way from then *)
(* on.                                                                     *)
(***************************************************************************)
EXTENDS Outbox, TLAPS

\* What is done to the endpoints.
Endpoints == \/ \E e \in Endpoint, h \in Subscription : CreateEndpoint(e, h)
             \/ \E e \in Endpoint, s \in {"enabled", "disabled"}, h \in Subscription : UpdateEndpoint(e, s, h)
             \/ \E e \in Endpoint : RemoveEndpoint(e)

\* The steps of a call of the mail tab.
Calls(r) == \/ BeginEdit(r) \/ WriteEdit(r) \/ BeginSend(r) \/ Mail(r)
            \/ RecordSend(r) \/ SaveStatus(r) \/ FinishSend(r)
            \/ SendFails(r) \/ RecordError(r) \/ MarkError(r)

\* The case split of the proofs below.
LEMMA NextCases ==
    ASSUME [Next]_vars
    PROVE  \/ Approve \/ GenerateDraft \/ DraftFails \/ ApproveAgain \/ SetPipeline \/ Crash
           \/ \E m \in Emission : Emit(m) \/ EmitFails(m)
           \/ \E j \in Job : Enqueue(j) \/ EnqueueFails(j) \/ Settle(j)
           \/ \E w \in Worker, j \in Job : Start(w, j) \/ SkipMissing(w, j) \/ SkipUnread(w, j)
           \/ \E w \in Worker, s \in {"delivered", "failed"} : Post(w, s)
           \/ \E w \in Worker : \/ Record(w) \/ RecordRefused(w)
                                \/ AppendRow(w) \/ SkipExport(w) \/ HandlerFails(w)
           \/ Endpoints
           \/ \E r \in Request : Calls(r)
           \/ UNCHANGED vars
  BY DEF Next, Endpoints, Calls

\* The sheet's job is a job.
LEMMA SheetJobType == SheetJob \in Job
  BY DEF Job

\* What a worker does is a run.
LEMMA DoingType ==
    ASSUME NEW at \in {"idle", "append", "post", "record"}, NEW j \in Job,
           NEW s \in {"none", "delivered", "failed"}
    PROVE  Doing(at, j, s) \in Run /\ Doing(at, j, s).at = at /\ Doing(at, j, s).job = j
           /\ Doing(at, j, s).status = s
  BY DEF Doing, Run

\* So is what an idle worker does.
LEMMA IdleType == Idle \in Run /\ Idle.at = "idle"
  BY SheetJobType, DoingType DEF Idle

\* A call somewhere in its steps is a call.
LEMMA StepType ==
    ASSUME NEW at \in {"none", "editing", "mailing", "mailed", "recorded", "saved", "failing", "failed", "over"},
           NEW t \in Text
    PROVE  Step(at, t) \in MailCall /\ Step(at, t).at = at /\ Step(at, t).text = t
  BY DEF Step, MailCall

\* The jobs that are not the sheet's go to an endpoint.
LEMMA JobGoesTo ==
    ASSUME NEW j \in Job, j # SheetJob
    PROVE  j.to \in Endpoint /\ j.of \in Emission
  BY DEF Job

\* A call that goes on keeps its text, and leaves the others alone.
LEMMA GotoKeeps ==
    ASSUME TypeOK, NEW r \in Request,
           NEW at \in {"none", "editing", "mailing", "mailed", "recorded", "saved", "failing", "failed", "over"},
           Goto(r, at)
    PROVE  /\ call' \in [Request -> MailCall]
           /\ call'[r].at = at /\ call'[r].text = call[r].text
           /\ \A q \in Request \ {r} : call'[q] = call[q]
  <1>1. call[r].text \in Text
    BY DEF TypeOK, MailCall
  <1> QED
    BY <1>1, StepType DEF TypeOK, Goto

-----------------------------------------------------------------------------
(* Types *)

\* A run that is about to write the delivery row knows how the POST ended.
Answered == \A w \in Worker : worker[w].at = "record" => worker[w].status # "none"

\* A worker that begins or goes on.
LEMMA WorkerType ==
    ASSUME TypeOK, NEW w \in Worker, NEW d \in Run, worker' = [worker EXCEPT ![w] = d]
    PROVE  /\ worker' \in [Worker -> Run] /\ worker'[w] = d
           /\ \A v \in Worker \ {w} : worker'[v] = worker[v]
  BY DEF TypeOK

\* The steps of the approval and of the intake's status.
LEMMA ApprovalTypes ==
    ASSUME TypeOK, Approve \/ GenerateDraft \/ DraftFails \/ ApproveAgain \/ SetPipeline \/ Crash
    PROVE  TypeOK'
  <1> USE OutboxAssumption
  <1>1. CASE Approve
    BY <1>1 DEF Approve, TypeOK, bus, jobs, hooks, mail
  <1>2. ASSUME NEW t \in Text, Upsert(t)
        PROVE  /\ email' \in [status : {"none", "draft", "sent", "error"}, text : Text]
               /\ raced' \subseteq Request
    BY <1>2 DEF Upsert, Carried, TypeOK
  <1>3. CASE GenerateDraft
    <2>1. "generated" \in Text
      BY DEF Text
    <2> QED
      BY <1>2, <1>3, <2>1, SheetJobType DEF GenerateDraft, Announce, TypeOK, jobs, hooks, Emission
  <1>4. CASE DraftFails
    BY <1>4, SheetJobType DEF DraftFails, Announce, Fault, TypeOK, jobs, hooks, Emission
  <1>5. CASE ApproveAgain
    <2>1. "again" \in Text
      BY DEF Text
    <2> QED
      BY <1>2, <1>5, <2>1 DEF ApproveAgain, TypeOK, bus, jobs, hooks
  <1>7. CASE SetPipeline
    BY <1>7 DEF SetPipeline, TypeOK, bus, jobs, hooks, mail
  <1>6. CASE Crash
    <2>1. worker' \in [Worker -> Run]
      BY <1>6, IdleType DEF Crash
    <2>2. call' \in [Request -> MailCall]
      <3>1. \A r \in Request : call[r] \in MailCall /\ Step("over", call[r].text) \in MailCall
        BY StepType DEF TypeOK, MailCall
      <3> QED
        BY <1>6, <3>1 DEF Crash
    <2>3. faults' \in 0..MaxFaults
      BY <1>6 DEF Crash, Fault, TypeOK
    <2> QED
      BY <1>6, <2>1, <2>2, <2>3 DEF Crash, TypeOK, jobs, hooks
  <1> QED
    BY <1>1, <1>3, <1>4, <1>5, <1>6, <1>7

\* The steps of the emitter and the job table.
LEMMA BusTypes ==
    ASSUME TypeOK,
           \/ \E m \in Emission : Emit(m) \/ EmitFails(m)
           \/ \E j \in Job : Enqueue(j) \/ EnqueueFails(j) \/ Settle(j)
    PROVE  TypeOK'
  <1> USE OutboxAssumption
  <1>1. ASSUME NEW m \in Emission, Emit(m) PROVE TypeOK'
    <2>1. \A e \in FindEnabledForEvent(m) : [of |-> m, to |-> e] \in Job
      BY DEF FindEnabledForEvent, Job
    <2> QED
      BY <1>1, <2>1 DEF Emit, TypeOK, jobs, hooks, mail
  <1>2. ASSUME NEW m \in Emission, EmitFails(m) PROVE TypeOK'
    BY <1>2 DEF EmitFails, Fault, TypeOK, jobs, hooks, mail
  <1>3. ASSUME NEW j \in Job, Enqueue(j) PROVE TypeOK'
    <2>1. phase' \in [Job -> Jobs!Phase] /\ executed' = executed
      BY <1>3 DEF Enqueue, TypeOK, Jobs!Accept, Jobs!Phase
    <2> QED
      BY <1>3, <2>1 DEF Enqueue, TypeOK, hooks, mail
  <1>4. ASSUME NEW j \in Job, EnqueueFails(j) PROVE TypeOK'
    BY <1>4 DEF EnqueueFails, Fault, TypeOK, jobs, hooks, mail
  <1>5. ASSUME NEW j \in Job, Settle(j) PROVE TypeOK'
    <2>1. phase' \in [Job -> Jobs!Phase] /\ executed' = executed
      BY <1>5 DEF Settle, TypeOK, Jobs!Close, Jobs!Closed, Jobs!Phase
    <2> QED
      BY <1>5, <2>1 DEF Settle, TypeOK, bus, hooks, mail
  <1> QED
    BY <1>1, <1>2, <1>3, <1>4, <1>5

\* The steps of the handlers.
LEMMA HandlerTypes ==
    ASSUME TypeOK, Answered,
           \/ \E w \in Worker, j \in Job : Start(w, j) \/ SkipMissing(w, j) \/ SkipUnread(w, j)
           \/ \E w \in Worker, s \in {"delivered", "failed"} : Post(w, s)
           \/ \E w \in Worker : \/ Record(w) \/ RecordRefused(w)
                                \/ AppendRow(w) \/ SkipExport(w) \/ HandlerFails(w)
    PROVE  TypeOK'
  <1> USE OutboxAssumption
  <1>0. \A w \in Worker : worker[w].job \in Job /\ worker[w].status \in {"none", "delivered", "failed"}
    BY DEF TypeOK, Run
  <1>1. ASSUME NEW w \in Worker, NEW j \in Job, Start(w, j) PROVE TypeOK'
    <2>1. Doing("append", j, "none") \in Run /\ Doing("post", j, "none") \in Run
      BY DoingType
    <2>2. worker' \in [Worker -> Run]
      BY <1>1, <2>1 DEF Start, TypeOK
    <2> QED
      BY <1>1, <2>2 DEF Start, TypeOK, bus, jobs, hooks, mail
  <1>2. ASSUME NEW w \in Worker, NEW j \in Job, SkipMissing(w, j) PROVE TypeOK'
    BY <1>2 DEF SkipMissing, Jobs!Execute, TypeOK, bus, hooks, mail
  <1>3. ASSUME NEW w \in Worker, NEW s \in {"delivered", "failed"}, Post(w, s) PROVE TypeOK'
    <2>1. worker' \in [Worker -> Run]
      <3>1. Doing("record", worker[w].job, s) \in Run
        BY <1>0, DoingType
      <3>2. worker' = [worker EXCEPT ![w] = Doing("record", worker[w].job, s)]
        BY <1>3 DEF Post
      <3>3. worker \in [Worker -> Run]
        BY DEF TypeOK
      <3> QED
        BY ONLY <3>1, <3>2, <3>3
    <2> QED
      BY <1>0, <1>3, <2>1 DEF Post, TypeOK, bus, jobs, mail
  <1>4. ASSUME NEW w \in Worker, Record(w) PROVE TypeOK'
    <2>1. worker' \in [Worker -> Run]
      BY <1>4, IdleType, WorkerType DEF Record
    <2>2. rows' \subseteq Job \X {"delivered", "failed"}
      <3>1. <<worker[w].job, worker[w].status>> \in Job \X {"delivered", "failed"}
        BY <1>0, <1>4 DEF Record, Answered
      <3> QED
        BY <1>4, <3>1 DEF Record, TypeOK
    <2> QED
      BY <1>0, <1>4, <2>1, <2>2 DEF Record, Jobs!Execute, TypeOK, bus, mail
  <1>5. ASSUME NEW w \in Worker, RecordRefused(w) PROVE TypeOK'
    <2>1. worker' \in [Worker -> Run]
      BY <1>5, IdleType, WorkerType DEF RecordRefused
    <2> QED
      BY <1>5, <2>1 DEF RecordRefused, TypeOK, bus, jobs, hooks, mail
  <1>6. ASSUME NEW w \in Worker, AppendRow(w) PROVE TypeOK'
    <2>1. worker' \in [Worker -> Run]
      BY <1>6, IdleType, WorkerType DEF AppendRow
    <2> QED
      BY <1>0, <1>6, <2>1 DEF AppendRow, Jobs!Execute, TypeOK, bus, mail
  <1>7. ASSUME NEW w \in Worker, HandlerFails(w) PROVE TypeOK'
    <2>1. worker' \in [Worker -> Run]
      BY <1>7, IdleType, WorkerType DEF HandlerFails
    <2> QED
      BY <1>7, <2>1 DEF HandlerFails, Fault, TypeOK, bus, jobs, hooks, mail
  <1>8. ASSUME NEW w \in Worker, NEW j \in Job, SkipUnread(w, j) PROVE TypeOK'
    BY <1>8 DEF SkipUnread, Fault, Jobs!Execute, TypeOK, bus, mail
  <1>9. ASSUME NEW w \in Worker, SkipExport(w) PROVE TypeOK'
    <2>1. worker' \in [Worker -> Run]
      BY <1>9, IdleType, WorkerType DEF SkipExport
    <2> QED
      BY <1>0, <1>9, <2>1 DEF SkipExport, Jobs!Execute, TypeOK, bus, mail
  <1> QED
    BY <1>1, <1>2, <1>3, <1>4, <1>5, <1>6, <1>7, <1>8, <1>9

\* The steps of the endpoints and the mail tab.
LEMMA MailTypes ==
    ASSUME TypeOK, Endpoints \/ \E r \in Request : Calls(r)
    PROVE  TypeOK' /\ worker' = worker
  <1> USE OutboxAssumption DEF Quiet, jobs, hooks
  <1>1. ASSUME NEW e \in Endpoint, NEW s \in EndpointStatus, NEW h \in Subscription,
               SetEndpoint(e, s, h), rows' \subseteq rows
        PROVE  TypeOK' /\ worker' = worker
    BY <1>1 DEF SetEndpoint, TypeOK, bus, mail
  <1>2. ASSUME NEW e \in Endpoint, NEW h \in Subscription, CreateEndpoint(e, h)
        PROVE  TypeOK' /\ worker' = worker
    BY <1>1, <1>2 DEF CreateEndpoint, EndpointStatus
  <1>3. ASSUME NEW e \in Endpoint, RemoveEndpoint(e) PROVE TypeOK' /\ worker' = worker
    <2>1. hears[e] \in Subscription
      BY DEF TypeOK
    <2> QED
      BY <1>1, <1>3, <2>1 DEF RemoveEndpoint, EndpointStatus
  <1>4. ASSUME NEW e \in Endpoint, NEW s \in {"enabled", "disabled"}, NEW h \in Subscription,
               UpdateEndpoint(e, s, h)
        PROVE  TypeOK' /\ worker' = worker
    BY <1>1, <1>4 DEF UpdateEndpoint, EndpointStatus
  <1>5. ASSUME NEW r \in Request, BeginEdit(r) PROVE TypeOK' /\ worker' = worker
    <2>1. call' \in [Request -> MailCall]
      BY <1>5, GotoKeeps DEF BeginEdit
    <2> QED
      BY <1>5, <2>1 DEF BeginEdit, TypeOK, Unrecorded
  <1>6. ASSUME NEW r \in Request, WriteEdit(r) PROVE TypeOK' /\ worker' = worker
    <2>1. call' \in [Request -> MailCall]
      BY <1>6, GotoKeeps DEF WriteEdit
    <2>2. email' \in [status : {"none", "draft", "sent", "error"}, text : Text]
      BY <1>6 DEF WriteEdit, TypeOK, Text
    <2> QED
      BY <1>6, <2>1, <2>2 DEF WriteEdit, TypeOK
  <1>7. ASSUME NEW r \in Request, BeginSend(r) PROVE TypeOK' /\ worker' = worker
    <2>1. call' \in [Request -> MailCall]
      <3>1. Step("mailing", email.text) \in MailCall
        BY StepType DEF TypeOK
      <3> QED
        BY <1>7, <3>1 DEF BeginSend, TypeOK
    <2> QED
      BY <1>7, <2>1 DEF BeginSend, TypeOK
  <1>8. ASSUME NEW r \in Request, Mail(r) PROVE TypeOK' /\ worker' = worker
    <2>1. call' \in [Request -> MailCall]
      BY <1>8, GotoKeeps DEF Mail
    <2> QED
      BY <1>8, <2>1 DEF Mail, TypeOK
  <1>9. ASSUME NEW r \in Request, RecordSend(r) PROVE TypeOK' /\ worker' = worker
    <2>1. call' \in [Request -> MailCall]
      BY <1>9, GotoKeeps DEF RecordSend
    <2> QED
      BY <1>9, <2>1 DEF RecordSend, TypeOK
  <1>10. ASSUME NEW r \in Request, SaveStatus(r) PROVE TypeOK' /\ worker' = worker
    <2>1. call' \in [Request -> MailCall]
      BY <1>10, GotoKeeps DEF SaveStatus
    <2>2. email' \in [status : {"none", "draft", "sent", "error"}, text : Text]
      BY <1>10 DEF SaveStatus, TypeOK
    <2> QED
      BY <1>10, <2>1, <2>2 DEF SaveStatus, TypeOK
  <1>14. ASSUME NEW r \in Request, FinishSend(r) PROVE TypeOK' /\ worker' = worker
    <2>1. call' \in [Request -> MailCall]
      BY <1>14, GotoKeeps DEF FinishSend
    <2> QED
      BY <1>14, <2>1 DEF FinishSend, TypeOK, Emission
  <1>11. ASSUME NEW r \in Request, SendFails(r) PROVE TypeOK' /\ worker' = worker
    <2>1. call' \in [Request -> MailCall]
      BY <1>11, GotoKeeps DEF SendFails
    <2> QED
      BY <1>11, <2>1 DEF SendFails, Fault, TypeOK
  <1>12. ASSUME NEW r \in Request, RecordError(r) PROVE TypeOK' /\ worker' = worker
    <2>1. call' \in [Request -> MailCall]
      BY <1>12, GotoKeeps DEF RecordError
    <2> QED
      BY <1>12, <2>1 DEF RecordError, TypeOK
  <1>13. ASSUME NEW r \in Request, MarkError(r) PROVE TypeOK' /\ worker' = worker
    <2>1. call' \in [Request -> MailCall]
      BY <1>13, GotoKeeps DEF MarkError
    <2>2. email' \in [status : {"none", "draft", "sent", "error"}, text : Text]
      BY <1>13 DEF MarkError, TypeOK
    <2> QED
      BY <1>13, <2>1, <2>2 DEF MarkError, TypeOK
  <1> QED
    BY <1>2, <1>3, <1>4, <1>5, <1>6, <1>7, <1>8, <1>9, <1>10, <1>11, <1>12, <1>13, <1>14
       DEF Endpoints, Calls

\* Every step keeps the types.
LEMMA TypeStep == TypeOK /\ Answered /\ [Next]_vars => TypeOK'
  <1> SUFFICES ASSUME TypeOK, Answered, [Next]_vars PROVE TypeOK'
    OBVIOUS
  <1>1. CASE UNCHANGED vars
    BY <1>1 DEF vars, TypeOK
  <1> QED
    BY <1>1, NextCases, ApprovalTypes, BusTypes, HandlerTypes, MailTypes

-----------------------------------------------------------------------------
(* What a run has in hand, and what an executed job has left. *)

\* Run d does its job's kind of work, and writes "delivered" only of jobs of p.
RunIsRight(d, p) == /\ d.at = "append" => d.job = SheetJob
                    /\ d.at \in {"post", "record"} => d.job # SheetJob
                    /\ d.at = "record" => d.status # "none"
                    /\ d.at = "record" /\ d.status = "delivered" => d.job \in p
\* What a job leaves behind.
OnRecord(j) == IF j = SheetJob THEN exported # "no" ELSE Delivered(j) \/ j \in missed
\* The invariant of the jobs.
DoneInv == /\ \A w \in Worker : RunIsRight(worker[w], posted)
           /\ \A j \in executed : OnRecord(j)
           /\ \A j \in Job : phase[j] = "done" => j \in executed
           /\ \A d \in rows : d[2] = "delivered" => d[1] \in posted

\* An idle worker has nothing in hand.
LEMMA IdleIsRight == \A p : RunIsRight(Idle, p)
  BY IdleType DEF RunIsRight

\* What was posted stays posted.
LEMMA RightStays ==
    ASSUME NEW d, NEW p, NEW q, RunIsRight(d, p), p \subseteq q
    PROVE  RunIsRight(d, q)
  BY DEF RunIsRight

\* What is on record stays there while rows, the export and endpoints do, and misses.
LEMMA RecordStays ==
    ASSUME DoneInv, exported # "no" => exported' # "no", missed \subseteq missed',
           rows \subseteq rows', endpoint' = endpoint
    PROVE  \A j \in executed : OnRecord(j)'
  BY DEF DoneInv, OnRecord, Delivered

\* A step that leaves the handlers' side alone, or frees workers, keeps it.
LEMMA DoneStays ==
    ASSUME DoneInv, \A w \in Worker : worker'[w] = worker[w] \/ worker'[w] = Idle,
           UNCHANGED <<jobs, hooks>>
    PROVE  DoneInv'
  <1>1. \A w \in Worker : RunIsRight(worker'[w], posted')
    BY IdleIsRight DEF DoneInv, hooks
  <1>2. \A j \in executed : OnRecord(j)'
    BY RecordStays DEF hooks
  <1> QED
    BY <1>1, <1>2 DEF DoneInv, jobs, hooks

\* Every step keeps it.
LEMMA DoneStep == TypeOK /\ DoneInv /\ [Next]_vars => DoneInv'
  <1> SUFFICES ASSUME TypeOK, DoneInv, [Next]_vars PROVE DoneInv'
    OBVIOUS
  <1>0. \A w \in Worker : worker[w].job \in Job /\ worker[w].status \in {"none", "delivered", "failed"}
    BY DEF TypeOK, Run
  <1>1. CASE Approve \/ GenerateDraft \/ DraftFails \/ ApproveAgain \/ SetPipeline \/ Crash
    <2>1. \A w \in Worker : worker'[w] = worker[w] \/ worker'[w] = Idle
      BY <1>1 DEF Approve, GenerateDraft, DraftFails, Announce, ApproveAgain, SetPipeline, Crash
    <2>2. UNCHANGED <<jobs, hooks>>
      BY <1>1 DEF Approve, GenerateDraft, DraftFails, Announce, ApproveAgain, SetPipeline, Crash
    <2> QED
      BY <2>1, <2>2, DoneStays
  <1>2. ASSUME NEW m \in Emission, Emit(m) \/ EmitFails(m) PROVE DoneInv'
    BY <1>2, DoneStays DEF Emit, EmitFails
  <1>3. ASSUME NEW j \in Job, Enqueue(j) PROVE DoneInv'
    <2>1. phase' = [phase EXCEPT ![j] = "open"] /\ executed' = executed
      BY <1>3 DEF Enqueue, Jobs!Accept
    <2>2. UNCHANGED <<worker, endpoint, rows, posted, exported, missed>>
      BY <1>3 DEF Enqueue, hooks
    <2>3. \A i \in executed : OnRecord(i)'
      BY <2>2, RecordStays
    <2> QED
      BY <2>1, <2>2, <2>3 DEF DoneInv, TypeOK
  <1>4. ASSUME NEW j \in Job, EnqueueFails(j) PROVE DoneInv'
    BY <1>4, DoneStays DEF EnqueueFails
  <1>5. ASSUME NEW j \in Job, Settle(j) PROVE DoneInv'
    <2>1. executed' = executed /\ \A i \in Job : phase'[i] = "done" => i \in executed
      BY <1>5 DEF Settle, Jobs!Close, DoneInv, TypeOK
    <2>2. UNCHANGED <<worker, endpoint, rows, posted, exported, missed>>
      BY <1>5 DEF Settle, hooks
    <2>3. \A i \in executed : OnRecord(i)'
      BY <2>2, RecordStays
    <2> QED
      BY <2>1, <2>2, <2>3 DEF DoneInv
  <1>6. ASSUME NEW w \in Worker, NEW j \in Job, Start(w, j) PROVE DoneInv'
    <2>1. UNCHANGED <<jobs, hooks>>
      BY <1>6 DEF Start
    <2> DEFINE at == IF j = SheetJob THEN "append" ELSE "post"
    <2>2. RunIsRight(Doing(at, j, "none"), posted)
      BY DoingType DEF RunIsRight
    <2>3. worker' = [worker EXCEPT ![w] = Doing(at, j, "none")]
      BY <1>6 DEF Start
    <2>4. \A v \in Worker : RunIsRight(worker'[v], posted')
      BY <2>1, <2>2, <2>3 DEF DoneInv, TypeOK, hooks
    <2>5. \A i \in executed : OnRecord(i)'
      BY <2>1, RecordStays DEF hooks
    <2> QED
      BY <2>1, <2>4, <2>5 DEF DoneInv, jobs, hooks
  <1>7. ASSUME NEW w \in Worker, NEW j \in Job, SkipMissing(w, j) PROVE DoneInv'
    <2>1. UNCHANGED <<worker, phase, endpoint, rows, posted, exported, missed>>
      BY <1>7 DEF SkipMissing, Jobs!Execute, hooks
    <2>2. executed' = executed \cup {j} /\ OnRecord(j)'
      BY <1>7, <2>1 DEF SkipMissing, Jobs!Execute, OnRecord, Delivered
    <2>3. \A i \in executed : OnRecord(i)'
      BY <2>1, RecordStays
    <2> QED
      BY <2>1, <2>2, <2>3 DEF DoneInv
  <1>16. ASSUME NEW w \in Worker, NEW j \in Job, SkipUnread(w, j) PROVE DoneInv'
    <2>1. UNCHANGED <<worker, phase, endpoint, rows, posted, exported>> /\ missed' = missed \cup {j}
      BY <1>16 DEF SkipUnread, Jobs!Execute
    <2>2. executed' = executed \cup {j} /\ OnRecord(j)'
      BY <1>16, <2>1 DEF SkipUnread, Jobs!Execute, OnRecord
    <2>3. \A i \in executed : OnRecord(i)'
      BY <2>1, RecordStays
    <2> QED
      BY <2>1, <2>2, <2>3 DEF DoneInv
  <1>8. ASSUME NEW w \in Worker, NEW s \in {"delivered", "failed"}, Post(w, s) PROVE DoneInv'
    <2> DEFINE d == Doing("record", worker[w].job, s)
    <2>1. d \in Run /\ d.at = "record" /\ d.job = worker[w].job /\ d.status = s
      BY <1>0, DoingType
    <2> HIDE DEF d
    <2>2. /\ worker[w].at = "post" /\ worker' = [worker EXCEPT ![w] = d]
          /\ posted' = IF s = "delivered" THEN posted \cup {worker[w].job} ELSE posted
          /\ UNCHANGED <<jobs, endpoint, rows, exported, missed>>
      BY <1>8 DEF Post, d
    <2>3. posted \subseteq posted'
      BY <2>2
    <2>4. RunIsRight(d, posted')
      BY <2>1, <2>2 DEF RunIsRight, DoneInv
    <2>5. \A v \in Worker : RunIsRight(worker'[v], posted')
      BY <2>2, <2>3, <2>4, RightStays DEF DoneInv, TypeOK
    <2>6. \A i \in executed : OnRecord(i)'
      BY <2>2, RecordStays
    <2> QED
      BY <2>2, <2>3, <2>5, <2>6 DEF DoneInv, jobs
  <1>9. ASSUME NEW w \in Worker, NEW j \in Job, j = worker[w].job, Record(w) PROVE DoneInv'
    <2>1. /\ rows' = rows \cup {<<j, worker[w].status>>}
          /\ executed' = executed \cup {j} /\ worker' = [worker EXCEPT ![w] = Idle]
          /\ UNCHANGED <<phase, endpoint, posted, exported, missed>>
      BY <1>9 DEF Record, Jobs!Execute
    <2>2. \A v \in Worker : RunIsRight(worker'[v], posted')
      BY <2>1, IdleIsRight DEF DoneInv, TypeOK
    <2>3. \A d \in rows' : d[2] = "delivered" => d[1] \in posted'
      BY <1>9, <2>1 DEF Record, DoneInv, RunIsRight
    <2>4. OnRecord(j)'
      <3>1. j # SheetJob /\ worker[w].status \in {"delivered", "failed"}
        BY <1>0, <1>9 DEF Record, DoneInv, RunIsRight
      <3>2. <<j, worker[w].status>> \in rows'
        BY <2>1
      <3> QED
        BY <1>9, <3>1, <3>2 DEF OnRecord, Delivered
    <2>5. \A i \in executed : OnRecord(i)'
      BY <2>1, RecordStays
    <2> QED
      BY <2>1, <2>2, <2>3, <2>4, <2>5 DEF DoneInv
  <1>10. ASSUME NEW w \in Worker, RecordRefused(w) \/ HandlerFails(w) PROVE DoneInv'
    <2>1. worker' = [worker EXCEPT ![w] = Idle] /\ UNCHANGED <<jobs, hooks>>
      BY <1>10 DEF RecordRefused, HandlerFails
    <2> QED
      BY <2>1, DoneStays DEF TypeOK
  <1>11. ASSUME NEW w \in Worker, AppendRow(w) \/ SkipExport(w) PROVE DoneInv'
    <2>1. /\ exported' # "no" /\ executed' = executed \cup {SheetJob}
          /\ worker' = [worker EXCEPT ![w] = Idle]
          /\ UNCHANGED <<phase, endpoint, rows, posted, missed>>
      BY <1>11 DEF AppendRow, SkipExport, Jobs!Execute, DoneInv, RunIsRight
    <2>2. \A v \in Worker : RunIsRight(worker'[v], posted')
      BY <2>1, IdleIsRight DEF DoneInv, TypeOK
    <2>3. \A i \in executed : OnRecord(i)'
      BY <2>1, RecordStays
    <2> QED
      BY <2>1, <2>2, <2>3 DEF DoneInv, OnRecord
  <1>12. ASSUME NEW e \in Endpoint, NEW s \in {"enabled", "disabled"}, NEW h \in Subscription,
                CreateEndpoint(e, h) \/ UpdateEndpoint(e, s, h)
         PROVE  DoneInv'
    <2>1. /\ \A i \in Endpoint : endpoint[i] = "gone" => endpoint'[i] = "gone"
          /\ UNCHANGED <<jobs, worker, posted, exported, missed, rows>>
      BY <1>12 DEF CreateEndpoint, UpdateEndpoint, SetEndpoint, TypeOK
    <2>2. \A i \in executed : OnRecord(i)'
      <3> SUFFICES ASSUME NEW i \in executed PROVE OnRecord(i)'
        OBVIOUS
      <3>1. OnRecord(i) /\ (i # SheetJob => i.to \in Endpoint)
        BY JobGoesTo DEF DoneInv, TypeOK
      <3> QED
        BY <2>1, <3>1 DEF OnRecord, Delivered
    <2> QED
      BY <2>1, <2>2 DEF DoneInv, jobs
  <1>13. ASSUME NEW e \in Endpoint, RemoveEndpoint(e) PROVE DoneInv'
    <2>1. /\ endpoint' = [endpoint EXCEPT ![e] = "gone"] /\ rows' = {d \in rows : d[1].to # e}
          /\ UNCHANGED <<jobs, worker, posted, exported, missed>>
      BY <1>13 DEF RemoveEndpoint, SetEndpoint
    <2>2. \A i \in executed : OnRecord(i)'
      <3> SUFFICES ASSUME NEW i \in executed PROVE OnRecord(i)'
        OBVIOUS
      <3>1. OnRecord(i) /\ (i # SheetJob => i.to \in Endpoint)
        BY JobGoesTo DEF DoneInv, TypeOK
      <3>2. CASE i = SheetJob
        BY <2>1, <3>1, <3>2 DEF OnRecord
      <3>3. CASE i # SheetJob /\ i.to = e
        BY <2>1, <3>1, <3>3 DEF OnRecord, Delivered, TypeOK
      <3>4. CASE i # SheetJob /\ i.to # e
        <4>1. \A s \in {"delivered", "failed"} : <<i, s>> \in rows => <<i, s>> \in rows'
          BY <2>1, <3>4
        <4>2. endpoint'[i.to] = endpoint[i.to]
          BY <2>1, <3>1, <3>4 DEF TypeOK
        <4> QED
          BY <2>1, <3>1, <3>4, <4>1, <4>2 DEF OnRecord, Delivered
      <3> QED
        BY <3>2, <3>3, <3>4
    <2> QED
      BY <2>1, <2>2 DEF DoneInv, jobs
  <1>14. ASSUME NEW r \in Request, Calls(r) PROVE DoneInv'
    <2>1. UNCHANGED <<jobs, worker, hooks>>
      BY <1>14 DEF Calls, BeginEdit, WriteEdit, BeginSend, Mail, RecordSend, SaveStatus,
                   FinishSend, SendFails, RecordError, MarkError, Quiet
    <2> QED
      BY <2>1, DoneStays
  <1>15. CASE UNCHANGED vars
    BY <1>15, DoneStays DEF vars, jobs, hooks
  <1> QED
    BY <1>0, <1>1, <1>2, <1>3, <1>4, <1>5, <1>6, <1>7, <1>8, <1>9, <1>10, <1>11, <1>12, <1>13,
       <1>14, <1>15, <1>16, NextCases DEF Endpoints

-----------------------------------------------------------------------------
(* The mail. *)

\* A send that has read the text and has no row yet, and one that has its row.
Busy(c) == c.at \in {"mailing", "mailed"}
Counts(r, S) == <<r, "sent">> \in S
\* Nobody is under way, and nothing was sent, before there is a draft.
Untouched == /\ approval \in {"pending", "drafting"} => email.status = "none"
             /\ email.status = "none" => \A r \in Request : call[r].at = "none"
             /\ email.status = "none" => \A r \in Request : ~Counts(r, sends)
\* A send that ran beside no edit and before no other approval carries the text that stands.
Stands(r) == (Busy(call[r]) \/ Counts(r, sends))
                 => call[r].text = email.text /\ \A q \in Request : call[q].at # "editing"
\* A call past its row has it.
Rowed == \A r \in Request : call[r].at \in {"recorded", "saved"} => Counts(r, sends)
\* The invariant of the mail.
MailInv == /\ Untouched
           /\ \A r \in Request \ raced : Stands(r)
           /\ Rowed /\ SentHasRow

\* What a step that leaves the mail and the pipeline's status alone keeps.
LEMMA MailStays ==
    ASSUME MailInv, UNCHANGED mail, pipeline' \in {pipeline, "other"},
           approval' \in {"pending", "drafting"} => approval \in {"pending", "drafting"}
    PROVE  MailInv'
  <1>1. \A r \in Request \ raced' : Stands(r)'
    BY DEF MailInv, Stands, Busy, Counts, mail
  <1>2. Untouched'
    BY DEF MailInv, Untouched, Counts, mail
  <1>3. Rowed' /\ SentHasRow'
    BY DEF MailInv, Rowed, SentHasRow, SentOnce, Counts, mail
  <1> QED
    BY <1>1, <1>2, <1>3 DEF MailInv

\* Every step keeps it.
LEMMA MailStep == TypeOK /\ MailInv /\ [Next]_vars => MailInv'
  <1> SUFFICES ASSUME TypeOK, MailInv, [Next]_vars PROVE MailInv'
    OBVIOUS
  <1> USE DEF Quiet
  <1>1. CASE Approve \/ SetPipeline
    BY <1>1, MailStays DEF Approve, SetPipeline
  <1>2. CASE DraftFails
    BY <1>2 DEF DraftFails, Announce, MailInv, Untouched, Stands, Rowed, SentHasRow, SentOnce,
                Busy, Counts
  <1>3. CASE GenerateDraft \/ ApproveAgain
    <2>1. \E t : Upsert(t)
      BY <1>3 DEF GenerateDraft, ApproveAgain
    <2>2. UNCHANGED <<sends, call, pipeline>> /\ approval' \notin {"pending", "drafting"}
      BY <1>3 DEF GenerateDraft, Announce, ApproveAgain
    <2>3. \A r \in Request \ raced' : ~Busy(call[r]) /\ ~Counts(r, sends)
      BY <2>1 DEF Upsert, Carried, Busy, Counts
    <2>4. email'.status # "none" /\ (email'.status = "sent" => email.status = "sent")
      BY <2>1 DEF Upsert, TypeOK
    <2> QED
      BY <2>2, <2>3, <2>4 DEF MailInv, Untouched, Stands, Rowed, SentHasRow, SentOnce, Counts
  <1>4. CASE Crash
    <2>1. UNCHANGED <<email, sends, raced, pipeline>>
      BY <1>4 DEF Crash
    <2>2. \A r \in Request : /\ call'[r].text = call[r].text
                             /\ call'[r].at = IF call[r].at = "none" THEN "none" ELSE "over"
      <3>1. \A r \in Request : call[r].text \in Text
        BY DEF TypeOK, MailCall
      <3> QED
        BY <1>4, <3>1, StepType DEF Crash
    <2>3. \A r \in Request \ raced' : Stands(r)'
      BY <2>1, <2>2 DEF MailInv, Stands, Busy, Counts
    <2>4. Untouched' /\ Rowed' /\ SentHasRow'
      BY <1>4, <2>1, <2>2 DEF Crash, MailInv, Untouched, Rowed, SentHasRow, SentOnce, Counts
    <2> QED
      BY <2>3, <2>4 DEF MailInv
  <1>5. ASSUME NEW m \in Emission, Emit(m) \/ EmitFails(m) PROVE MailInv'
    BY <1>5, MailStays DEF Emit, EmitFails
  <1>6. ASSUME NEW j \in Job, Enqueue(j) \/ EnqueueFails(j) \/ Settle(j) PROVE MailInv'
    BY <1>6, MailStays DEF Enqueue, EnqueueFails, Settle
  <1>7. ASSUME NEW w \in Worker, NEW j \in Job, Start(w, j) \/ SkipMissing(w, j) \/ SkipUnread(w, j)
        PROVE  MailInv'
    BY <1>7, MailStays DEF Start, SkipMissing, SkipUnread
  <1>8. ASSUME NEW w \in Worker, NEW s \in {"delivered", "failed"}, Post(w, s) PROVE MailInv'
    BY <1>8, MailStays DEF Post
  <1>9. ASSUME NEW w \in Worker,
               \/ Record(w) \/ RecordRefused(w)
               \/ AppendRow(w) \/ SkipExport(w) \/ HandlerFails(w)
        PROVE  MailInv'
    BY <1>9, MailStays DEF Record, RecordRefused, AppendRow, SkipExport, HandlerFails
  <1>10. CASE Endpoints
    BY <1>10, MailStays DEF Endpoints, CreateEndpoint, RemoveEndpoint, UpdateEndpoint, SetEndpoint
  <1>11. ASSUME NEW r \in Request, BeginEdit(r) PROVE MailInv'
    <2>1. /\ call'[r].at = "editing" /\ call'[r].text = call[r].text
          /\ \A q \in Request \ {r} : call'[q] = call[q]
      BY <1>11, GotoKeeps DEF BeginEdit
    <2>2. /\ UNCHANGED <<email, sends, pipeline, approval>> /\ raced' = raced \cup Unrecorded
          /\ email.status # "none" /\ ~SentOnce
      BY <1>11 DEF BeginEdit, Fresh
    <2>3. \A q \in Request \ raced' : Stands(q)'
      BY <2>1, <2>2 DEF Stands, Busy, Counts, Unrecorded, SentOnce
    <2>4. Untouched' /\ Rowed' /\ SentHasRow'
      BY <2>1, <2>2 DEF MailInv, Untouched, Rowed, SentHasRow, SentOnce, Counts
    <2> QED
      BY <2>3, <2>4 DEF MailInv
  <1>12. ASSUME NEW r \in Request, WriteEdit(r) PROVE MailInv'
    <2>1. /\ call[r].at = "editing" /\ call'[r].at = "over" /\ call'[r].text = call[r].text
          /\ \A q \in Request \ {r} : call'[q] = call[q]
      BY <1>12, GotoKeeps DEF WriteEdit
    <2>2. UNCHANGED <<sends, raced, pipeline, approval>> /\ email'.status = email.status
      BY <1>12 DEF WriteEdit, TypeOK
    <2>3. \A q \in Request \ raced' : Stands(q)'
      BY <2>1, <2>2 DEF MailInv, Stands, Busy, Counts
    <2>4. Untouched' /\ Rowed' /\ SentHasRow'
      BY <2>1, <2>2 DEF MailInv, Untouched, Rowed, SentHasRow, SentOnce, Counts
    <2> QED
      BY <2>3, <2>4 DEF MailInv
  <1>13. ASSUME NEW r \in Request, BeginSend(r) PROVE MailInv'
    <2>1. /\ call[r].at = "none" /\ call'[r].at = "mailing" /\ call'[r].text = email.text
          /\ \A q \in Request \ {r} : call'[q] = call[q]
      BY <1>13, StepType DEF BeginSend, Fresh, TypeOK
    <2>2. /\ UNCHANGED <<email, sends, pipeline, approval>> /\ email.status # "none"
          /\ raced' = IF Editing = {} THEN raced ELSE raced \cup {r}
      BY <1>13 DEF BeginSend, Fresh
    <2>3. \A q \in Request \ raced' : Stands(q)'
      BY <2>1, <2>2 DEF MailInv, Stands, Busy, Counts, Editing
    <2>4. Untouched' /\ Rowed' /\ SentHasRow'
      BY <2>1, <2>2 DEF MailInv, Untouched, Rowed, SentHasRow, SentOnce, Counts
    <2> QED
      BY <2>3, <2>4 DEF MailInv
  <1>14. ASSUME NEW r \in Request, Mail(r) PROVE MailInv'
    <2>1. /\ call[r].at = "mailing" /\ call'[r].at = "mailed" /\ call'[r].text = call[r].text
          /\ \A q \in Request \ {r} : call'[q] = call[q]
      BY <1>14, GotoKeeps DEF Mail
    <2>2. UNCHANGED <<email, sends, raced, pipeline, approval>>
      BY <1>14 DEF Mail
    <2>3. \A q \in Request \ raced' : Stands(q)'
      BY <2>1, <2>2 DEF MailInv, Stands, Busy, Counts
    <2>4. Untouched' /\ Rowed' /\ SentHasRow'
      BY <2>1, <2>2 DEF MailInv, Untouched, Rowed, SentHasRow, SentOnce, Counts
    <2> QED
      BY <2>3, <2>4 DEF MailInv
  <1>15. ASSUME NEW r \in Request, RecordSend(r) PROVE MailInv'
    <2>1. /\ call[r].at = "mailed" /\ call'[r].at = "recorded" /\ call'[r].text = call[r].text
          /\ \A q \in Request \ {r} : call'[q] = call[q]
      BY <1>15, GotoKeeps DEF RecordSend
    <2>2. UNCHANGED <<email, raced, pipeline, approval>> /\ sends' = sends \cup {<<r, "sent">>}
      BY <1>15 DEF RecordSend
    <2>3. \A q \in Request \ raced' : Stands(q)'
      BY <2>1, <2>2 DEF MailInv, Stands, Busy, Counts
    <2>4. email.status # "none"
      BY <2>1 DEF MailInv, Untouched
    <2>5. Untouched' /\ Rowed' /\ SentHasRow'
      BY <2>1, <2>2, <2>4 DEF MailInv, Untouched, Rowed, SentHasRow, SentOnce, Counts
    <2> QED
      BY <2>3, <2>5 DEF MailInv
  <1>16. ASSUME NEW r \in Request, SaveStatus(r) PROVE MailInv'
    <2>1. /\ call[r].at = "recorded" /\ call'[r].at = "saved" /\ call'[r].text = call[r].text
          /\ \A q \in Request \ {r} : call'[q] = call[q]
      BY <1>16, GotoKeeps DEF SaveStatus
    <2>2. /\ UNCHANGED <<sends, raced, pipeline, approval>> /\ email'.text = email.text
          /\ email'.status = "sent" /\ Counts(r, sends)
      BY <1>16, <2>1 DEF SaveStatus, TypeOK, MailInv, Rowed
    <2>3. \A q \in Request \ raced' : Stands(q)'
      BY <2>1, <2>2 DEF MailInv, Stands, Busy, Counts
    <2>4. email.status # "none"
      BY <2>1 DEF MailInv, Untouched
    <2>5. Untouched' /\ Rowed' /\ SentHasRow'
      BY <2>1, <2>2, <2>4 DEF MailInv, Untouched, Rowed, SentHasRow, SentOnce, Counts
    <2> QED
      BY <2>3, <2>5 DEF MailInv
  <1>21. ASSUME NEW r \in Request, FinishSend(r) PROVE MailInv'
    <2>1. /\ call[r].at = "saved" /\ call'[r].at = "over" /\ call'[r].text = call[r].text
          /\ \A q \in Request \ {r} : call'[q] = call[q]
      BY <1>21, GotoKeeps DEF FinishSend
    <2>2. UNCHANGED <<email, sends, raced, approval>> /\ Counts(r, sends)
      BY <1>21, <2>1 DEF FinishSend, MailInv, Rowed
    <2>3. \A q \in Request \ raced' : Stands(q)'
      BY <2>1, <2>2 DEF MailInv, Stands, Busy, Counts
    <2>4. Untouched' /\ Rowed' /\ SentHasRow'
      BY <2>1, <2>2 DEF MailInv, Untouched, Rowed, SentHasRow, SentOnce, Counts
    <2> QED
      BY <2>3, <2>4 DEF MailInv
  <1>17. ASSUME NEW r \in Request, SendFails(r) PROVE MailInv'
    <2>1. /\ call[r].at \in {"mailed", "recorded", "saved"} /\ call'[r].at = "failing"
          /\ call'[r].text = call[r].text /\ \A q \in Request \ {r} : call'[q] = call[q]
      BY <1>17, GotoKeeps DEF SendFails
    <2>2. UNCHANGED <<email, sends, raced, pipeline, approval>>
      BY <1>17 DEF SendFails
    <2>3. \A q \in Request \ raced' : Stands(q)'
      BY <2>1, <2>2 DEF MailInv, Stands, Busy, Counts
    <2>4. Untouched' /\ Rowed' /\ SentHasRow'
      BY <2>1, <2>2 DEF MailInv, Untouched, Rowed, SentHasRow, SentOnce, Counts
    <2> QED
      BY <2>3, <2>4 DEF MailInv
  <1>18. ASSUME NEW r \in Request, RecordError(r) PROVE MailInv'
    <2>1. /\ call[r].at = "failing" /\ call'[r].at = "failed" /\ call'[r].text = call[r].text
          /\ \A q \in Request \ {r} : call'[q] = call[q]
      BY <1>18, GotoKeeps DEF RecordError
    <2>2. UNCHANGED <<email, raced, pipeline, approval>> /\ \A q : Counts(q, sends') <=> Counts(q, sends)
      BY <1>18 DEF RecordError, Counts
    <2>3. \A q \in Request \ raced' : Stands(q)'
      BY <2>1, <2>2 DEF MailInv, Stands, Busy
    <2>4. Untouched' /\ Rowed' /\ SentHasRow'
      BY <2>1, <2>2 DEF MailInv, Untouched, Rowed, SentHasRow, SentOnce, Counts
    <2> QED
      BY <2>3, <2>4 DEF MailInv
  <1>19. ASSUME NEW r \in Request, MarkError(r) PROVE MailInv'
    <2>1. /\ call[r].at = "failed" /\ call'[r].at = "over" /\ call'[r].text = call[r].text
          /\ \A q \in Request \ {r} : call'[q] = call[q]
      BY <1>19, GotoKeeps DEF MarkError
    <2>2. /\ UNCHANGED <<sends, raced, pipeline, approval>>
          /\ email'.text = email.text /\ email'.status = "error" /\ email.status # "none"
      BY <1>19, <2>1 DEF MarkError, TypeOK, MailInv, Untouched
    <2>3. \A q \in Request \ raced' : Stands(q)'
      BY <2>1, <2>2 DEF MailInv, Stands, Busy, Counts
    <2>4. Untouched' /\ Rowed' /\ SentHasRow'
      BY <2>1, <2>2 DEF MailInv, Untouched, Rowed, SentHasRow, SentOnce, Counts
    <2> QED
      BY <2>3, <2>4 DEF MailInv
  <1>20. CASE UNCHANGED vars
    BY <1>20, MailStays DEF vars, mail
  <1> QED
    BY <1>1, <1>2, <1>3, <1>4, <1>5, <1>6, <1>7, <1>8, <1>9, <1>10, <1>11, <1>12, <1>13, <1>14,
       <1>15, <1>16, <1>17, <1>18, <1>19, <1>20, <1>21, NextCases DEF Calls

-----------------------------------------------------------------------------
(* The theorems. *)

Inv == TypeOK /\ DoneInv /\ MailInv

\* The first states satisfy the invariant.
LEMMA InitInv == Init => Inv
  <1> SUFFICES ASSUME Init PROVE Inv
    OBVIOUS
  <1> USE OutboxAssumption DEF Init
  <1>1. \A w \in Worker : worker[w] = Idle
    OBVIOUS
  <1>2. \A r \in Request : call[r] = Step("none", "generated") /\ call[r].at = "none"
    BY StepType DEF Text
  <1>3. TypeOK
    <2>1. worker \in [Worker -> Run]
      BY IdleType
    <2>2. call \in [Request -> MailCall]
      BY StepType DEF Text
    <2>3. phase \in [Job -> Jobs!Phase] /\ executed \subseteq Job
      BY DEF Jobs!Init, Jobs!Phase
    <2>4. email \in [status : {"none", "draft", "sent", "error"}, text : Text]
      BY DEF Text
    <2>5. endpoint \in [Endpoint -> EndpointStatus]
      BY DEF EndpointStatus
    <2>6. faults \in 0..MaxFaults /\ rows \subseteq Job \X {"delivered", "failed"}
      OBVIOUS
    <2>7. emitting \subseteq Emission /\ asked \subseteq Job /\ posted \subseteq Job
      OBVIOUS
    <2>8. sends \subseteq Request \X {"sent", "error"} /\ raced \subseteq Request
      OBVIOUS
    <2> QED
      BY <2>1, <2>2, <2>3, <2>4, <2>5, <2>6, <2>7, <2>8 DEF TypeOK
  <1>4. DoneInv
    BY <1>1, IdleIsRight DEF DoneInv, Jobs!Init
  <1>5. MailInv
    BY <1>2 DEF MailInv, Untouched, Stands, Rowed, SentHasRow, Busy, Counts
  <1> QED
    BY <1>3, <1>4, <1>5 DEF Inv

\* The types, the jobs' records and the mail, together, in every state.
THEOREM Invariant == Spec => []Inv
  <1>1. Inv /\ [Next]_vars => Inv'
    <2>1. DoneInv => Answered
      BY DEF DoneInv, RunIsRight, Answered
    <2> QED
      BY <2>1, TypeStep, DoneStep, MailStep DEF Inv
  <1> QED
    BY <1>1, InitInv, PTL DEF Spec

\* Every variable keeps its type, whatever fails, races or dies.
THEOREM Types == Spec => []TypeOK
  <1>1. Inv => TypeOK
    BY DEF Inv
  <1> QED
    BY <1>1, Invariant, PTL

\* A job is done only when its effect is on record, or nothing is configured for it,
\* or its endpoint is gone or could not be looked up; and a delivery row does not
\* claim a POST that was not taken (the handlers of sheet_export and webhook_deliver).
THEOREM DoneIsRecorded == Spec => []DoneMeansRecorded
  <1>1. Inv => DoneMeansRecorded
    BY DEF Inv, DoneInv, OnRecord, DoneMeansRecorded
  <1> QED
    BY <1>1, Invariant, PTL

\* A mail that counts as sent has its row, and shows the text that was mailed
\* unless an edit ran beside the send or another approval came after it
\* (QuoteEmailService.send, updateDraft, generateDraft).
THEOREM SentStandsOnRecord == Spec => []SentMailIsOnRecord
  <1>1. Inv => SentMailIsOnRecord
    BY DEF Inv, MailInv, Stands, Counts, SentMailIsOnRecord, SentTextStands, SentHasRow
  <1> QED
    BY <1>1, Invariant, PTL

\* A step leaves the job table as it is, or does to it what JobLedger allows.
LEMMA JobsStep ==
    ASSUME TypeOK, [Next]_vars
    PROVE  [Jobs!Next]_(Jobs!ledger)
  <1> USE DEF Jobs!Next, Jobs!ledger
  <1>1. (\E j \in Job : Enqueue(j)) => \E j \in Job : Jobs!Accept(j)
    BY DEF Enqueue
  <1>2. (\E j \in Job : Settle(j)) => \E S \in SUBSET Job : Jobs!Close(S)
    <2> SUFFICES ASSUME NEW j \in Job, Settle(j)
                 PROVE  \E S \in SUBSET Job : Jobs!Close(S)
      OBVIOUS
    <2> WITNESS {j} \in SUBSET Job
    <2> QED
      BY DEF Settle
  <1>3. (\E w \in Worker, j \in Job : SkipMissing(w, j) \/ SkipUnread(w, j))
          => \E j \in Job : Jobs!Execute(j)
    BY DEF SkipMissing, SkipUnread
  <1>4. (\E w \in Worker : Record(w) \/ AppendRow(w) \/ SkipExport(w))
          => \E j \in Job : Jobs!Execute(j)
    <2> SUFFICES ASSUME NEW w \in Worker, Record(w) \/ AppendRow(w) \/ SkipExport(w)
                 PROVE  \E j \in Job : Jobs!Execute(j)
      OBVIOUS
    <2>1. worker[w].job \in Job
      BY DEF TypeOK, Run
    <2> QED
      BY <2>1 DEF Record, AppendRow, SkipExport
  <1>5. CASE UNCHANGED jobs
    BY <1>5 DEF jobs
  <1>6. \/ UNCHANGED jobs
        \/ \E j \in Job : Enqueue(j) \/ Settle(j)
        \/ \E w \in Worker, j \in Job : SkipMissing(w, j) \/ SkipUnread(w, j)
        \/ \E w \in Worker : Record(w) \/ AppendRow(w) \/ SkipExport(w)
    <2>1. Endpoints \/ (\E r \in Request : Calls(r)) => UNCHANGED jobs
      BY DEF jobs, Endpoints, SetEndpoint, CreateEndpoint, RemoveEndpoint, UpdateEndpoint, Quiet,
         Calls, BeginEdit, WriteEdit, BeginSend, Mail, RecordSend, SaveStatus, FinishSend,
         SendFails, RecordError, MarkError
    <2> QED
      BY <2>1, NextCases DEF jobs, vars, Approve, Announce, GenerateDraft, DraftFails, ApproveAgain,
         SetPipeline, Crash, Emit, EmitFails, EnqueueFails, Start, Post, RecordRefused, HandlerFails
  <1> QED
    BY <1>1, <1>2, <1>3, <1>4, <1>5, <1>6

\* The emitter and the handlers use the job table only as it promises to be
\* used (JobLedger, which JobQueue implements): a job is inserted once, its
\* handler runs while it is open, and it is closed once. What is said of the
\* two modules apart holds of them together.
THEOREM OutboxKeepsLedger == Spec => Jobs!Spec
  <1>1. Init => Jobs!Init
    BY DEF Init
  <1>2. Inv => TypeOK
    BY DEF Inv
  <1> QED
    BY <1>1, <1>2, JobsStep, Invariant, PTL DEF Spec, Jobs!Spec
=============================================================================
