------------------------------ MODULE JobLedger ------------------------------
(***************************************************************************)
(* What the background-job table promises to the services that enqueue on  *)
(* it, with no ticks, no clock and no attempts: a job is absent, then open *)
(* (accepted, and somebody may still work on it), then closed with one     *)
(* outcome, and a closed job stays as it is.                               *)
(***************************************************************************)
CONSTANT Job          \* the rows that may ever be created

VARIABLES phase,      \* [Job -> Phase]
          executed    \* the jobs whose handler has run to completion at least once

ledger == <<phase, executed>>

Phase == {"absent", "open", "done", "failed"}
Closed == {"done", "failed"}

Init == /\ phase = [j \in Job |-> "absent"]
        /\ executed = {}

\* A caller enqueues job j.
Accept(j) == /\ phase[j] = "absent"
             /\ phase' = [phase EXCEPT ![j] = "open"]
             /\ UNCHANGED executed

\* The handler of open job j completes; at-least-once, so it may do so again.
Execute(j) == /\ phase[j] = "open"
              /\ executed' = executed \cup {j}
              /\ UNCHANGED phase

\* Jobs of S reach their final outcome together; "done" is only said of an
\* executed job. They are several when the process that might still have
\* worked on them dies.
Close(S) == /\ S # {} /\ \A j \in S : phase[j] = "open"
            /\ \E outcome \in [S -> Closed] :
                 /\ \A j \in S : outcome[j] = "done" => j \in executed
                 /\ phase' = [j \in Job |-> IF j \in S THEN outcome[j] ELSE phase[j]]
            /\ UNCHANGED executed

Next == \/ \E j \in Job : Accept(j) \/ Execute(j)
        \/ \E S \in SUBSET Job : Close(S)

Spec == Init /\ [][Next]_ledger
=============================================================================
