------------------------------- MODULE IntakeLog -------------------------------
(***************************************************************************)
(* What the connectors promise of the messages that reach the company,     *)
(* with no registry, no runs, no counts and no retries: RFQs are a log     *)
(* that only grows at its end. A message is written down after it was      *)
(* received, with its file and the entry it answers, which is an earlier   *)
(* one of its own mailbox; nothing rewrites an entry; and a mail is marked *)
(* as read only once it is in the log.                                     *)
(***************************************************************************)
EXTENDS Naturals, Sequences

CONSTANTS Mail, Pushed,  \* messages that are fetched, and those that are handed in
          Boxes,         \* the sets of messages that share a source
          Once,          \* messages that come with an id of their own
          File           \* what may be recorded of a message's file

VARIABLES received,      \* messages that have reached the company
          unread,        \* the mails among them that are not marked as read
          log            \* the RFQs: sequence of [msg, answers, file]

intake == <<received, unread, log>>

Entry(m, a, f) == [msg |-> m, answers |-> a, file |-> f]
Logged(m) == \E i \in DOMAIN log : log[i].msg = m

Init == received = {} /\ unread = {} /\ log = <<>>

Receive(m) == /\ m \notin received
              /\ received' = received \cup {m}
              /\ unread' = unread \cup ({m} \cap Mail)
              /\ UNCHANGED log

\* The next RFQ. It answers entry a, or opens a conversation when a is 0.
Write(m, a, f) == /\ m \in received
                  /\ m \in Once => ~Logged(m)
                  /\ \/ a = 0
                     \/ /\ a \in DOMAIN log
                        /\ \E B \in Boxes : {m, log[a].msg} \subseteq B
                  /\ log' = Append(log, Entry(m, a, f))
                  /\ UNCHANGED <<received, unread>>

MarkRead(m) == /\ m \in unread /\ unread' = unread \ {m}
               /\ Logged(m)
               /\ UNCHANGED <<received, log>>

\* Writing changes the log: said apart, it spares TLC the choice in all other steps.
Next == \/ \E m \in Mail \cup Pushed : Receive(m) \/ MarkRead(m)
        \/ /\ log' # log
           /\ \E m \in Mail \cup Pushed, a \in {0} \cup DOMAIN log, f \in File :
                Write(m, a, f)

Spec == Init /\ [][Next]_intake
=============================================================================
