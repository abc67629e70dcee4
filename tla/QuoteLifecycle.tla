---------------------------- MODULE QuoteLifecycle ----------------------------
(***************************************************************************)
(* What the quote of an RFQ promises to the staff and to the customer,     *)
(* with no requests, no transactions and no links' rows: it is drafted,    *)
(* submitted, approved, told of and answered, and every one of these steps *)
(* is taken in the state it was meant for. A step may miss that state only *)
(* when it owns up to it: the promise is torn from then on, for all steps. *)
(* Even a torn quote exists before anything happens to it, tells of no     *)
(* approval before there was one, and only a customer's answer answers.    *)
(***************************************************************************)
CONSTANTS Text, NoText,
          Answer,       \* the statuses a customer may give the quote
          Link          \* the share links that may ever be created

VARIABLES status,       \* where the quote stands, "none" before it exists
          text,         \* what it says
          submitted,    \* what it said when it was last submitted
          approved,     \* it was approved at some time
          told,         \* somebody outside was told of the approval
          answered,     \* the links the customer has answered through
          torn          \* a step was taken in a state it was not meant for

lifecycle == <<status, text, submitted, approved, told, answered, torn>>

UnderReview == {"pending_approval", "approved"}

Init == /\ status = "none" /\ text = NoText /\ submitted = NoText
        /\ approved = FALSE /\ told = FALSE /\ answered = {} /\ torn = FALSE

\* The step is meant for states with g.
MeantFor(g) == (g \/ torn') /\ (torn => torn')

\* The quote comes into being.
Open(t) == /\ status = "none" /\ status' = "draft" /\ text' = t
           /\ UNCHANGED <<submitted, approved, told, answered, torn>>

\* New contents; an edit moves the quote nowhere.
Edit(t) == /\ status # "none"
           /\ MeantFor(status \notin UnderReview)
           /\ text' = t
           /\ UNCHANGED <<status, submitted, approved, told, answered>>

Submit == /\ status # "none"
          /\ MeantFor(status = "draft")
          /\ status' = "pending_approval" /\ submitted' = text
          /\ UNCHANGED <<text, approved, told, answered>>

Approve == /\ submitted # NoText
           /\ MeantFor(status = "pending_approval" /\ text = submitted)
           /\ status' = "approved" /\ approved' = TRUE
           /\ UNCHANGED <<text, submitted, told, answered>>

Tell == /\ approved /\ told' = TRUE
        /\ UNCHANGED <<status, text, submitted, approved, answered, torn>>

\* The customer answers through link k, for the first time.
Reply(k, a) == /\ status # "none"
               /\ MeantFor(k \notin answered)
               /\ status' = a /\ answered' = answered \cup {k}
               /\ UNCHANGED <<text, submitted, approved, told>>

Next == \/ \E t \in Text : Open(t) \/ Edit(t)
        \/ Submit \/ Approve \/ Tell
        \/ \E k \in Link, a \in Answer : Reply(k, a)

Spec == Init /\ [][Next]_lifecycle
=============================================================================
