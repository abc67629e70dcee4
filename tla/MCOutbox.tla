------------------------------ MODULE MCOutbox ------------------------------
(* Instances of Outbox for TLC.                                            *)
EXTENDS Outbox, TLC

\* What an endpoint may be registered for.
OnlySent == {{"quote.sent"}}
AnyEvent == {{"quote.sent"}, {"quote.approved", "quote.sent"}}

\* The calls of the mail tab are interchangeable.
Symmetry == Permutations(Request)
=============================================================================
