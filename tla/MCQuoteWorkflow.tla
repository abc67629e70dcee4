--------------------------- MODULE MCQuoteWorkflow ---------------------------
(* Instances of QuoteWorkflow for TLC. *)
EXTENDS QuoteWorkflow, TLC

\* The staff requests are interchangeable, and so are the texts a quote may have and
\* the answers of its customer.
Symmetry == Permutations(Operator) \cup Permutations(Text) \cup Permutations(Answer)
=============================================================================
