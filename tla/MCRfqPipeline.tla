---------------------------- MODULE MCRfqPipeline ----------------------------
(* Instances of RfqPipeline for TLC. *)
EXTENDS RfqPipeline, TLC

\* Workers and attachments are interchangeable.
Symmetry == Permutations(Worker) \cup Permutations(Att)
=============================================================================
