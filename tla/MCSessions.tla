------------------------------ MODULE MCSessions ------------------------------
(* Instance of Sessions for TLC. *)
EXTENDS Sessions, TLC

\* Calls and links are interchangeable.
Symmetry == Permutations(Request) \cup Permutations(Link)
=============================================================================
