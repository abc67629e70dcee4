----------------------------- MODULE MCWorkspaces -----------------------------
(* Instance of Workspaces for TLC. *)
EXTENDS Workspaces, TLC

\* Calls, addresses, workspaces and purchases are interchangeable.
Symmetry == Permutations(Request) \cup Permutations(Email)
            \cup Permutations(Slug) \cup Permutations(Purchase)
=============================================================================
