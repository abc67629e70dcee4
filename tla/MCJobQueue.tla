------------------------------ MODULE MCJobQueue ------------------------------
(* The instances of JobQueue that TLC checks; the mutated definitions its        *)
(* properties catch stand in JobQueue, each before the definition it changes.    *)
EXTENDS JobQueue
=============================================================================
