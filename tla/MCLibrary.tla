------------------------------- MODULE MCLibrary -------------------------------
(* An instance of Library for TLC. *)
EXTENDS Library, TLC

CONSTANTS a, b, local, share
MCRootOf == a :> share @@ b :> local

\* A watch that may fail, with any trouble; two roots that are polled and handed
\* over one by one; two files and a batch with room for one; three acts and a trouble.
MCScenarios ==
    {[acts |-> 2, outages |-> 1, troubles |-> 1, cap |-> 2, paths |-> {a}],
     [acts |-> 1, outages |-> 2, troubles |-> 0, cap |-> 2, paths |-> {a}],
     [acts |-> 2, outages |-> 0, troubles |-> 0, cap |-> 1, paths |-> {a, b}],
     [acts |-> 3, outages |-> 0, troubles |-> 1, cap |-> 2, paths |-> {a}]}
MCSymmetry == Permutations(Scanners) \cup Permutations(Ids)
================================================================================
