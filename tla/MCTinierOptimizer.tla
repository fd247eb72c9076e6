-------------------------- MODULE MCTinierOptimizer --------------------------
(* Three requests for two videos, one of them without replace, and stops    *)
(* for the video that is asked for twice.                                   *)
EXTENDS TinierOptimizer, TLC

CONSTANTS apply, again, other, stop, s1, s2

MCSourceOf == [c \in Requests \cup Stops |-> IF c = other THEN s2 ELSE s1]
=============================================================================
