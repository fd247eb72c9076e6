---------------------------- MODULE MCImageOptimizer ----------------------------
(* Two pictures of one stem, of which one is there at first.  The kicks are the *)
(* full scan the user asks for, a scan of a path the library has reported, and  *)
(* the cleaning that every kick asks for while it is switched on.               *)
EXTENDS ImageOptimizer, TLC

CONSTANTS png, jpg, webp, manual, automatic

MCWish ==
    (manual :> [full |-> TRUE, force |-> TRUE, clean |-> TRUE, paths |-> {}]) @@
    (automatic :> [full |-> FALSE, force |-> FALSE, clean |-> TRUE, paths |-> {png}])
MCSlots == 1..2
MCScenarios == {[acts |-> 2, troubles |-> 0], [acts |-> 1, troubles |-> 1], [acts |-> 0, troubles |-> 2]}
=============================================================================
