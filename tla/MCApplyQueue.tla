---------------------------- MODULE MCApplyQueue ----------------------------
(* Two requests for each of two outputs, one of another activity, and room *)
(* for two to wait: one runs, two wait, and a further one supersedes one   *)
(* of them or is turned away.                                              *)
EXTENDS ApplyQueue, TLC

CONSTANTS a1, a2, b1, b2, c1

MCKeyOf == a1 :> "a" @@ a2 :> "a" @@ b1 :> "b" @@ b2 :> "b" @@ c1 :> "c"

MCActivityOf == [r \in {a1, a2, b1, b2} |-> "none"] @@ c1 :> "work"
=============================================================================
