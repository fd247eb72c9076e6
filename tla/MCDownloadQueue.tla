--------------------------- MODULE MCDownloadQueue ---------------------------
(* A gate of one slot and a queue of two.  Three requests want different   *)
(* keys, so two of them wait in line; the fourth wants the key of one of   *)
(* them or, with a key of its own, meets the full queue.                   *)
EXTENDS DownloadQueue, TLC

CONSTANTS d1, d2, d3, d4, k1, k2, k3, k4

MCWanted == d1 :> {k1} @@ d2 :> {k2} @@ d3 :> {k3} @@ d4 :> {k1, k4}
=============================================================================
