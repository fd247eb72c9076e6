-------------------------- MODULE MCRendererHandoff --------------------------
(* RendererHandoff for TLC: two outputs and a request of each kind. *)
EXTENDS RendererHandoff

CONSTANTS a, b, c
Two == {a, b}
Order == <<a, b>>
Kinds == [s |-> "static", v |-> "video", w |-> "we"]

Both(x) == [o \in Two |-> x]
Mixed(x, y) == [o \in Two |-> IF o = a THEN x ELSE y]
Request(op, want, fill, fade) == [op |-> op, want |-> want, fill |-> fill, fade |-> fade]

Asked == {
    Request("reconcile", Both("s"), Both(1), TRUE),
    Request("reconcile", Mixed("s", "v"), Mixed(1, 2), FALSE),
    Request("reconcile", Both("v"), Both(1), FALSE),
    Request("reconcile", Mixed("w", "v"), Both(1), FALSE),
    Request("video", Both("v"), Both(1), FALSE),
    Request("we", Both("w"), Both(1), FALSE),
    Request("static", Both("s"), Mixed(1, 2), FALSE),
    Request("fade", Both("s"), Both(1), FALSE),
    Request("fade", Both("s"), Mixed(1, 2), TRUE)}

\* Three outputs, two of which share a renderer.
Three == {a, b, c}
OrderOfThree == <<a, b, c>>
Divided == {[op |-> "reconcile", fill |-> [o \in Three |-> 1], fade |-> FALSE,
             want |-> [o \in Three |-> IF o = c THEN "v" ELSE "s"]]}
=============================================================================
