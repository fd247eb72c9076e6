------------------------------- MODULE MCApply -------------------------------
(* Two outputs, one of which the user locks and unlocks.  Either a deferred  *)
(* request, a rotation, and an activity's request for every output meet      *)
(* another activity's for one output; or the startup restore and a hotplug   *)
(* meet the deferred request and an override that ignores the locks.         *)
EXTENDS Apply, TLC

CONSTANTS deferred, intent, every, rotation, override, restore, hotplug, o1, o2

MCMode == [a \in Attempts |->
    (deferred :> "deferred" @@ intent :> "intent" @@ every :> "intent" @@ rotation :> "rotation"
     @@ override :> "override" @@ restore :> "restore" @@ hotplug :> "hotplug")[a]]
MCOutputOf == [a \in Attempts |-> CASE a = intent -> o2 [] a = override -> o1 [] OTHER -> All]
MCCasts == {{deferred, intent, every}, {deferred, intent, rotation}, {deferred, every, rotation},
             {override, deferred, restore, hotplug}}
MCOutputOrder == <<o1, o2>>
=============================================================================
