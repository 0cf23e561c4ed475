---------------------------- MODULE ScanLifecycle ----------------------------
(***************************************************************************)
(* What a scan promises to those who read its database and to the owner of *)
(* the target, with nothing about stages, tools or passes: one row, opened *)
(* once and finished at most once, with one reason; an inventory that only *)
(* grows, and only until it is finished; and state-changing requests sent  *)
(* only by leave, only for what the inventory holds, one for each          *)
(* operation however often and in whatever spelling it was reported.       *)
(***************************************************************************)

CONSTANTS
    Endpoints, Reasons,
    Replayable,    \* the endpoints that a scan may replay
    KeyOf(_),      \* the operation that an endpoint stands for
    Leave          \* the operator has opted in

VARIABLES
    row,        \* absent, open, or the reason
    inventory,
    replayed

lifecycleVars == <<row, inventory, replayed>>

Init == row = "absent" /\ inventory = {} /\ replayed = {}

Open ==
    /\ row = "absent"
    /\ row' = "open"
    /\ UNCHANGED <<inventory, replayed>>

\* Endpoints are found, never lost.
Find ==
    /\ row = "open"
    /\ inventory \subseteq inventory' /\ inventory' \subseteq Endpoints
    /\ UNCHANGED <<row, replayed>>

Replay(e) ==
    /\ Leave /\ row = "open"
    /\ e \in inventory \intersect Replayable
    /\ \A f \in replayed : KeyOf(f) # KeyOf(e)
    /\ replayed' = replayed \union {e}
    /\ UNCHANGED <<row, inventory>>

Finish(reason) ==
    /\ row = "open"
    /\ row' = reason
    /\ UNCHANGED <<inventory, replayed>>

Next ==
    \/ Open
    \/ Find
    \/ \E e \in Endpoints : Replay(e)
    \/ \E reason \in Reasons : Finish(reason)

Spec == Init /\ [][Next]_lifecycleVars
=============================================================================
