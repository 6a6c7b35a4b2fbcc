---------------------------- MODULE FleetPromise ----------------------------
(***************************************************************************)
(* What fleet.ts promises its callers: the fleet they see is one that was  *)
(* in the table, as a whole, at some moment while the call that installed  *)
(* it was running.  It promises neither the latest one nor that successive *)
(* callers see the table move forward.                                     *)
(***************************************************************************)
CONSTANTS Truths,      \* what the table can say about the fleet
          Empty,       \* what an empty table says
          Gets,        \* calls in flight
          Views(_)     \* the fleets a caller may be shown for one truth

VARIABLES truth,       \* what the table says now
          window,      \* per call: what the table said since the call began
          view         \* the fleet shown to callers

Init == /\ truth \in Truths
        /\ window = [g \in Gets |-> {}]
        /\ view \in Views(Empty)

\* The table changes; every open call may see either side of the change.
Change ==
    /\ truth' \in Truths
    /\ window' = [g \in Gets |-> IF window[g] = {} THEN {} ELSE window[g] \cup {truth'}]
    /\ UNCHANGED view

Begin(g) ==
    /\ window[g] = {}
    /\ window' = [window EXCEPT ![g] = {truth}]
    /\ UNCHANGED <<truth, view>>

Publish(g) ==
    /\ \E t \in window[g] : view' \in Views(t)
    /\ window' = [window EXCEPT ![g] = {}]
    /\ UNCHANGED truth

\* The process starts again with an empty fleet.
Forget ==
    /\ view' \in Views(Empty)
    /\ window' = [g \in Gets |-> {}]
    /\ UNCHANGED truth

Next == Change \/ Forget \/ \E g \in Gets : Begin(g) \/ Publish(g)

Spec == Init /\ [][Next]_<<truth, window, view>>
=============================================================================
