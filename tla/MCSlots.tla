------------------------------ MODULE MCSlots ------------------------------
EXTENDS Slots, TLC

MCPermissions == {{"stop"}, {"start"}}
\* One operation of each class that the slots' handlers treat alike.
MCOps == {"start", "stop", "command", "observe", "detail", "refresh", "put", "delete"}
MCSymmetry == Permutations(Servers) \cup Permutations(Reqs)

CacheKeys == {"slots"}
CacheOps == {"start", "stop"}
=============================================================================
