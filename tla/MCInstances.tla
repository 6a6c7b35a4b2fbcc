---------------------------- MODULE MCInstances ----------------------------
EXTENDS Instances, TLC

CONSTANTS a, u1, u2

Change == [name |-> None, url |-> None, primary |-> None, enabled |-> None]

\* a new instance (primary or not), a promotion, a demotion, a move to
\* another URL under the name a scan would pick next
MCBodies == {[Change EXCEPT !.name = <<a, 1>>, !.url = u1, !.primary = TRUE],
             [Change EXCEPT !.name = <<a, 2>>, !.url = u2, !.enabled = FALSE],
             [Change EXCEPT !.primary = TRUE, !.enabled = TRUE],
             [Change EXCEPT !.primary = FALSE]}

\* two peers that report the same instance name
MCHits == {[url |-> u1, base |-> a], [url |-> u2, base |-> a]}

MCBoot == {[name |-> <<a, 1>>, url |-> u1]}

Symmetry == Permutations(Ids) \cup Permutations(Jobs)
=============================================================================
