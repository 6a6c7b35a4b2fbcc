------------------------------ MODULE MCFleet ------------------------------
EXTENDS Fleet

CONSTANTS a, u1

Change == [name |-> None, url |-> None, primary |-> None, enabled |-> None]

\* beside the instance of the bootstrap: a primary one, and switching off
MCBodies == {[Change EXCEPT !.name = <<a, 2>>, !.url = u1, !.primary = TRUE],
             [Change EXCEPT !.primary = FALSE, !.enabled = FALSE]}
MCBoot == {[name |-> <<a, 1>>, url |-> u1]}
=============================================================================
