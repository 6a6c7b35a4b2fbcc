------------------------- MODULE CredentialPromise -------------------------
(***************************************************************************)
(* What the routes of accounts promise about passwords and sessions: a     *)
(* password is proven at one moment, against the one in force, and what    *)
(* the proof is for (a session, a new password) happens at one later       *)
(* moment; a reset ends every session of its account at once; a session    *)
(* that ended never opens for its user again.  A request that holds a      *)
(* proof is the only thing an older password survives a reset by.          *)
(***************************************************************************)
EXTENDS Naturals

CONSTANTS Users, Sids, Reqs, None

VARIABLES session,  \* per session id: its user and the password that opened it
          force,    \* per user: the password in force, by the number of its reset
          resets,   \* per user: resets so far
          held,     \* per request: the user and the password it has proven
          spent     \* sessions that ended, with their user

Nothing == [user |-> None, number |-> 0]

Init == /\ session = [s \in Sids |-> Nothing] /\ spent = {}
        /\ force = [u \in Users |-> 0] /\ resets = [u \in Users |-> 0]
        /\ held = [r \in Reqs |-> Nothing]

Open(S) == {s \in S : session[s].user # None}
Spend(S) == spent' = spent \cup {<<s, session[s].user>> : s \in Open(S)}
Closed(S) == [s \in Sids |-> IF s \in S THEN Nothing ELSE session[s]]

\* Sign-in, sign-up, and the old password of a change.
Prove(r, u) ==
    /\ held[r] = Nothing
    /\ held' = [held EXCEPT ![r] = [user |-> u, number |-> force[u]]]
    /\ UNCHANGED <<session, force, resets, spent>>

\* The proof opens a session, which ends what the session was before.
Enter(r, s) ==
    /\ held[r] # Nothing /\ held' = [held EXCEPT ![r] = Nothing]
    /\ session[s].user # held[r].user /\ <<s, held[r].user>> \notin spent
    /\ Spend({s}) /\ session' = [session EXCEPT ![s] = held[r]]
    /\ UNCHANGED <<force, resets>>

\* The proof sets a password of its owner's choice.
Change(r) ==
    /\ held[r] # Nothing /\ held' = [held EXCEPT ![r] = Nothing]
    /\ force' = [force EXCEPT ![held[r].user] = held[r].number]
    /\ UNCHANGED <<session, resets, spent>>

\* A proof comes to nothing: the account is gone, or the process stops.
Forget(R) ==
    /\ held' = [r \in Reqs |-> IF r \in R THEN Nothing ELSE held[r]]
    /\ UNCHANGED <<session, force, resets, spent>>

Leave(S) == Spend(S) /\ session' = Closed(S) /\ UNCHANGED <<force, resets, held>>

Reset(u) ==
    /\ resets' = [resets EXCEPT ![u] = @ + 1]
    /\ force' = [force EXCEPT ![u] = resets[u] + 1]
    /\ LET S == {s \in Sids : session[s].user = u} IN Spend(S) /\ session' = Closed(S)
    /\ UNCHANGED held

Next ==
    \/ \E r \in Reqs, u \in Users : Prove(r, u)
    \/ \E r \in Reqs, s \in Sids : Enter(r, s)
    \/ \E r \in Reqs : Change(r)
    \/ \E R \in SUBSET Reqs : Forget(R)
    \/ \E S \in SUBSET Sids : Leave(S)
    \/ \E u \in Users : Reset(u)

Spec == Init /\ [][Next]_<<session, force, resets, held, spent>>
=============================================================================
