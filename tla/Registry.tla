------------------------------ MODULE Registry ------------------------------
(***************************************************************************)
(* What the account endpoints promise together: a registry of accounts and *)
(* invitations on which every request acts at once or not at all.  A       *)
(* strict registry also finds every check of the request true at the       *)
(* moment it acts; a lax one only those the database enforces.             *)
(***************************************************************************)
CONSTANTS Users, Emails, Invites, None, SeedAdmin, SeedInvite,
          InviteRequired  \* nobody registers without an invitation

VARIABLES account,        \* the accounts: a record for each id in use
          invitation,     \* the invitations, likewise
          everUser, everInvite  \* ids handed out so far

vars == <<account, invitation, everUser, everInvite>>

Row(e, admin, enabled, verified) ==
    [address |-> e, admin |-> admin, enabled |-> enabled, verified |-> verified]

Put(f, x, v)  == [y \in DOMAIN f \cup {x} |-> IF y = x THEN v ELSE f[y]]
Without(f, x) == [y \in DOMAIN f \ {x} |-> f[y]]

Init ==
    /\ account \in [{SeedAdmin} \ {None} ->
                      [address : Emails, admin : {TRUE}, enabled : {TRUE}, verified : {TRUE}]]
    /\ invitation = [i \in IF SeedAdmin = None THEN {} ELSE {SeedInvite} |->
                       [by |-> SeedAdmin, used |-> FALSE, usedBy |-> None]]
    /\ everUser = DOMAIN account /\ everInvite = DOMAIN invitation

\* An account, its unique address and the mark on its invitation, in one.
Register(u, e, i, strict) ==
    /\ u \notin everUser
    /\ \A v \in DOMAIN account : account[v].address # e
    /\ IF i = None THEN ~ InviteRequired
                   ELSE i \in DOMAIN invitation /\ (strict => ~ invitation[i].used)
    /\ account' = Put(account, u, Row(e, DOMAIN account = {}, TRUE, FALSE))
    /\ invitation' = IF i = None THEN invitation
                     ELSE Put(invitation, i, [by |-> invitation[i].by, used |-> TRUE, usedBy |-> u])
    /\ everUser' = everUser \cup {u}
    /\ UNCHANGED everInvite

Confirm(u) ==
    /\ u \in DOMAIN account
    /\ account' = Put(account, u, Row(account[u].address, account[u].admin,
                                       account[u].enabled, TRUE))
    /\ UNCHANGED <<invitation, everUser, everInvite>>

Invite(a, i) ==
    /\ a \in DOMAIN account /\ i \notin everInvite
    /\ invitation' = Put(invitation, i, [by |-> a, used |-> FALSE, usedBy |-> None])
    /\ everInvite' = everInvite \cup {i}
    /\ UNCHANGED <<account, everUser>>

Withdraw(i, strict) ==
    /\ i \in DOMAIN invitation /\ (strict => ~ invitation[i].used)
    /\ invitation' = Without(invitation, i)
    /\ UNCHANGED <<account, everUser, everInvite>>

\* Some other account is an enabled admin, and stays one.
Governed(u) == \E a \in DOMAIN account \ {u} : account[a].admin /\ account[a].enabled

Regrade(u, admin, enabled, strict) ==
    /\ u \in DOMAIN account
    /\ strict => \/ (account[u].admin => admin) /\ (account[u].enabled => enabled)
                 \/ Governed(u)
    /\ account' = Put(account, u, Row(account[u].address, admin, enabled, account[u].verified))
    /\ UNCHANGED <<invitation, everUser, everInvite>>

\* An account with everything that refers to it, unless it issued an invitation.
Remove(u, strict) ==
    /\ u \in DOMAIN account /\ (strict => Governed(u))
    /\ \A i \in DOMAIN invitation : invitation[i].by # u
    /\ account' = Without(account, u)
    /\ invitation' = [i \in DOMAIN invitation |->
                        IF invitation[i].usedBy = u THEN [invitation[i] EXCEPT !.usedBy = None]
                        ELSE invitation[i]]
    /\ UNCHANGED <<everUser, everInvite>>

Next(strict) ==
    \/ \E u \in Users, e \in Emails, i \in Invites \cup {None} : Register(u, e, i, strict)
    \/ \E u \in Users : Confirm(u) \/ Remove(u, strict)
    \/ \E u \in Users, admin, enabled \in BOOLEAN : Regrade(u, admin, enabled, strict)
    \/ \E i \in Invites : Withdraw(i, strict) \/ \E a \in Users : Invite(a, i)

LaxSpec    == Init /\ [][Next(FALSE)]_vars
StrictSpec == Init /\ [][Next(TRUE)]_vars
=============================================================================
