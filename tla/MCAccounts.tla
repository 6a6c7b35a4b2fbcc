----------------------------- MODULE MCAccounts -----------------------------
EXTENDS Accounts, TLC

\* An admin may be promoted, so that one who invites can be deleted by another.
Onboarding == Endpoints \ {"invite_expire"}
Promotions == {{"promote"}}

\* Ids and addresses are interchangeable, the seeded ones are not.
Symmetry == Permutations(Users \ {SeedAdmin}) \cup Permutations(Emails)
            \cup Permutations(Reqs) \cup Permutations(Invites \ {SeedInvite})
=============================================================================
