CONSTANTS
    Users = {u1, u2, u3}
    Emails = {e1, e2, e3}
    Invites = {i1, i2}
    Reqs = {r1, r2}
    None = None
    SeedAdmin = u1
    SeedInvite = i1
    Ops <- Onboarding
    Patches <- Promotions
    SignupRequiresInvite = {"true"}
    EmailVerificationRequired = TRUE
SPECIFICATION Spec
SYMMETRY Symmetry
INVARIANTS References InviteLedger VerifiedByToken
PROPERTIES ActsAtOnce
CHECK_DEADLOCK FALSE
