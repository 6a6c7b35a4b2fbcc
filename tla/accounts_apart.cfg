CONSTANTS
    Users = {u1, u2, u3}
    Emails = {e1, e2}
    Invites = {i1}
    Reqs = {r1, r2}
    None = None
    SeedAdmin = None
    SeedInvite = i1
    Ops <- Endpoints
    Patches <- PatchBodies
    SignupRequiresInvite = {"true", "false"}
    EmailVerificationRequired = FALSE
SPECIFICATION Spec
CONSTRAINT Apart
SYMMETRY Symmetry
INVARIANTS InviteSingleUse AdminRemains SoleFounder
PROPERTIES ChecksHold
